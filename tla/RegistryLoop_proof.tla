------------------------- MODULE RegistryLoop_proof -------------------------
(***************************************************************************)
(* The loop of CitationRegistry.add() computes the closed forms Add and    *)
(* Indices, and never changes an entry, for every sequence of calls.       *)
(***************************************************************************)
EXTENDS RegistryLoop, CitationRegistry_proof

\* Where a chunk first occurs does not depend on what follows in the list.
LEMMA FirstAtAppend ==
  ASSUME NEW s \in Seq(Records), NEW r \in Records
  PROVE  /\ Append(s, r) \in Seq(Records)
         /\ ChunksOf(Append(s, r)) = ChunksOf(s) \cup {r.chunk}
         /\ \A c \in ChunksOf(s) : FirstAt(Append(s, r), c) = FirstAt(s, c)
         /\ r.chunk \notin ChunksOf(s) => FirstAt(Append(s, r), r.chunk) = Len(s) + 1
<1> DEFINE t == Append(s, r)
<1>1. /\ t \in Seq(Records)
      /\ Len(t) = Len(s) + 1 /\ Len(s) \in Nat
      /\ t[Len(s) + 1] = r
      /\ \A k \in 1..Len(s) : t[k] = s[k]
      /\ DOMAIN t = 1..(Len(s) + 1) /\ DOMAIN s = 1..Len(s)
  OBVIOUS
<1> HIDE DEF t
<1>2. ChunksOf(t) = ChunksOf(s) \cup {r.chunk}
  <2>1. 1..(Len(s) + 1) = 1..Len(s) \cup {Len(s) + 1}
    BY <1>1
  <2> QED
    BY <1>1, <2>1 DEF ChunksOf
<1>3. \A c \in ChunksOf(t) : /\ FirstAt(t, c) \in 1..Len(t)
                             /\ t[FirstAt(t, c)].chunk = c
                             /\ \A j \in 1..Len(t) : t[j].chunk = c => FirstAt(t, c) <= j
  BY <1>1, FirstAtOccurs
<1>4. \A c \in ChunksOf(s) : /\ FirstAt(s, c) \in 1..Len(s)
                             /\ s[FirstAt(s, c)].chunk = c
                             /\ \A j \in 1..Len(s) : s[j].chunk = c => FirstAt(s, c) <= j
  BY FirstAtOccurs
<1>5. ASSUME NEW c \in ChunksOf(s)
      PROVE  FirstAt(t, c) = FirstAt(s, c)
  <2>1. c \in ChunksOf(t)
    BY <1>2
  <2>2. FirstAt(t, c) <= FirstAt(s, c)
    BY <1>1, <1>3, <1>4, <2>1
  <2>3. FirstAt(t, c) \in 1..Len(s) /\ s[FirstAt(t, c)].chunk = c
    BY <1>1, <1>3, <1>4, <2>1, <2>2
  <2>4. FirstAt(s, c) <= FirstAt(t, c)
    BY <1>4, <2>3
  <2> QED
    BY <1>1, <1>3, <1>4, <2>1, <2>2, <2>4
<1>6. ASSUME r.chunk \notin ChunksOf(s)
      PROVE  FirstAt(t, r.chunk) = Len(s) + 1
  <2>1. \A j \in 1..Len(s) : t[j].chunk # r.chunk
    BY <1>1, <1>6 DEF ChunksOf
  <2>2. FirstAt(t, r.chunk) \in 1..(Len(s) + 1) /\ t[FirstAt(t, r.chunk)].chunk = r.chunk
    BY <1>1, <1>2, <1>3
  <2> QED
    BY <1>1, <2>1, <2>2
<1> QED
  BY <1>1, <1>2, <1>5, <1>6 DEF t

\* A registry after one iteration of the loop over r.
Iterated(reg, r) ==
    IF r.chunk \in DOMAIN reg
    THEN reg
    ELSE [c \in DOMAIN reg \cup {r.chunk} |->
            IF c = r.chunk
            THEN [index |-> Size(reg) + 1, content |-> r.content]
            ELSE reg[c]]

\* One more record is one more iteration: it changes nothing if its chunk is
\* known, and otherwise takes the next index.
LEMMA AddAppend ==
  ASSUME NEW reg, IsRegistry(reg), NEW s \in Seq(Records), NEW r \in Records,
         NEW old, old = Add(reg, s)
  PROVE  Add(reg, Append(s, r)) = Iterated(old, r)
<1> DEFINE t == Append(s, r)
           F == Fresh(reg, s)
<1>1. /\ t \in Seq(Records)
      /\ ChunksOf(t) = ChunksOf(s) \cup {r.chunk}
      /\ \A c \in ChunksOf(s) : FirstAt(t, c) = FirstAt(s, c)
      /\ r.chunk \notin ChunksOf(s) => FirstAt(t, r.chunk) = Len(s) + 1
  BY FirstAtAppend
<1>2. t[Len(s) + 1] = r /\ \A k \in 1..Len(s) : t[k] = s[k]
  OBVIOUS
<1> HIDE DEF t
<1>3. /\ DOMAIN old = DOMAIN reg \cup F
      /\ F = ChunksOf(s) \ DOMAIN reg
      /\ F \subseteq ChunksOf(s)
  BY DEF Add, Fresh
<1>4. \A c \in F : /\ FirstAt(s, c) \in 1..Len(s)
                   /\ FirstAt(t, c) = FirstAt(s, c)
                   /\ t[FirstAt(t, c)] = s[FirstAt(s, c)]
  BY <1>1, <1>2, <1>3, FirstAtOccurs
<1>5. CASE r.chunk \in DOMAIN old
  <2>1. Fresh(reg, t) = F
    BY <1>1, <1>3, <1>5 DEF Fresh
  <2>2. \A c \in F : {d \in F : FirstAt(t, d) <= FirstAt(t, c)}
                       = {d \in F : FirstAt(s, d) <= FirstAt(s, c)}
    BY <1>4
  <2>3. \A c \in F : Rank(reg, t, c) = Rank(reg, s, c)
    BY <2>1, <2>2 DEF Rank
  <2>4. Add(reg, t) = old
    BY <1>4, <2>1, <2>3 DEF Add
  <2> QED
    BY <1>5, <2>4 DEF t, Iterated
<1>6. CASE r.chunk \notin DOMAIN old
  <2> DEFINE G == Fresh(reg, t)
  <2>1. G = F \cup {r.chunk} /\ r.chunk \notin F
    BY <1>1, <1>3, <1>6 DEF Fresh
  <2>2. FirstAt(t, r.chunk) = Len(s) + 1 /\ t[FirstAt(t, r.chunk)] = r
    BY <1>1, <1>2, <1>3, <1>6
  <2>3. \A c \in F : {d \in G : FirstAt(t, d) <= FirstAt(t, c)}
                       = {d \in F : FirstAt(s, d) <= FirstAt(s, c)}
    BY <1>4, <2>1, <2>2
  <2>4. \A c \in F : Rank(reg, t, c) = Rank(reg, s, c)
    BY <2>3 DEF Rank
  <2>5. {d \in G : FirstAt(t, d) <= FirstAt(t, r.chunk)} = G
    BY <1>4, <2>1, <2>2
  <2>6. Cardinality(G) = Cardinality(F) + 1
    BY <2>1, RankNumbers, FS_AddElement
  <2>7. Rank(reg, t, r.chunk) = Cardinality(F) + 1
    BY <2>5, <2>6 DEF Rank
  <2>8. /\ Size(old) = Size(reg) + Cardinality(F)
        /\ Size(reg) \in Nat /\ Cardinality(F) \in Nat
    BY AddKeepsRegistry, RankNumbers, FS_CardinalityType DEF IsRegistry, Size
  <2>9. Size(reg) + Rank(reg, t, r.chunk) = Size(old) + 1
    BY <2>7, <2>8
  <2>10. \A c \in F : Add(reg, t)[c] = old[c]
    BY <1>4, <2>1, <2>4, <1>3 DEF Add
  <2>11. \A c \in DOMAIN reg : Add(reg, t)[c] = old[c]
    BY DEF Add
  <2>12. Add(reg, t)[r.chunk] = [index |-> Size(old) + 1, content |-> r.content]
    BY <1>3, <1>6, <2>1, <2>2, <2>9 DEF Add
  <2>13. /\ DOMAIN Add(reg, t) = DOMAIN old \cup {r.chunk}
         /\ Add(reg, t) = [c \in DOMAIN Add(reg, t) |-> Add(reg, t)[c]]
    BY <1>3, <2>1 DEF Add
  <2>14. \A c \in DOMAIN old : c # r.chunk /\ Add(reg, t)[c] = old[c]
    BY <1>3, <1>6, <2>10, <2>11
  <2>15. Add(reg, t) = [c \in DOMAIN old \cup {r.chunk} |->
                          IF c = r.chunk
                          THEN [index |-> Size(old) + 1, content |-> r.content]
                          ELSE old[c]]
    BY <2>12, <2>13, <2>14
  <2> QED
    BY <1>6, <2>15 DEF t, Iterated
<1> QED
  BY <1>5, <1>6

\* Adding no records changes nothing.
LEMMA AddNothing ==
  ASSUME NEW reg, IsRegistry(reg)
  PROVE  Add(reg, <<>>) = reg
<1>1. Fresh(reg, <<>>) = {}
  BY DEF Fresh, ChunksOf
<1> QED
  BY <1>1 DEF Add, IsRegistry

-----------------------------------------------------------------------------
\* The iterations done so far have computed the closed forms of the records
\* handled so far.
LoopInv ==
    /\ IsRegistry(before)
    /\ recs \in Seq(Records)
    /\ i \in 1..(Len(recs) + 1)
    /\ byChunk = Add(before, SubSeq(recs, 1, i - 1))
    /\ indices \in Seq(Nat) /\ Len(indices) = i - 1
    /\ \A j \in 1..(i - 1) : /\ recs[j].chunk \in DOMAIN byChunk
                             /\ indices[j] = byChunk[recs[j].chunk].index
    /\ order \in Seq(Chunks)
    /\ OrderIsIndex

LEMMA LoopInvInit == Init => LoopInv
<1> SUFFICES ASSUME Init PROVE LoopInv
  OBVIOUS
<1> USE DEF Init
<1>1. IsRegistry(Empty) /\ DOMAIN Empty = {}
  BY EmptyIsRegistry
<1>2. SubSeq(<<>>, 1, 0) = <<>>
  OBVIOUS
<1>3. byChunk = Add(before, SubSeq(recs, 1, i - 1))
  <2>1. Add(Empty, <<>>) = Empty
    BY <1>1, AddNothing
  <2>2. SubSeq(recs, 1, i - 1) = <<>>
    OBVIOUS
  <2> QED
    BY <2>1, <2>2, Zenon
<1>4. OrderIsIndex
  BY <1>1, FS_EmptySet DEF OrderIsIndex, Size
<1>5. recs \in Seq(Records) /\ indices \in Seq(Nat) /\ order \in Seq(Chunks)
  OBVIOUS
<1>6. Len(recs) = 0 /\ Len(indices) = 0
  OBVIOUS
<1> QED
  BY <1>1, <1>3, <1>4, <1>5, <1>6 DEF LoopInv

\* What an iteration does to the dictionary.
LEMMA IterationAdds ==
  ASSUME LoopInv, i <= Len(recs), byChunk' = Remember(byChunk, recs[i])
  PROVE  /\ byChunk' = Add(before, SubSeq(recs, 1, i))
         /\ IsRegistry(byChunk) /\ IsRegistry(byChunk')
         /\ recs[i] \in Records
<1> DEFINE s == SubSeq(recs, 1, i - 1)
<1>1. recs \in Seq(Records) /\ i \in 1..Len(recs) /\ recs[i] \in Records
  BY DEF LoopInv
<1>2. s \in Seq(Records) /\ SubSeq(recs, 1, i) = Append(s, recs[i])
  BY <1>1
<1>3. IsRegistry(before) /\ byChunk = Add(before, s)
  BY DEF LoopInv
<1> HIDE DEF s
<1>4. Add(before, Append(s, recs[i])) = Remember(byChunk, recs[i])
  <2>1. IsRegistry(byChunk) /\ Len(order) = Size(byChunk)
    BY <1>2, <1>3, AddKeepsRegistry DEF LoopInv, OrderIsIndex
  <2> QED
    <3> DEFINE r == recs[i]
    <3>1. r \in Records
      BY <1>1
    <3> HIDE DEF r
    <3>2. Add(before, Append(s, r)) = Iterated(byChunk, r)
      BY <1>2, <1>3, <3>1, AddAppend
    <3>3. Iterated(byChunk, r) = Remember(byChunk, r)
      BY <2>1 DEF Iterated, Remember, Insert, NewEntry
    <3>4. Add(before, Append(s, r)) = Remember(byChunk, r)
      BY <3>2, <3>3
    <3> QED
      BY <3>4 DEF r
<1> QED
  BY <1>1, <1>2, <1>3, <1>4, AddKeepsRegistry, FirstAtAppend

LEMMA LoopInvStep == LoopInv /\ [Next]_vars => LoopInv'
<1> SUFFICES ASSUME LoopInv, [Next]_vars PROVE LoopInv'
  OBVIOUS
<1>1. IsRegistry(byChunk)
  <2>1. SubSeq(recs, 1, i - 1) \in Seq(Records)
    BY DEF LoopInv
  <2> QED
    BY <2>1, AddKeepsRegistry DEF LoopInv
<1>2. CASE Call
  <2>1. recs' \in Seq(Records)
    BY <1>2, InputsAreRecordLists DEF Call
  <2>2. SubSeq(recs', 1, 0) = <<>>
    BY <2>1
  <2>3. byChunk' = Add(before', SubSeq(recs', 1, i' - 1))
    <3>1. Add(byChunk, <<>>) = byChunk
      BY <1>1, AddNothing
    <3>2. SubSeq(recs', 1, i' - 1) = <<>>
      BY <1>2, <2>2 DEF Call
    <3>3. byChunk' = byChunk /\ before' = byChunk
      BY <1>2 DEF Call
    <3> QED
      BY <3>1, <3>2, <3>3, Zenon
  <2>4. OrderIsIndex'
    BY <1>2 DEF Call, LoopInv, OrderIsIndex
  <2> QED
    BY <1>1, <1>2, <2>1, <2>3, <2>4 DEF Call, LoopInv
<1>3. CASE Seen
  <2>1. byChunk' = byChunk /\ byChunk' = Remember(byChunk, recs[i])
    BY <1>3 DEF Seen, Remember
  <2>2. byChunk' = Add(before, SubSeq(recs, 1, i)) /\ recs[i] \in Records
    BY <1>3, <2>1, IterationAdds DEF Seen
  <2>3. byChunk[recs[i].chunk].index \in Nat
    BY <1>1, <1>3 DEF Seen, IsRegistry
  <2>4. i \in 1..Len(recs) /\ Len(recs) \in Nat
    BY <1>3 DEF Seen, LoopInv
  <2>5. /\ indices' \in Seq(Nat) /\ Len(indices') = i
        /\ \A j \in 1..i : /\ recs[j].chunk \in DOMAIN byChunk
                           /\ indices'[j] = byChunk[recs[j].chunk].index
    BY <1>3, <2>3, <2>4 DEF Seen, LoopInv
  <2>6. OrderIsIndex'
    BY <1>3, <2>1 DEF Seen, LoopInv, OrderIsIndex
  <2> QED
    BY <1>3, <2>1, <2>2, <2>4, <2>5, <2>6 DEF Seen, LoopInv
<1>4. CASE New
  <2> DEFINE c == recs[i].chunk
             n == Len(order) + 1
  <2>1. /\ byChunk' = Add(before, SubSeq(recs, 1, i))
        /\ IsRegistry(byChunk') /\ recs[i] \in Records
    BY <1>4, IterationAdds DEF New
  <2>2. i \in 1..Len(recs) /\ Len(recs) \in Nat /\ Len(order) \in Nat /\ n \in Nat
    BY <1>4 DEF New, LoopInv
  <2>3. /\ DOMAIN byChunk' = DOMAIN byChunk \cup {c}
        /\ byChunk'[c].index = n
        /\ \A d \in DOMAIN byChunk : byChunk'[d] = byChunk[d] /\ d # c
    BY <1>4 DEF New, Remember, Insert, NewEntry
  <2>4. c \in Chunks
    BY <2>1 DEF Records
  <2>5. /\ indices' \in Seq(Nat) /\ Len(indices') = i
        /\ \A j \in 1..i : /\ recs[j].chunk \in DOMAIN byChunk'
                           /\ indices'[j] = byChunk'[recs[j].chunk].index
    <3>1. indices' = Append(indices, n) /\ indices \in Seq(Nat) /\ Len(indices) = i - 1
      BY <1>4 DEF New, NewEntry, LoopInv
    <3>2. \A j \in 1..(i - 1) : /\ recs[j].chunk \in DOMAIN byChunk
                                /\ indices[j] = byChunk[recs[j].chunk].index
      BY DEF LoopInv
    <3> QED
      BY <2>2, <2>3, <3>1, <3>2
  <2>6. order' \in Seq(Chunks) /\ OrderIsIndex'
    <3>1. order' = Append(order, c) /\ order \in Seq(Chunks)
      BY <1>4 DEF New, LoopInv
    <3>2. Size(byChunk') = Size(byChunk) + 1
      <4>1. IsFiniteSet(DOMAIN byChunk) /\ c \notin DOMAIN byChunk
        BY <1>1, <1>4 DEF New, IsRegistry
      <4> HIDE DEF c
      <4>2. Cardinality(DOMAIN byChunk \cup {c}) = Cardinality(DOMAIN byChunk) + 1
        BY <4>1, FS_AddElement
      <4> QED
        BY <2>3, <4>2 DEF Size
    <3>3. OrderIsIndex
      BY DEF LoopInv
    <3> QED
      BY <2>2, <2>3, <2>4, <3>1, <3>2, <3>3 DEF OrderIsIndex
  <2> QED
    BY <1>4, <2>1, <2>2, <2>5, <2>6 DEF New, LoopInv
<1>5. CASE UNCHANGED vars
  BY <1>5 DEF vars, LoopInv, OrderIsIndex
<1> QED
  BY <1>2, <1>3, <1>4, <1>5 DEF Next

\* For every sequence of calls with every argument, a call of add() that returns
\* has computed the closed forms the other modules use.
THEOREM AddIsItsLoop == Spec => []LoopComputesAdd
<1>1. LoopInv => LoopComputesAdd
  <2> SUFFICES ASSUME LoopInv, i > Len(recs) PROVE LoopComputesAdd
    BY DEF LoopComputesAdd
  <2>1. i = Len(recs) + 1 /\ recs \in Seq(Records)
    BY DEF LoopInv
  <2>2. SubSeq(recs, 1, i - 1) = recs
    BY <2>1
  <2>3. byChunk = Add(before, recs)
    BY <2>2 DEF LoopInv
  <2>4. /\ indices \in Seq(Nat) /\ Len(indices) = Len(recs)
        /\ \A j \in 1..Len(recs) : indices[j] = byChunk[recs[j].chunk].index
    BY <2>1 DEF LoopInv
  <2>5. indices = Indices(before, recs)
    BY <2>1, <2>3, <2>4 DEF Indices
  <2> QED
    BY <2>3, <2>5 DEF LoopComputesAdd
<1> QED
  BY <1>1, LoopInvInit, LoopInvStep, PTL DEF Spec

\* _order and the stored indices stay inverse to each other.
THEOREM IndexOrder == Spec => []OrderIsIndex
<1>1. LoopInv => OrderIsIndex
  BY DEF LoopInv
<1> QED
  BY <1>1, LoopInvInit, LoopInvStep, PTL DEF Spec

\* No step changes or drops an entry.
THEOREM EntriesNeverChange == Spec => EntriesStable
<1>1. LoopInv /\ [Next]_vars =>
        [\A c \in DOMAIN byChunk : c \in DOMAIN byChunk' /\ byChunk'[c] = byChunk[c]]_vars
  BY DEF Next, Call, Seen, New, Remember, Insert, vars
<1> QED
  BY <1>1, LoopInvInit, LoopInvStep, PTL DEF Spec, EntriesStable

\* The state of the loop has the shape the code gives it.
THEOREM LoopTypeCorrect == Spec => []TypeOK
<1>1. LoopInv => TypeOK
  <2> SUFFICES ASSUME LoopInv PROVE TypeOK
    OBVIOUS
  <2>1. SubSeq(recs, 1, i - 1) \in Seq(Records)
    BY DEF LoopInv
  <2>2. IsRegistry(byChunk)
    BY <2>1, AddKeepsRegistry DEF LoopInv
  <2> QED
    BY <2>2 DEF LoopInv, TypeOK, IsRegistry
<1> QED
  BY <1>1, LoopInvInit, LoopInvStep, PTL DEF Spec
=============================================================================
