----------------------- MODULE CitationRegistry_proof -----------------------
(***************************************************************************)
(* Facts about the closed form of CitationRegistry.add(): labels are never *)
(* reused or changed, whatever lists of records are added.  First the      *)
(* facts about numbers and positions that all proofs about a request use.  *)
(***************************************************************************)
EXTENDS CitationRegistry, Places, FiniteSetTheorems, TLAPS

\* A registry as the code builds it.
IsRegistry(reg) ==
    /\ reg = [c \in DOMAIN reg |-> reg[c]]
    /\ DOMAIN reg \subseteq Chunks
    /\ IsFiniteSet(DOMAIN reg)
    /\ \A c \in DOMAIN reg : reg[c] \in [index : Nat \ {0}, content : Contents]
    /\ WellIndexed(reg)

-----------------------------------------------------------------------------
\* The order of the naturals, as a relation the library's theorems apply to.
LEMMA LessThanIsWellFounded ==
  \E R : /\ IsWellFoundedOn(R, Nat)
         /\ \A m, n \in Nat : m < n => <<m, n>> \in R
<1>1. IsWellFoundedOn(OpToRel(<, Nat), Nat)
  BY NatLessThanWellFounded
<1>2. \A m, n \in Nat : m < n => <<m, n>> \in OpToRel(<, Nat)
  BY DEF OpToRel
<1> QED
  BY <1>1, <1>2, Zenon

\* A non-empty set of naturals has a least element.
LEMMA LeastElement ==
  ASSUME NEW S, S \subseteq Nat, S # {}
  PROVE  \E n \in S : \A m \in S : n <= m
<1>1. PICK R : IsWellFoundedOn(R, Nat) /\ \A m, n \in Nat : m < n => <<m, n>> \in R
  BY LessThanIsWellFounded
<1>2. IsWellFoundedOn(R, Nat)
  BY <1>1
<1>3. \E n \in S : \A m \in S : ~(<<m, n>> \in R)
  BY <1>2, WFMin, Zenon
<1>4. PICK n \in S : \A m \in S : ~(<<m, n>> \in R)
  BY <1>3
<1>5. \A m \in S : ~(m < n)
  BY <1>1, <1>4
<1> QED
  BY <1>5

\* Induction, for a set of numbers.
LEMMA CountingUp ==
  ASSUME NEW S, S \subseteq Nat, 0 \in S, \A n \in S : n + 1 \in S
  PROVE  S = Nat
<1> SUFFICES ASSUME Nat \ S # {} PROVE FALSE
  OBVIOUS
<1>1. PICK n \in Nat \ S : \A m \in Nat \ S : n <= m
  <2> DEFINE T == Nat \ S
  <2>1. T \subseteq Nat /\ T # {}
    OBVIOUS
  <2> HIDE DEF T
  <2>2. \E n \in T : \A m \in T : n <= m
    BY <2>1, LeastElement
  <2> QED
    BY <2>2 DEF T
<1>2. n - 1 \in S
  BY <1>1
<1> QED
  BY <1>1, <1>2

\* A position is added behind the others.
LEMMA PlacesGrow ==
  ASSUME NEW n \in Nat, NEW S \in SUBSET (1..n)
  PROVE  /\ IsFiniteSet(S) /\ Cardinality(S) \in Nat
         /\ Cardinality(S \cup {n + 1}) = Cardinality(S) + 1
         /\ \A p \in 1..n : Place(S \cup {n + 1}, p) = Place(S, p)
         /\ Place(S \cup {n + 1}, n + 1) = Cardinality(S) + 1
<1>0. IsFiniteSet(1..n) /\ \A q \in S : q \in Nat /\ q <= n
  BY FS_Interval
<1>1. IsFiniteSet(S) /\ Cardinality(S) \in Nat
  BY <1>0, FS_Subset, FS_CardinalityType
<1>2. n + 1 \notin S
  BY <1>0
<1>3. Cardinality(S \cup {n + 1}) = Cardinality(S) + 1
  BY <1>1, <1>2, FS_AddElement
<1>4. ASSUME NEW p \in 1..n PROVE Place(S \cup {n + 1}, p) = Place(S, p)
  <2>1. {q \in S \cup {n + 1} : q <= p} = {q \in S : q <= p}
    OBVIOUS
  <2> QED
    BY <2>1 DEF Place
<1>5. Place(S \cup {n + 1}, n + 1) = Cardinality(S) + 1
  <2> DEFINE T == S \cup {n + 1}
  <2>0. \A q \in T : q <= n + 1
    BY <1>0
  <2> HIDE DEF T
  <2>1. {q \in T : q <= n + 1} = T
    BY <2>0
  <2> QED
    BY <1>3, <2>1 DEF Place, T
<1> QED
  BY <1>1, <1>3, <1>4, <1>5

\* The places of positions number them 1, 2, ... in their order.
LEMMA PlacesEnumerate ==
  ASSUME NEW n \in Nat, NEW K \in SUBSET (1..n)
  PROVE  /\ Cardinality(K) \in Nat
         /\ \A p \in K : Place(K, p) \in 1..Cardinality(K)
         /\ \A p, q \in K : p < q => Place(K, p) < Place(K, q)
         /\ \A i \in 1..Cardinality(K) : \E p \in K : Place(K, p) = i
<1> DEFINE UpTo(p) == {q \in K : q <= p}
           c == Cardinality(K)
<1>1. IsFiniteSet(1..n) /\ \A q \in K : q \in Nat
  BY FS_Interval
<1>2. IsFiniteSet(K) /\ c \in Nat
  BY <1>1, FS_Subset, FS_CardinalityType
<1>3. \A p : Place(K, p) = Cardinality(UpTo(p))
  BY DEF Place
<1>4. \A p \in K : UpTo(p) \in SUBSET K /\ p \in UpTo(p)
  BY <1>1
<1>5. \A p, q \in K : p < q => UpTo(p) \in SUBSET UpTo(q) /\ UpTo(p) # UpTo(q)
  <2> SUFFICES ASSUME NEW p \in K, NEW q \in K, p < q
               PROVE  UpTo(p) \in SUBSET UpTo(q) /\ UpTo(p) # UpTo(q)
    OBVIOUS
  <2>1. \A r \in K : r <= p => r <= q
    BY <1>1
  <2>2. q \in UpTo(q) /\ q \notin UpTo(p)
    BY <1>1
  <2> QED
    BY <2>1, <2>2
<1> HIDE DEF UpTo
<1>6. \A p \in K : IsFiniteSet(UpTo(p)) /\ Cardinality(UpTo(p)) \in Nat
                   /\ Cardinality(UpTo(p)) <= c /\ Cardinality(UpTo(p)) # 0
  BY <1>2, <1>4, FS_Subset, FS_CardinalityType, FS_EmptySet
<1>7. \A p \in K : Place(K, p) \in 1..c
  BY <1>2, <1>3, <1>6
<1>8. ASSUME NEW p \in K, NEW q \in K, p < q PROVE Place(K, p) < Place(K, q)
  <2>1. /\ IsFiniteSet(UpTo(q)) /\ UpTo(p) \in SUBSET UpTo(q) /\ UpTo(p) # UpTo(q)
        /\ Cardinality(UpTo(p)) \in Nat /\ Cardinality(UpTo(q)) \in Nat
    BY <1>5, <1>6, <1>8
  <2>2. Cardinality(UpTo(p)) < Cardinality(UpTo(q))
    BY <2>1, FS_Subset
  <2> QED
    BY <1>3, <2>2
<1> HIDE DEF c
<1>9. \A i \in 1..c : \E p \in K : Place(K, p) = i
  <2> DEFINE f == [p \in K |-> Place(K, p)]
  <2>1. \A p, q \in K : Place(K, p) = Place(K, q) => p = q
    <3> SUFFICES ASSUME NEW p \in K, NEW q \in K, Place(K, p) = Place(K, q), p # q PROVE FALSE
      OBVIOUS
    <3>1. p < q \/ q < p
      BY <1>1
    <3>2. Place(K, p) \in 1..c /\ Place(K, q) \in 1..c
      BY <1>7
    <3> QED
      BY <1>8, <3>1, <3>2
  <2>2. f \in Injection(K, 1..c)
    BY <1>7, <2>1 DEF Injection, IsInjective
  <2> HIDE DEF f
  <2>3. IsFiniteSet(1..c) /\ Cardinality(1..c) = c
    BY <1>2, FS_Interval DEF c
  <2>4. f \in Surjection(K, 1..c)
    BY <2>2, <2>3, FS_Injection DEF c
  <2> QED
    BY <2>4 DEF Surjection, f
<1> QED
  BY <1>2, <1>7, <1>8, <1>9 DEF c

\* What is kept of a sequence, with the positions it comes from.
Picks(e, K, c) ==
    /\ c \in Nat /\ K \subseteq Nat
    /\ e \in [1..c -> K]
    /\ \A i, j \in 1..c : i < j => e[i] < e[j]
    /\ \A p \in K : \E i \in 1..c : e[i] = p

Picked(seq, e, c) == [i \in 1..c |-> seq[e[i]]]

LEMMA KeepingPicks ==
  ASSUME NEW n \in Nat, NEW K \in SUBSET (1..n), NEW seq
  PROVE  /\ Cardinality(K) \in Nat
         /\ \E e : /\ Picks(e, K, Cardinality(K))
                  /\ Keeping(seq, K) = Picked(seq, e, Cardinality(K))
<1> DEFINE c == Cardinality(K)
           e == [i \in 1..c |-> CHOOSE p \in K : Place(K, p) = i]
<1>1. /\ c \in Nat
      /\ \A p \in K : Place(K, p) \in 1..c
      /\ \A p, q \in K : p < q => Place(K, p) < Place(K, q)
      /\ \A i \in 1..c : \E p \in K : Place(K, p) = i
  BY PlacesEnumerate
<1>2. Keeping(seq, K) = Picked(seq, e, c)
  BY DEF Keeping, Picked
<1> HIDE DEF c
<1>3. \A i \in 1..c : e[i] \in K /\ Place(K, e[i]) = i
  BY <1>1
<1>4. e \in [1..c -> K]
  BY <1>3
<1> HIDE DEF e
<1>5. \A p \in K : p \in Nat
  OBVIOUS
<1>6. \A p, q \in K : Place(K, p) = Place(K, q) => p = q
  <2> SUFFICES ASSUME NEW p \in K, NEW q \in K, Place(K, p) = Place(K, q), p # q PROVE FALSE
    OBVIOUS
  <2>1. p < q \/ q < p
    BY <1>5
  <2>2. Place(K, p) \in 1..c /\ Place(K, q) \in 1..c
    BY <1>1
  <2> QED
    BY <1>1, <2>1, <2>2
<1>7. ASSUME NEW i \in 1..c, NEW j \in 1..c, i < j PROVE e[i] < e[j]
  <2>1. /\ e[i] \in K /\ e[j] \in K /\ Place(K, e[i]) = i /\ Place(K, e[j]) = j
        /\ e[i] \in Nat /\ e[j] \in Nat
    BY <1>3, <1>5
  <2>2. ~(e[j] < e[i]) /\ e[i] # e[j]
    BY <1>1, <1>7, <2>1
  <2> QED
    BY <2>1, <2>2
<1>8. \A p \in K : \E i \in 1..c : e[i] = p
  <2> SUFFICES ASSUME NEW p \in K PROVE \E i \in 1..c : e[i] = p
    OBVIOUS
  <2>1. Place(K, p) \in 1..c
    BY <1>1
  <2>2. e[Place(K, p)] \in K /\ Place(K, e[Place(K, p)]) = Place(K, p)
    BY <1>3, <2>1
  <2>3. e[Place(K, p)] = p
    BY <1>6, <2>2
  <2> QED
    BY <2>1, <2>3
<1>9. Picks(e, K, c)
  BY <1>1, <1>4, <1>5, <1>7, <1>8 DEF Picks
<1> QED
  BY <1>1, <1>2, <1>9 DEF c

-----------------------------------------------------------------------------
\* FirstAt is the first position of a chunk that occurs in the list.
LEMMA FirstAtOccurs ==
  ASSUME NEW recs \in Seq(Records), NEW c \in ChunksOf(recs)
  PROVE  /\ FirstAt(recs, c) \in 1..Len(recs)
         /\ recs[FirstAt(recs, c)].chunk = c
         /\ \A j \in 1..Len(recs) : recs[j].chunk = c => FirstAt(recs, c) <= j
<1> DEFINE S == {i \in 1..Len(recs) : recs[i].chunk = c}
<1>1. S \subseteq Nat /\ S # {}
  BY DEF ChunksOf
<1>2. \E n \in S : \A m \in S : n <= m
  BY <1>1, LeastElement
<1>3. \E i \in DOMAIN recs : /\ recs[i].chunk = c
                            /\ \A j \in DOMAIN recs : recs[j].chunk = c => i <= j
  BY <1>2
<1>4. /\ FirstAt(recs, c) \in DOMAIN recs
      /\ recs[FirstAt(recs, c)].chunk = c
      /\ \A j \in DOMAIN recs : recs[j].chunk = c => FirstAt(recs, c) <= j
  BY <1>3, Zenon DEF FirstAt
<1> QED
  BY <1>4

\* The chunks of a list are finitely many chunks of the system.
LEMMA ChunksOfFinite ==
  ASSUME NEW recs \in Seq(Records)
  PROVE  IsFiniteSet(ChunksOf(recs)) /\ ChunksOf(recs) \subseteq Chunks
<1> DEFINE f == [i \in 1..Len(recs) |-> recs[i].chunk]
<1>1. f \in Surjection(1..Len(recs), ChunksOf(recs))
  BY DEF Surjection, ChunksOf
<1>2. IsFiniteSet(1..Len(recs))
  BY FS_Interval
<1>3. IsFiniteSet(ChunksOf(recs))
  BY <1>1, <1>2, FS_Surjection
<1>4. \A i \in DOMAIN recs : recs[i] \in Records
  OBVIOUS
<1>5. \A i \in DOMAIN recs : recs[i].chunk \in Chunks
  BY <1>4 DEF Records
<1>6. ChunksOf(recs) \subseteq Chunks
  BY <1>5 DEF ChunksOf
<1> QED
  BY <1>3, <1>6

\* The fresh chunks are numbered 1, 2, ... without repetition.
LEMMA RankNumbers ==
  ASSUME NEW reg, IsRegistry(reg), NEW recs \in Seq(Records)
  PROVE  /\ IsFiniteSet(Fresh(reg, recs))
         /\ \A c \in Fresh(reg, recs) :
               Rank(reg, recs, c) \in 1..Cardinality(Fresh(reg, recs))
         /\ \A c, d \in Fresh(reg, recs) :
               FirstAt(recs, c) < FirstAt(recs, d)
                  => Rank(reg, recs, c) < Rank(reg, recs, d)
         /\ \A c, d \in Fresh(reg, recs) :
               Rank(reg, recs, c) = Rank(reg, recs, d) => c = d
<1> DEFINE F == Fresh(reg, recs)
           UpTo(c) == {d \in F : FirstAt(recs, d) <= FirstAt(recs, c)}
<1>1. F \subseteq ChunksOf(recs)
  BY DEF Fresh
<1>2. IsFiniteSet(F)
  BY <1>1, ChunksOfFinite, FS_Subset
<1>3. Cardinality(F) \in Nat
  BY <1>2, FS_CardinalityType
<1>4. \A c \in F : FirstAt(recs, c) \in Nat /\ recs[FirstAt(recs, c)].chunk = c
  BY <1>1, FirstAtOccurs
<1>5. \A c \in F : /\ IsFiniteSet(UpTo(c))
                   /\ Cardinality(UpTo(c)) \in Nat
                   /\ Cardinality(UpTo(c)) <= Cardinality(F)
  <2>1. \A c \in F : UpTo(c) \in SUBSET F
    OBVIOUS
  <2> HIDE DEF UpTo
  <2> QED
    BY <1>2, <2>1, FS_Subset, FS_CardinalityType
<1>6. \A c \in F : UpTo(c) # {}
  BY <1>4
<1>7. \A c \in F : Cardinality(UpTo(c)) >= 1
  <2> HIDE DEF UpTo
  <2> QED
    BY <1>5, <1>6, FS_EmptySet
<1>8. ASSUME NEW c \in F, NEW d \in F, FirstAt(recs, c) < FirstAt(recs, d)
      PROVE  Cardinality(UpTo(c)) < Cardinality(UpTo(d))
  <2>1. UpTo(c) \subseteq UpTo(d) /\ UpTo(c) # UpTo(d)
    BY <1>4, <1>8
  <2> HIDE DEF UpTo
  <2>2. UpTo(c) \in SUBSET UpTo(d)
    BY <2>1
  <2> QED
    BY <1>5, <2>1, <2>2, FS_Subset
<1>9. \A c, d \in F : FirstAt(recs, c) = FirstAt(recs, d) => c = d
  BY <1>4
<1>10. \A c \in F : Rank(reg, recs, c) = Cardinality(UpTo(c))
  BY DEF Rank
<1>11. \A c, d \in F : Cardinality(UpTo(c)) = Cardinality(UpTo(d)) => c = d
  <2> SUFFICES ASSUME NEW c \in F, NEW d \in F,
                      Cardinality(UpTo(c)) = Cardinality(UpTo(d)), c # d
               PROVE  FALSE
    OBVIOUS
  <2>1. FirstAt(recs, c) < FirstAt(recs, d) \/ FirstAt(recs, d) < FirstAt(recs, c)
    BY <1>4, <1>9
  <2> HIDE DEF UpTo
  <2> QED
    BY <2>1, <1>5, <1>8
<1> HIDE DEF UpTo
<1> QED
  BY <1>2, <1>3, <1>5, <1>7, <1>8, <1>10, <1>11

-----------------------------------------------------------------------------
\* What add() does to a registry, for every registry and every list: it is a
\* registry again, nothing it held has changed, and exactly the chunks of the
\* list have joined it.
THEOREM AddKeepsRegistry ==
  ASSUME NEW reg, IsRegistry(reg), NEW recs \in Seq(Records)
  PROVE  /\ IsRegistry(Add(reg, recs))
         /\ DOMAIN Add(reg, recs) = DOMAIN reg \cup ChunksOf(recs)
         /\ \A c \in DOMAIN reg : Add(reg, recs)[c] = reg[c]
         /\ Size(Add(reg, recs)) = Size(reg) + Cardinality(Fresh(reg, recs))
<1> DEFINE F == Fresh(reg, recs)
           D == DOMAIN reg
           new == Add(reg, recs)
<1>1. IsFiniteSet(D) /\ Cardinality(D) \in Nat /\ Size(reg) = Cardinality(D)
  BY FS_CardinalityType DEF IsRegistry, Size
<1>2. IsFiniteSet(F) /\ Cardinality(F) \in Nat
  BY RankNumbers, FS_CardinalityType
<1>3. F \subseteq ChunksOf(recs) /\ D \cap F = {} /\ D \cup F = D \cup ChunksOf(recs)
  BY DEF Fresh
<1>4. DOMAIN new = D \cup F
  BY DEF Add
<1>5. IsFiniteSet(D \cup F) /\ Cardinality(D \cup F) = Cardinality(D) + Cardinality(F)
  <2>1. Cardinality(D \cap F) = 0
    BY <1>3, FS_EmptySet
  <2> HIDE DEF D, F
  <2>2. /\ IsFiniteSet(D \cup F)
        /\ Cardinality(D \cup F) = Cardinality(D) + Cardinality(F) - Cardinality(D \cap F)
    BY <1>1, <1>2, FS_Union, Zenon
  <2> QED
    BY <1>1, <1>2, <2>1, <2>2
<1>6. Size(new) = Cardinality(D) + Cardinality(F)
  BY <1>4, <1>5 DEF Size
<1>7. \A c \in D : new[c] = reg[c]
  BY DEF Add
<1>8. \A c \in F : new[c] = [index   |-> Size(reg) + Rank(reg, recs, c),
                             content |-> recs[FirstAt(recs, c)].content]
  BY <1>3 DEF Add
<1>9. \A c \in F : recs[FirstAt(recs, c)] \in Records
  BY <1>3, FirstAtOccurs
<1>10. \A c \in F : /\ Rank(reg, recs, c) \in 1..Cardinality(F)
                    /\ recs[FirstAt(recs, c)].content \in Contents
  BY <1>9, RankNumbers DEF Records
<1>11. \A c \in F : /\ new[c] \in [index : Nat \ {0}, content : Contents]
                    /\ new[c].index = Cardinality(D) + Rank(reg, recs, c)
                    /\ new[c].index \in (Cardinality(D) + 1)..(Cardinality(D) + Cardinality(F))
  <2> SUFFICES ASSUME NEW c \in F
               PROVE  /\ new[c] \in [index : Nat \ {0}, content : Contents]
                      /\ new[c].index = Cardinality(D) + Rank(reg, recs, c)
                      /\ new[c].index \in
                            (Cardinality(D) + 1)..(Cardinality(D) + Cardinality(F))
    OBVIOUS
  <2> DEFINE n == Cardinality(D) + Rank(reg, recs, c)
             t == recs[FirstAt(recs, c)].content
  <2>1. n \in (Cardinality(D) + 1)..(Cardinality(D) + Cardinality(F)) /\ n \in Nat \ {0}
    BY <1>1, <1>2, <1>10
  <2>2. new[c] = [index |-> n, content |-> t] /\ t \in Contents
    BY <1>1, <1>8, <1>10
  <2> HIDE DEF n, t, new, F, D
  <2>3. new[c] \in [index : Nat \ {0}, content : Contents] /\ new[c].index = n
    BY <2>1, <2>2
  <2> QED
    BY <2>1, <2>3 DEF n
<1>12. \A c \in D : /\ new[c] \in [index : Nat \ {0}, content : Contents]
                    /\ new[c].index \in 1..Cardinality(D)
  BY <1>1, <1>7 DEF IsRegistry, WellIndexed
<1>13. ASSUME NEW c \in D \cup F, NEW d \in D \cup F, new[c].index = new[d].index
       PROVE  c = d
  <2>1. CASE c \in D /\ d \in D
    BY <1>7, <1>13, <2>1 DEF IsRegistry, WellIndexed
  <2>2. CASE c \in F /\ d \in F
    BY <1>1, <1>10, <1>11, <1>13, <2>2, RankNumbers
  <2>3. CASE (c \in D /\ d \in F) \/ (c \in F /\ d \in D)
    BY <1>1, <1>2, <1>11, <1>12, <1>13, <2>3
  <2> QED
    BY <2>1, <2>2, <2>3
<1>14. \A c \in D \cup F : new[c].index \in 1..Size(new)
  BY <1>1, <1>2, <1>6, <1>11, <1>12
<1>15. WellIndexed(new)
  BY <1>4, <1>13, <1>14 DEF WellIndexed
<1>16. new = [c \in DOMAIN new |-> new[c]]
  BY DEF Add
<1>17. D \cup F \subseteq Chunks
  BY <1>3, ChunksOfFinite DEF IsRegistry
<1>18. IsRegistry(new)
  BY <1>4, <1>5, <1>11, <1>12, <1>15, <1>16, <1>17 DEF IsRegistry
<1> QED
  BY <1>1, <1>3, <1>4, <1>6, <1>7, <1>18

\* The empty registry is a registry.
LEMMA EmptyIsRegistry == IsRegistry(Empty) /\ EntriesOf(Empty) = {} /\ DOMAIN Empty = {}
<1>1. DOMAIN Empty = {}
  BY DEF Empty
<1> QED
  BY <1>1, FS_EmptySet DEF IsRegistry, WellIndexed, EntriesOf, Empty

\* The entries shown before an add() are among those shown after it, and what a
\* registry shows gives every label one meaning.
LEMMA AddExtendsEntries ==
  ASSUME NEW reg, IsRegistry(reg), NEW recs \in Seq(Records)
  PROVE  EntriesOf(reg) \subseteq EntriesOf(Add(reg, recs))
  BY AddKeepsRegistry DEF EntriesOf

LEMMA EntriesHaveOneMeaning ==
  ASSUME NEW reg, IsRegistry(reg)
  PROVE  /\ EntriesOf(reg) \subseteq Entries
         /\ \A e, f \in EntriesOf(reg) : e.index = f.index \/ e.chunk = f.chunk => e = f
<1>1. \A c \in DOMAIN reg : /\ c \in Chunks
                            /\ reg[c].index \in Nat \ {0}
                            /\ reg[c].content \in Contents
  BY DEF IsRegistry
<1>2. EntriesOf(reg) \subseteq Entries
  BY <1>1 DEF EntriesOf, Entries
<1>3. \A c, d \in DOMAIN reg : reg[c].index = reg[d].index => c = d
  BY DEF IsRegistry, WellIndexed
<1> QED
  BY <1>2, <1>3 DEF EntriesOf

\* Every label has an entry: as many entries as labels, and no two with the same.
LEMMA LabelsHaveEntries ==
  ASSUME NEW reg, IsRegistry(reg), NEW n, HasIndex(reg, n)
  PROVE  \E e \in EntriesOf(reg) : e.index = n
<1> DEFINE N == Size(reg)
           f == [c \in DOMAIN reg |-> reg[c].index]
<1>1. IsFiniteSet(DOMAIN reg) /\ N = Cardinality(DOMAIN reg) /\ N \in Nat
  BY FS_CardinalityType DEF IsRegistry, Size
<1>2. \A c \in DOMAIN reg : reg[c].index \in 1..N
  BY DEF IsRegistry, WellIndexed
<1>3. \A c, d \in DOMAIN reg : reg[c].index = reg[d].index => c = d
  BY DEF IsRegistry, WellIndexed
<1> HIDE DEF N
<1>4. f \in Injection(DOMAIN reg, 1..N)
  BY <1>2, <1>3 DEF Injection, IsInjective
<1>5. IsFiniteSet(1..N) /\ Cardinality(1..N) = N
  BY <1>1, FS_Interval
<1> HIDE DEF f
<1>6. f \in Surjection(DOMAIN reg, 1..N)
  BY <1>1, <1>4, <1>5, FS_Injection
<1>7. n \in 1..N
  BY DEF HasIndex, N
<1>8. PICK c \in DOMAIN reg : f[c] = n
  BY <1>6, <1>7 DEF Surjection
<1>9. reg[c].index = n
  BY <1>8 DEF f
<1>10. [index |-> reg[c].index, chunk |-> c, content |-> reg[c].content] \in EntriesOf(reg)
  BY DEF EntriesOf
<1> QED
  BY <1>9, <1>10
=============================================================================
