---------------------------- MODULE RegistryLoop ----------------------------
(***************************************************************************)
(* CitationRegistry.add() as the code runs it: a registry that is used for *)
(* several calls, each a loop over the records it is given that looks a    *)
(* chunk up in `_by_chunk`, creates an entry with index len(_order) + 1    *)
(* when it is missing, and appends the entry's index to the result.        *)
(*                                                                         *)
(* The loop is shown to compute the closed forms of CitationRegistry,      *)
(* which the other modules use for one atomic call of add().               *)
(***************************************************************************)
EXTENDS CitationRegistry

CONSTANT Inputs    \* the record lists add() may be called with

ASSUME InputsAreRecordLists == Inputs \subseteq Seq(Records)

VARIABLES byChunk,    \* _by_chunk: chunk id -> entry
          order,      \* _order: chunk ids in order of insertion
          recs,       \* the argument of the call in progress
          i,          \* the position of the next record of recs
          indices,    \* the result under construction
          before      \* the registry when the call began (history variable)

vars == <<byChunk, order, recs, i, indices, before>>

Init == /\ byChunk = Empty
        /\ order = <<>>
        /\ recs = <<>>
        /\ i = 1
        /\ indices = <<>>
        /\ before = Empty

\* Mutant: entries numbered by their position in the call.
NumberByPosition(r) == [index |-> i, content |-> r.content]

NewEntry(r) == [index |-> Len(order) + 1, content |-> r.content]

Insert(reg, r) ==
    [c \in DOMAIN reg \cup {r.chunk} |-> IF c = r.chunk THEN NewEntry(r) ELSE reg[c]]

\* Mutant: a chunk delivered again replaces the entry it already has.
RememberLatest(reg, r) == Insert(reg, r)

\* Mutant: a chunk delivered again takes the content it is delivered with.
RefreshContent(reg, r) ==
    IF r.chunk \in DOMAIN reg THEN [reg EXCEPT ![r.chunk].content = r.content]
                              ELSE Insert(reg, r)

\* The dictionary once a record's chunk is handled.
Remember(reg, r) == IF r.chunk \in DOMAIN reg THEN reg ELSE Insert(reg, r)

\* Mutant: a call that takes up where the previous one left off.
CallKeepingPosition ==
        /\ i > Len(recs)
        /\ recs' \in Inputs
        /\ indices' = <<>>
        /\ before' = byChunk
        /\ UNCHANGED <<byChunk, order, i>>

\* A new call of add().
Call == /\ i > Len(recs)
        /\ recs' \in Inputs
        /\ i' = 1
        /\ indices' = <<>>
        /\ before' = byChunk
        /\ UNCHANGED <<byChunk, order>>

\* One iteration over a chunk seen before, and over a new one.
Seen == /\ i <= Len(recs)
        /\ recs[i].chunk \in DOMAIN byChunk
        /\ byChunk' = Remember(byChunk, recs[i])
        /\ UNCHANGED order
        /\ indices' = Append(indices, byChunk[recs[i].chunk].index)
        /\ i' = i + 1
        /\ UNCHANGED <<recs, before>>

New == /\ i <= Len(recs)
       /\ recs[i].chunk \notin DOMAIN byChunk
       /\ byChunk' = Remember(byChunk, recs[i])
       /\ order' = Append(order, recs[i].chunk)
       /\ indices' = Append(indices, NewEntry(recs[i]).index)
       /\ i' = i + 1
       /\ UNCHANGED <<recs, before>>

Next == Call \/ Seen \/ New

Spec == Init /\ [][Next]_vars

-----------------------------------------------------------------------------
\* The state has the shape the code gives it, and i stays within the loop's range.
TypeOK == /\ order \in Seq(Chunks)
          /\ DOMAIN byChunk \subseteq Chunks
          /\ \A c \in DOMAIN byChunk : byChunk[c] \in [index : Nat, content : Contents]
          /\ recs \in Seq(Records)
          /\ i \in 1..(Len(recs) + 1)
          /\ indices \in Seq(Nat)

\* "Indices never shift or collide between steps: re-adding a chunk already
\* seen returns its existing index": no entry is ever changed or dropped,
\* whatever is added after it and with whatever content.
EntriesStable ==
    [][\A c \in DOMAIN byChunk : c \in DOMAIN byChunk' /\ byChunk'[c] = byChunk[c]]_vars

\* When a call of add() returns, the registry and the returned list are the
\* closed forms applied to the registry the call began with.
LoopComputesAdd ==
    i > Len(recs) => /\ byChunk = Add(before, recs)
                     /\ indices = Indices(before, recs)

\* get(n) looks _order[n - 1] up: the entry found there carries index n, so a
\* citation [n] always denotes the entry that was rendered with the label [n].
OrderIsIndex ==
    /\ Len(order) = Size(byChunk)
    /\ \A n \in DOMAIN order : /\ order[n] \in DOMAIN byChunk
                               /\ byChunk[order[n]].index = n
=============================================================================
