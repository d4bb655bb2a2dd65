-------------------------- MODULE CitationRegistry --------------------------
(***************************************************************************)
(* The per-request citation registry (app/agent/citation_registry.py).     *)
(*                                                                         *)
(* A registry is a function from the chunk ids it holds to their entries;  *)
(* the insertion order the code keeps in `_order` is the order of the      *)
(* indices.  A chunk record is what a retrieval or a tool result delivers: *)
(* a chunk id and a content, which stands for everything else an entry     *)
(* remembers (document, title, offsets, text, snippet).  The same chunk id *)
(* may be delivered with different contents: a document may be re-ingested *)
(* between two retrievals of one request, and search_records delivers the  *)
(* snippet of a chunk where the seed retrieval delivers its full text.     *)
(*                                                                         *)
(* The operators are closed forms.  RegistryLoop runs the loop of add()    *)
(* iteration by iteration and shows that it computes Add and Indices.      *)
(***************************************************************************)
EXTENDS Integers, Sequences, FiniteSets

CONSTANTS Chunks,    \* chunk ids
          Contents   \* what a record may say of a chunk

Records == [chunk : Chunks, content : Contents]
Entries == [index : Nat \ {0}, chunk : Chunks, content : Contents]

Empty == [c \in {} |-> c]

Size(reg) == Cardinality(DOMAIN reg)

ChunksOf(recs) == {recs[i].chunk : i \in DOMAIN recs}

\* The position at which a chunk is first delivered by recs.
FirstAt(recs, c) ==
    CHOOSE i \in DOMAIN recs : /\ recs[i].chunk = c
                               /\ \A j \in DOMAIN recs : recs[j].chunk = c => i <= j

\* The chunks of recs that the registry does not know yet.
Fresh(reg, recs) == ChunksOf(recs) \ DOMAIN reg

\* How many fresh chunks the loop has met once it meets c.
Rank(reg, recs, c) ==
    Cardinality({d \in Fresh(reg, recs) : FirstAt(recs, d) <= FirstAt(recs, c)})

\* Mutant: a known chunk keeps its index but takes the content it comes with.
AddRefreshing(reg, recs) ==
    [c \in DOMAIN reg \cup Fresh(reg, recs) |->
        [index   |-> IF c \in DOMAIN reg THEN reg[c].index
                                         ELSE Size(reg) + Rank(reg, recs, c),
         content |-> IF c \in ChunksOf(recs) THEN recs[FirstAt(recs, c)].content
                                             ELSE reg[c].content]]

\* A known chunk keeps its entry; a fresh one gets the next index, in order of
\* first appearance, and the content it first appears with.
Add(reg, recs) ==
    [c \in DOMAIN reg \cup Fresh(reg, recs) |->
        IF c \in DOMAIN reg
        THEN reg[c]
        ELSE [index   |-> Size(reg) + Rank(reg, recs, c),
              content |-> recs[FirstAt(recs, c)].content]]

\* The list of indices add() returns, one per record, in input order.
Indices(reg, recs) == [i \in DOMAIN recs |-> Add(reg, recs)[recs[i].chunk].index]

HasIndex(reg, n) == n \in 1..Size(reg)

\* The entries as they are rendered, labelled [index], in a prompt.
EntriesOf(reg) ==
    {[index |-> reg[c].index, chunk |-> c, content |-> reg[c].content] : c \in DOMAIN reg}

EntriesFor(reg, indices) == {e \in EntriesOf(reg) : e.index \in indices}

\* Mutant: the cited entries are renumbered 1, 2, ... in the sources array.
SourcesRenumbered(reg, used) ==
    {[e EXCEPT !.index = Cardinality({n \in used : n <= e.index})] : e \in EntriesFor(reg, used)}

\* sources_for: the entries of the labels used in the answer.
SourcesFor(reg, used) == EntriesFor(reg, used)

\* What the rest of the code relies on: the indices are exactly 1..Size.
WellIndexed(reg) ==
    /\ \A c \in DOMAIN reg : reg[c].index \in 1..Size(reg)
    /\ \A c, d \in DOMAIN reg : reg[c].index = reg[d].index => c = d
=============================================================================
