---------------------------- MODULE MCFaissStore ----------------------------
EXTENDS FaissStore, TLC

CONSTANTS a, b, x   \* two chunks of one text

\* After the empty table, one that differs from another in length and in what comes first.
MCCorpora == {<<[id |-> a, text |-> x]>>, <<[id |-> b, text |-> x], [id |-> a, text |-> x]>>}

Symmetry == Permutations(Models) \cup Permutations(Tasks)
=============================================================================
