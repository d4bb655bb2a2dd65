--------------------------- MODULE GroundedAnswer ---------------------------
(***************************************************************************)
(* What one request promises, whichever pipeline serves it: records are    *)
(* surfaced to the model under a label [n] that never changes its meaning, *)
(* and the request either fails or is answered with sources that are all   *)
(* among the records surfaced before, with the content the model was shown.*)
(*                                                                         *)
(* The abstract specification of the agent loop (Orchestrator) and of      *)
(* single-shot generation (Generation).  It is stated to be implemented,   *)
(* not to be run: Surface does not enumerate what may be surfaced.         *)
(***************************************************************************)
EXTENDS Integers

CONSTANTS Chunks, Contents

Labelled == [index : Nat \ {0}, chunk : Chunks, content : Contents]

VARIABLES surfaced,   \* the labelled records the model has been shown
          outcome,    \* "open", "answered" or "failed"
          sources     \* the sources array of the answer

vars == <<surfaced, outcome, sources>>

\* A label denotes one record, and a chunk has one label.
OneMeaning(S) == \A e, f \in S : e.index = f.index \/ e.chunk = f.chunk => e = f

Init == surfaced = {} /\ outcome = "open" /\ sources = {}

Surface == /\ outcome = "open"
           /\ surfaced' \in SUBSET Labelled
           /\ surfaced \subseteq surfaced'
           /\ OneMeaning(surfaced')
           /\ UNCHANGED <<outcome, sources>>

Answer == /\ outcome = "open"
          /\ outcome' = "answered"
          /\ sources' \in SUBSET surfaced
          /\ UNCHANGED surfaced

Fail == /\ outcome = "open"
        /\ outcome' = "failed"
        /\ UNCHANGED <<surfaced, sources>>

Next == Surface \/ Answer \/ Fail

Spec == Init /\ [][Next]_vars
=============================================================================
