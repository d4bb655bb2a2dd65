----------------------------- MODULE Generation -----------------------------
(***************************************************************************)
(* Single-shot grounded generation (app/agent/generation.py): retrieve,    *)
(* register, answer, validate the citations.  It reuses the registry, the  *)
(* citation validation and the source assembly of the agent loop, and      *)
(* keeps the same promise.  Where Orchestrator takes an answer to be the   *)
(* set of labels it cites, this module takes its text, so that it also     *)
(* says what the caller reads.                                             *)
(***************************************************************************)
EXTENDS CitationRegistry, CitationText

CONSTANTS Retrievals,   \* record lists the retrieval service may return
          Texts         \* texts a completion may have

ASSUME RetrievalsAreRecordLists == Retrievals \subseteq Seq(Records)
ASSUME TextsAreTexts == \A t \in Texts : t \in Seq(Tokens)

VARIABLES pc,         \* "retrieve", "complete", "done" or "failed"
          registry,
          shown,      \* the labelled records of the answering prompt
          text,       \* the completion as the model wrote it
          answer,     \* the text the caller gets
          used,       \* used_indices
          sources

vars == <<pc, registry, shown, text, answer, used, sources>>

Init == /\ pc = "retrieve"
        /\ registry = Empty
        /\ shown = {} /\ text = <<>> /\ answer = <<>>
        /\ used = {} /\ sources = {}

\* The retrieval returns, the registry is filled and the prompt built from it.
Retrieve(recs) == /\ pc = "retrieve"
                  /\ pc' = "complete"
                  /\ registry' = Add(registry, recs)
                  /\ shown' = EntriesOf(registry')
                  /\ UNCHANGED <<text, answer, used, sources>>

Known == {n \in 1..Cardinality(Chunks) : HasIndex(registry, n)}

\* Mutant: the hallucinated labels are reported with the others.
ValidatedAll(t) == [answer |-> Cleaned(t, Known), used |-> Cited(t)]

\* What validate_and_strip returns.
Validated(t) == [answer |-> Cleaned(t, Known), used |-> Used(t, Known)]

\* The completion returns: hallucinated labels are stripped, and the sources are
\* the entries of the others.
Complete(t) ==
    LET validated == Validated(t)
    IN  /\ pc = "complete"
        /\ pc' = "done"
        /\ text' = t
        /\ answer' = validated.answer
        /\ used' = validated.used
        /\ sources' = SourcesFor(registry, used')
        /\ UNCHANGED <<registry, shown>>

\* An await raises; the caller gets the exception.
Raise == /\ pc \in {"retrieve", "complete"}
         /\ pc' = "failed"
         /\ UNCHANGED <<registry, shown, text, answer, used, sources>>

Ended == pc \in {"done", "failed"} /\ UNCHANGED vars

Next == \/ \E recs \in Retrievals : Retrieve(recs)
        \/ \E t \in Texts : Complete(t)
        \/ Raise
        \/ Ended

Spec == Init /\ [][Next]_vars

-----------------------------------------------------------------------------
\* Every reported label has its entry in the sources array, every source is reported,
\* and whatever surrounds them, the citations of those labels are still to be read in
\* the answer.
ReportedAreRead ==
    pc = "done" => /\ used = {e.index : e \in sources}
                   /\ used \subseteq Cited(answer)

\* A hallucinated citation behind an open bracket and its digits: removing it may
\* leave a citation that was not there.
Spliced(t) ==
    \E m \in Hallucinated(t, Known) :
        \E i \in 1..m[1] - 1 : /\ t[i] = Tok(Open)
                               /\ \A j \in i + 1..m[1] - 1 : t[j].d >= 0

\* Unless a citation was spliced, the answer cites exactly the reported labels, and
\* validating it again would change nothing.
CleanUnlessSpliced ==
    pc = "done" /\ ~Spliced(text) => /\ Cited(answer) = used
                                     /\ Cleaned(answer, Known) = answer

\* "Strip hallucinated indices, report used ones": the answer cites no label that is
\* not in the registry.
HallucinationsStripped == pc = "done" => \A n \in Cited(answer) : HasIndex(registry, n)

\* Single-shot generation keeps the promise of GroundedAnswer: its sources are
\* records the answering prompt showed under the same labels.
Promise == INSTANCE GroundedAnswer
              WITH surfaced <- shown,
                   outcome  <- CASE pc = "done"   -> "answered"
                                 [] pc = "failed" -> "failed"
                                 [] OTHER         -> "open"

ImplementsGroundedAnswer == Promise!Spec
=============================================================================
