---------------------------- MODULE CitationText ----------------------------
(***************************************************************************)
(* Citation post-validation on the text of an answer: validate_and_strip() *)
(* of app/agent/citations.py.  A citation is "[", digits and "]" in the    *)
(* characters of the answer, and removing one leaves a new text behind.    *)
(*                                                                         *)
(* The operators take the labels of the registry as the set `known`.       *)
(***************************************************************************)
EXTENDS Places, SequencesExt

CONSTANTS Digits,   \* the digits an answer may contain
          Others    \* what else it may contain, but brackets and spaces

ASSUME DigitsAreDigits == Digits \subseteq 0..9

Open  == "["
Close == "]"
Space == " "

\* A token is a record, so that digits compare with the other characters.
Tok(c) == [c |-> c, d |-> -1]

Tokens == {Tok(c) : c \in {Open, Close, Space} \cup Others} \cup {[c |-> "digit", d |-> n] : n \in Digits}

-----------------------------------------------------------------------------
\* The matches of \[(\d+)\]: leftmost matches cannot overlap, because "[" only
\* occurs at their start.
Matches(text) ==
    {m \in (DOMAIN text) \X (DOMAIN text) :
        /\ m[1] + 1 < m[2]
        /\ text[m[1]] = Tok(Open) /\ text[m[2]] = Tok(Close)
        /\ \A i \in m[1] + 1..m[2] - 1 : text[i].d >= 0}

\* int() of the digits of a match.
Number(digits) == FoldLeft(LAMBDA n, tok : 10 * n + tok.d, 0, digits)

IndexAt(text, m) == Number(SubSeq(text, m[1] + 1, m[2] - 1))

Cited(text) == {IndexAt(text, m) : m \in Matches(text)}

\* The labels reported as used.
Used(text, known) == Cited(text) \cap known

\* The citations of labels that are not in the registry.
Hallucinated(text, known) == {m \in Matches(text) : IndexAt(text, m) \notin known}

\* A text without some of its matches.
Without(text, ms) == Keeping(text, {i \in DOMAIN text : \A m \in ms : i \notin m[1]..m[2]})

\* Mutant: only the first hallucinated citation is replaced.
UncitedFirst(text, known) ==
    LET bad == Hallucinated(text, known)
    IN  Without(text, {m \in bad : \A n \in bad : m[1] <= n[1]})

\* Mutant: the test in _replace is the wrong way round.
UncitedKnown(text, known) == Without(text, Matches(text) \ Hallucinated(text, known))

\* Hallucinated citations are replaced by nothing.
Uncited(text, known) == Without(text, Hallucinated(text, known))

IsSpace(tok) == tok = Tok(Space)

\* A space stays if it is the first after a character that is no space, and such a
\* character follows it.
Stays(text, i) == \/ ~IsSpace(text[i])
                  \/ /\ i > 1 /\ ~IsSpace(text[i - 1])
                     /\ \E j \in i + 1..Len(text) : ~IsSpace(text[j])

\* Runs of spaces become one space, and none is left at the ends.
Squeezed(text) == Keeping(text, {i \in DOMAIN text : Stays(text, i)})

Cleaned(text, known) == Squeezed(Uncited(text, known))
=============================================================================
