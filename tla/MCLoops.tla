------------------------------ MODULE MCLoops -------------------------------
(***************************************************************************)
(* The two loops whose results other modules use as one step: cutting a    *)
(* document into chunks, and numbering chunks for citation.  They share no *)
(* state; a behaviour cuts one document, and the registry is used beside   *)
(* the empty one, which keeps the states of the loops from multiplying.    *)
(*                                                                         *)
(* Documents are all of up to MaxLines lines of 1 to MaxTokens tokens, and *)
(* add() is called again and again with every list of up to MaxLen         *)
(* records.                                                                *)
(***************************************************************************)
EXTENDS Chunker, RegistryLoop, SequencesExt

CONSTANTS MaxLines, MaxTokens, MaxLen

Words == {[width |-> 1, blank |-> TRUE], [width |-> 1, blank |-> FALSE],
          [width |-> 2, blank |-> FALSE]}

Lines == [header : BOOLEAN, words : UNION {[1..n -> Words] : n \in 1..MaxTokens}]

\* The document of some lines.
TextOf(lines) ==
    LET wordsTo(l) == FoldLeft(LAMBDA s, y : s \o y.words, <<>>, SubSeq(lines, 1, l))
        words      == wordsTo(Len(lines))
        charsTo(t) == FoldLeft(LAMBDA n, w : n + w.width, 0, SubSeq(words, 1, t))
    IN  [tokens |-> [t \in DOMAIN words |-> [end |-> charsTo(t), blank |-> words[t].blank]],
         lines  |-> [l \in DOMAIN lines |-> [upto |-> Len(wordsTo(l)), header |-> lines[l].header]]]

MCTexts == {TextOf(lines) : lines \in UNION {[1..n -> Lines] : n \in 0..MaxLines}}

MCInputs == UNION {[1..n -> Records] : n \in 0..MaxLen}

Symmetry == Permutations(Chunks) \cup Permutations(Contents)

LoopsInit == ChunkInit /\ Init

Cutting == ChunkNext /\ UNCHANGED vars

Citing == doc.tokens = <<>> /\ markdown /\ Next /\ UNCHANGED chunkVars

LoopsSpec == LoopsInit /\ [][Cutting \/ Citing]_<<chunkVars, vars>>
=============================================================================
