---------------------------- MODULE MCGeneration ----------------------------
EXTENDS Generation, TLC

CONSTANTS MaxRetrieved,   \* length of the longest retrieval
          MaxLength       \* length of the longest completion

MCRetrievals == UNION {[1..n -> Records] : n \in 0..MaxRetrieved}

MCTexts == UNION {[1..n -> Tokens] : n \in 0..MaxLength}

Symmetry == Permutations(Chunks)
=============================================================================
