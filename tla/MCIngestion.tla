----------------------------- MODULE MCIngestion -----------------------------
EXTENDS Ingestion, TLC

CONSTANTS blank, short, long, other   \* versions of no, one, two and two chunks

MCPieces == [v \in Versions |-> CASE v = blank -> 0 [] v = short -> 1 [] OTHER -> 2]

Singles == {<<e>> : e \in Documents}

\* Two documents in one request, and one doc_id given twice.
Pairs == {<<[doc |-> d, ver |-> v], [doc |-> e, ver |-> short]>> :
             d \in Docs, e \in Docs, v \in {blank, long}}
         \cup {<<[doc |-> d, ver |-> long], [doc |-> d, ver |-> blank]>> : d \in Docs}

MCRequests == Singles \cup Pairs

Symmetry == Permutations(Docs) \cup Permutations(Tasks)
=============================================================================
