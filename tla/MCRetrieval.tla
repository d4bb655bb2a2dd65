----------------------------- MODULE MCRetrieval -----------------------------
EXTENDS Evaluation

LastId == CHOOSE c \in Ids : \A d \in Ids : d <= c

\* What the chunks say before and after a re-ingestion, and under another model.
MCModelOf == [text \in {"old", "new", "foreign"} |-> IF text = "foreign" THEN "bge" ELSE "hashing"]

\* The table before and after a re-ingestion that also drops the last chunk, one of the
\* other model, and one with both.
MCTables == {[c \in Ids |-> "old"], [c \in Ids \ {LastId} |-> "new"],
             [c \in {1} |-> "foreign"], [c \in {1, 2} |-> IF c = 1 THEN "foreign" ELSE "old"]}

\* A common multiple of the denominators of all scores.
MCScale == 61 * 62 * 63 * 64

\* A call without filters or reranker, and one with both.
MCCalls == {[allowed |-> Ids, reranking |-> FALSE], [allowed |-> Ids \ {2}, reranking |-> TRUE]}

\* The first two chunks are of one document.
MCDocOf == [c \in Ids |-> IF c \in {1, 2} THEN "INC-0001" ELSE IF c = 3 THEN "INC-0002" ELSE "RB-001"]

\* In ten thousandths.
MCDiscount == <<10000, 6309, 5000>>
=============================================================================
