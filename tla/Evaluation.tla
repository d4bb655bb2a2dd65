----------------------------- MODULE Evaluation -----------------------------
(***************************************************************************)
(* The metrics of app/eval/metrics.py over the rankings the dense search   *)
(* of Retrieval returns, the way app/eval/harness.py computes them.        *)
(* Relevance is a property of documents, of which a ranking of chunks may  *)
(* name one several times.  A figure is a fraction.                        *)
(***************************************************************************)
EXTENDS Retrieval

CONSTANTS DocOf,      \* the document of every chunk
          Discount    \* 1 / log2(rank + 1) for every rank looked at, in some unit

ASSUME EveryChunkHasDoc == DOMAIN DocOf = Ids

\* log2(rank + 1) grows with the rank, from 1, and never beyond it.
ASSUME DiscountFalls ==
    /\ Discount \in Seq(Nat \ {0})
    /\ \A i, j \in DOMAIN Discount : i < j => Discount[j] < Discount[i]
    /\ \A i \in DOMAIN Discount : Discount[1] <= i * Discount[i]

Docs == Range(DocOf)

Lesser(m, n) == IF m < n THEN m ELSE n

First(s, n) == SubSeq(s, 1, Lesser(n, Len(s)))

-----------------------------------------------------------------------------
\* Mutant: documents are counted as often as they are named.
NotDeduplicated(docs) == docs

\* dedup_preserve_order.
Deduplicated(docs) ==
    Keeping(docs, {i \in DOMAIN docs : \A j \in DOMAIN docs : docs[j] = docs[i] => i <= j})

\* _doc_ranking: three chunks are fetched for every document that is asked for.
DocRanking(hits, k) ==
    LET chunks == First(hits, 3 * k)
    IN  First(Deduplicated([i \in DOMAIN chunks |-> DocOf[chunks[i].id]]), k)

RecallAtK(ranked, relevant, k) ==
    IF relevant = {} THEN <<0, 1>>
    ELSE <<Cardinality(Range(First(ranked, k)) \cap relevant), Cardinality(relevant)>>

RelevantRanks(ranked, relevant) == {i \in DOMAIN ranked : ranked[i] \in relevant}

Mrr(ranked, relevant) ==
    LET ranks == RelevantRanks(ranked, relevant)
    IN  IF ranks = {} THEN <<0, 1>> ELSE <<1, CHOOSE i \in ranks : \A j \in ranks : i <= j>>

\* The discounts of some ranks, added up from the first rank on.
Gain(ranks) ==
    LET gain[i \in 0..Len(Discount)] ==
           IF i = 0 THEN 0 ELSE gain[i - 1] + (IF i \in ranks THEN Discount[i] ELSE 0)
    IN  gain[Len(Discount)]

NdcgAtK(ranked, relevant, k) ==
    IF relevant = {} THEN <<0, 1>>
    ELSE <<Gain(RelevantRanks(First(ranked, k), relevant)),
           Gain(1..Lesser(Cardinality(relevant), k))>>

-----------------------------------------------------------------------------
\* Whatever the search returns and whichever documents are relevant: every figure lies
\* between 0 and 1, as its definition promises, also when chunks of one document fill the
\* ranking; the three agree on whether anything relevant was found; nDCG is perfect
\* exactly when relevant documents lead; and for a single relevant document, as every
\* item of the gold set has, recall >= nDCG >= MRR.
RankingMetricsSound ==
    phase = "keyword" =>
       \A k \in DOMAIN Discount, relevant \in SUBSET Docs :
          LET ranked == DocRanking(dense, k)
              recall == RecallAtK(ranked, relevant, k)
              ndcg   == NdcgAtK(ranked, relevant, k)
              rr     == Mrr(ranked, relevant)
              atMost(f, g) == f[1] * g[2] <= g[1] * f[2]
          IN  /\ \A f \in {recall, ndcg, rr} : f[1] \in 0..f[2]
              /\ recall[1] > 0 <=> ndcg[1] > 0
              /\ recall[1] > 0 <=> rr[1] > 0
              /\ ndcg[1] = ndcg[2] <=>
                    /\ relevant # {}
                    /\ \A i \in 1..Lesser(Cardinality(relevant), k) :
                          i \in DOMAIN ranked /\ ranked[i] \in relevant
              /\ Cardinality(relevant) = 1 => atMost(ndcg, recall) /\ atMost(rr, ndcg)
=============================================================================
