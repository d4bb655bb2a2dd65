------------------------------ MODULE Retrieval ------------------------------
(***************************************************************************)
(* One call of RetrievalService.retrieve() (app/retrieval/service.py): the *)
(* check of the embedding model, the dense and the keyword search, each in *)
(* a transaction of its own while other processes ingest, and the fusion   *)
(* of app/retrieval/rrf.py.                                                *)
(*                                                                         *)
(* chunk_ids are numbers, so that they compare; a search returns any       *)
(* ranking of rows of the table that pass the filters.                     *)
(***************************************************************************)
EXTENDS Places, Sequences, Functions

CONSTANTS Ids,        \* chunk_ids, in their string order
          Calls,      \* what a call may be given: see `call`
          ModelOf,    \* what a chunk may say, each time with the embedding model of its
                      \* row: a function from texts to models
          QueryModel, \* model_name of the provider
          Tables,     \* contents of the chunks table, chunk_id to text
          RrfK,       \* settings.rrf_k
          TopK,       \* top_k
          Scale       \* how many units a score of 1 has: scores are whole numbers here

ASSUME IdsAreNumbers == Ids \subseteq Nat /\ IsFiniteSet(Ids)
ASSUME CallsAreCalls == Calls \subseteq [allowed : SUBSET Ids, reranking : BOOLEAN]
ASSUME TablesAreTables ==
    \A t \in Tables : DOMAIN t \subseteq Ids /\ Range(t) \subseteq DOMAIN ModelOf
ASSUME ParametersArePositive == RrfK \in Nat \ {0} /\ TopK \in Nat \ {0}
ASSUME ScaleDivides ==
    Scale \in Nat \ {0} /\ \A rank \in 1..Cardinality(Ids) : Scale % (RrfK + rank) = 0

VARIABLES phase,     \* "check", "dense", "keyword", "done" or "failed"
          call,      \* the chunks that pass its filters, and settings.reranker_enabled
          table,     \* the chunks table
          matched,   \* at the check the rows were all of one model, and the table has not
                     \* been replaced between it and the dense search (history)
          dense,     \* what the dense search returned
          keyword,   \* what the keyword search returned
          result     \* what the caller gets

searchVars == <<phase, call, table, matched, dense, keyword, result>>

-----------------------------------------------------------------------------
\* How many hits each search is asked for.
Pool == IF TopK * 4 > 25 THEN TopK * 4 ELSE 25

\* The lists a search may return: distinct rows that pass the filters, with their text.
Rankings(t) ==
    LET hits == (DOMAIN t) \cap call.allowed
    IN  {[i \in DOMAIN s |-> [id |-> s[i], text |-> t[s[i]]]] :
            s \in {r \in UNION {[1..n -> hits] : n \in 0..Cardinality(hits)} :
                      Len(r) <= Pool /\ \A i, j \in DOMAIN r : r[i] = r[j] => i = j}}

\* 1 / (k + rank).
Reciprocal(rank) == Scale \div (RrfK + rank)

\* Mutant: the score of the last list replaces the others.
ScoredByLast(scores, list) ==
    [c \in Ids |-> IF \E i \in DOMAIN list : list[i].id = c
                   THEN Reciprocal(CHOOSE i \in DOMAIN list : list[i].id = c)
                   ELSE scores[c]]

\* `scores` after one ranking has been gone through.
Scored(scores, list) ==
    [c \in Ids |-> IF \E i \in DOMAIN list : list[i].id = c
                   THEN scores[c] + Reciprocal(CHOOSE i \in DOMAIN list : list[i].id = c)
                   ELSE scores[c]]

Scores(first, second) == Scored(Scored([c \in Ids |-> 0], first), second)

\* Mutant: every hit is kept, not the first for its chunk.
AllRepresented(reps, list) == reps \o list

\* `representative` after one ranking: the first instance of each chunk stays.
Represented(reps, list) ==
    reps \o Keeping(list, {i \in DOMAIN list : \A j \in DOMAIN reps : reps[j].id # list[i].id})

Representatives(first, second) == Represented(Represented(<<>>, first), second)

\* Mutant: equal scores are left in the order of first appearance.
AheadByScore(scores, c, d) == scores[c] > scores[d]

\* The sort key is (score, chunk_id), in descending order.
Ahead(scores, c, d) == \/ scores[c] > scores[d]
                       \/ scores[c] = scores[d] /\ c > d

\* The place of a representative in that order; the sort is stable.
Standing(reps, scores, i) ==
    Cardinality({j \in DOMAIN reps : \/ Ahead(scores, reps[j].id, reps[i].id)
                                     \/ ~Ahead(scores, reps[i].id, reps[j].id) /\ j <= i})

\* reciprocal_rank_fusion, of the two rankings it is called with.
Fused(first, second) ==
    LET reps   == Representatives(first, second)
        scores == Scores(first, second)
    IN  [p \in DOMAIN reps |-> reps[CHOOSE i \in DOMAIN reps : Standing(reps, scores, i) = p]]

Cut(s) == SubSeq(s, 1, IF Len(s) < TopK THEN Len(s) ELSE TopK)

\* The reranker sorts by scores of its own.
Reranked(s) == {[i \in DOMAIN s |-> s[p[i]]] :
                   p \in {f \in [DOMAIN s -> DOMAIN s] : \A i, j \in DOMAIN s : f[i] = f[j] => i = j}}

-----------------------------------------------------------------------------
SearchInit == /\ phase = "check"
              /\ call \in Calls
              /\ table \in Tables
              /\ matched = FALSE
              /\ dense = <<>> /\ keyword = <<>> /\ result = <<>>

\* Mutant: the stored model is not compared.
StoredModelIgnored == TRUE

\* stored_embedding_model() is that of any row, if there is one.
StoredModelFits == DOMAIN table = {} \/ \E c \in DOMAIN table : ModelOf[table[c]] = QueryModel

CheckPasses == /\ phase = "check"
               /\ StoredModelFits
               /\ phase' = "dense"
               /\ matched' = (Cardinality({ModelOf[table[c]] : c \in DOMAIN table}) <= 1)
               /\ UNCHANGED <<call, table, dense, keyword, result>>

SearchDense == /\ phase = "dense"
               /\ phase' = "keyword"
               /\ dense' \in Rankings(table)
               /\ UNCHANGED <<call, table, matched, keyword, result>>

\* The keyword search returns; the rest runs without touching the table.
SearchKeyword ==
    /\ phase = "keyword"
    /\ phase' = "done"
    /\ keyword' \in Rankings(table)
    /\ \/ ~call.reranking /\ result' = Cut(Fused(dense, keyword'))
       \/ call.reranking /\ result' \in {Cut(s) : s \in Reranked(Fused(dense, keyword'))}
    /\ UNCHANGED <<call, table, matched, dense>>

\* The stored model differs from the query model, or an await raises.
SearchFails == /\ phase \in {"check", "dense", "keyword"}
               /\ phase' = "failed"
               /\ UNCHANGED <<call, table, matched, dense, keyword, result>>

\* Another request ingests.
Ingest(t) == /\ phase \in {"check", "dense", "keyword"}
             /\ table' = t
             /\ matched' = (matched /\ phase = "keyword")
             /\ UNCHANGED <<phase, call, dense, keyword, result>>

SearchEnded == phase \in {"done", "failed"} /\ UNCHANGED searchVars

SearchNext == \/ CheckPasses
              \/ SearchDense
              \/ SearchKeyword
              \/ SearchFails
              \/ \E t \in Tables : Ingest(t)
              \/ SearchEnded

SearchSpec == SearchInit /\ [][SearchNext]_searchVars

-----------------------------------------------------------------------------
IdsOf(s) == [i \in DOMAIN s |-> s[i].id]

Found == {IdsOf(dense)[i] : i \in DOMAIN dense} \cup {IdsOf(keyword)[i] : i \in DOMAIN keyword}

\* The rank of a chunk in a list; absent comes after everything.
RankIn(list, c) ==
    IF \E i \in DOMAIN list : list[i].id = c
    THEN CHOOSE i \in DOMAIN list : list[i].id = c
    ELSE Cardinality(Ids) + 1

\* Even when a chunk was re-ingested between the two searches and they return it with
\* two texts, it is returned once, and as many chunks are returned as were asked for
\* or found, all of which pass the filters.
OneHitPerChunk ==
    phase = "done" => /\ IsInjective(IdsOf(result))
                      /\ \A i \in DOMAIN result : result[i].id \in call.allowed
                      /\ Len(result) = IF Cardinality(Found) < TopK THEN Cardinality(Found) ELSE TopK

\* A query is compared with vectors of its own model only, although the check looks at
\* one arbitrary row and the search comes later: unless the table held rows of several
\* models, or was replaced in between.
VectorsComparable ==
    matched /\ phase \in {"keyword", "done"} =>
       \A i \in DOMAIN dense : ModelOf[dense[i].text] = QueryModel

\* A chunk that neither search ranks below another, and one ranks above it, is returned
\* ahead of it.
AgreementPrevails ==
    \A c, d \in Found :
       /\ RankIn(dense, c) <= RankIn(dense, d) /\ RankIn(keyword, c) <= RankIn(keyword, d)
       /\ c # d
       /\ RankIn(result, d) <= Len(result)
       => RankIn(result, c) < RankIn(result, d)

\* The order is the one fusion gives with the searches exchanged.
SearchesAreEqual == IdsOf(result) = IdsOf(Cut(Fused(keyword, dense)))

\* Fusion respects agreement of the two searches, and favours neither, whatever chunks
\* they share, miss or tie on.
FusionIsFair == phase = "done" /\ ~call.reranking => AgreementPrevails /\ SearchesAreEqual
=============================================================================
