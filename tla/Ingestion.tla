------------------------------ MODULE Ingestion ------------------------------
(***************************************************************************)
(* Ingestion of documents into the chunks table: ingest_documents() of     *)
(* app/ingestion/indexer.py over PgChunkWriter of app/ingestion/store.py,  *)
(* as POST /ingest runs it, with any number of requests in flight in one   *)
(* process, requests that fail half way, and restarts that may change the  *)
(* embedding model.                                                        *)
(*                                                                         *)
(* A version of a document stands for its text: all that matters of it is  *)
(* into how many pieces the chunker cuts it.  Each writer call is one      *)
(* transaction.  Postgres runs them at READ COMMITTED, so a DELETE removes *)
(* the matching rows of the snapshot its statement started with, in        *)
(* whatever form they have by then, and not the rows inserted since.       *)
(***************************************************************************)
EXTENDS Integers, Sequences, FiniteSets

CONSTANTS Docs,       \* doc_ids
          Versions,   \* texts a document may be given
          Pieces,     \* chunks per version; a blank text has none
          Models,     \* embedding models of one dimension
          Requests,   \* document lists that POST /ingest accepts
          Tasks,      \* requests that can be in flight at once
          Faults      \* whether requests may raise and the process restart

Documents == [doc : Docs, ver : Versions]

ASSUME PiecesAreCounts == Pieces \in [Versions -> Nat]
ASSUME RequestsAreDocumentLists == Requests \subseteq Seq(Documents) \ {<<>>}
ASSUME FaultsIsBoolean == Faults \in BOOLEAN

VARIABLES
    rows,       \* the chunks table: per document, chunk_index to the row's content
    model,      \* the provider's model_name
    phase,      \* per task: "idle", or the writer call it is about to make or making
    req,        \* the document list of the task
    pos,        \* the document of the list it is writing
    doomed,     \* indices the DELETE in progress has found
    solo,       \* documents no other request has touched so far (history variable)
    expected    \* what an undisturbed last request leaves, if there was one (history)

vars == <<rows, model, phase, req, pos, doomed, solo, expected>>

historyVars == <<solo, expected>>

-----------------------------------------------------------------------------
None == [i \in {} |-> i]

\* The rows for one version, all refreshed on conflict but created_at.
Exact(v, m) == [i \in 0..Pieces[v] - 1 |-> [ver |-> v, model |-> m]]

\* rows_by_doc collects the pieces of every entry of the request with this doc_id.
EntriesFor(r, d) == {i \in DOMAIN r : r[i].doc = d /\ Pieces[r[i].ver] > 0}

RowsFor(r, d) ==
    IF EntriesFor(r, d) = {} THEN None
    ELSE Exact(r[CHOOSE i \in EntriesFor(r, d) : TRUE].ver, model)

\* Two texts for one doc_id give two rows with the chunk_id doc_id::0, which
\* ON CONFLICT DO UPDATE refuses.
Conflicting(r, d) == Cardinality(EntriesFor(r, d)) > 1

\* Mutant: the pieces of the entry being written are counted, not the rows of its
\* document.
KeepOwn(r, p) == Pieces[r[p].ver]

\* The `keep` of delete_orphans for the document at position p.
Keep(r, p) == Cardinality(DOMAIN RowsFor(r, r[p].doc))

Merged(f, g) == [i \in DOMAIN f \cup DOMAIN g |-> IF i \in DOMAIN f THEN f[i] ELSE g[i]]

\* Mutant: ON CONFLICT DO NOTHING.
UpsertedOver(new, old) == Merged(old, new)

Upserted(new, old) == Merged(new, old)

Doc(t) == req[t][pos[t]].doc

DocsOf(r) == {r[i].doc : i \in DOMAIN r}

Active == {t \in Tasks : phase[t] # "idle"}

Last(t) == pos[t] = Len(req[t])

Init == /\ rows = [d \in Docs |-> None]
        /\ model \in Models
        /\ phase = [t \in Tasks |-> "idle"]
        /\ req = [t \in Tasks |-> <<>>]
        /\ pos = [t \in Tasks |-> 0]
        /\ doomed = [t \in Tasks |-> {}]
        /\ solo = [t \in Tasks |-> {}]
        /\ expected = [d \in Docs |-> {}]

\* A request is accepted; its texts are chunked and embedded without touching
\* anything shared.
Submit(t, r) ==
    LET busy == UNION {DocsOf(req[u]) : u \in Active}
    IN  /\ phase[t] = "idle"
        /\ phase' = [phase EXCEPT ![t] = "upsert"]
        /\ req' = [req EXCEPT ![t] = r]
        /\ pos' = [pos EXCEPT ![t] = 1]
        /\ solo' = [u \in Tasks |-> IF u = t THEN DocsOf(r) \ busy ELSE solo[u] \ DocsOf(r)]
        /\ expected' = [d \in Docs |-> IF d \in DocsOf(r) THEN {} ELSE expected[d]]
        /\ UNCHANGED <<rows, model, doomed>>

\* upsert_chunks commits; without rows it makes no statement.
Upsert(t) ==
    /\ phase[t] = "upsert"
    /\ ~Conflicting(req[t], Doc(t))
    /\ phase' = [phase EXCEPT ![t] = "prune"]
    /\ rows' = [rows EXCEPT ![Doc(t)] = Upserted(RowsFor(req[t], Doc(t)), @)]
    /\ UNCHANGED <<model, req, pos, doomed, historyVars>>

\* The DELETE of delete_orphans starts: its snapshot fixes the rows it will remove.
FindOrphans(t) ==
    /\ phase[t] = "prune"
    /\ phase' = [phase EXCEPT ![t] = "delete"]
    /\ doomed' = [doomed EXCEPT ![t] =
                     {i \in DOMAIN rows[Doc(t)] : i >= Keep(req[t], pos[t])}]
    /\ UNCHANGED <<rows, model, req, pos, historyVars>>

\* The request is over, one way or the other.
Forget(ts) == /\ phase' = [t \in Tasks |-> IF t \in ts THEN "idle" ELSE phase[t]]
              /\ req' = [t \in Tasks |-> IF t \in ts THEN <<>> ELSE req[t]]
              /\ pos' = [t \in Tasks |-> IF t \in ts THEN 0 ELSE pos[t]]
              /\ solo' = [t \in Tasks |-> IF t \in ts THEN {} ELSE solo[t]]

\* The DELETE commits, and the next document is written or the request answered.
\* What it removed is gone from the other deletions' snapshots.
DeleteOrphans(t) ==
    /\ phase[t] = "delete"
    /\ rows' = [rows EXCEPT ![Doc(t)] = [i \in DOMAIN @ \ doomed[t] |-> @[i]]]
    /\ doomed' = [u \in Tasks |->
                    IF u = t THEN {}
                    ELSE IF phase[u] = "delete" /\ Doc(u) = Doc(t) THEN doomed[u] \ doomed[t]
                    ELSE doomed[u]]
    /\ \/ /\ ~Last(t)
          /\ phase' = [phase EXCEPT ![t] = "upsert"]
          /\ pos' = [pos EXCEPT ![t] = @ + 1]
          /\ UNCHANGED <<req, historyVars>>
       \/ /\ Last(t)
          /\ Forget({t})
          /\ expected' = [d \in Docs |-> IF d \in solo[t] THEN {RowsFor(req[t], d)}
                                         ELSE expected[d]]
    /\ UNCHANGED model

\* Postgres refuses the upsert; the documents before it stay written.
RejectUpsert(t) ==
    /\ phase[t] = "upsert"
    /\ Conflicting(req[t], Doc(t))
    /\ Forget({t})
    /\ UNCHANGED <<rows, model, doomed, expected>>

\* The model, the database or the client fails the request; the transaction in
\* progress rolls back.
Raise(t) == /\ Faults
            /\ phase[t] # "idle"
            /\ Forget({t})
            /\ doomed' = [doomed EXCEPT ![t] = {}]
            /\ UNCHANGED <<rows, model, expected>>

\* The process restarts, perhaps with another embedding model in its settings.
Restart(m) == /\ Faults
              /\ model' = m
              /\ Forget(Tasks)
              /\ doomed' = [t \in Tasks |-> {}]
              /\ UNCHANGED <<rows, expected>>

Next == \/ \E t \in Tasks : \/ \E r \in Requests : Submit(t, r)
                            \/ Upsert(t)
                            \/ FindOrphans(t)
                            \/ DeleteOrphans(t)
                            \/ RejectUpsert(t)
                            \/ Raise(t)
        \/ \E m \in Models : Restart(m)

Spec == Init /\ [][Next]_vars

-----------------------------------------------------------------------------
\* Ingestion is idempotent and self-repairing: once a request that no other request
\* disturbed has been answered, each of its documents is stored exactly, index by
\* index and under one model, whatever longer, older, half-written or differently
\* embedded rows were there before.
SettledExact == \A d \in Docs : \A stored \in expected[d] : rows[d] = stored

\* A search never misses a document because it is being replaced: the first chunk of
\* a stored document goes only while a request gives it nothing but blank texts.
NonemptyNeverVanishes ==
    [][\A d \in Docs : 0 \in DOMAIN rows[d] /\ 0 \notin DOMAIN rows'[d] =>
          \E t \in Active : d \in DocsOf(req[t]) /\ EntriesFor(req[t], d) = {}]_vars

\* "Re-running ingestion upserts in place; orphaned chunks from a now-shorter document
\* are pruned": when every request has been answered, each document is one version.
WholeWhenQuiet ==
    Active = {} => \A d \in Docs : \E v \in Versions, m \in Models : rows[d] \in {None, Exact(v, m)}
=============================================================================
