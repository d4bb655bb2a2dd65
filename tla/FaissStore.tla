----------------------------- MODULE FaissStore -----------------------------
(***************************************************************************)
(* The derived FAISS index of app/retrieval/faiss_store.py: an in-memory   *)
(* index with its id map, persisted in two files, loaded or rebuilt from   *)
(* the chunks table by the coroutines of one process.                      *)
(*                                                                         *)
(* A vector is identified with the row it was computed from, so an index   *)
(* is a list of rows; `_id_map` and `_meta`, always assigned together, are *)
(* the list of ids and texts a hit is answered with.  The table, which     *)
(* other processes fill, is the environment.                               *)
(***************************************************************************)
EXTENDS Integers, Sequences, FiniteSets

CONSTANTS Ids, Texts,   \* chunk_ids, and what their rows say
          Models,       \* embedding models of the store's dimension
          LlmNames,     \* names of language models
          Callers,      \* whose name is passed as embedding_model: "provider", that of the
                        \* embedding provider, or "llm", that of the language model
          Corpora,      \* contents the table may be given
          Tasks, Ops    \* coroutines, and the methods they call; "open" is ensure()
                        \* called before the store is shared

Labels   == [id : Ids, text : Texts]
Rows     == [id : Ids, text : Texts, model : Models]
Unlocked == "unlocked"

ASSUME CorporaAreLabelLists == Corpora \subseteq Seq(Labels)
ASSUME OpsAreMethods == Ops \subseteq {"open", "rebuild", "search"}
ASSUME NamesAreApart == LlmNames \cap Models = {}
ASSUME CallersAreKnown == Callers \subseteq {"provider", "llm"}
ASSUME TasksAreNotTheLock == Unlocked \notin Tasks

VARIABLES
    corpus, active,         \* the chunks table, and the active embedding model
    index, labels, stamp,   \* _index; _id_map and _meta; _embedding_model
    indexFile, mapFile,     \* the two files, as sets of at most one content
    lock,                   \* _lock
    pc, asked, local,       \* per task: where it is suspended; its argument
                            \* embedding_model; the rows it holds
    answer,                 \* per task: what its last search matched and returned
    quiet,                  \* searches during which the index was not replaced (history)
    torn,                   \* a process died between the two files, and no build has
                            \* repaired them since (history)
    foreign,                \* an index was built from rows of another model than the
                            \* active one (history)
    serving,                \* the name the latest call passed, unless a call has failed
                            \* since or one with another name was unfinished (history)
    fetched                 \* what every unfinished and the last finished rebuild fetched
                            \* is what the table holds (history)

memory  == <<index, labels, stamp>>
files   == <<indexFile, mapFile>>
history == <<quiet, torn, foreign, fetched, serving>>
vars    == <<corpus, active, memory, files, lock, pc, asked, local, answer, history>>

-----------------------------------------------------------------------------
LabelsOf(rows) == [i \in DOMAIN rows |-> [id |-> rows[i].id, text |-> rows[i].text]]

Init == /\ corpus = <<>>
        /\ active \in Models
        /\ index = <<>> /\ labels = <<>> /\ stamp = "none"
        /\ indexFile = {} /\ mapFile = {}
        /\ lock = Unlocked
        /\ pc = [t \in Tasks |-> "idle"]
        /\ asked = [t \in Tasks |-> "none"]
        /\ local = [t \in Tasks |-> <<>>]
        /\ answer = [t \in Tasks |-> {}]
        /\ quiet = {} /\ torn = FALSE /\ foreign = FALSE /\ fetched = FALSE
        /\ serving = {}

\* Task t moves on from one point to another, and forgets its last answer.
Goto(t, from, to) == /\ pc[t] = from
                     /\ pc' = [pc EXCEPT ![t] = to]
                     /\ answer' = [answer EXCEPT ![t] = {}]

\* What a caller may pass as embedding_model: the benchmark script and the tests take
\* the model_name of the embedding provider, the evaluation harness that of the LLM.
NamesPassed == (IF "provider" \in Callers THEN {active} ELSE {})
               \cup (IF "llm" \in Callers THEN LlmNames ELSE {})

Rebuilding == {"fetch", "lock", "build"}

\* The latest call passed this name.
Called(name) ==
    serving' = {n \in {name} : \A u \in Tasks : pc[u] \in Rebuilding => asked[u] = n}

\* Task t has to rebuild.
StartRebuild(t, name) == /\ Goto(t, "idle", "fetch")
                         /\ asked' = [asked EXCEPT ![t] = name]

\* Mutant: a loaded index is used whatever its stamp.
FitsAlways(side, name) == TRUE

Fits(side, name) == side.stamp = name

Opening == "open" \in Ops /\ \A t \in Tasks : pc[t] = "idle"

\* ensure() finds both files and loads them; a stamp other than its argument leads to a
\* rebuild.
EnsureLoads(t, name) ==
    /\ Opening
    /\ \E rows \in indexFile, side \in mapFile :
          /\ index' = rows
          /\ labels' = side.labels
          /\ stamp' = side.stamp
          /\ IF Fits(side, name) THEN Goto(t, "idle", "idle") /\ UNCHANGED asked
                                 ELSE StartRebuild(t, name)
    /\ Called(name)
    /\ fetched' = FALSE
    /\ UNCHANGED <<corpus, active, files, lock, local, quiet, torn, foreign>>

\* rebuild_from_pg() is called, or load_all() and build(), or ensure() finds a file missing.
Rebuild(t, name) ==
    /\ \/ "rebuild" \in Ops
       \/ Opening /\ (indexFile = {} \/ mapFile = {})
    /\ StartRebuild(t, name)
    /\ Called(name)
    /\ UNCHANGED <<corpus, active, memory, files, lock, local, quiet, torn, foreign, fetched>>

\* load_all() returns every row of the table.
Fetch(t) == /\ Goto(t, "fetch", "lock")
            /\ local' = [local EXCEPT ![t] = corpus]
            /\ fetched' = (fetched \/ \A u \in Tasks \ {t} : pc[u] \notin {"lock", "build"})
            /\ UNCHANGED <<corpus, active, memory, files, lock, asked, quiet, torn, foreign, serving>>

\* Mutant: build() does not wait for the lock.
FreeAlways == TRUE

Free == lock = Unlocked

\* build() enters its critical section.
Acquire(t) == /\ Free
              /\ lock' = t
              /\ Goto(t, "lock", "build")
              /\ UNCHANGED <<corpus, active, memory, files, asked, local, history>>

\* Mutant: the new ids are appended to _id_map.
RelabelledByAppending(rows) == labels \o LabelsOf(rows)

Relabelled(rows) == LabelsOf(rows)

\* The index has been built in a thread; the four fields are assigned.
Built(t) == /\ Goto(t, "build", "write_index")
            /\ index' = local[t]
            /\ labels' = Relabelled(local[t])
            /\ stamp' = asked[t]
            /\ asked' = [asked EXCEPT ![t] = "none"]
            /\ local' = [local EXCEPT ![t] = <<>>]
            /\ quiet' = {}
            /\ foreign' = (foreign \/ \E i \in DOMAIN local[t] : local[t][i].model # active)
            /\ UNCHANGED <<corpus, active, files, lock, torn, fetched, serving>>

\* _persist(), in a thread: the index file is written first.
WriteIndex(t) == /\ Goto(t, "write_index", "write_map")
                 /\ indexFile' = {index}
                 /\ UNCHANGED <<corpus, active, memory, mapFile, lock, asked, local, history>>

\* Then the map file; the lock is released on the way out.
WriteMap(t) == /\ Goto(t, "write_map", "idle")
               /\ mapFile' = {[labels |-> labels, stamp |-> stamp]}
               /\ lock' = Unlocked
               /\ torn' = FALSE
               /\ UNCHANGED <<corpus, active, memory, indexFile, asked, local, quiet, foreign,
                              fetched, serving>>

\* load_all(), the build or a write raises, and the call with it.  The lock is given back;
\* what has been assigned or written stays: in ensure() also an index that was loaded with
\* a stamp that does not fit.
Raises(t) == /\ pc[t] \in {"fetch", "build", "write_index", "write_map"}
             /\ Goto(t, pc[t], "idle")
             /\ lock' = IF lock = t THEN Unlocked ELSE lock
             /\ asked' = [asked EXCEPT ![t] = "none"]
             /\ local' = [local EXCEPT ![t] = <<>>]
             /\ torn' = (torn \/ pc[t] = "write_map")
             /\ fetched' = (fetched /\ pc[t] = "fetch")
             /\ serving' = {}
             /\ UNCHANGED <<corpus, active, memory, files, quiet, foreign>>

\* search() hands the index of the moment to a thread.
Search(t) == /\ "search" \in Ops
             /\ index # <<>> /\ labels # <<>>
             /\ Goto(t, "idle", "search")
             /\ local' = [local EXCEPT ![t] = index]
             /\ quiet' = quiet \cup {t}
             /\ UNCHANGED <<corpus, active, memory, files, lock, asked, torn, foreign, fetched, serving>>

\* The thread answers with positions; one of them is resolved through the map of
\* this moment.  A position outside it is an IndexError.
SearchReturns(t, hit) ==
    /\ pc[t] = "search"
    /\ pc' = [pc EXCEPT ![t] = "idle"]
    /\ answer' = [answer EXCEPT ![t] =
                     {[matched  |-> LabelsOf(local[t])[hit],
                       returned |-> IF hit \in DOMAIN labels THEN {labels[hit]} ELSE {}]}]
    /\ local' = [local EXCEPT ![t] = <<>>]
    /\ UNCHANGED <<corpus, active, memory, files, lock, asked, history>>

\* Another process ingests, under the active model.
Ingest(c) == /\ corpus' = [i \in DOMAIN c |->
                              [id |-> c[i].id, text |-> c[i].text, model |-> active]]
             /\ fetched' = FALSE
             /\ UNCHANGED <<active, memory, files, lock, pc, asked, local, answer, quiet, torn,
                            foreign, serving>>

\* The process ends, between two methods or in the middle of one, and a new one
\* starts, perhaps with another model in its settings.
Restart(m) == /\ torn' = (torn \/ \E t \in Tasks : pc[t] = "write_map")
              /\ active' = m
              /\ index' = <<>> /\ labels' = <<>> /\ stamp' = "none"
              /\ lock' = Unlocked
              /\ pc' = [t \in Tasks |-> "idle"]
              /\ asked' = [t \in Tasks |-> "none"]
              /\ local' = [t \in Tasks |-> <<>>]
              /\ answer' = [t \in Tasks |-> {}]
              /\ quiet' = {} /\ fetched' = FALSE /\ serving' = {}
              /\ UNCHANGED <<corpus, files, foreign>>

Next == \/ \E t \in Tasks : \/ \E name \in NamesPassed : EnsureLoads(t, name) \/ Rebuild(t, name)
                            \/ Fetch(t)
                            \/ Acquire(t)
                            \/ Built(t)
                            \/ WriteIndex(t)
                            \/ WriteMap(t)
                            \/ Raises(t)
                            \/ Search(t)
                            \/ \E hit \in DOMAIN local[t] : SearchReturns(t, hit)
        \/ \E c \in Corpora : Ingest(c)
        \/ \E m \in Models : Restart(m)

Spec == Init /\ [][Next]_vars

-----------------------------------------------------------------------------
Building == {"build", "write_index", "write_map"}

AllIdle == \A t \in Tasks : pc[t] = "idle"

\* Index, map and files are of one build.  The lock is held exactly by the task that
\* builds or persists, and given back; in memory the map names, position by position,
\* the row its vector came from; and while nothing is built the two files agree in the
\* same way.  A crash between the files breaks this until a build has been completed.
LockIsHeldByBuilder == \A t \in Tasks : pc[t] \in Building <=> lock = t

FilesAgree == lock = Unlocked /\ ~torn =>
    \A rows \in indexFile : \A side \in mapFile : side.labels = LabelsOf(rows)

MapMatchesIndex == ~torn => labels = LabelsOf(index)

IndexIsOneBuild == LockIsHeldByBuilder /\ FilesAgree /\ MapMatchesIndex

\* A search returns the chunk whose vector it matched, and does not fail, if the index
\* was not replaced meanwhile.
QuietSearchReturnsMatch ==
    \A t \in quiet : ~torn => \A a \in answer[t] : a.returned = {a.matched}

\* What a stamp is worth: ensure() or a rebuild that is done leaves an index with the name
\* it was given as its stamp, and an index stamped with an embedding model holds vectors of
\* that model.  So a caller that passes the provider's name gets vectors of the active
\* model, whatever other callers stamp, earlier processes wrote or calls left that raised;
\* as long as tables were of the model active when an index was built from them.
StampIsOfIndex ==
    /\ AllIdle => \A name \in serving : stamp = name
    /\ ~torn /\ ~foreign /\ stamp \in Models =>
          \A i \in DOMAIN index : index[i].model = stamp

\* "If the files are missing or the stamped embedding model differs, the index is rebuilt
\* from pgvector": after ensure() or a rebuild the vectors are of the active model.
IndexOfActiveModel ==
    AllIdle /\ ~torn /\ ~foreign /\ serving # {} => \A i \in DOMAIN index : index[i].model = active

\* A rebuild is of the table: once the tasks are done, index and files hold its rows, under
\* one stamp, unless something was ingested since they fetched, or a rebuild overlapped
\* with one that had fetched other rows, or failed.
RebuiltIndexIsTable ==
    fetched /\ AllIdle => /\ index = corpus
                          /\ indexFile = {corpus}
                          /\ mapFile = {[labels |-> LabelsOf(corpus), stamp |-> stamp]}
=============================================================================
