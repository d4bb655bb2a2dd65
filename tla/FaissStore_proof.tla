-------------------------- MODULE FaissStore_proof --------------------------
(***************************************************************************)
(* Proofs about the FAISS index: for every set of chunks, models and tasks *)
(* and every sequence of ingests, rebuilds, searches, failures and         *)
(* restarts, the four invariants the run checks hold; and the one that a   *)
(* run finds violated holds of callers that pass the provider's name.      *)
(***************************************************************************)
EXTENDS FaissStore, TLAPS

Writing  == {"write_index", "write_map"}
Waiting  == {"lock", "build"}
Writes   == \E t \in Tasks : pc[t] \in Writing
Awaits   == \E t \in Tasks : pc[t] \in Waiting
Halfway  == \E t \in Tasks : pc[t] = "write_map"

\* The steps of one task.
TaskStep(t) == \/ \E name \in NamesPassed : EnsureLoads(t, name) \/ Rebuild(t, name)
               \/ Fetch(t) \/ Acquire(t) \/ Built(t)
               \/ WriteIndex(t) \/ WriteMap(t) \/ Raises(t) \/ Search(t)
               \/ \E hit \in DOMAIN local[t] : SearchReturns(t, hit)

\* Per task there is one point, one argument, one list of rows and one answer.
Shape == /\ DOMAIN pc = Tasks /\ DOMAIN asked = Tasks
         /\ DOMAIN local = Tasks /\ DOMAIN answer = Tasks

\* While a build is persisted, the map is of its index, and so is the index file once
\* it is written; outside of that the two files agree, unless a process died there.
IndexInv ==
    /\ Shape
    /\ LockIsHeldByBuilder
    /\ MapMatchesIndex
    /\ Writes => labels = LabelsOf(index)
    /\ Halfway => indexFile = {index}
    /\ ~torn /\ ~Halfway =>
          \A rows \in indexFile : \A side \in mapFile : side.labels = LabelsOf(rows)

\* A search that no build has overtaken still looks at the index of the store.
SearchInv ==
    \A t \in quiet :
       /\ t \in Tasks
       /\ pc[t] = "search" => local[t] = index
       /\ ~torn \/ Writes => \A a \in answer[t] : a.returned = {a.matched}

\* Rows are of the model their stamp names, if it names one.
Honest(rows, name) == name \in Models => \A i \in DOMAIN rows : rows[i].model = name

Stamped == \A rows \in indexFile : \A side \in mapFile : Honest(rows, side.stamp)

\* A name that is an embedding model was passed as the active one.
ModelInv ==
    /\ active \in Models
    /\ \A t \in Tasks : pc[t] \in Rebuilding /\ asked[t] \in Models => asked[t] = active
    /\ ~foreign => /\ ~torn \/ Writes => Honest(index, stamp)
                   /\ ~torn /\ ~Halfway => Stamped

\* The latest call is on its way to give the index its name, or has done so.
ServingInv ==
    \A name \in serving :
       /\ \A t \in Tasks : pc[t] \in Rebuilding => asked[t] = name
       /\ (\A t \in Tasks : pc[t] \notin Rebuilding) => stamp = name
       /\ name \in Models => name = active

\* The rows of the table are on their way to the index, or have got there.
RebuildInv ==
    fetched =>
       /\ \A t \in Tasks : pc[t] \in Waiting => local[t] = corpus
       /\ \/ Awaits
          \/ /\ index = corpus /\ labels = LabelsOf(corpus)
             /\ Halfway => indexFile = {corpus}
             /\ ~Writes => /\ indexFile = {corpus}
                           /\ mapFile = {[labels |-> LabelsOf(corpus), stamp |-> stamp]}

-----------------------------------------------------------------------------
LEMMA NextIsOfTasks ==
    Next => \/ \E t \in Tasks : TaskStep(t)
            \/ \E c \in Corpora : Ingest(c)
            \/ \E m \in Models : Restart(m)
  BY DEF Next, TaskStep

\* What LabelsOf returns.
LEMMA LabelsOfEmpty == LabelsOf(<<>>) = <<>>
  BY DEF LabelsOf

LEMMA LabelsOfDomain == \A rows : DOMAIN LabelsOf(rows) = DOMAIN rows
  BY DEF LabelsOf

-----------------------------------------------------------------------------
LEMMA IndexInit == Init => IndexInv
  <1> SUFFICES ASSUME Init PROVE IndexInv
    OBVIOUS
  <1>1. labels = LabelsOf(index)
    BY LabelsOfEmpty DEF Init
  <1> QED
    BY <1>1, TasksAreNotTheLock
    DEF Init, IndexInv, Shape, LockIsHeldByBuilder, MapMatchesIndex, Building,
        Writes, Writing, Halfway, Unlocked

LEMMA IndexStep == IndexInv /\ [Next]_vars => IndexInv'
  <1> SUFFICES ASSUME IndexInv, [Next]_vars PROVE IndexInv'
    OBVIOUS
  <1> USE DEF IndexInv, Shape, LockIsHeldByBuilder, MapMatchesIndex, Building,
              Writes, Writing, Halfway
  <1>1. ASSUME NEW t \in Tasks, NEW name \in NamesPassed, EnsureLoads(t, name) PROVE IndexInv'
    BY <1>1 DEF EnsureLoads, Opening, Fits, StartRebuild, Called, Goto, files
  <1>2. ASSUME NEW t \in Tasks, NEW name \in NamesPassed, Rebuild(t, name) PROVE IndexInv'
    BY <1>2 DEF Rebuild, StartRebuild, Called, Goto, memory, files
  <1>3. ASSUME NEW t \in Tasks, Fetch(t) PROVE IndexInv'
    BY <1>3 DEF Fetch, Goto, memory, files
  <1>4. ASSUME NEW t \in Tasks, Acquire(t) PROVE IndexInv'
    BY <1>4, TasksAreNotTheLock DEF Acquire, Free, Goto, memory, files, history
  <1>5. ASSUME NEW t \in Tasks, Built(t) PROVE IndexInv'
    BY <1>5 DEF Built, Relabelled, Goto, files
  <1>6. ASSUME NEW t \in Tasks, WriteIndex(t) PROVE IndexInv'
    BY <1>6 DEF WriteIndex, Goto, memory, history
  <1>7. ASSUME NEW t \in Tasks, WriteMap(t) PROVE IndexInv'
    BY <1>7, TasksAreNotTheLock DEF WriteMap, Goto, memory
  <1>8. ASSUME NEW t \in Tasks, Search(t) PROVE IndexInv'
    BY <1>8 DEF Search, Goto, memory, files
  <1>9. ASSUME NEW t \in Tasks, NEW hit \in DOMAIN local[t], SearchReturns(t, hit)
        PROVE  IndexInv'
    BY <1>9 DEF SearchReturns, memory, files, history
  <1>10. ASSUME NEW c \in Corpora, Ingest(c) PROVE IndexInv'
    BY <1>10 DEF Ingest, memory, files
  <1>11. ASSUME NEW m \in Models, Restart(m) PROVE IndexInv'
    BY <1>11, LabelsOfEmpty, TasksAreNotTheLock DEF Restart, files
  <1>13. ASSUME NEW t \in Tasks, Raises(t) PROVE IndexInv'
    BY <1>13, TasksAreNotTheLock DEF Raises, Goto, memory, files
  <1>12. CASE UNCHANGED vars
    BY <1>12 DEF vars, memory, files, history
  <1> QED
    BY <1>1, <1>2, <1>3, <1>4, <1>5, <1>6, <1>7, <1>8, <1>9, <1>10, <1>11, <1>12,
       <1>13,        NextIsOfTasks DEF TaskStep

-----------------------------------------------------------------------------
LEMMA SearchInit == Init => SearchInv
  BY DEF Init, SearchInv

LEMMA SearchStep == IndexInv /\ SearchInv /\ [Next]_vars => SearchInv'
  <1> SUFFICES ASSUME IndexInv, SearchInv, [Next]_vars PROVE SearchInv'
    OBVIOUS
  <1> USE DEF SearchInv, Writes, Writing
  <1>0. Shape
    BY DEF IndexInv
  <1> USE DEF Shape
  <1>1. ASSUME NEW t \in Tasks, NEW name \in NamesPassed, EnsureLoads(t, name) PROVE SearchInv'
    BY <1>0, <1>1 DEF EnsureLoads, Opening, Fits, StartRebuild, Called, Goto
  <1>2. ASSUME NEW t \in Tasks, NEW name \in NamesPassed, Rebuild(t, name) PROVE SearchInv'
    BY <1>0, <1>2 DEF Rebuild, StartRebuild, Called, Goto, memory
  <1>3. ASSUME NEW t \in Tasks, Fetch(t) PROVE SearchInv'
    BY <1>0, <1>3 DEF Fetch, Goto, memory
  <1>4. ASSUME NEW t \in Tasks, Acquire(t) PROVE SearchInv'
    BY <1>0, <1>4 DEF Acquire, Goto, memory, history
  <1>5. ASSUME NEW t \in Tasks, Built(t) PROVE SearchInv'
    BY <1>5 DEF Built
  <1>6. ASSUME NEW t \in Tasks, WriteIndex(t) PROVE SearchInv'
    BY <1>0, <1>6 DEF WriteIndex, Goto, memory, history
  <1>7. ASSUME NEW t \in Tasks, WriteMap(t) PROVE SearchInv'
    BY <1>0, <1>7 DEF WriteMap, Goto, memory
  <1>8. ASSUME NEW t \in Tasks, Search(t) PROVE SearchInv'
    BY <1>0, <1>8 DEF Search, Goto, memory
  <1>9. ASSUME NEW t \in Tasks, NEW hit \in DOMAIN local[t], SearchReturns(t, hit)
        PROVE  SearchInv'
    <2>1. /\ index' = index /\ quiet' = quiet /\ torn' = torn /\ labels' = labels
          /\ DOMAIN pc' = Tasks /\ pc[t] = "search" /\ pc'[t] = "idle"
          /\ \A u \in Tasks \ {t} : pc'[u] = pc[u] /\ local'[u] = local[u]
                                    /\ answer'[u] = answer[u]
          /\ answer'[t] = {[matched  |-> LabelsOf(local[t])[hit],
                            returned |-> IF hit \in DOMAIN labels THEN {labels[hit]}
                                                                  ELSE {}]}
      BY <1>0, <1>9 DEF SearchReturns, memory, history
    <2>2. Writes' = Writes
      BY <2>1
    <2>3. ASSUME t \in quiet, ~torn \/ Writes
          PROVE  \A a \in answer'[t] : a.returned = {a.matched}
      <3>1. labels = LabelsOf(index)
        BY <2>3 DEF IndexInv, MapMatchesIndex
      <3>2. local[t] = index
        BY <2>1, <2>3
      <3>3. hit \in DOMAIN labels
        BY <3>1, <3>2, LabelsOfDomain
      <3> QED
        BY <2>1, <3>1, <3>2, <3>3
    <2> HIDE DEF Writes
    <2> QED
      BY <2>1, <2>2, <2>3
  <1>10. ASSUME NEW c \in Corpora, Ingest(c) PROVE SearchInv'
    BY <1>10 DEF Ingest, memory
  <1>11. ASSUME NEW m \in Models, Restart(m) PROVE SearchInv'
    BY <1>11 DEF Restart
  <1>13. ASSUME NEW t \in Tasks, Raises(t) PROVE SearchInv'
    BY <1>0, <1>13 DEF Raises, Goto, memory, files
  <1>12. CASE UNCHANGED vars
    BY <1>12 DEF vars, memory, history
  <1> QED
    BY <1>1, <1>2, <1>3, <1>4, <1>5, <1>6, <1>7, <1>8, <1>9, <1>10, <1>11, <1>12,
       <1>13,        NextIsOfTasks DEF TaskStep

-----------------------------------------------------------------------------
LEMMA ModelInit == Init => ModelInv
  BY DEF Init, ModelInv, Writes, Writing, Halfway, Stamped, Honest, Rebuilding

LEMMA ModelStep == IndexInv /\ ModelInv /\ [Next]_vars => ModelInv'
  <1> SUFFICES ASSUME IndexInv, ModelInv, [Next]_vars PROVE ModelInv'
    OBVIOUS
  <1> USE DEF ModelInv, Writes, Writing, Halfway, Stamped, Honest, Rebuilding
  <1>0. Shape /\ LockIsHeldByBuilder /\ (Halfway => indexFile = {index})
    BY DEF IndexInv
  <1> USE DEF Shape, LockIsHeldByBuilder, Building
  <1>a. ASSUME NEW name \in NamesPassed, name \in Models PROVE name = active
    BY <1>a, NamesAreApart DEF NamesPassed
  <1>1. ASSUME NEW t \in Tasks, NEW name \in NamesPassed, EnsureLoads(t, name) PROVE ModelInv'
    BY <1>0, <1>a, <1>1 DEF EnsureLoads, Opening, Fits, StartRebuild, Called, Goto, files
  <1>2. ASSUME NEW t \in Tasks, NEW name \in NamesPassed, Rebuild(t, name) PROVE ModelInv'
    BY <1>0, <1>a, <1>2 DEF Rebuild, StartRebuild, Called, Goto, memory, files
  <1>3. ASSUME NEW t \in Tasks, Fetch(t) PROVE ModelInv'
    BY <1>0, <1>3 DEF Fetch, Goto, memory, files
  <1>4. ASSUME NEW t \in Tasks, Acquire(t) PROVE ModelInv'
    BY <1>0, <1>4 DEF Acquire, Free, Goto, memory, files, history
  <1>5. ASSUME NEW t \in Tasks, Built(t) PROVE ModelInv'
    BY <1>0, <1>5 DEF Built, Goto, files
  <1>6. ASSUME NEW t \in Tasks, WriteIndex(t) PROVE ModelInv'
    BY <1>0, <1>6 DEF WriteIndex, Goto, memory, history
  <1>7. ASSUME NEW t \in Tasks, WriteMap(t) PROVE ModelInv'
    BY <1>0, <1>7, TasksAreNotTheLock DEF WriteMap, Goto, memory
  <1>8. ASSUME NEW t \in Tasks, Search(t) PROVE ModelInv'
    BY <1>0, <1>8 DEF Search, Goto, memory, files
  <1>9. ASSUME NEW t \in Tasks, NEW hit \in DOMAIN local[t], SearchReturns(t, hit)
        PROVE  ModelInv'
    BY <1>0, <1>9 DEF SearchReturns, memory, files, history
  <1>10. ASSUME NEW c \in Corpora, Ingest(c) PROVE ModelInv'
    BY <1>10 DEF Ingest, memory, files
  <1>11. ASSUME NEW m \in Models, Restart(m) PROVE ModelInv'
    <2>1. Honest(index, stamp)' /\ ~Writes' /\ active' \in Models
          /\ \A t \in Tasks : pc'[t] \notin Rebuilding
      BY <1>11 DEF Restart
    <2>2. ~torn' => ~torn /\ ~Halfway
      BY <1>11 DEF Restart
    <2>3. Stamped' = Stamped /\ foreign' = foreign
      BY <1>11 DEF Restart, files
    <2> HIDE DEF Honest, Writes, Halfway, Stamped, Rebuilding
    <2> QED
      BY <2>1, <2>2, <2>3 DEF Rebuilding
  <1>12. CASE UNCHANGED vars
    BY <1>12 DEF vars, memory, files, history
  <1>13. ASSUME NEW t \in Tasks, Raises(t) PROVE ModelInv'
    BY <1>0, <1>13, TasksAreNotTheLock DEF Raises, Goto, memory, files
  <1> QED
    BY <1>1, <1>2, <1>3, <1>4, <1>5, <1>6, <1>7, <1>8, <1>9, <1>10, <1>11, <1>12,
       <1>13, NextIsOfTasks DEF TaskStep

-----------------------------------------------------------------------------
LEMMA ServingInit == Init => ServingInv
  BY DEF Init, ServingInv

LEMMA ServingStep == IndexInv /\ ServingInv /\ [Next]_vars => ServingInv'
  <1> SUFFICES ASSUME IndexInv, ServingInv, [Next]_vars PROVE ServingInv'
    OBVIOUS
  <1> USE DEF ServingInv, Rebuilding
  <1>0. Shape
    BY DEF IndexInv
  <1> USE DEF Shape
  <1>a. ASSUME NEW name \in NamesPassed, name \in Models PROVE name = active
    BY <1>a, NamesAreApart DEF NamesPassed
  <1>1. ASSUME NEW t \in Tasks, NEW name \in NamesPassed, EnsureLoads(t, name) PROVE ServingInv'
    BY <1>0, <1>a, <1>1 DEF EnsureLoads, Opening, Fits, StartRebuild, Called, Goto, files
  <1>2. ASSUME NEW t \in Tasks, NEW name \in NamesPassed, Rebuild(t, name) PROVE ServingInv'
    BY <1>0, <1>a, <1>2 DEF Rebuild, StartRebuild, Called, Goto, memory, files
  <1>3. ASSUME NEW t \in Tasks, Fetch(t) PROVE ServingInv'
    BY <1>0, <1>3 DEF Fetch, Goto, memory, files
  <1>4. ASSUME NEW t \in Tasks, Acquire(t) PROVE ServingInv'
    BY <1>0, <1>4 DEF Acquire, Free, Goto, memory, files, history
  <1>5. ASSUME NEW t \in Tasks, Built(t) PROVE ServingInv'
    BY <1>0, <1>5 DEF Built, Goto, files
  <1>6. ASSUME NEW t \in Tasks, WriteIndex(t) PROVE ServingInv'
    BY <1>0, <1>6 DEF WriteIndex, Goto, memory, history
  <1>7. ASSUME NEW t \in Tasks, WriteMap(t) PROVE ServingInv'
    BY <1>0, <1>7, TasksAreNotTheLock DEF WriteMap, Goto, memory
  <1>8. ASSUME NEW t \in Tasks, Search(t) PROVE ServingInv'
    BY <1>0, <1>8 DEF Search, Goto, memory, files
  <1>9. ASSUME NEW t \in Tasks, NEW hit \in DOMAIN local[t], SearchReturns(t, hit)
        PROVE  ServingInv'
    BY <1>0, <1>9 DEF SearchReturns, memory, files, history
  <1>10. ASSUME NEW c \in Corpora, Ingest(c) PROVE ServingInv'
    BY <1>10 DEF Ingest, memory, files
  <1>11. ASSUME NEW m \in Models, Restart(m) PROVE ServingInv'
    BY <1>11 DEF Restart
  <1>12. CASE UNCHANGED vars
    BY <1>12 DEF vars, memory, files, history
  <1>13. ASSUME NEW t \in Tasks, Raises(t) PROVE ServingInv'
    BY <1>0, <1>13, TasksAreNotTheLock DEF Raises, Goto, memory, files
  <1> QED
    BY <1>1, <1>2, <1>3, <1>4, <1>5, <1>6, <1>7, <1>8, <1>9, <1>10, <1>11, <1>12,
       <1>13, NextIsOfTasks DEF TaskStep

-----------------------------------------------------------------------------
LEMMA RebuildInit == Init => RebuildInv
  BY DEF Init, RebuildInv

LEMMA RebuildStep == IndexInv /\ RebuildInv /\ [Next]_vars => RebuildInv'
  <1> SUFFICES ASSUME IndexInv, RebuildInv, [Next]_vars PROVE RebuildInv'
    OBVIOUS
  <1> USE DEF RebuildInv, Writes, Writing, Awaits, Waiting, Halfway
  <1>0. Shape /\ LockIsHeldByBuilder /\ (Halfway => indexFile = {index})
    BY DEF IndexInv
  <1> USE DEF Shape, LockIsHeldByBuilder, Building
  <1>1. ASSUME NEW t \in Tasks, NEW name \in NamesPassed, EnsureLoads(t, name) PROVE RebuildInv'
    BY <1>1 DEF EnsureLoads
  <1>2. ASSUME NEW t \in Tasks, NEW name \in NamesPassed, Rebuild(t, name) PROVE RebuildInv'
    BY <1>0, <1>2 DEF Rebuild, StartRebuild, Called, Goto, memory, files
  <1>3. ASSUME NEW t \in Tasks, Fetch(t) PROVE RebuildInv'
    BY <1>0, <1>3 DEF Fetch, Goto, memory, files
  <1>4. ASSUME NEW t \in Tasks, Acquire(t) PROVE RebuildInv'
    BY <1>0, <1>4 DEF Acquire, Free, Goto, memory, files, history
  <1>5. ASSUME NEW t \in Tasks, Built(t) PROVE RebuildInv'
    BY <1>0, <1>5 DEF Built, Relabelled, Goto, files
  <1>6. ASSUME NEW t \in Tasks, WriteIndex(t) PROVE RebuildInv'
    BY <1>0, <1>6 DEF WriteIndex, Goto, memory, history
  <1>7. ASSUME NEW t \in Tasks, WriteMap(t) PROVE RebuildInv'
    BY <1>0, <1>7, TasksAreNotTheLock DEF WriteMap, Goto, memory
  <1>8. ASSUME NEW t \in Tasks, Search(t) PROVE RebuildInv'
    BY <1>0, <1>8 DEF Search, Goto, memory, files
  <1>9. ASSUME NEW t \in Tasks, NEW hit \in DOMAIN local[t], SearchReturns(t, hit)
        PROVE  RebuildInv'
    BY <1>0, <1>9 DEF SearchReturns, memory, files, history
  <1>10. ASSUME NEW c \in Corpora, Ingest(c) PROVE RebuildInv'
    BY <1>10 DEF Ingest
  <1>11. ASSUME NEW m \in Models, Restart(m) PROVE RebuildInv'
    BY <1>11 DEF Restart
  <1>13. ASSUME NEW t \in Tasks, Raises(t) PROVE RebuildInv'
    BY <1>0, <1>13, TasksAreNotTheLock DEF Raises, Goto, memory, files
  <1>12. CASE UNCHANGED vars
    BY <1>12 DEF vars, memory, files, history
  <1> QED
    BY <1>1, <1>2, <1>3, <1>4, <1>5, <1>6, <1>7, <1>8, <1>9, <1>10, <1>11, <1>12,
       <1>13,        NextIsOfTasks DEF TaskStep

-----------------------------------------------------------------------------
\* Whatever the tasks, other processes and crashes do, the lock is held by the one
\* task that builds or persists, the map names the rows the index was built from, and
\* the two files belong together.
THEOREM IndexIsOfOneBuild == Spec => []IndexIsOneBuild
  <1>1. IndexInv => IndexIsOneBuild
    BY TasksAreNotTheLock
    DEF IndexInv, IndexIsOneBuild, FilesAgree, LockIsHeldByBuilder, Building, Halfway
  <1> QED
    BY <1>1, IndexInit, IndexStep, PTL DEF Spec

\* A search the index was not replaced under returns the chunk its vector matched.
THEOREM QuietSearchIsRight == Spec => []QuietSearchReturnsMatch
  <1>1. SearchInv => QuietSearchReturnsMatch
    BY DEF SearchInv, QuietSearchReturnsMatch
  <1> QED
    BY <1>1, IndexInit, IndexStep, SearchInit, SearchStep, PTL DEF Spec

\* Whatever names callers pass, processes left in the files and calls raised, an index
\* carries the name it was asked for, and its stamp is true if it names an embedding model.
THEOREM StampIsTrue == Spec => []StampIsOfIndex
  <1>1. ModelInv /\ ServingInv => StampIsOfIndex
    BY DEF ModelInv, ServingInv, StampIsOfIndex, Honest, AllIdle, Rebuilding
  <1> QED
    BY <1>1, IndexInit, IndexStep, ModelInit, ModelStep, ServingInit, ServingStep, PTL DEF Spec

\* What the documentation says of the active model holds of a store whose callers all pass
\* the name of the embedding provider, as the tests and the benchmark script do.
THEOREM ProviderGetsActiveModel ==
    ASSUME Callers = {"provider"}
    PROVE  Spec => []IndexOfActiveModel
  <1> DEFINE ServesModels == serving \subseteq Models
  <1>1. Init => ServesModels
    BY DEF Init
  <1>2. ModelInv /\ ServesModels /\ [Next]_vars => ServesModels'
    <2> SUFFICES ASSUME ModelInv, ServesModels, [Next]_vars PROVE ServesModels'
      OBVIOUS
    <2>1. NamesPassed \subseteq Models
      BY DEF NamesPassed, ModelInv
    <2>2. ASSUME NEW name \in NamesPassed, Called(name) PROVE ServesModels'
      BY <2>1, <2>2 DEF Called
    <2>3. ASSUME NEW t \in Tasks, TaskStep(t) PROVE ServesModels'
      BY <2>2, <2>3 DEF TaskStep, EnsureLoads, Rebuild, Fetch, Acquire, Built, WriteIndex, WriteMap,
         Raises, Search, SearchReturns, history
    <2> QED
      BY <2>3, NextIsOfTasks DEF Ingest, Restart, vars, history
  <1>3. ModelInv /\ ServingInv /\ ServesModels => IndexOfActiveModel
    BY DEF ModelInv, ServingInv, IndexOfActiveModel, Honest, AllIdle, Rebuilding
  <1> HIDE DEF ServesModels
  <1> QED
    BY <1>1, <1>2, <1>3, IndexInit, IndexStep, ModelInit, ModelStep, ServingInit, ServingStep,
       PTL DEF Spec

\* A rebuild that nothing overtakes leaves the table in memory and in both files.
THEOREM RebuildIsOfTable == Spec => []RebuiltIndexIsTable
  <1>1. RebuildInv => RebuiltIndexIsTable
    BY DEF RebuildInv, RebuiltIndexIsTable, AllIdle, Awaits, Waiting, Writes, Writing
  <1> QED
    BY <1>1, IndexInit, IndexStep, RebuildInit, RebuildStep, PTL DEF Spec
=============================================================================
