-------------------------- MODULE Ingestion_proof --------------------------
(***************************************************************************)
(* Proofs about ingestion: for any documents, requests and number of       *)
(* requests in flight, and with failures and restarts at any point, a      *)
(* request that no other disturbed leaves its documents exactly as it      *)
(* should, and no stored document vanishes while it is replaced; and for   *)
(* any text and sizes of windows, the chunks that a document is cut into   *)
(* lose none of it, advance, and stay within its sections.                 *)
(***************************************************************************)
EXTENDS Ingestion, Chunker, TLAPS, FiniteSetTheorems

\* How many rows request r gives document d, and which under model m.
Size(r, d) == IF EntriesFor(r, d) = {} THEN 0
              ELSE Pieces[r[CHOOSE i \in EntriesFor(r, d) : TRUE].ver]

Content(r, d, m) == IF EntriesFor(r, d) = {} THEN None
                    ELSE Exact(r[CHOOSE i \in EntriesFor(r, d) : TRUE].ver, m)

Phases == {"idle", "upsert", "prune", "delete"}

Shape == /\ DOMAIN rows = Docs /\ DOMAIN expected = Docs
         /\ DOMAIN phase = Tasks /\ DOMAIN req = Tasks /\ DOMAIN pos = Tasks
         /\ DOMAIN doomed = Tasks /\ DOMAIN solo = Tasks
         /\ \A d \in Docs : DOMAIN rows[d] \subseteq Nat
         /\ \A t \in Tasks : /\ phase[t] \in Phases
                             /\ phase[t] # "idle" => req[t] \in Requests /\ pos[t] \in DOMAIN req[t]

\* A DELETE in progress removes nothing that its request has written.
DoomedAreSurplus ==
    \A t \in Tasks : phase[t] = "delete" =>
       \A i \in doomed[t] : i \in Nat /\ i >= Size(req[t], Doc(t))

\* A document counts as undisturbed while one request is about it.
SoloIsAlone ==
    \A t \in Tasks : \A d \in solo[t] :
       /\ phase[t] # "idle" /\ d \in DocsOf(req[t])
       /\ \A u \in Tasks \ {t} : phase[u] # "idle" => d \notin DocsOf(req[u])

\* An expectation is about a document that no request is about any more.
ExpectedIsSettled ==
    \A d \in Docs : expected[d] # {} =>
       /\ expected[d] = {rows[d]}
       /\ \A t \in Tasks : phase[t] # "idle" => d \notin DocsOf(req[t])

\* The undisturbed documents of a request: those it has finished, and the one it is at.
Finished(t, d) == \E i \in DOMAIN req[t] : i < pos[t] /\ req[t][i].doc = d

Includes(f, g) == DOMAIN g \subseteq DOMAIN f /\ \A i \in DOMAIN g : f[i] = g[i]

SoloIsWritten ==
    \A t \in Tasks : \A d \in solo[t] :
       /\ Finished(t, d) => rows[d] = Content(req[t], d, model)
       /\ phase[t] \in {"prune", "delete"} /\ Doc(t) = d =>
             Includes(rows[d], Content(req[t], d, model))
       /\ phase[t] = "delete" /\ Doc(t) = d =>
             \A i \in DOMAIN rows[d] : i \in doomed[t] <=> i >= Size(req[t], d)

IngestionInv == Shape /\ DoomedAreSurplus /\ SoloIsAlone /\ ExpectedIsSettled /\ SoloIsWritten

-----------------------------------------------------------------------------
LEMMA ContentIsRows == \A r, d : RowsFor(r, d) = Content(r, d, model)
  BY DEF RowsFor, Content

\* The rows of a document are numbered from 0, and there is none only for blank texts.
LEMMA ContentIsNumbered ==
    ASSUME NEW r \in Requests, NEW d, NEW m
    PROVE  /\ Size(r, d) \in Nat
           /\ Size(r, d) = 0 <=> EntriesFor(r, d) = {}
           /\ DOMAIN Content(r, d, m) = 0..Size(r, d) - 1
           /\ Content(r, d, m) = [i \in 0..Size(r, d) - 1 |-> Content(r, d, m)[i]]
  <1>1. CASE EntriesFor(r, d) = {}
    <2>1. Size(r, d) = 0 /\ Content(r, d, m) = [i \in {} |-> i]
      BY <1>1 DEF Size, Content, None
    <2>2. 0..Size(r, d) - 1 = {}
      BY <2>1
    <2>3. [i \in {} |-> i] = [i \in {} |-> Content(r, d, m)[i]]
      OBVIOUS
    <2>4. Content(r, d, m) = [i \in 0..Size(r, d) - 1 |-> Content(r, d, m)[i]]
      BY <2>1, <2>2, <2>3, Zenon
    <2>5. DOMAIN Content(r, d, m) = 0..Size(r, d) - 1
      BY <2>1, <2>2
    <2>6. Size(r, d) \in Nat
      BY <2>1
    <2> QED
      BY <1>1, <2>1, <2>4, <2>5, <2>6, Zenon
  <1>2. CASE EntriesFor(r, d) # {}
    <2> DEFINE e == CHOOSE i \in EntriesFor(r, d) : TRUE
    <2>1. e \in EntriesFor(r, d)
      BY <1>2
    <2>2. Size(r, d) = Pieces[r[e].ver] /\ Content(r, d, m) = Exact(r[e].ver, m)
      BY <1>2 DEF Size, Content
    <2> HIDE DEF e
    <2>3. e \in DOMAIN r /\ Pieces[r[e].ver] > 0
      BY <2>1 DEF EntriesFor
    <2>4. r \in Seq(Documents)
      BY RequestsAreDocumentLists
    <2>5. r[e] \in Documents
      BY <2>3, <2>4
    <2>6. r[e].ver \in Versions
      BY <2>5 DEF Documents
    <2>7. Pieces[r[e].ver] \in Nat
      BY <2>6, PiecesAreCounts
    <2>8. Content(r, d, m) = [i \in 0..Size(r, d) - 1 |-> [ver |-> r[e].ver, model |-> m]]
      BY <2>2 DEF Exact
    <2>9. /\ DOMAIN Content(r, d, m) = 0..Size(r, d) - 1
          /\ Content(r, d, m) = [i \in 0..Size(r, d) - 1 |-> Content(r, d, m)[i]]
      BY <2>8
    <2>10. Size(r, d) \in Nat /\ Size(r, d) # 0
      BY <2>2, <2>3, <2>7
    <2> QED
      BY <1>2, <2>9, <2>10, Zenon
  <1> QED
    BY <1>1, <1>2

LEMMA KeepIsSize ==
    ASSUME NEW r \in Requests, NEW p
    PROVE  Keep(r, p) = Size(r, r[p].doc)
  <1> DEFINE d == r[p].doc
  <1>1. Size(r, d) \in Nat /\ DOMAIN RowsFor(r, d) = 0..Size(r, d) - 1
    BY ContentIsNumbered, ContentIsRows
  <1>2. Keep(r, p) = Cardinality(0..Size(r, d) - 1)
    BY <1>1 DEF Keep
  <1> HIDE DEF d
  <1>3. Cardinality(0..Size(r, d) - 1) = Size(r, d)
    BY <1>1, FS_Interval
  <1> QED
    BY <1>2, <1>3 DEF d

-----------------------------------------------------------------------------
LEMMA IngestionInit == Init => IngestionInv
  BY DEF Init, IngestionInv, Shape, Phases, None, DoomedAreSurplus, SoloIsAlone,
         ExpectedIsSettled, SoloIsWritten

\* A request is accepted.
LEMMA SubmitKeepsInv ==
    ASSUME IngestionInv, NEW t \in Tasks, NEW r \in Requests, Submit(t, r)
    PROVE  IngestionInv'
  <1> USE DEF IngestionInv
  <1>1. r # <<>> /\ r \in Seq(Documents)
    BY RequestsAreDocumentLists
  <1>2. 1 \in DOMAIN r
    BY <1>1
  <1>3. \A u \in Tasks \ {t} : /\ phase'[u] = phase[u] /\ req'[u] = req[u]
                               /\ pos'[u] = pos[u] /\ doomed'[u] = doomed[u]
                               /\ Doc(u)' = Doc(u) /\ solo'[u] = solo[u] \ DocsOf(r)
    BY DEF Submit, Shape, Doc
  <1>4. /\ phase[t] = "idle" /\ phase'[t] = "upsert" /\ req'[t] = r /\ pos'[t] = 1
        /\ rows' = rows /\ model' = model
    BY DEF Submit, Shape
  <1>5. \A d \in solo'[t] : /\ d \in DocsOf(r)
                           /\ \A u \in Tasks \ {t} : phase[u] # "idle" => d \notin DocsOf(req[u])
    BY DEF Submit, Active
  <1>6. \A d \in Docs : expected'[d] = IF d \in DocsOf(r) THEN {} ELSE expected[d]
    BY DEF Submit
  <1>7. Shape'
    BY <1>2 DEF Shape, Phases, Submit
  <1>8. DoomedAreSurplus'
    BY <1>3, <1>4 DEF DoomedAreSurplus
  <1>9. SoloIsAlone'
    BY <1>3, <1>4, <1>5 DEF SoloIsAlone
  <1>10. ExpectedIsSettled'
    BY <1>3, <1>4, <1>6 DEF ExpectedIsSettled
  <1>11. SoloIsWritten'
    <2>1. \A d : ~Finished(t, d)'
      BY <1>1, <1>4 DEF Finished
    <2>2. \A u \in Tasks \ {t} : \A d : Finished(u, d)' = Finished(u, d)
      BY <1>3 DEF Finished
    <2>3. \A u \in Tasks \ {t} : solo'[u] \subseteq solo[u]
      BY <1>3
    <2> QED
      BY <1>3, <1>4, <2>1, <2>2, <2>3 DEF SoloIsWritten
  <1> QED
    BY <1>7, <1>8, <1>9, <1>10, <1>11

\* What a task leaves of the others.
Others(t) == \A u \in Tasks \ {t} : /\ phase'[u] = phase[u] /\ req'[u] = req[u]
                                    /\ pos'[u] = pos[u] /\ solo'[u] = solo[u]
                                    /\ Doc(u)' = Doc(u)

\* The rows of documents that other requests are about are not those a solo request is about.
LEMMA OthersApart ==
    ASSUME IngestionInv, NEW t \in Tasks, NEW u \in Tasks \ {t}, phase[t] # "idle",
           NEW d \in solo[u]
    PROVE  Doc(t) # d
  <1>1. d \notin DocsOf(req[t])
    BY DEF IngestionInv, SoloIsAlone
  <1>2. Doc(t) \in DocsOf(req[t])
    BY DEF IngestionInv, Shape, DocsOf, Doc
  <1> QED
    BY <1>1, <1>2

LEMMA DocIsDoc ==
    ASSUME Shape, NEW t \in Tasks, phase[t] # "idle"
    PROVE  Doc(t) \in Docs /\ Doc(t) \in DocsOf(req[t]) /\ req[t] \in Seq(Documents)
  <1>1. req[t] \in Seq(Documents) /\ pos[t] \in DOMAIN req[t]
    BY RequestsAreDocumentLists DEF Shape
  <1>2. req[t][pos[t]] \in Documents
    BY <1>1
  <1> QED
    BY <1>1, <1>2 DEF Doc, DocsOf, Documents

LEMMA SoloAreDocs ==
    ASSUME IngestionInv, NEW t \in Tasks, NEW d \in solo[t]
    PROVE  d \in Docs
  <1>1. phase[t] # "idle" /\ d \in DocsOf(req[t])
    BY DEF IngestionInv, SoloIsAlone
  <1>2. req[t] \in Seq(Documents)
    BY <1>1, RequestsAreDocumentLists DEF IngestionInv, Shape
  <1>3. \A i \in DOMAIN req[t] : req[t][i] \in Documents
    BY <1>2
  <1>4. \A x \in Documents : x.doc \in Docs
    BY DEF Documents
  <1> QED
    BY <1>1, <1>3, <1>4 DEF DocsOf

LEMMA UpsertKeepsInv ==
    ASSUME IngestionInv, NEW t \in Tasks, Upsert(t)
    PROVE  IngestionInv'
  <1> USE DEF IngestionInv
  <1> DEFINE D == Doc(t)
             new == Content(req[t], D, model)
  <1>1. /\ phase[t] = "upsert" /\ phase'[t] = "prune" /\ req' = req /\ pos' = pos
        /\ model' = model /\ doomed' = doomed /\ solo' = solo /\ expected' = expected
    BY DEF Upsert, Shape, historyVars
  <1>2. D \in Docs /\ D \in DocsOf(req[t]) /\ req[t] \in Requests
    BY <1>1, DocIsDoc DEF Shape
  <1>3. Others(t) /\ \A u \in Tasks : Doc(u)' = Doc(u)
    BY <1>1 DEF Upsert, Shape, Others, Doc
  <1>4. /\ rows'[D] = Merged(new, rows[D])
        /\ \A d \in Docs \ {D} : rows'[d] = rows[d]
        /\ DOMAIN rows' = Docs
    BY <1>2, ContentIsRows DEF Upsert, Upserted, Shape
  <1>5. /\ DOMAIN new = 0..Size(req[t], D) - 1 /\ Size(req[t], D) \in Nat
        /\ new = [i \in 0..Size(req[t], D) - 1 |-> new[i]]
    BY <1>2, ContentIsNumbered
  <1>6. /\ DOMAIN rows'[D] = DOMAIN new \cup DOMAIN rows[D]
        /\ \A i \in DOMAIN new : rows'[D][i] = new[i]
        /\ rows[D] = new => rows'[D] = new
    <2>1. rows'[D] = [i \in DOMAIN new \cup DOMAIN rows[D] |->
                         IF i \in DOMAIN new THEN new[i] ELSE rows[D][i]]
      BY <1>4 DEF Merged
    <2> HIDE DEF D, new
    <2>2. rows[D] = new => rows'[D] = [i \in DOMAIN new |-> new[i]]
      BY <2>1
    <2> QED
      BY <1>5, <2>1, <2>2
  <1> HIDE DEF D, new
  <1>7. Shape'
    BY <1>1, <1>2, <1>4, <1>5, <1>6 DEF Shape, Phases, Upsert
  <1>8. DoomedAreSurplus'
    BY <1>1, <1>3 DEF DoomedAreSurplus, Others
  <1>9. SoloIsAlone'
    BY <1>1, <1>3 DEF SoloIsAlone, Others
  <1>10. ExpectedIsSettled'
    BY <1>1, <1>2, <1>3, <1>4 DEF ExpectedIsSettled, Others
  <1>11. SoloIsWritten'
    <2>1. ASSUME NEW u \in Tasks \ {t}, NEW d \in solo[u]
          PROVE  rows'[d] = rows[d]
      <3>1. d # D
        BY <1>1, OthersApart DEF D
      <3>2. d \in Docs
        BY <2>1, SoloAreDocs
      <3> QED
        BY <1>4, <3>1, <3>2
    <2>2. ASSUME NEW d \in solo[t]
          PROVE  /\ Finished(t, d) => rows'[d] = Content(req[t], d, model)
                 /\ D = d => Includes(rows'[d], Content(req[t], d, model))
      <3>1. d \in Docs
        BY <2>2, SoloAreDocs
      <3>2. Finished(t, d) => rows[d] = Content(req[t], d, model)
        BY <2>2 DEF SoloIsWritten
      <3>3. D # d => rows'[d] = rows[d]
        BY <1>4, <3>1
      <3> QED
        BY <1>6, <3>2, <3>3 DEF Includes, new
    <2>3. \A u \in Tasks, d \in Docs : Finished(u, d)' = Finished(u, d)
      BY <1>1 DEF Finished
    <2>4. ASSUME NEW u \in Tasks, NEW d \in solo'[u]
          PROVE  /\ Finished(u, d)' => rows'[d] = Content(req'[u], d, model')
                 /\ phase'[u] \in {"prune", "delete"} /\ Doc(u)' = d =>
                       Includes(rows'[d], Content(req'[u], d, model'))
                 /\ phase'[u] = "delete" /\ Doc(u)' = d =>
                       \A i \in DOMAIN rows'[d] : i \in doomed'[u] <=> i >= Size(req'[u], d)
      <3>1. d \in solo[u] /\ d \in Docs
        BY <1>1, <2>4, SoloAreDocs
      <3>2. CASE u = t
        BY <1>1, <1>3, <2>2, <2>3, <3>1, <3>2 DEF D
      <3>3. CASE u # t
        BY <1>1, <1>3, <2>1, <2>3, <3>1, <3>3 DEF SoloIsWritten, Others
      <3> QED
        BY <3>2, <3>3
    <2> QED
      BY <2>4 DEF SoloIsWritten
  <1> QED
    BY <1>7, <1>8, <1>9, <1>10, <1>11

LEMMA FindOrphansKeepsInv ==
    ASSUME IngestionInv, NEW t \in Tasks, FindOrphans(t)
    PROVE  IngestionInv'
  <1> USE DEF IngestionInv
  <1>1. /\ phase[t] = "prune" /\ phase'[t] = "delete" /\ req' = req /\ pos' = pos
        /\ rows' = rows /\ model' = model /\ solo' = solo /\ expected' = expected
    BY DEF FindOrphans, Shape, historyVars
  <1>2. Doc(t) \in Docs /\ Doc(t) \in DocsOf(req[t]) /\ req[t] \in Requests
    BY <1>1, DocIsDoc DEF Shape
  <1>3. /\ doomed'[t] = {i \in DOMAIN rows[Doc(t)] : i >= Size(req[t], Doc(t))}
        /\ \A u \in Tasks \ {t} : phase'[u] = phase[u] /\ doomed'[u] = doomed[u]
        /\ \A u \in Tasks : Doc(u)' = Doc(u)
    BY <1>1, <1>2, KeepIsSize DEF FindOrphans, Shape, Doc
  <1>4. Shape'
    BY <1>1 DEF Shape, Phases, FindOrphans
  <1>5. DoomedAreSurplus'
    BY <1>1, <1>2, <1>3 DEF DoomedAreSurplus, Shape
  <1>6. SoloIsAlone'
    BY <1>1, <1>3 DEF SoloIsAlone
  <1>7. ExpectedIsSettled'
    BY <1>1, <1>3 DEF ExpectedIsSettled
  <1>8. SoloIsWritten'
    <2>1. \A u \in Tasks : \A d : Finished(u, d)' = Finished(u, d)
      BY <1>1 DEF Finished
    <2> QED
      BY <1>1, <1>3, <2>1 DEF SoloIsWritten
  <1> QED
    BY <1>4, <1>5, <1>6, <1>7, <1>8

\* The requests of a set of tasks are over, and the rows as they were.
LEMMA ForgetKeepsInv ==
    ASSUME IngestionInv, NEW ts \in SUBSET Tasks, Forget(ts), rows' = rows, expected' = expected,
           model' = model \/ ts = Tasks, DOMAIN doomed' = Tasks,
           \A u \in Tasks \ ts : doomed'[u] = doomed[u]
    PROVE  IngestionInv'
  <1> USE DEF IngestionInv
  <1>1. \A u \in ts : phase'[u] = "idle" /\ solo'[u] = {}
    BY DEF Forget
  <1>2. \A u \in Tasks \ ts : /\ phase'[u] = phase[u] /\ req'[u] = req[u] /\ pos'[u] = pos[u]
                              /\ solo'[u] = solo[u] /\ Doc(u)' = Doc(u) /\ model' = model
    BY DEF Forget, Doc
  <1>3. Shape'
    BY <1>1, <1>2 DEF Shape, Phases, Forget
  <1>4. DoomedAreSurplus'
    BY <1>1, <1>2 DEF DoomedAreSurplus
  <1>5. SoloIsAlone'
    BY <1>1, <1>2 DEF SoloIsAlone
  <1>6. ExpectedIsSettled'
    BY <1>1, <1>2 DEF ExpectedIsSettled
  <1>7. SoloIsWritten'
    <2>1. \A u \in Tasks \ ts : \A d : Finished(u, d)' = Finished(u, d)
      BY <1>2 DEF Finished
    <2> QED
      BY <1>1, <1>2, <2>1 DEF SoloIsWritten
  <1> QED
    BY <1>3, <1>4, <1>5, <1>6, <1>7

\* What a DELETE leaves of an undisturbed document is what its request has written.
LEMMA DeleteLeavesContent ==
    ASSUME IngestionInv, NEW t \in Tasks, phase[t] = "delete", Doc(t) \in solo[t]
    PROVE  [i \in DOMAIN rows[Doc(t)] \ doomed[t] |-> rows[Doc(t)][i]]
              = Content(req[t], Doc(t), model)
  <1> USE DEF IngestionInv
  <1> DEFINE D == Doc(t)
             size == Size(req[t], D)
             new == Content(req[t], D, model)
  <1>1. D \in Docs /\ req[t] \in Requests
    BY DocIsDoc DEF Shape
  <1>2. /\ Includes(rows[D], new) /\ DOMAIN rows[D] \subseteq Nat
        /\ \A i \in DOMAIN rows[D] : i \in doomed[t] <=> i >= size
    BY <1>1 DEF SoloIsWritten, Shape
  <1>3. size \in Nat /\ DOMAIN new = 0..size - 1 /\ new = [i \in 0..size - 1 |-> new[i]]
    BY <1>1, ContentIsNumbered
  <1> HIDE DEF D, size, new
  <1>4. DOMAIN rows[D] \ doomed[t] = 0..size - 1
    BY <1>2, <1>3 DEF Includes
  <1>5. \A i \in 0..size - 1 : rows[D][i] = new[i]
    BY <1>2, <1>3 DEF Includes
  <1>6. [i \in DOMAIN rows[D] \ doomed[t] |-> rows[D][i]] = [i \in 0..size - 1 |-> new[i]]
    BY <1>4, <1>5
  <1> QED
    BY <1>3, <1>6 DEF D, new

LEMMA DeleteKeepsInv ==
    ASSUME IngestionInv, NEW t \in Tasks, DeleteOrphans(t)
    PROVE  IngestionInv'
  <1> USE DEF IngestionInv
  <1> DEFINE D == Doc(t)
             left == [i \in DOMAIN rows[D] \ doomed[t] |-> rows[D][i]]
  <1>1. phase[t] = "delete" /\ model' = model
    BY DEF DeleteOrphans
  <1>2. D \in Docs /\ D \in DocsOf(req[t]) /\ req[t] \in Requests /\ req[t] \in Seq(Documents)
    BY <1>1, DocIsDoc DEF Shape
  <1>3. /\ DOMAIN rows' = Docs
        /\ rows'[D] = left
        /\ \A d \in Docs \ {D} : rows'[d] = rows[d]
    BY <1>2 DEF DeleteOrphans, Shape
  <1>4. /\ DOMAIN doomed' = Tasks
        /\ \A u \in Tasks \ {t} : /\ doomed'[u] \subseteq doomed[u]
                                  /\ Doc(u) # D => doomed'[u] = doomed[u]
    BY DEF DeleteOrphans
  <1>5. /\ \A d \in Docs : DOMAIN rows'[d] \subseteq Nat
        /\ D \in solo[t] => left = Content(req[t], D, model)
    BY <1>1, <1>2, <1>3, DeleteLeavesContent DEF Shape
  <1>6. \A u \in Tasks : \A d \in solo[u] : d \in Docs
    BY SoloAreDocs
  <1>7. \A u \in Tasks \ {t} : \A d \in solo[u] : d # D /\ rows'[d] = rows[d]
    BY <1>1, <1>3, <1>6, OthersApart
  <1>8. Others(t) /\ phase'[t] \in {"upsert", "idle"} /\ DOMAIN phase' = Tasks
        /\ DOMAIN req' = Tasks /\ DOMAIN pos' = Tasks /\ DOMAIN solo' = Tasks
        /\ DOMAIN expected' = Docs
    BY DEF DeleteOrphans, Forget, Others, Shape, Doc, historyVars
  <1> HIDE DEF left
  <1>9. DoomedAreSurplus'
    BY <1>4, <1>8 DEF DoomedAreSurplus, Others
  <1>10. ASSUME NEW u \in Tasks \ {t}, NEW d \in solo'[u]
         PROVE  /\ Finished(u, d)' => rows'[d] = Content(req'[u], d, model')
                /\ phase'[u] \in {"prune", "delete"} /\ Doc(u)' = d =>
                      Includes(rows'[d], Content(req'[u], d, model'))
                /\ phase'[u] = "delete" /\ Doc(u)' = d =>
                      \A i \in DOMAIN rows'[d] : i \in doomed'[u] <=> i >= Size(req'[u], d)
    <2>1. Finished(u, d)' = Finished(u, d)
      BY <1>8 DEF Finished, Others
    <2> QED
      BY <1>1, <1>4, <1>7, <1>8, <1>10, <2>1 DEF SoloIsWritten, Others
  <1>11. ASSUME NEW d \in solo[t], \/ Finished(t, d) \/ d = D
         PROVE  rows'[d] = Content(req[t], d, model)
    BY <1>3, <1>5, <1>6, <1>11 DEF SoloIsWritten
  <1>12. CASE ~Last(t)
    <2>1. /\ phase'[t] = "upsert" /\ pos'[t] = pos[t] + 1
          /\ req' = req /\ solo' = solo /\ expected' = expected
      BY <1>1, <1>12 DEF DeleteOrphans, Shape, historyVars
    <2>2. pos[t] + 1 \in DOMAIN req[t]
      BY <1>1, <1>2, <1>12 DEF Shape, Last
    <2>3. Shape'
      BY <1>2, <1>3, <1>4, <1>5, <1>8, <2>1, <2>2 DEF Shape, Phases, Others
    <2>4. SoloIsAlone'
      BY <1>1, <1>8, <2>1 DEF SoloIsAlone, Others
    <2>5. ExpectedIsSettled'
      BY <1>1, <1>2, <1>3, <1>8, <2>1 DEF ExpectedIsSettled, Others
    <2>6. SoloIsWritten'
      <3>1. \A d : Finished(t, d)' => Finished(t, d) \/ d = D
        BY <1>1, <1>2, <2>1, <2>2 DEF Finished, Doc, Shape
      <3> QED
        BY <1>1, <1>8, <1>10, <1>11, <2>1, <3>1 DEF SoloIsWritten
    <2> QED
      BY <1>9, <2>3, <2>4, <2>5, <2>6
  <1>13. CASE Last(t)
    <2>1. /\ phase'[t] = "idle" /\ solo'[t] = {}
          /\ \A d \in Docs : expected'[d] = IF d \in solo[t] THEN {Content(req[t], d, model)}
                                            ELSE expected[d]
      BY <1>1, <1>13, ContentIsRows DEF DeleteOrphans, Forget, Shape
    <2>2. Shape'
      BY <1>3, <1>4, <1>5, <1>8, <2>1 DEF Shape, Phases, Others
    <2>3. SoloIsAlone'
      BY <1>8, <2>1 DEF SoloIsAlone, Others
    <2>4. ExpectedIsSettled'
      <3>1. ASSUME NEW d \in solo[t]
            PROVE  rows'[d] = Content(req[t], d, model)
        <4>1. d \in DocsOf(req[t])
          BY DEF SoloIsAlone
        <4>2. PICK i \in DOMAIN req[t] : req[t][i].doc = d
          BY <4>1 DEF DocsOf
        <4>3. i < pos[t] \/ i = pos[t]
          BY <1>1, <1>2, <1>13, <4>2 DEF Last, Shape
        <4> QED
          BY <1>11, <4>2, <4>3 DEF Finished, Doc
      <3>2. ASSUME NEW d \in Docs, expected'[d] # {}
            PROVE  expected'[d] = {rows'[d]}
        BY <1>1, <1>2, <1>3, <2>1, <3>1, <3>2 DEF ExpectedIsSettled
      <3>3. ASSUME NEW d \in Docs, expected'[d] # {}, NEW u \in Tasks, phase'[u] # "idle"
            PROVE  d \notin DocsOf(req'[u])
        BY <1>8, <2>1, <3>3 DEF ExpectedIsSettled, SoloIsAlone, Others
      <3> QED
        BY <3>2, <3>3 DEF ExpectedIsSettled
    <2>5. SoloIsWritten'
      BY <1>10, <2>1 DEF SoloIsWritten
    <2> QED
      BY <1>9, <2>2, <2>3, <2>4, <2>5
  <1> QED
    BY <1>12, <1>13

-----------------------------------------------------------------------------
LEMMA IngestionStep == IngestionInv /\ [Next]_vars => IngestionInv'
  <1> SUFFICES ASSUME IngestionInv, [Next]_vars PROVE IngestionInv'
    OBVIOUS
  <1>1. ASSUME NEW t \in Tasks, NEW r \in Requests, Submit(t, r) PROVE IngestionInv'
    BY <1>1, SubmitKeepsInv
  <1>2. ASSUME NEW t \in Tasks, Upsert(t) PROVE IngestionInv'
    BY <1>2, UpsertKeepsInv
  <1>3. ASSUME NEW t \in Tasks, FindOrphans(t) PROVE IngestionInv'
    BY <1>3, FindOrphansKeepsInv
  <1>4. ASSUME NEW t \in Tasks, DeleteOrphans(t) PROVE IngestionInv'
    BY <1>4, DeleteKeepsInv
  <1>5. ASSUME NEW t \in Tasks, RejectUpsert(t) \/ Raise(t) PROVE IngestionInv'
    <2>1. /\ Forget({t}) /\ rows' = rows /\ expected' = expected /\ model' = model
          /\ DOMAIN doomed' = Tasks /\ \A u \in Tasks \ {t} : doomed'[u] = doomed[u]
      BY <1>5 DEF RejectUpsert, Raise, IngestionInv, Shape
    <2> QED
      BY <2>1, ForgetKeepsInv
  <1>6. ASSUME NEW m \in Models, Restart(m) PROVE IngestionInv'
    <2>1. /\ Forget(Tasks) /\ rows' = rows /\ expected' = expected /\ DOMAIN doomed' = Tasks
      BY <1>6 DEF Restart
    <2> QED
      BY <2>1, ForgetKeepsInv
  <1>7. CASE UNCHANGED vars
    BY <1>7 DEF vars, historyVars, IngestionInv, Shape, DoomedAreSurplus, SoloIsAlone,
                ExpectedIsSettled, SoloIsWritten, Finished, Doc
  <1> QED
    BY <1>1, <1>2, <1>3, <1>4, <1>5, <1>6, <1>7 DEF Next

\* Whatever else is ingested at the same time, fails or restarts, and whatever was stored
\* before: once a request that no other disturbed has been answered, its documents are
\* stored exactly, until another request is about them.
THEOREM IngestionIsExact == Spec => []SettledExact
  <1>1. IngestionInv => SettledExact
    BY DEF IngestionInv, ExpectedIsSettled, SettledExact
  <1> QED
    BY <1>1, IngestionInit, IngestionStep, PTL DEF Spec

\* No step removes the first chunk of a document, unless a request gives it no text.
THEOREM ReplacedNeverVanishes == Spec => NonemptyNeverVanishes
  <1> DEFINE Blanked == \A d \in Docs : 0 \in DOMAIN rows[d] /\ 0 \notin DOMAIN rows'[d] =>
                           \E t \in Active : d \in DocsOf(req[t]) /\ EntriesFor(req[t], d) = {}
  <1>1. IngestionInv /\ [Next]_vars => Blanked
    <2> SUFFICES ASSUME IngestionInv, Next,
                        NEW d \in Docs, 0 \in DOMAIN rows[d], 0 \notin DOMAIN rows'[d]
                 PROVE  \E t \in Active : d \in DocsOf(req[t]) /\ EntriesFor(req[t], d) = {}
      BY DEF vars
    <2> USE DEF IngestionInv
    <2>1. PICK t \in Tasks : DeleteOrphans(t)
      <3>1. ASSUME NEW t \in Tasks, Upsert(t) PROVE DOMAIN rows[d] \subseteq DOMAIN rows'[d]
        BY <3>1 DEF Upsert, Upserted, Merged, Shape
      <3> QED
        BY <3>1 DEF Next, Submit, FindOrphans, RejectUpsert, Raise, Restart
    <2>2. phase[t] = "delete" /\ d = Doc(t) /\ 0 \in doomed[t]
      BY <2>1 DEF DeleteOrphans, Shape
    <2>3. d \in DocsOf(req[t]) /\ req[t] \in Requests
      BY <2>2, DocIsDoc DEF Shape
    <2>4. 0 >= Size(req[t], d)
      BY <2>2 DEF DoomedAreSurplus
    <2>5. /\ DOMAIN Content(req[t], d, model) = 0..Size(req[t], d) - 1
          /\ Size(req[t], d) \in Nat
          /\ Size(req[t], d) = 0 <=> EntriesFor(req[t], d) = {}
      BY <2>3, ContentIsNumbered
    <2>6. EntriesFor(req[t], d) = {}
      BY <2>4, <2>5
    <2> QED
      BY <2>2, <2>3, <2>6 DEF Active
  <1> QED
    BY <1>1, IngestionInit, IngestionStep, PTL DEF Spec, NonemptyNeverVanishes

-----------------------------------------------------------------------------
\* Positions in a document grow from token to token and from line to line.
LEMMA TextIs ==
    ASSUME NEW d \in Texts
    PROVE  /\ Len(d.tokens) \in Nat /\ DOMAIN d.tokens = 1..Len(d.tokens)
           /\ Len(d.lines) \in Nat /\ DOMAIN d.lines = 1..Len(d.lines)
           /\ \A t \in 0..Len(d.tokens) : CharsTo(d, t) \in Nat
           /\ \A s, t \in 0..Len(d.tokens) : s < t => CharsTo(d, s) < CharsTo(d, t)
           /\ \A s, t \in 0..Len(d.tokens) : s <= t => CharsTo(d, s) <= CharsTo(d, t)
           /\ \A l \in 0..Len(d.lines) : TokensTo(d, l) \in 0..Len(d.tokens)
           /\ \A k, l \in 0..Len(d.lines) : k < l => TokensTo(d, k) < TokensTo(d, l)
           /\ TokensTo(d, 0) = 0 /\ TokensTo(d, Len(d.lines)) = Len(d.tokens)
  <1> DEFINE T == Len(d.tokens)
             N == Len(d.lines)
  <1>1. /\ d.tokens \in Seq([end : Nat, blank : BOOLEAN])
        /\ d.lines \in Seq([upto : Nat, header : BOOLEAN])
        /\ \A s, t \in 0..T : s < t => CharsTo(d, s) < CharsTo(d, t)
        /\ \A k, l \in 0..N : k < l => TokensTo(d, k) < TokensTo(d, l)
        /\ TokensTo(d, N) = T
    BY TextsAreTexts
  <1>2. T \in Nat /\ DOMAIN d.tokens = 1..T /\ N \in Nat /\ DOMAIN d.lines = 1..N
    BY <1>1
  <1>3. \A t \in 1..T : d.tokens[t].end \in Nat
    <2>1. \A S, f : f \in Seq(S) => \A t \in 1..Len(f) : f[t] \in S
      OBVIOUS
    <2>2. \A t \in 1..T : d.tokens[t] \in [end : Nat, blank : BOOLEAN]
      BY <1>1, <2>1
    <2> QED
      BY <2>2
  <1>4. \A l \in 1..N : d.lines[l].upto \in Nat
    <2>1. \A S, f : f \in Seq(S) => \A l \in 1..Len(f) : f[l] \in S
      OBVIOUS
    <2>2. \A l \in 1..N : d.lines[l] \in [upto : Nat, header : BOOLEAN]
      BY <1>1, <2>1
    <2> QED
      BY <2>2
  <1> HIDE DEF T, N
  <1>5. \A t \in 0..T : CharsTo(d, t) \in Nat
    <2> SUFFICES ASSUME NEW t \in 0..T PROVE CharsTo(d, t) \in Nat
      OBVIOUS
    <2>1. t = 0 \/ t \in 1..T
      BY <1>2
    <2> QED
      BY <1>3, <2>1 DEF CharsTo
  <1>6. \A l \in 0..N : TokensTo(d, l) \in Nat
    <2> SUFFICES ASSUME NEW l \in 0..N PROVE TokensTo(d, l) \in Nat
      OBVIOUS
    <2>1. l = 0 \/ l \in 1..N
      BY <1>2
    <2> QED
      BY <1>4, <2>1 DEF TokensTo
  <1>7. \A s, t \in 0..T : s <= t => CharsTo(d, s) <= CharsTo(d, t)
    <2> SUFFICES ASSUME NEW s \in 0..T, NEW t \in 0..T, s <= t
                 PROVE  CharsTo(d, s) <= CharsTo(d, t)
      OBVIOUS
    <2>1. s = t \/ s < t
      BY <1>2
    <2>2. CharsTo(d, s) \in Nat /\ CharsTo(d, t) \in Nat
      BY <1>5
    <2> QED
      BY <1>1, <2>1, <2>2
  <1>8. \A l \in 0..N : TokensTo(d, l) \in 0..T
    <2> SUFFICES ASSUME NEW l \in 0..N PROVE TokensTo(d, l) \in 0..T
      OBVIOUS
    <2>1. l = N \/ (l < N /\ N \in 0..N)
      BY <1>2
    <2>2. TokensTo(d, l) \in Nat
      BY <1>6
    <2> QED
      BY <1>1, <1>2, <2>1, <2>2
  <1> QED
    BY <1>1, <1>2, <1>5, <1>7, <1>8 DEF T, N, TokensTo

-----------------------------------------------------------------------------
\* The sections follow one another from the first token on.
AreInARow ==
    /\ \A k \in DOMAIN sections :
          /\ sections[k].from \in Nat /\ sections[k].to \in 0..Len(doc.tokens)
          /\ sections[k].from <= sections[k].to
          /\ sections[k].offset = CharsTo(doc, sections[k].from)
          /\ sections[k].from = IF k = 1 THEN 0 ELSE sections[k - 1].to
    /\ \A j, k \in DOMAIN sections : j < k => sections[j].to <= sections[k].from
    /\ TokensTo(doc, cur - 1) = IF sections = <<>> THEN 0 ELSE sections[Len(sections)].to

\* Every header that has been read opens a section.
HeadersOpen ==
    \A l \in DOMAIN doc.lines : doc.lines[l].header /\ l < line =>
       l = cur \/ \E k \in DOMAIN sections : sections[k].from = TokensTo(doc, l - 1)

SplitInv ==
    /\ doc \in Texts
    /\ line \in 1..Len(doc.lines) + 1 /\ cur \in 1..line
    /\ cur <= Len(doc.lines) => section_offset = OffsetOf(cur)
    /\ sections \in Seq([offset : Nat, from : Nat, to : Nat])
    /\ AreInARow
    /\ markdown => HeadersOpen

\* The section in hand is closed before `line`.
LEMMA SectionIsAdded ==
    ASSUME SplitInv, cur < line, doc' = doc, cur' = line,
           sections' = Append(sections, Section(cur, line - 1, section_offset))
    PROVE  /\ sections' \in Seq([offset : Nat, from : Nat, to : Nat])
           /\ AreInARow'
           /\ \A l \in DOMAIN doc.lines :
                 l = cur \/ (\E k \in DOMAIN sections : sections[k].from = TokensTo(doc, l - 1))
                 => \E k \in DOMAIN sections' : sections'[k].from = TokensTo(doc, l - 1)
  <1> DEFINE s == Section(cur, line - 1, section_offset)
             K == Len(sections)
             T == Len(doc.tokens)
             N == Len(doc.lines)
  <1>1. /\ doc \in Texts /\ line \in 1..N + 1 /\ cur \in 1..line
        /\ sections \in Seq([offset : Nat, from : Nat, to : Nat])
        /\ cur <= N => section_offset = OffsetOf(cur)
    BY DEF SplitInv
  <1>2. /\ T \in Nat /\ N \in Nat
        /\ \A t \in 0..T : CharsTo(doc, t) \in Nat
        /\ \A l \in 0..N : TokensTo(doc, l) \in 0..T
        /\ \A k, l \in 0..N : k < l => TokensTo(doc, k) < TokensTo(doc, l)
    BY <1>1, TextIs
  <1>3. cur - 1 \in 0..N /\ line - 1 \in 0..N /\ cur - 1 < line - 1 /\ cur <= N
    BY <1>1, <1>2
  <1>4. /\ s.from = TokensTo(doc, cur - 1) /\ s.to = TokensTo(doc, line - 1)
        /\ s.from \in 0..T /\ s.to \in 0..T /\ s.from < s.to
        /\ s.offset = CharsTo(doc, s.from) /\ s.offset \in Nat
    <2>1. s.from = TokensTo(doc, cur - 1) /\ s.to = TokensTo(doc, line - 1) /\ s.offset = section_offset
      BY DEF Section
    <2>2. section_offset = CharsTo(doc, TokensTo(doc, cur - 1))
      BY <1>1, <1>3 DEF OffsetOf
    <2> HIDE DEF s, T, N
    <2> QED
      BY <1>2, <1>3, <2>1, <2>2
  <1>5. s \in [offset : Nat, from : Nat, to : Nat]
    <2>1. s = [offset |-> s.offset, from |-> s.from, to |-> s.to]
      BY DEF Section
    <2>2. s.from \in Nat /\ s.to \in Nat /\ s.offset \in Nat
      BY <1>4
    <2> HIDE DEF s
    <2> QED
      BY <2>1, <2>2
  <1> HIDE DEF s
  <1>6. /\ sections' \in Seq([offset : Nat, from : Nat, to : Nat])
        /\ K \in Nat /\ DOMAIN sections = 1..K
        /\ Len(sections') = K + 1 /\ DOMAIN sections' = 1..K + 1 /\ sections'[K + 1] = s
        /\ \A k \in 1..K : sections'[k] = sections[k]
        /\ sections = <<>> <=> K = 0
        /\ sections' # <<>>
    BY <1>1, <1>5 DEF s
  <1> HIDE DEF K, T, N
  <1>7. /\ \A k \in 1..K : /\ sections[k].from \in Nat /\ sections[k].to \in 0..T
                           /\ sections[k].from <= sections[k].to
                           /\ sections[k].offset = CharsTo(doc, sections[k].from)
                           /\ sections[k].from = IF k = 1 THEN 0 ELSE sections[k - 1].to
        /\ \A j, k \in 1..K : j < k => sections[j].to <= sections[k].from
        /\ s.from = IF K = 0 THEN 0 ELSE sections[K].to
    BY <1>4, <1>6 DEF SplitInv, AreInARow, K, T
  <1>8. \A k \in 1..K + 1 : k \in 1..K \/ k = K + 1
    BY <1>6
  <1>9. \A j \in 1..K : sections[j].to <= s.from
    <2> SUFFICES ASSUME NEW j \in 1..K PROVE sections[j].to <= s.from
      OBVIOUS
    <2>1. K # 0 /\ K \in 1..K /\ (j = K \/ j < K)
      BY <1>6
    <2>2. sections[j].to \in Nat /\ sections[K].to \in Nat /\ sections[K].from \in Nat
      BY <1>7, <2>1
    <2>3. j < K => sections[j].to <= sections[K].from /\ sections[K].from <= sections[K].to
      BY <1>7, <2>1
    <2> QED
      BY <1>7, <2>1, <2>2, <2>3
  <1>10. ASSUME NEW k \in 1..K + 1
         PROVE  /\ sections'[k].from \in Nat /\ sections'[k].to \in 0..T
                /\ sections'[k].from <= sections'[k].to
                /\ sections'[k].offset = CharsTo(doc, sections'[k].from)
                /\ sections'[k].from = IF k = 1 THEN 0 ELSE sections'[k - 1].to
    <2>1. CASE k \in 1..K
      <3>1. sections'[k] = sections[k] /\ (k # 1 => k - 1 \in 1..K)
        BY <1>6, <2>1
      <3>2. k # 1 => sections'[k - 1] = sections[k - 1]
        BY <1>6, <3>1
      <3> QED
        BY <1>7, <2>1, <3>1, <3>2
    <2>2. CASE k = K + 1
      <3>1. sections'[k] = s /\ (k = 1 <=> K = 0) /\ k - 1 = K /\ (k # 1 => K \in 1..K)
        BY <1>6, <2>2
      <3>2. k # 1 => sections'[k - 1] = sections[K] /\ K # 0
        BY <1>6, <3>1
      <3>3. s.from = IF k = 1 THEN 0 ELSE sections'[k - 1].to
        BY <1>7, <3>1, <3>2
      <3>4. s.from \in Nat /\ s.to \in 0..T /\ s.from <= s.to /\ s.offset = CharsTo(doc, s.from)
        BY <1>2, <1>4
      <3> QED
        BY <3>1, <3>3, <3>4
    <2> QED
      BY <1>8, <2>1, <2>2
  <1>11. ASSUME NEW j \in 1..K + 1, NEW k \in 1..K + 1, j < k
         PROVE  sections'[j].to <= sections'[k].from
    <2>1. j \in 1..K /\ sections'[j] = sections[j]
      BY <1>6, <1>11
    <2>2. CASE k \in 1..K
      BY <1>6, <1>7, <1>11, <2>1, <2>2
    <2>3. CASE k = K + 1
      BY <1>6, <1>9, <2>1, <2>3
    <2> QED
      BY <1>8, <2>2, <2>3
  <1>12. TokensTo(doc, cur' - 1) = sections'[Len(sections')].to
    BY <1>4, <1>6
  <1>13. AreInARow'
    BY <1>6, <1>10, <1>11, <1>12 DEF AreInARow, T
  <1>14. ASSUME NEW l, l = cur \/ \E k \in 1..K : sections[k].from = TokensTo(doc, l - 1)
         PROVE  \E k \in 1..K + 1 : sections'[k].from = TokensTo(doc, l - 1)
    <2>1. CASE l = cur
      <3>1. K + 1 \in 1..K + 1 /\ sections'[K + 1].from = TokensTo(doc, l - 1)
        BY <1>4, <1>6, <2>1
      <3> QED
        BY <3>1
    <2>2. CASE \E k \in 1..K : sections[k].from = TokensTo(doc, l - 1)
      <3>1. PICK k \in 1..K : sections[k].from = TokensTo(doc, l - 1)
        BY <2>2
      <3>2. k \in 1..K + 1 /\ sections'[k] = sections[k]
        BY <1>6
      <3> QED
        BY <3>1, <3>2
    <2> QED
      BY <1>14, <2>1, <2>2
  <1> QED
    BY <1>6, <1>13, <1>14

LEMMA SplitInvStarts == ChunkInit => SplitInv
  <1> SUFFICES ASSUME ChunkInit PROVE SplitInv
    OBVIOUS
  <1> DEFINE T == Len(doc.tokens)
             N == Len(doc.lines)
  <1>1. doc \in Texts /\ markdown \in BOOLEAN /\ cur = line /\ section_offset = 0
    BY DEF ChunkInit
  <1>2. /\ T \in Nat /\ N \in Nat
        /\ TokensTo(doc, 0) = 0 /\ TokensTo(doc, N) = T /\ CharsTo(doc, 0) = 0
    BY <1>1, TextIs DEF CharsTo
  <1>3. line \in 1..N + 1 /\ cur \in 1..line
    BY <1>1, <1>2 DEF ChunkInit
  <1>4. CASE markdown
    <2>1. line = 1 /\ sections = <<>> /\ cur = 1
      BY <1>4 DEF ChunkInit
    <2>2. AreInARow /\ HeadersOpen
      BY <1>2, <2>1, TextIs, <1>1 DEF AreInARow, HeadersOpen
    <2>3. section_offset = OffsetOf(cur)
      BY <1>1, <1>2, <2>1 DEF OffsetOf
    <2> QED
      BY <1>1, <1>3, <2>1, <2>2, <2>3 DEF SplitInv
  <1>5. CASE ~markdown
    <2> DEFINE s == Section(1, N, 0)
    <2>1. sections = <<s>> /\ cur = N + 1
      BY <1>1, <1>5 DEF ChunkInit
    <2>2. s.from = 0 /\ s.to = T /\ s.offset = 0 /\ s \in [offset : Nat, from : Nat, to : Nat]
      <3>1. s = [offset |-> 0, from |-> TokensTo(doc, 1 - 1), to |-> TokensTo(doc, N)]
        BY DEF Section
      <3>2. 1 - 1 = 0
        OBVIOUS
      <3> QED
        BY <1>2, <3>1, <3>2
    <2> HIDE DEF s
    <2>3. /\ sections \in Seq([offset : Nat, from : Nat, to : Nat])
          /\ DOMAIN sections = {1} /\ sections[1] = s /\ Len(sections) = 1 /\ sections # <<>>
      BY <2>1, <2>2
    <2> HIDE DEF T, N
    <2>4. cur - 1 = N /\ ~(cur <= N)
      BY <1>2, <2>1
    <2>5. AreInARow
      BY <1>2, <2>2, <2>3, <2>4 DEF AreInARow, T, N
    <2> QED
      BY <1>1, <1>3, <1>5, <2>3, <2>4, <2>5 DEF SplitInv, N
  <1> QED
    BY <1>1, <1>4, <1>5

LEMMA SplitInvStays ==
    ASSUME SplitInv, [ChunkNext]_chunkVars
    PROVE  SplitInv'
  <1> DEFINE N == Len(doc.lines)
  <1>1. doc \in Texts /\ line \in 1..N + 1 /\ cur \in 1..line /\ N \in Nat /\ DOMAIN doc.lines = 1..N
    BY TextIs DEF SplitInv
  <1>2. CASE UNCHANGED <<doc, markdown, splitVars>>
    BY <1>2 DEF SplitInv, AreInARow, HeadersOpen, OffsetOf, splitVars
  <1>3. CASE ReadLine
    <2>1. line <= N /\ line' = line + 1 /\ doc' = doc /\ markdown' = markdown
      BY <1>3 DEF ReadLine
    <2>2. CASE doc.lines[line].header /\ cur < line
      <3>1. /\ sections' = Append(sections, Section(cur, line - 1, section_offset))
            /\ cur' = line /\ section_offset' = OffsetOf(line)
        BY <1>3, <2>2 DEF ReadLine, Opened
      <3>2. /\ sections' \in Seq([offset : Nat, from : Nat, to : Nat])
            /\ AreInARow'
            /\ \A l \in DOMAIN doc.lines :
                  l = cur \/ (\E k \in DOMAIN sections : sections[k].from = TokensTo(doc, l - 1))
                  => \E k \in DOMAIN sections' : sections'[k].from = TokensTo(doc, l - 1)
        BY <2>1, <2>2, <3>1, SectionIsAdded
      <3>3. markdown => HeadersOpen'
        <4> SUFFICES ASSUME markdown, NEW l \in DOMAIN doc.lines, doc.lines[l].header, l < line + 1
                     PROVE  l = line \/ \E k \in DOMAIN sections' : sections'[k].from = TokensTo(doc, l - 1)
          BY <2>1, <3>1 DEF HeadersOpen
        <4>1. l = line \/ l < line
          BY <1>1
        <4> QED
          BY <3>2, <4>1 DEF SplitInv, HeadersOpen
      <3>4. line' \in 1..N + 1 /\ cur' \in 1..line' /\ section_offset' = OffsetOf(cur)'
        BY <1>1, <2>1, <3>1 DEF OffsetOf
      <3> QED
        BY <1>1, <2>1, <3>2, <3>3, <3>4 DEF SplitInv
    <2>3. CASE ~(doc.lines[line].header /\ cur < line)
      <3>1. UNCHANGED <<cur, section_offset, sections>>
        BY <1>3, <2>3 DEF ReadLine
      <3>2. markdown => HeadersOpen'
        <4> SUFFICES ASSUME markdown, NEW l \in DOMAIN doc.lines, doc.lines[l].header, l < line + 1
                     PROVE  l = cur \/ \E k \in DOMAIN sections : sections[k].from = TokensTo(doc, l - 1)
          BY <2>1, <3>1 DEF HeadersOpen
        <4>1. l < line \/ (l = line /\ l = cur)
          BY <1>1, <2>3
        <4> QED
          BY <4>1 DEF SplitInv, HeadersOpen
      <3>3. line' \in 1..N + 1 /\ cur' \in 1..line'
        BY <1>1, <2>1, <3>1
      <3>4. AreInARow'
        BY <2>1, <3>1 DEF SplitInv, AreInARow
      <3> QED
        BY <1>1, <2>1, <3>1, <3>2, <3>3, <3>4 DEF SplitInv, OffsetOf
    <2> QED
      BY <2>2, <2>3
  <1>4. CASE CloseLast
    <2>1. /\ line = N + 1 /\ cur < line /\ cur' = line /\ line' = line /\ doc' = doc
          /\ markdown' = markdown
          /\ sections' = Append(sections, Section(cur, line - 1, section_offset))
      BY <1>4 DEF CloseLast
    <2>2. /\ sections' \in Seq([offset : Nat, from : Nat, to : Nat])
          /\ AreInARow'
          /\ \A l \in DOMAIN doc.lines :
                l = cur \/ (\E k \in DOMAIN sections : sections[k].from = TokensTo(doc, l - 1))
                => \E k \in DOMAIN sections' : sections'[k].from = TokensTo(doc, l - 1)
      BY <2>1, SectionIsAdded
    <2>3. markdown => HeadersOpen'
      BY <2>1, <2>2 DEF SplitInv, HeadersOpen
    <2>4. line' \in 1..N + 1 /\ cur' \in 1..line' /\ ~(cur' <= N)
      BY <1>1, <2>1
    <2> QED
      BY <1>1, <2>1, <2>2, <2>3, <2>4 DEF SplitInv
  <1>5. CASE Window \/ NoTokens \/ Returned \/ UNCHANGED chunkVars
    BY <1>2, <1>5 DEF Window, NoTokens, Returned, chunkVars
  <1> QED
    BY <1>3, <1>4, <1>5 DEF ChunkNext

-----------------------------------------------------------------------------
\* The first token of the next window, and how far the windows before it reach.
Reached == IF at <= Len(sections) THEN Here.from + begin ELSE Len(doc.tokens)

Covered == IF at > Len(sections) THEN Len(doc.tokens)
           ELSE IF begin = 0 THEN Here.from
           ELSE Here.from + begin - Step + Target

Lies(n, t) == pieces[n].start <= CharsTo(doc, t - 1) /\ CharsTo(doc, t) <= pieces[n].end

\* A section is cut to its end before the next, and only when all have been found.
WindowsAreInARow ==
    /\ at \in 1..Len(sections) + 1 /\ begin \in Nat
    /\ begin > 0 => at <= Len(sections) /\ Step <= begin /\ begin - Step + Target < Length
    /\ ~IsSplit => at = 1 /\ begin = 0 /\ pieces = <<>>
    /\ pieces \in Seq([chunk_index : Nat, start : Nat, end : Nat])
    /\ index = Len(pieces)

PiecesAreBehind ==
    \A n \in DOMAIN pieces : /\ pieces[n].start < CharsTo(doc, Reached)
                             /\ pieces[n].end <= CharsTo(doc, Covered)

CoveredIsKept ==
    IsSplit => \A t \in DOMAIN doc.tokens : t <= Covered /\ ~doc.tokens[t].blank =>
                  \E n \in DOMAIN pieces : Lies(n, t)

PiecesAreOfSections ==
    \A n \in DOMAIN pieces : \E k \in DOMAIN sections :
       /\ CharsTo(doc, sections[k].from) <= pieces[n].start
       /\ pieces[n].end <= CharsTo(doc, sections[k].to)

ChunkInv == /\ SplitInv /\ WindowsAreInARow
            /\ PiecesAreBehind /\ CoveredIsKept /\ PiecesAreOfSections /\ PiecesAdvance

LEMMA StepIs == Step \in Nat /\ 1 <= Step /\ Step <= Target /\ Target \in Nat
  BY SizesAreNaturals DEF Step

\* Where the section in hand lies, and that the next one begins at its end.
LEMMA HereIs ==
    ASSUME ChunkInv, Busy
    PROVE  /\ at \in DOMAIN sections /\ Len(sections) \in Nat
           /\ Len(doc.tokens) \in Nat
           /\ Here.from \in Nat /\ Length \in Nat /\ Here.to = Here.from + Length
           /\ Here.to \in 0..Len(doc.tokens)
           /\ Here.offset = CharsTo(doc, Here.from)
           /\ IF at + 1 <= Len(sections) THEN sections[at + 1].from = Here.to
                                         ELSE Len(doc.tokens) = Here.to
  <1> DEFINE K == Len(sections)
             T == Len(doc.tokens)
             N == Len(doc.lines)
  <1>1. /\ doc \in Texts /\ sections \in Seq([offset : Nat, from : Nat, to : Nat])
        /\ AreInARow /\ at \in 1..K + 1 /\ at <= K /\ cur = N + 1
    BY DEF ChunkInv, SplitInv, WindowsAreInARow, Busy, IsSplit
  <1>2. T \in Nat /\ N \in Nat /\ TokensTo(doc, N) = T
    BY <1>1, TextIs
  <1>3. K \in Nat /\ DOMAIN sections = 1..K /\ at \in 1..K /\ (sections = <<>> <=> K = 0)
    BY <1>1
  <1> HIDE DEF K, T, N
  <1>4. \A k \in 1..K : /\ sections[k].from \in Nat /\ sections[k].to \in 0..T
                        /\ sections[k].from <= sections[k].to
                        /\ sections[k].offset = CharsTo(doc, sections[k].from)
                        /\ sections[k].from = IF k = 1 THEN 0 ELSE sections[k - 1].to
    BY <1>1, <1>3 DEF AreInARow, T
  <1>5. at + 1 <= K => sections[at + 1].from = sections[at].to
    <2> SUFFICES ASSUME at + 1 <= K PROVE sections[at + 1].from = sections[at].to
      OBVIOUS
    <2>1. at + 1 \in 1..K /\ at + 1 # 1 /\ (at + 1) - 1 = at
      BY <1>3
    <2> QED
      BY <1>4, <2>1
  <1>6. ~(at + 1 <= K) => sections[at].to = T
    <2> SUFFICES ASSUME ~(at + 1 <= K) PROVE sections[at].to = T
      OBVIOUS
    <2>1. at = K /\ sections # <<>> /\ cur - 1 = N
      BY <1>1, <1>2, <1>3
    <2>2. TokensTo(doc, cur - 1) = sections[K].to
      BY <1>1, <2>1 DEF AreInARow, K
    <2> QED
      BY <1>2, <2>1, <2>2
  <1>7. /\ Here.from \in Nat /\ Here.to \in 0..T /\ Here.from <= Here.to
        /\ Here.offset = CharsTo(doc, Here.from) /\ Here.to \in Nat
    BY <1>2, <1>3, <1>4 DEF Here
  <1>8. Length \in Nat /\ Here.to = Here.from + Length
    BY <1>7 DEF Length
  <1> QED
    BY <1>2, <1>3, <1>5, <1>6, <1>7, <1>8 DEF Here, K, T

\* What one iteration makes of the places.
LEMMA WindowIs ==
    ASSUME ChunkInv, Window
    PROVE  LET a == Here.from + begin
               e == Here.from + WindowEnd
           IN  /\ a \in Nat /\ e \in Nat /\ a < e /\ e <= Len(doc.tokens)
               /\ Here.from <= a /\ e <= Here.to
               /\ Reached = a /\ Reached' \in Nat /\ Reached' <= Len(doc.tokens) /\ a < Reached'
               /\ Covered \in Nat /\ a <= Covered /\ Covered < e /\ Covered' = e
               /\ Piece = [chunk_index |-> index, start |-> CharsTo(doc, a), end |-> CharsTo(doc, e)]
               /\ at' \in 1..Len(sections) + 1 /\ begin' \in Nat
               /\ begin' > 0 => at' <= Len(sections) /\ Step <= begin'
                                /\ begin' - Step + Target < Length'
  <1> DEFINE f == Here.from
             T == Len(doc.tokens)
             K == Len(sections)
             L == Length
             W == WindowEnd
  <1>1. Busy /\ begin < L /\ doc' = doc /\ sections' = sections /\ begin \in Nat /\ at \in Nat
    <2>1. at \in 1..K + 1 /\ begin \in Nat
      BY DEF ChunkInv, WindowsAreInARow
    <2>2. K \in Nat
      BY DEF ChunkInv, SplitInv
    <2> QED
      BY <2>1, <2>2 DEF Window, splitVars
  <1>2. /\ K \in Nat /\ T \in Nat /\ f \in Nat /\ L \in Nat /\ Here.to = f + L /\ f + L <= T
        /\ Here.offset = CharsTo(doc, f) /\ 1 <= at /\ at <= K
        /\ IF at + 1 <= K THEN sections[at + 1].from = f + L ELSE T = f + L
    <2>1. at \in DOMAIN sections /\ sections \in Seq([offset : Nat, from : Nat, to : Nat])
      BY <1>1, HereIs DEF ChunkInv, SplitInv
    <2>2. at \in 1..K
      BY <2>1
    <2> QED
      BY <1>1, <2>2, HereIs
  <1>3. Step \in Nat /\ 1 <= Step /\ Step <= Target /\ Target \in Nat
    BY StepIs
  <1>4. begin > 0 => Step <= begin /\ begin - Step + Target < L
    BY DEF ChunkInv, WindowsAreInARow
  <1>5. W = IF begin + Target < L THEN begin + Target ELSE L
    BY DEF WindowEnd
  <1>6. Covered = IF begin = 0 THEN f ELSE f + begin - Step + Target
    BY <1>2, <1>1 DEF Covered
  <1>7. Reached = f + begin
    BY <1>2 DEF Reached
  <1>8. Piece = [chunk_index |-> index, start |-> CharsTo(doc, f + begin), end |-> CharsTo(doc, f + W)]
    <2>1. doc \in Texts
      BY DEF ChunkInv, SplitInv
    <2>2. W \in Nat /\ W <= L
      BY <1>1, <1>2, <1>3, <1>5
    <2> HIDE DEF W, L, T, K, f
    <2>3. f \in 0..T /\ f + begin \in 0..T /\ f + W \in 0..T
      BY <1>1, <1>2, <2>2
    <2>4. CharsTo(doc, f) \in Nat /\ CharsTo(doc, f + begin) \in Nat /\ CharsTo(doc, f + W) \in Nat
      BY <2>1, <2>3, TextIs DEF T
    <2>5. \A x, y \in Nat : x + (y - x) = y
      OBVIOUS
    <2>6. /\ Here.offset + PrefixChars(begin) = CharsTo(doc, f + begin)
          /\ Here.offset + PrefixChars(W) = CharsTo(doc, f + W)
      BY <1>2, <2>4, <2>5 DEF PrefixChars, f
    <2> QED
      BY <2>6 DEF Piece, W
  <1>9. CASE W = L
    <2>1. at' = at + 1 /\ begin' = 0
      BY <1>9 DEF Window, LastWindow
    <2>2. Reached' = f + L
      BY <1>1, <1>2, <2>1 DEF Reached, Here
    <2>3. Covered' = f + L
      BY <1>1, <1>2, <2>1 DEF Covered, Here
    <2> HIDE DEF W, L, T, K, f
    <2>4. /\ f + begin \in Nat /\ f + W \in Nat /\ f + begin < f + W /\ f + W <= T
          /\ f <= f + begin /\ f + W <= f + L
          /\ f + L \in Nat /\ f + L <= T /\ f + begin < f + L
          /\ Covered \in Nat /\ f + begin <= Covered /\ Covered < f + W
          /\ at' \in 1..K + 1 /\ begin' \in Nat /\ ~(begin' > 0)
      BY <1>1, <1>2, <1>3, <1>4, <1>5, <1>6, <1>9, <2>1
    <2> QED
      BY <1>2, <1>7, <1>8, <1>9, <2>2, <2>3, <2>4 DEF W, L, T, K, f
  <1>10. CASE W # L
    <2>1. at' = at /\ begin' = begin + Step /\ W = begin + Target /\ begin + Target < L
      BY <1>5, <1>10 DEF Window, LastWindow
    <2>2. Here' = Here /\ Length' = Length
      BY <1>1, <2>1 DEF Here, Length
    <2>3. begin' \in Nat /\ begin' # 0
      BY <1>1, <1>3, <2>1
    <2>4. Reached' = f + (begin + Step)
      BY <1>1, <1>2, <2>1, <2>2 DEF Reached
    <2>5. Covered' = f + (begin + Step) - Step + Target
      BY <1>1, <1>2, <2>1, <2>2, <2>3 DEF Covered, Step
    <2> HIDE DEF W, L, T, K, f
    <2>6. /\ f + begin \in Nat /\ f + W \in Nat /\ f + begin < f + W /\ f + W <= T
          /\ f <= f + begin /\ f + W <= f + L
          /\ f + (begin + Step) \in Nat /\ f + (begin + Step) <= T /\ f + begin < f + (begin + Step)
          /\ Covered \in Nat /\ f + begin <= Covered /\ Covered < f + W
          /\ at' \in 1..K + 1 /\ at' <= K /\ Step <= begin' /\ begin' - Step + Target < L
          /\ f + (begin + Step) - Step + Target = f + W
      BY <1>1, <1>2, <1>3, <1>4, <1>5, <1>6, <2>1
    <2> QED
      BY <1>2, <1>7, <1>8, <2>2, <2>3, <2>4, <2>5, <2>6 DEF W, L, T, K, f
  <1> QED
    BY <1>9, <1>10

LEMMA WindowKeeps ==
    ASSUME ChunkInv, Window, SplitInv'
    PROVE  ChunkInv'
  <1> DEFINE a == Here.from + begin
             e == Here.from + WindowEnd
             T == Len(doc.tokens)
             P == Len(pieces)
             p == Piece
  <1>1. /\ a \in Nat /\ e \in Nat /\ a < e /\ e <= T /\ Here.from <= a /\ e <= Here.to
        /\ Reached = a /\ Reached' \in Nat /\ Reached' <= T /\ a < Reached'
        /\ Covered \in Nat /\ a <= Covered /\ Covered < e /\ Covered' = e
        /\ p = [chunk_index |-> index, start |-> CharsTo(doc, a), end |-> CharsTo(doc, e)]
        /\ at' \in 1..Len(sections) + 1 /\ begin' \in Nat
        /\ begin' > 0 => at' <= Len(sections) /\ Step <= begin' /\ begin' - Step + Target < Length'
    BY WindowIs
  <1>2. Busy /\ doc' = doc /\ sections' = sections /\ markdown' = markdown /\ cur' = cur
    BY DEF Window, splitVars
  <1>3. /\ doc \in Texts /\ T \in Nat /\ DOMAIN doc.tokens = 1..T
        /\ \A t \in 0..T : CharsTo(doc, t) \in Nat
        /\ \A s, t \in 0..T : s < t => CharsTo(doc, s) < CharsTo(doc, t)
        /\ \A s, t \in 0..T : s <= t => CharsTo(doc, s) <= CharsTo(doc, t)
    <2>1. doc \in Texts
      BY DEF ChunkInv, SplitInv
    <2> QED
      BY <2>1, TextIs
  <1>4. /\ pieces \in Seq([chunk_index : Nat, start : Nat, end : Nat]) /\ index = P
        /\ P \in Nat /\ DOMAIN pieces = 1..P
    BY DEF ChunkInv, WindowsAreInARow
  <1>5. at \in DOMAIN sections /\ Here.from \in 0..T /\ Here.to \in 0..T
    <2>1. /\ at \in DOMAIN sections /\ Here.from \in Nat /\ Length \in Nat
          /\ Here.to = Here.from + Length /\ Here.to \in 0..T
      BY <1>2, HereIs
    <2> QED
      BY <1>3, <2>1
  <1>6. IsSplit /\ IsSplit'
    BY <1>2 DEF Busy, IsSplit
  <1> HIDE DEF a, e, T, P, p
  <1>7. /\ a \in 0..T /\ e \in 0..T /\ Reached' \in 0..T /\ Covered \in 0..T
        /\ CharsTo(doc, a) \in Nat /\ CharsTo(doc, e) \in Nat
        /\ CharsTo(doc, a) < CharsTo(doc, Reached')
        /\ CharsTo(doc, Covered) \in Nat /\ CharsTo(doc, Covered) < CharsTo(doc, e)
        /\ CharsTo(doc, Reached') \in Nat
        /\ CharsTo(doc, Here.from) <= CharsTo(doc, a)
        /\ CharsTo(doc, e) <= CharsTo(doc, Here.to)
    <2>1. a \in 0..T /\ e \in 0..T /\ Reached' \in 0..T /\ Covered \in 0..T
      BY <1>1, <1>3
    <2> QED
      BY <1>1, <1>3, <1>5, <2>1
  <1>8. \A n \in 1..P : pieces[n].start \in Nat /\ pieces[n].end \in Nat
    <2>1. \A S, f : f \in Seq(S) => \A n \in 1..Len(f) : f[n] \in S
      OBVIOUS
    <2>2. \A n \in 1..P : pieces[n] \in [chunk_index : Nat, start : Nat, end : Nat]
      BY <1>4, <2>1 DEF P
    <2> QED
      BY <2>2
  <1>9. \A n \in 1..P : pieces[n].start < CharsTo(doc, a) /\ pieces[n].end <= CharsTo(doc, Covered)
    BY <1>1, <1>4 DEF ChunkInv, PiecesAreBehind
  <1>10. \A n \in 1..P : /\ pieces[n].start < CharsTo(doc, Reached')
                         /\ pieces[n].end < CharsTo(doc, e)
    BY <1>7, <1>8, <1>9
  <1>11. CASE Blank
    <2>1. pieces' = pieces /\ index' = index
      BY <1>11 DEF Window
    <2>2. PiecesAreBehind'
      <3>1. \A n \in 1..P : pieces[n].end <= CharsTo(doc, e)
        BY <1>7, <1>8, <1>10
      <3> QED
        BY <1>1, <1>2, <1>4, <1>10, <2>1, <3>1 DEF PiecesAreBehind
    <2>3. CoveredIsKept'
      <3> SUFFICES ASSUME NEW t \in 1..T, t <= e, ~doc.tokens[t].blank
                   PROVE  \E n \in DOMAIN pieces : Lies(n, t)
        BY <1>1, <1>2, <1>3, <2>1 DEF CoveredIsKept, Lies
      <3>1. \A u \in a + 1..e : doc.tokens[u].blank
        BY <1>11 DEF Blank, a, e
      <3>2. t <= Covered
        BY <1>1, <3>1
      <3> QED
        BY <1>3, <1>6, <3>2 DEF ChunkInv, CoveredIsKept
    <2>4. PiecesAreOfSections' /\ PiecesAdvance'
      BY <1>2, <2>1 DEF ChunkInv, PiecesAreOfSections, PiecesAdvance
    <2>5. WindowsAreInARow'
      BY <1>1, <1>2, <1>4, <1>6, <2>1 DEF WindowsAreInARow, P, Step
    <2> QED
      BY <2>2, <2>3, <2>4, <2>5 DEF ChunkInv
  <1>12. CASE ~Blank
    <2>1. pieces' = Append(pieces, p) /\ index' = index + 1
      BY <1>12 DEF Window, p
    <2>2. /\ p.chunk_index = P /\ p.start = CharsTo(doc, a) /\ p.end = CharsTo(doc, e)
          /\ p \in [chunk_index : Nat, start : Nat, end : Nat]
      BY <1>1, <1>4, <1>7
    <2>3. /\ pieces' \in Seq([chunk_index : Nat, start : Nat, end : Nat])
          /\ Len(pieces') = P + 1 /\ DOMAIN pieces' = 1..P + 1 /\ pieces'[P + 1] = p
          /\ \A n \in 1..P : pieces'[n] = pieces[n]
      BY <1>4, <2>1, <2>2 DEF P
    <2>4. \A n \in 1..P + 1 : n \in 1..P \/ n = P + 1
      BY <1>4
    <2>5. PiecesAreBehind'
      <3> SUFFICES ASSUME NEW n \in 1..P + 1
                   PROVE  pieces'[n].start < CharsTo(doc, Reached') /\ pieces'[n].end <= CharsTo(doc, e)
        BY <1>1, <1>2, <2>3 DEF PiecesAreBehind
      <3>1. CASE n \in 1..P
        <4>1. pieces'[n] = pieces[n]
          BY <2>3, <3>1
        <4>2. pieces[n].end \in Nat /\ CharsTo(doc, e) \in Nat /\ pieces[n].end < CharsTo(doc, e)
          BY <1>7, <1>8, <1>10, <3>1
        <4> QED
          BY <1>10, <3>1, <4>1, <4>2
      <3>2. CASE n = P + 1
        BY <1>7, <2>2, <2>3, <3>2
      <3> QED
        BY <2>4, <3>1, <3>2
    <2>6. CoveredIsKept'
      <3> SUFFICES ASSUME NEW t \in 1..T, t <= e, ~doc.tokens[t].blank
                   PROVE  \E n \in 1..P + 1 : /\ pieces'[n].start <= CharsTo(doc, t - 1)
                                              /\ CharsTo(doc, t) <= pieces'[n].end
        BY <1>1, <1>2, <1>3, <2>3 DEF CoveredIsKept, Lies
      <3>1. CASE t <= Covered
        <4>1. PICK n \in 1..P : Lies(n, t)
          BY <1>3, <1>4, <1>6, <3>1 DEF ChunkInv, CoveredIsKept
        <4>2. n \in 1..P + 1 /\ pieces'[n] = pieces[n]
          BY <1>4, <2>3
        <4> QED
          BY <4>1, <4>2 DEF Lies
      <3>2. CASE ~(t <= Covered)
        <4>1. t \in 0..T /\ t - 1 \in 0..T /\ a <= t - 1 /\ P + 1 \in 1..P + 1
          BY <1>1, <1>3, <1>4, <3>2
        <4>2. CharsTo(doc, a) <= CharsTo(doc, t - 1) /\ CharsTo(doc, t) <= CharsTo(doc, e)
          BY <1>3, <1>7, <4>1
        <4> QED
          BY <2>2, <2>3, <4>1, <4>2
      <3> QED
        BY <3>1, <3>2
    <2>7. PiecesAreOfSections'
      <3> SUFFICES ASSUME NEW n \in 1..P + 1
                   PROVE  \E k \in DOMAIN sections :
                             /\ CharsTo(doc, sections[k].from) <= pieces'[n].start
                             /\ pieces'[n].end <= CharsTo(doc, sections[k].to)
        BY <1>2, <2>3 DEF PiecesAreOfSections
      <3>1. CASE n \in 1..P
        BY <1>4, <2>3, <3>1 DEF ChunkInv, PiecesAreOfSections
      <3>2. CASE n = P + 1
        BY <1>5, <1>7, <2>2, <2>3, <3>2 DEF Here
      <3> QED
        BY <2>4, <3>1, <3>2
    <2>8. PiecesAdvance'
      <3>1. \A n \in 1..P : /\ pieces[n].chunk_index = n - 1
                            /\ n > 1 => /\ pieces[n - 1].start < pieces[n].start
                                        /\ pieces[n - 1].end < pieces[n].end
        BY <1>4 DEF ChunkInv, PiecesAdvance
      <3> SUFFICES ASSUME NEW n \in 1..P + 1
                   PROVE  /\ pieces'[n].chunk_index = n - 1
                          /\ n > 1 => /\ pieces'[n - 1].start < pieces'[n].start
                                      /\ pieces'[n - 1].end < pieces'[n].end
        BY <2>3 DEF PiecesAdvance
      <3>2. n > 1 => n - 1 \in 1..P
        BY <1>4
      <3>3. n > 1 => pieces'[n - 1] = pieces[n - 1]
        BY <2>3, <3>2
      <3>4. CASE n \in 1..P
        BY <2>3, <3>1, <3>3, <3>4
      <3>5. CASE n = P + 1
        <4>1. pieces'[n] = p /\ n - 1 = P
          BY <1>4, <2>3, <3>5
        <4>2. n > 1 => pieces[n - 1].start < CharsTo(doc, a) /\ pieces[n - 1].end < CharsTo(doc, e)
          BY <1>9, <1>10, <3>2
        <4> QED
          BY <2>2, <3>3, <4>1, <4>2
      <3> QED
        BY <2>4, <3>4, <3>5
    <2>9. WindowsAreInARow'
      BY <1>1, <1>2, <1>4, <1>6, <2>1, <2>3 DEF WindowsAreInARow, Step
    <2> QED
      BY <2>5, <2>6, <2>7, <2>8, <2>9 DEF ChunkInv
  <1> QED
    BY <1>11, <1>12

LEMMA NoTokensKeeps ==
    ASSUME ChunkInv, NoTokens, SplitInv'
    PROVE  ChunkInv'
  <1> DEFINE T == Len(doc.tokens)
             K == Len(sections)
  <1>1. /\ Busy /\ Length = 0 /\ at' = at + 1 /\ doc' = doc /\ sections' = sections
        /\ cur' = cur /\ begin' = begin /\ index' = index /\ pieces' = pieces
    BY DEF NoTokens, splitVars
  <1>2. /\ at \in DOMAIN sections /\ K \in Nat /\ T \in Nat /\ Here.from \in Nat
        /\ Here.to = Here.from + Length
        /\ IF at + 1 <= K THEN sections[at + 1].from = Here.to ELSE T = Here.to
    BY <1>1, HereIs
  <1>3. at \in 1..K /\ DOMAIN sections = 1..K
    <2>1. sections \in Seq([offset : Nat, from : Nat, to : Nat])
      BY DEF ChunkInv, SplitInv
    <2>2. DOMAIN sections = 1..K
      BY <2>1
    <2> QED
      BY <1>2, <2>2
  <1>4. begin = 0
    <2>1. /\ begin \in Nat
          /\ begin > 0 => Step <= begin /\ begin - Step + Target < 0
      BY <1>1 DEF ChunkInv, WindowsAreInARow
    <2> QED
      BY <2>1, StepIs
  <1>5. Here.to = Here.from
    BY <1>1, <1>2
  <1>6. Reached' = Here.from /\ Covered' = Here.from
    BY <1>1, <1>2, <1>3, <1>4, <1>5 DEF Reached, Covered, Here
  <1>7. Reached = Here.from /\ Covered = Here.from
    BY <1>2, <1>3, <1>4 DEF Reached, Covered
  <1>8. PiecesAreBehind' /\ CoveredIsKept'
    BY <1>1, <1>6, <1>7 DEF ChunkInv, PiecesAreBehind, CoveredIsKept, Lies, IsSplit, Busy
  <1>9. PiecesAreOfSections' /\ PiecesAdvance'
    BY <1>1 DEF ChunkInv, PiecesAreOfSections, PiecesAdvance
  <1>10. WindowsAreInARow'
    BY <1>1, <1>2, <1>3, <1>4 DEF ChunkInv, WindowsAreInARow, Busy, IsSplit
  <1> QED
    BY <1>8, <1>9, <1>10 DEF ChunkInv

LEMMA ChunkInvStarts == ChunkInit => ChunkInv
  <1> SUFFICES ASSUME ChunkInit PROVE ChunkInv
    OBVIOUS
  <1>1. SplitInv
    BY SplitInvStarts
  <1>2. at = 1 /\ begin = 0 /\ index = 0 /\ pieces = <<>> /\ doc \in Texts
    BY DEF ChunkInit
  <1>3. Len(sections) \in Nat /\ DOMAIN sections = 1..Len(sections)
    BY <1>1 DEF SplitInv
  <1>4. WindowsAreInARow
    BY <1>2, <1>3 DEF WindowsAreInARow
  <1>5. IsSplit => Covered = 0
    <2>1. CASE sections = <<>>
      <3> SUFFICES ASSUME IsSplit PROVE Covered = 0
        OBVIOUS
      <3>1. cur - 1 = Len(doc.lines)
        BY <1>2, TextIs DEF IsSplit
      <3>2. TokensTo(doc, cur - 1) = 0 /\ TokensTo(doc, Len(doc.lines)) = Len(doc.tokens)
        BY <1>1, <1>2, <2>1, TextIs DEF SplitInv, AreInARow
      <3> QED
        BY <1>2, <2>1, <3>1, <3>2 DEF Covered
    <2>2. CASE sections # <<>>
      <3>1. 1 \in DOMAIN sections /\ ~(1 > Len(sections))
        BY <1>1, <1>3, <2>2 DEF SplitInv
      <3>2. sections[1].from = 0
        BY <1>1, <3>1 DEF SplitInv, AreInARow
      <3> QED
        BY <1>2, <3>1, <3>2 DEF Covered, Here
    <2> QED
      BY <2>1, <2>2
  <1>6. CoveredIsKept
    <2>1. \A t \in DOMAIN doc.tokens : ~(t <= 0)
      BY <1>2, TextIs
    <2> QED
      BY <1>5, <2>1 DEF CoveredIsKept
  <1> QED
    BY <1>1, <1>2, <1>4, <1>6 DEF ChunkInv, PiecesAreBehind, PiecesAreOfSections, PiecesAdvance

LEMMA SplittingKeeps ==
    ASSUME ChunkInv, ReadLine \/ CloseLast, SplitInv'
    PROVE  ChunkInv'
  <1> DEFINE N == Len(doc.lines)
  <1>1. /\ doc \in Texts /\ line \in 1..N + 1 /\ cur \in 1..line /\ N \in Nat
        /\ sections \in Seq([offset : Nat, from : Nat, to : Nat])
    <2>1. doc \in Texts
      BY DEF ChunkInv, SplitInv
    <2> QED
      BY <2>1, TextIs DEF ChunkInv, SplitInv
  <1>2. ~IsSplit
    BY <1>1 DEF ReadLine, CloseLast, IsSplit
  <1>3. /\ at = 1 /\ begin = 0 /\ pieces = <<>> /\ index = 0
        /\ at' = 1 /\ begin' = 0 /\ pieces' = <<>> /\ index' = 0 /\ doc' = doc
    BY <1>2 DEF ChunkInv, WindowsAreInARow, ReadLine, CloseLast
  <1>4. sections' \in Seq([offset : Nat, from : Nat, to : Nat])
    BY DEF SplitInv
  <1>5. WindowsAreInARow'
    <2>1. Len(sections') \in Nat /\ Len(pieces') = 0
      BY <1>3, <1>4
    <2>2. 1 \in 1..Len(sections') + 1
      BY <2>1
    <2> QED
      BY <1>3, <2>1, <2>2 DEF WindowsAreInARow
  <1>6. CoveredIsKept'
    <2>1. CASE ReadLine
      <3>1. cur' # N + 1
        BY <1>1, <2>1 DEF ReadLine, Opened
      <3> QED
        BY <1>3, <3>1 DEF CoveredIsKept, IsSplit
    <2>2. CASE CloseLast
      <3>1. Len(sections') = Len(sections) + 1 /\ Len(sections) \in Nat
        BY <1>1, <2>2 DEF CloseLast
      <3>2. 1 \in DOMAIN sections' /\ ~(1 > Len(sections'))
        BY <1>4, <3>1
      <3>3. sections'[1].from = 0
        BY <3>2 DEF SplitInv, AreInARow
      <3>4. Covered' = 0
        BY <1>3, <3>2, <3>3 DEF Covered, Here
      <3>5. \A t \in DOMAIN doc.tokens : ~(t <= 0)
        BY <1>1, TextIs
      <3> QED
        BY <1>3, <3>4, <3>5 DEF CoveredIsKept
    <2> QED
      BY <2>1, <2>2
  <1> QED
    BY <1>3, <1>5, <1>6 DEF ChunkInv, PiecesAreBehind, PiecesAreOfSections, PiecesAdvance

LEMMA ChunkInvStays == ChunkInv /\ [ChunkNext]_chunkVars => ChunkInv'
  <1> SUFFICES ASSUME ChunkInv, [ChunkNext]_chunkVars PROVE ChunkInv'
    OBVIOUS
  <1>1. SplitInv'
    BY SplitInvStays DEF ChunkInv
  <1>2. CASE UNCHANGED chunkVars
    BY <1>1, <1>2 DEF ChunkInv, WindowsAreInARow, PiecesAreBehind, CoveredIsKept,
                      PiecesAreOfSections, PiecesAdvance, Reached, Covered, Lies, IsSplit, Here,
                      Length, chunkVars, splitVars
  <1> QED
    BY <1>1, <1>2, SplittingKeeps, WindowKeeps, NoTokensKeeps DEF ChunkNext, Returned

LEMMA ChunkInvHolds == ChunkSpec => []ChunkInv
  <1> QED
    BY ChunkInvStarts, ChunkInvStays, PTL DEF ChunkSpec

\* Every token of a document that is not white space is whole in some chunk when it has
\* been cut, for any sizes of windows and their overlap: _token_chunks skips no tokens
\* between windows, and split_markdown_sections none between sections.
THEOREM ChunksCoverDocument == ChunkSpec => []NothingLost
  <1>1. ChunkInv => NothingLost
    <2> SUFFICES ASSUME ChunkInv, Done PROVE \A t \in DOMAIN doc.tokens : ~doc.tokens[t].blank =>
                 \E n \in DOMAIN pieces : Lies(n, t)
      BY DEF NothingLost, Lies
    <2>1. IsSplit /\ Covered = Len(doc.tokens)
      BY DEF Done, Covered
    <2>2. \A t \in DOMAIN doc.tokens : t <= Len(doc.tokens)
      BY TextIs DEF ChunkInv, SplitInv
    <2> QED
      BY <2>1, <2>2 DEF ChunkInv, CoveredIsKept
  <1> QED
    BY <1>1, ChunkInvHolds, PTL

\* The chunks of a document are numbered from 0 without gaps, across its sections, and each
\* starts and ends after the one before it.
THEOREM ChunksAdvance == ChunkSpec => []PiecesAdvance
  <1>1. ChunkInv => PiecesAdvance
    BY DEF ChunkInv
  <1> QED
    BY <1>1, ChunkInvHolds, PTL

\* No chunk of a Markdown document reaches over a header of it.
THEOREM ChunksKeepSections == ChunkSpec => []NoPieceSpansHeader
  <1>1. ChunkInv => NoPieceSpansHeader
    <2> SUFFICES ASSUME ChunkInv, markdown, NEW n \in DOMAIN pieces, NEW l \in DOMAIN doc.lines,
                        doc.lines[l].header
                 PROVE  LET border == CharsTo(doc, TokensTo(doc, l - 1))
                        IN  ~(pieces[n].start < border /\ border < pieces[n].end)
      BY DEF NoPieceSpansHeader
    <2> DEFINE border == CharsTo(doc, TokensTo(doc, l - 1))
               N == Len(doc.lines)
               T == Len(doc.tokens)
    <2>1. /\ doc \in Texts /\ line \in 1..N + 1 /\ cur \in 1..line /\ AreInARow /\ HeadersOpen
          /\ sections \in Seq([offset : Nat, from : Nat, to : Nat])
      BY DEF ChunkInv, SplitInv
    <2>2. /\ N \in Nat /\ l \in 1..N /\ T \in Nat
          /\ \A t \in 0..T : CharsTo(doc, t) \in Nat
          /\ \A s, t \in 0..T : s <= t => CharsTo(doc, s) <= CharsTo(doc, t)
      BY <2>1, TextIs
    <2>3. cur = N + 1
      <3>1. pieces # <<>>
        OBVIOUS
      <3> QED
        BY <3>1 DEF ChunkInv, WindowsAreInARow, IsSplit
    <2>4. l < line /\ l # cur
      BY <2>1, <2>2, <2>3
    <2>5. PICK k \in DOMAIN sections : sections[k].from = TokensTo(doc, l - 1)
      BY <2>1, <2>4 DEF HeadersOpen
    <2>6. PICK j \in DOMAIN sections : /\ CharsTo(doc, sections[j].from) <= pieces[n].start
                                       /\ pieces[n].end <= CharsTo(doc, sections[j].to)
      BY DEF ChunkInv, PiecesAreOfSections
    <2>7. pieces[n].start \in Nat /\ pieces[n].end \in Nat
      <3>1. \A S, f : f \in Seq(S) => \A i \in DOMAIN f : f[i] \in S
        OBVIOUS
      <3>2. pieces[n] \in [chunk_index : Nat, start : Nat, end : Nat]
        BY <3>1 DEF ChunkInv, WindowsAreInARow
      <3> QED
        BY <3>2
    <2>8. /\ sections[k].from \in 0..T /\ sections[j].from \in 0..T
          /\ sections[k].to \in 0..T /\ sections[j].to \in 0..T
          /\ sections[k].from <= sections[k].to
      <3>1. \A i \in DOMAIN sections : /\ sections[i].from \in Nat /\ sections[i].to \in 0..T
                                       /\ sections[i].from <= sections[i].to
        BY <2>1 DEF AreInARow
      <3>2. \A i \in DOMAIN sections : sections[i].from \in 0..T
        BY <2>2, <3>1
      <3> QED
        BY <3>1, <3>2
    <2>9. j < k \/ j = k \/ k < j
      BY <2>1
    <2>10. (j < k => sections[j].to <= sections[k].from) /\ (k < j => sections[k].to <= sections[j].from)
      BY <2>1 DEF AreInARow
    <2>11. border = CharsTo(doc, sections[k].from) /\ border \in Nat
      BY <2>2, <2>5, <2>8
    <2> HIDE DEF border, N, T
    <2>12. CASE j < k
      <3>1. CharsTo(doc, sections[j].to) <= border /\ CharsTo(doc, sections[j].to) \in Nat
        BY <2>2, <2>8, <2>10, <2>11, <2>12
      <3> QED
        BY <2>6, <2>7, <2>11, <3>1 DEF border
    <2>13. CASE j = k
      BY <2>6, <2>7, <2>11, <2>13 DEF border
    <2>14. CASE k < j
      <3>1. sections[k].from <= sections[j].from
        BY <2>8, <2>10, <2>14, <2>2
      <3>2. border <= CharsTo(doc, sections[j].from) /\ CharsTo(doc, sections[j].from) \in Nat
        BY <2>2, <2>8, <2>11, <3>1
      <3> QED
        BY <2>6, <2>7, <2>11, <3>2 DEF border
    <2> QED
      BY <2>9, <2>12, <2>13, <2>14
  <1> QED
    BY <1>1, ChunkInvHolds, PTL
=============================================================================
