------------------------------ MODULE Seeding -------------------------------
(***************************************************************************)
(* scripts/seed_db.py: write_corpus() of app/seed/generator.py writes the  *)
(* corpus file by file, load_database() of app/seed/loader.py loads the    *)
(* structured tables in one transaction, under the constraints of the      *)
(* migration.  The script is run again and again, with any options, and    *)
(* may die at any point, leaving a directory half removed, tickets.jsonl   *)
(* cut off or a document cut short.  Runs follow one another.              *)
(***************************************************************************)
EXTENDS SeedData

CONSTANTS Seeds,    \* seeds the script is given
          Drawn,    \* what the generator draws for each of them: the choices
          GoldSize  \* items of the gold set

ASSUME DrawnIsDrawn == Drawn \subseteq Draws(Nat, Nat)

VARIABLES
    drawn,        \* the draw of every seed, fixed: the generator is deterministic
    pc, run,      \* what the script does next, and its options, if it runs
    todo,         \* documents still to be written
    jsonl,        \* tickets.jsonl, as a set of at most one content
    files,        \* the Markdown files
    tables, txn,  \* the structured tables as committed, and as the load sees them
    corpusOf,     \* the seed whose corpus was written to its end, and not touched since
                  \* (history)
    lastLoad      \* options and outcome of the last load that ended (history)

diskVars == <<todo, jsonl, files, corpusOf>>
dbVars   == <<tables, txn, lastLoad>>
seedVars == <<drawn, pc, run, diskVars, dbVars>>

-----------------------------------------------------------------------------
DataOf(s) == Dataset(drawn[s])

Options == [seed : Seeds, corpus : BOOLEAN, database : BOOLEAN, truncate : BOOLEAN]

NoRun == <<>>

TableNames == {"slas", "customers", "incidents", "tickets", "metrics_daily"}

\* The tables as the migration creates them.
EmptyTables == [t \in TableNames |-> {}]

\* The primary key of a table, or its unique constraint where the key is generated.
KeyOf(t, row) ==
    IF t = "metrics_daily" THEN <<row.date, row.service, row.metric_name>> ELSE row.id

ReferencesOf(t) == CASE t = "customers"              -> {<<"sla_id", "slas">>}
                     [] t \in {"incidents", "tickets"} -> {<<"customer_id", "customers">>}
                     [] OTHER                        -> {}

ChecksHold(t, row) ==
    CASE t = "slas"      -> row.tier \in Range(SlaTiers)
      [] t = "incidents" -> row.severity \in Severities
      [] t = "tickets"   -> row.priority \in Severities /\ row.status \in Statuses
      [] OTHER           -> TRUE

\* Postgres takes the rows of one INSERT.
Insertable(db, t, rows) ==
    /\ \A k, l \in DOMAIN rows : KeyOf(t, rows[k]) = KeyOf(t, rows[l]) => k = l
    /\ \A k \in DOMAIN rows :
          /\ \A old \in db[t] : KeyOf(t, old) # KeyOf(t, rows[k])
          /\ ChecksHold(t, rows[k])
          /\ \A ref \in ReferencesOf(t) :
                \/ rows[k][ref[1]] = Nobody
                \/ \E target \in db[ref[2]] : target.id = rows[k][ref[1]]

\* The rows of a dataset, table by table.
Loaded(dataset) == [t \in TableNames |-> Range(dataset[t])]

Init == /\ drawn \in [Seeds -> Drawn]
        /\ pc = "idle" /\ run = NoRun
        /\ todo = <<>> /\ jsonl = {} /\ files = {}
        /\ tables = EmptyTables /\ txn = EmptyTables
        /\ corpusOf = {} /\ lastLoad = {}

-----------------------------------------------------------------------------
\* The corpus is done; so is the script, unless it also loads the database.
AfterCorpus == IF run.database THEN pc' = "begin" /\ run' = run
                               ELSE pc' = "idle" /\ run' = NoRun

\* _run(): the dataset is generated.
Start(r) == /\ pc = "idle"
            /\ r.corpus \/ r.database
            /\ run' = r
            /\ pc' = IF r.corpus THEN "clear postmortems" ELSE "begin"
            /\ UNCHANGED <<drawn, diskVars, dbVars>>

InDir(d) == {f \in files : f.dir = d}

\* Mutant: what is in the directory stays.
KeptFiles(d) == files

\* rmtree() of a directory.
Removed(d) == files \ InDir(d)

ClearPostmortems == /\ pc = "clear postmortems"
                    /\ files' = Removed("postmortems")
                    /\ corpusOf' = {}
                    /\ pc' = "clear runbooks"
                    /\ UNCHANGED <<drawn, run, todo, jsonl, dbVars>>

ClearRunbooks == /\ pc = "clear runbooks"
                 /\ files' = Removed("runbooks")
                 /\ pc' = "write tickets"
                 /\ UNCHANGED <<drawn, run, todo, jsonl, corpusOf, dbVars>>

WriteTickets ==
    /\ pc = "write tickets"
    /\ jsonl' = {[lines |-> DataOf(run.seed).tickets, torn |-> FALSE]}
    /\ todo' = DataOf(run.seed).postmortems \o DataOf(run.seed).runbooks
    /\ pc' = "write documents"
    /\ UNCHANGED <<drawn, run, files, corpusOf, dbVars>>

\* A document as a file, over the file of that name.
Written(doc, whole) ==
    {f \in files : f.dir # doc.dir \/ f.stem # doc.stem} \cup
        {[dir |-> doc.dir, stem |-> doc.stem, source_type |-> doc.source_type,
          text |-> doc.text, whole |-> whole]}

WriteDocument ==
    /\ pc = "write documents"
    /\ files' = Written(Head(todo), TRUE)
    /\ todo' = Tail(todo)
    /\ IF Len(todo) = 1 THEN corpusOf' = {run.seed} /\ AfterCorpus
                        ELSE UNCHANGED <<corpusOf, pc, run>>
    /\ UNCHANGED <<drawn, jsonl, dbVars>>

-----------------------------------------------------------------------------
\* Mutant: a table is missing from the TRUNCATE.
TruncatedButMetrics == [EmptyTables EXCEPT !["metrics_daily"] = tables["metrics_daily"]]

Truncated == EmptyTables

\* The transaction begins, and truncates the five tables unless told not to.
Begin == /\ pc = "begin"
         /\ txn' = IF run.truncate THEN Truncated ELSE tables
         /\ pc' = "slas"
         /\ UNCHANGED <<drawn, run, tables, lastLoad, diskVars>>

\* The order of the INSERTs.
After(t) == [slas |-> "customers", customers |-> "incidents", incidents |-> "tickets",
             tickets |-> "metrics_daily", metrics_daily |-> "commit"][t]

Rows(t) == DataOf(run.seed)[t]

Insert(t) == /\ pc = t
             /\ Insertable(txn, t, Rows(t))
             /\ txn' = [txn EXCEPT ![t] = @ \cup Range(Rows(t))]
             /\ pc' = After(t)
             /\ UNCHANGED <<drawn, run, tables, lastLoad, diskVars>>

\* The load has ended; `fresh` tells whether the tables were empty before.
LoadEnds(committed, counts) ==
    /\ lastLoad' = {[truncate |-> run.truncate, fresh |-> tables = EmptyTables,
                     committed |-> committed, counts |-> counts, seed |-> run.seed]}
    /\ txn' = EmptyTables
    /\ pc' = "idle" /\ run' = NoRun
    /\ UNCHANGED <<drawn, diskVars>>

\* A constraint is violated: session_scope rolls back.
Reject(t) == /\ pc = t
             /\ ~Insertable(txn, t, Rows(t))
             /\ UNCHANGED tables
             /\ LoadEnds(FALSE, [u \in TableNames |-> 0])

\* The rows are counted, in the transaction, and it commits.
Commit == /\ pc = "commit"
          /\ tables' = txn
          /\ LoadEnds(TRUE, [u \in TableNames |-> Cardinality(txn[u])])

-----------------------------------------------------------------------------
\* What a crash may leave of the step under way on the disk.
HalfCleared(d) == /\ files' \in {files \ gone : gone \in SUBSET InDir(d)}
                  /\ corpusOf' = {}
                  /\ UNCHANGED jsonl

\* The file is opened for writing, which empties it; a line may be cut off.
HalfTickets == /\ LET lines == DataOf(run.seed).tickets
                  IN  jsonl' \in {jsonl} \cup
                         {{[lines |-> SubSeq(lines, 1, n), torn |-> FALSE]} : n \in 0..Len(lines)}
                         \cup {{[lines |-> SubSeq(lines, 1, n - 1), torn |-> TRUE]} :
                                n \in DOMAIN lines}
               /\ UNCHANGED <<files, corpusOf>>

HalfDocument == /\ files' \in {files, Written(Head(todo), FALSE)}
                /\ UNCHANGED <<jsonl, corpusOf>>

\* The script dies; the database drops its transaction.
Crash == /\ pc # "idle"
         /\ CASE pc = "clear postmortems" -> HalfCleared("postmortems")
              [] pc = "clear runbooks"    -> HalfCleared("runbooks")
              [] pc = "write tickets"     -> HalfTickets
              [] pc = "write documents"   -> HalfDocument
              [] OTHER                    -> UNCHANGED <<files, jsonl, corpusOf>>
         /\ pc' = "idle" /\ run' = NoRun /\ todo' = <<>> /\ txn' = EmptyTables
         /\ UNCHANGED <<drawn, tables, lastLoad>>

SeedNext == \/ \E r \in Options : Start(r)
            \/ ClearPostmortems \/ ClearRunbooks \/ WriteTickets \/ WriteDocument
            \/ Begin
            \/ \E t \in TableNames : Insert(t) \/ Reject(t)
            \/ Commit
            \/ Crash

SeedSpec == Init /\ [][SeedNext]_seedVars

-----------------------------------------------------------------------------
\* load_corpus(): a cut line is not JSON, and then nothing is loaded; a document cut
\* short is loaded as it is.
Corpus == IF \E content \in jsonl : content.torn THEN {}
          ELSE {MarkdownDoc(f) : f \in files} \cup
                 UNION {{TicketDoc(t) : t \in Range(content.lines)} : content \in jsonl}

\* A corpus that was written to its end is the corpus of that seed and of no other,
\* whatever earlier runs, of other seeds or cut short, left in the directories: every
\* ticket, postmortem and runbook whole and under its name, and each postmortem of an
\* incident that the same dataset has resolved.
CorpusIsOfOneSeed ==
    \A s \in corpusOf :
       LET data == DataOf(s)
       IN  /\ {d.text : d \in Corpus} = {d.text : d \in Range(data.postmortems \o data.runbooks)}
                                          \cup Range(data.tickets)
           /\ Cardinality({d.doc_id : d \in Corpus}) =
                 NTickets + Len(data.postmortems) + NRunbooks
           /\ \A d \in Corpus :
                 /\ d.whole
                 /\ d.source_type = "postmortem" =>
                       \E i \in Range(data.incidents) : i.id = d.doc_id /\ i.resolved_at # Null

\* "Re-running produces identical rows and never duplicates": what is committed is one
\* dataset or nothing, at every moment and after every crash; a load that truncates is
\* never refused, one that does not is refused when there is something already; and
\* the counts it reports are those of the dataset.
TablesAreOneDataset ==
    /\ tables \in {EmptyTables} \cup {Loaded(DataOf(s)) : s \in Seeds}
    /\ \A l \in lastLoad :
          /\ l.committed <=> l.truncate \/ l.fresh
          /\ l.committed => /\ tables = Loaded(DataOf(l.seed))
                            /\ \A t \in TableNames :
                                  l.counts[t] = Cardinality(DOMAIN DataOf(l.seed)[t])

\* "Questions are written over known seeded documents ... so relevance is unambiguous":
\* the relevant documents of the gold set of a seed are documents that ingestion loads
\* from the corpus of that seed.
GoldDocumentsAreLoaded ==
    \A s \in corpusOf : Gold(DataOf(s), GoldSize) \subseteq {d.doc_id : d \in Corpus}
=============================================================================
