# grounded-ops-agent: a TLA+ model

grounded-ops-agent answers questions over a corpus of documents and a set of operational tables.
It retrieves chunks, lets an LLM call analytics tools over MCP, and returns an answer whose inline
citations point to chunks. This directory models its state-changing parts in TLA+, model-checks
them with TLC on small instances, and proves the central results with TLAPS for all instances.
Paths below are relative to `src/app/` of the repository; `architecture.md` is in `docs/`.

## The system

| Component | Code | State | Operations |
| --- | --- | --- | --- |
| citation registry | `agent/citation_registry.py` | `_by_chunk`, `_order`, one per request | `add`, lookups, rendering |
| agent loop | `agent/orchestrator.py`, `agent/guardrails.py`, `agent/tool_executor.py` | conversation, trace, budget, seen calls, step, one per request | the coroutine `events()`: seed, plan, run tools, force a final answer |
| citation validation | `agent/citations.py` | none | `validate_and_strip` |
| single-shot generation | `agent/generation.py` | one registry | `generate_grounded_answer` |
| ingestion | `ingestion/indexer.py`, `ingestion/store.py`, `api/ingest.py` | the `chunks` table | upsert and prune, one transaction each, per document |
| chunker | `ingestion/chunker.py` | none | cut texts into numbered pieces |
| document loaders | `ingestion/loaders.py` | none | read `data/seed/` back as documents |
| hybrid retrieval | `retrieval/service.py`, `rrf.py`, `reranker.py` | none | check the model, search twice, fuse, cut |
| pgvector store | `retrieval/pgvector_store.py` | the `chunks` table | dense and keyword search, `load_all` |
| FAISS store | `retrieval/faiss_store.py` | index, id map, stamp, two files, a lock | `build`, `ensure`, `search` |
| evaluation | `eval/`, `retrieval/benchmark.py`, `agent/faithfulness.py`, `scripts/build_gold.py` | the gold set, a file | metrics, FAISS against pgvector |
| MCP client | `mcp_client/client.py`, `tools/adapter.py` | a session | connect, list, call, close |
| MCP server | `mcp_server/`, `security/whitelist.py` | none (read-only) | four validated queries, the schema, a search |
| LLM and embedding providers | `llm/` | cached clients | completions, token counts, vectors |
| API | `api/`, `main.py` | cached providers | `/chat` (events), `/search`, `/ingest`, `/health` |
| seed data | `seed/`, `scripts/seed_db.py` | `data/seed/`, five structured tables | write the corpus file by file, load the tables in one transaction |
| schema | `db/`, `migrations/` | none | keys, references, checks |
| settings, errors, logging, pricing | `core/` | settings | |

They interact as follows. `/chat` opens an MCP client, whose server process runs the tools, and
iterates `events()`. The loop calls retrieval once, then alternates completions and tool calls;
the tool `search_records` goes through the same retrieval as the seed, in the server process.
Both feed one registry, from which the final text is validated and the sources are built.
`/ingest` writes the `chunks` table, which every retrieval reads, in other requests and other
processes, at any moment. FAISS derives an index from that table; only the evaluation harness,
the benchmark script and the tests open it. The seeding script writes the corpus that is ingested and
the tables that the tools query; the gold set is made from the same generator and names its documents.

### What is hard, and what makes each part correct

* **Citation registry and agent loop.** Chunks come back again and again, from the seed and from
  several tools, sometimes with other texts, several tool calls per response, some repeated, some
  failing and retried. A label must keep the meaning under which the model saw it, every tool
  call must get its one answer in order, attempts, completions and tokens must stay bounded, the
  request must end, and what is reported (trace, stop reason, sources) must be what happened.
* **Citation validation** changes the very text it scans.
* **Ingestion** is a sequence of transactions without a lock: requests overlap, fail half way, and
  a restart may change the embedding model. What an undisturbed request leaves must be exactly
  its documents, and replacing a document must not make it vanish meanwhile.
* **Retrieval** searches twice, in two snapshots, and fuses lists that share some chunks.
* **FAISS** keeps two structures in memory and two files on disk that are only meaningful
  together, changed across awaits, threads and restarts.
* **Seeding** is meant to be repeated with other seeds and options, and may die half way. What it
  completes must be one dataset, on disk and in the tables.
* **The tools** accept identifiers by one description of the tables and query by another. What the
  offered description allows must be served, and tools that answer one question must agree.
* **Evaluation** joins ids from three places and computes figures from rankings with repetitions.

## The modules

| Module | Models |
| --- | --- |
| `CitationRegistry` | the registry as an operator: `Add`, `Indices`, the lookups, `SourcesFor` |
| `RegistryLoop` | `add()` one iteration per step, over any sequence of calls |
| `GroundedAnswer` | the abstract promise: records are surfaced under permanent labels; an answer's sources are among them, unchanged; or the request fails |
| `Orchestrator` | the agent loop, one action per stretch of the coroutine between two awaits |
| `CitationText` | `validate_and_strip` character by character, as operators |
| `Conversation` | the conversation as the Anthropic and the OpenAI provider send it |
| `Chat` | a `/chat` request: the tool session around the loop, the event stream, the client that stops reading or goes away |
| `Generation` | the single-shot path, from the retrieval to the text and the sources the caller gets |
| `Ingestion` | requests writing the `chunks` table, one transaction per step |
| `Chunker` | sections and token windows, one line or one window per step |
| `Retrieval` | one `retrieve()` call with the table changing under it, and the fusion |
| `FaissStore` | the FAISS store of one process, its files, and the table it derives from |
| `SeedData` | the generated dataset as a function of what is drawn, what the loaders make of the files, the gold set |
| `Seeding` | runs of `seed_db.py`, with the constraints of the migration, and crashes |
| `Analytics` | the whitelist, the validation and the queries of the tools, as operators |
| `ToolServer` | calls of the tools between runs of the script |
| `Evaluation` | the ranking metrics over the rankings a search returns |
| `Places` | positions picked out of a sequence, in order, for the filters the other modules write |
| `RegistryLoop_proof`, `CitationRegistry_proof`, `Orchestrator_proof`, `FaissStore_proof` | the theorems about the module each is named after |
| `Conversation_proof` | the theorems about `Conversation` and `Chat`, and about what the loop says |
| `SingleShot_proof` | those about `CitationText`, `Generation`, `Retrieval` and `Evaluation` |
| `Ingestion_proof` | those about `Ingestion` and `Chunker` |
| `Seeding_proof` | those about `SeedData`, `Seeding` and `ToolServer` |
| `MC...` | the constants of the runs: sets of lists up to a length, tables, symmetry; `MCLoops` puts `RegistryLoop` and `Chunker` side by side |

`Orchestrator` and `Generation` EXTEND `CitationRegistry`, `Generation` also `CitationText`; both
instantiate `GroundedAnswer` with a refinement mapping. `Conversation` and `Chat` EXTEND
`Orchestrator`: the first adds operators over its messages, the second variables around its actions.
`ToolServer` EXTENDS `Seeding` and `Analytics` and runs the tools on the tables the script leaves;
`Seeding` EXTENDS `SeedData`, and `Evaluation` EXTENDS `Retrieval`.
Operators named as mutants in a comment are plausible mistakes in the definition that follows them;
no behaviour of a specification uses them. Each property has been seen to fail when the definition
is replaced by its mutant.

### Correspondence with the code

**`Orchestrator`.** `pc` is the await at which `events()` is suspended: `seed` (retrieval),
`list` (tools), `loop` (token count or completion of an iteration), `tools` and `call`
(`_run_tool`, before a call and inside `_call_with_retries`), `final` (`_final_completion`).
`consumed` is `TokenBudget.consumed`, `spent` the `usage` total, `seen` is `CycleDetector._seen`,
`messages`, `trace`, `step`, `stopReason`, `used` and `sources` are the variables of those names.
A message keeps its role, the calls it requests or answers, the labelled records it shows and its
error flag. Texts are reduced to the labels they cite, and a tool call to its cycle key; a tool
message answers a position of the response, which stands for `tc.id`. `calls` and `llmCalls` are
history variables. `Abort` is any exception but ToolError, and the consumer closing the generator.
The environment may return any record list from `SeedResults` and `ToolResults`, any plan from
`Plans`, any usage up to what the counter projected plus `Slack` plus the output cap.

**`Chat`.** `phase` is where `event_stream()` is: connecting in `__aenter__`, serving in the
`async for`, closing in `__aexit__`. `stack` counts the contexts on the `AsyncExitStack`, `pending`
is the exception on its way out, `stream` the events sent. While serving, each step is a step of
`Orchestrator` with the tool events `_run_tool` yields in it. Progress events are left out, and one
token event stands for all. `Disconnect` is a cancellation at any await or yield; `Stall` is a client
that stays connected and reads no more. `Session` is what the handler does by itself, `Stuck` where it may
wait for ever.

**`Conversation`.** A wire message keeps its role, the calls it requests and the results it carries.

**`RegistryLoop`.** A variable per field of the object and the remaining records of the call; one
step is one iteration of the `for` in `add()`.

**`Generation`.** `registry`, `text`, `answer`, `used` and `sources` are the variables of those
names (`text` is `response.text`, `answer` is `cleaned`); `shown` is what the prompt renders. A
text is a sequence of tokens: brackets, spaces, digits. `Orchestrator` calls the same validation,
but takes an answer to be the set of labels it cites.

**`Ingestion`.** `rows` is the table, per document; a row keeps the version of the text and the
stamped model. A task is a request in flight: about to upsert, about to prune, or in its DELETE.
Each writer call is one transaction. Postgres runs at its default level READ COMMITTED, so
`FindOrphans` fixes the rows of the DELETE's snapshot and `DeleteOrphans` commits it: rows updated
in between are deleted, rows inserted in between are not. `solo` and `expected` are history
variables. Chunking and embedding touch nothing shared and are part of `Submit`; a failure in
them is `Raise`, as is a statement that fails or deadlocks.

**`Chunker`.** `line`, `cur`, `section_offset` and `sections` are the variables of
`split_markdown_sections`, where `cur` is kept as the first of its lines, and `at`, `begin` (`i` in the
code), `index` and `pieces` those of `chunk_document` and `_token_chunks`. A document is given by where
its tokens and its lines end and by which tokens are white space and which lines are headers. Tokens end
where lines end, and characters are not split between tokens.

**`Retrieval`.** A search may return any ranking of rows that pass the filters. A row keeps its text,
and `ModelOf` gives the embedding model the row was stored with. `stored_embedding_model()` reads one
arbitrary row, so `CheckPasses` is possible when some row has the model of the query. `matched` is a
history variable: at the check all rows were of one model, and the dense search came before the next
ingestion. `call` fixes at the start what the filters let pass and whether a reranker is configured;
a reranker returns any order. Scores are whole numbers: `Scale` is a common multiple of the denominators
(`ScaleDivides`), so that sums of reciprocals are exact, and the rounding of floats is left out.

**`FaissStore`.** A vector is identified with the row it was computed from, and a row keeps its
embedding model. `_id_map` and `_meta` are always assigned together and are one list. `_load()` is
one step, because it has no await; `_persist()` is two, because the process may die in between. One
vector dimension is assumed, and a file is written whole or not at all. `ensure()` is called only
before the store is shared ("open"), as its callers do; rebuilds and searches run concurrently. The
argument `embedding_model` is an input: `asked` holds it while a rebuild is under way, `Fits` compares it
with the stamp, `Built` writes it. `NamesPassed` are the names that callers pass, that of the embedding
provider (`scripts/benchmark.py:50`, the tests) or that of the LLM (`eval/harness.py:140`), as `Callers`
says. `Raises` is an exception of `load_all()`, of the build or of a write: the lock is given
back, and what was assigned, written or loaded before stays. `quiet`, `torn`, `foreign`, `serving` and
`fetched` are history variables: a search the index was not replaced under, a process or call that ended
between the two files and no build has repaired, an index that was once built from rows of another
model, the name the latest call was given, and rebuilds that have fetched what the table still holds.

**`SeedData`, `Seeding`.** A draw is what the random generator chooses for each row; `drawn` fixes
one per seed, as the generator is deterministic. Ids are tuples, `<<"INC", 7>>` for `INC-0007`, and
times are minutes. Texts are the row or topic they are about; which seed a text is of shows in it. The
script's steps are those of `write_corpus()` (remove a directory, remove the other, write the tickets,
write each document) and of `load_database()` (truncate, one INSERT per table in the order of the
code, count and commit). An INSERT is accepted or refused whole by the keys, references and checks of
the migration. `Crash` may come between two steps, and leaves part of the step under way on disk: some
files of a directory gone, a line or a document cut off. `corpusOf` and `lastLoad` are history
variables. The shuffling of gold items is left out.

**`Analytics`, `ToolServer`.** A call is the record of its arguments. Filter values of `aggregate` are
declared `dict[str, Any]` and bound as they come: `NotText` stands for a number, a boolean, a list or a dict,
which no column that may be filtered compares with. (`None` does: it selects nothing, like a text no row
holds.) The values of the other tools are declared as strings. Strings and times that the driver cannot
encode, such as a text with a NUL character, are left out. `Accepted` is what the validators let through, `Runs` what Postgres can execute given the
types of `db/models.py`, and the two are independent in the code. Figures are fractions. A group
is the set of its rows; which groups a capped answer keeps among ties is open. A call is made only
between runs of the script: during a load a reader waits for the TRUNCATE or sees the tables as they
were before. The contents of a time series, the column `customers.region` and
`search_records`, which is retrieval, are left out.

**`Evaluation`.** Its operators are evaluated on the rankings of `Retrieval`, with a map from chunks to
documents. The discounts `1 / log2(rank + 1)` are a table of whole numbers in some unit, as long as there are
ranks to look at; `DiscountFalls` states what is used of logarithms.

## What is model-checked

Each run is named as in `PROJECT.json`.

| Run | Instance | Shows |
| --- | --- | --- |
| `loops` | the registry with 3 records per call and any number of calls; next to it documents of up to 3 lines of up to 2 tokens, windows of 3 that overlap by 1 | the loop of `add()` computes the closed form; `_order` and the indices are inverse; entries never change. No token is lost, pieces advance, none spans a header |
| `agent_loop` | 2 chunks in 2 texts, seed of at most 1 and tool results of at most 2 records, 2 calls, 2 calls per response, 2 steps, 1 retry | labels, tool messages, trace and sources stay consistent, and so does the conversation each provider gets; attempts are bounded; the loop implements `GroundedAnswer` |
| `chat` | 2 calls, 2 steps, 2 retries, several projections and usages, no records, failures anywhere, a client that stops reading or goes away anywhere | budget and completion bounds, a truthful stop reason; the stream tells what the trace tells and ends with `done` or `error`; no session is left behind; the request ends unless it is stuck at a wait without a timeout |
| `single_shot` | 2 chunks, retrievals of at most 2 records, every completion of up to 6 tokens | reported labels have their sources and stay readable, nothing else is cited unless a removal splices, and the path implements `GroundedAnswer` |
| `ingestion` | 2 tasks, 2 documents, texts of 0, 1 and 2 pieces, 2 models, requests of 1 or 2 documents, faults | an undisturbed request stores exactly its documents; nothing vanishes while it is replaced |
| `retrieval` | all pairs of rankings of 4 chunks, four tables with rows of two models, a plain call and one with a filter and a reranker | one filtered hit per chunk; vectors of one model are compared, up to the conditions named; fusion respects agreement and is symmetric; the evaluation figures of every ranking are sound |
| `faiss` | 2 coroutines, tables of 1 and 2 rows, 2 models and the name of an LLM, exceptions and restarts at any point | index, map and files are of one build; the stamp is the name asked for and true of the vectors, and a finished rebuild is of the table, up to the conditions named; a search that no rebuild crosses returns what it matched |
| `seeding` | 2 seeds over 3 draws, 3 incidents, all options, crashes anywhere; some 250 calls of the tools with a cap of 1 | a finished corpus is of one seed; the tables are one dataset or none; a client that keeps to `list_schema` is served, but for two kinds of calls; tools that answer one question agree |

Why the bounds are enough: what goes wrong with labels needs a chunk that comes back with another
text and a second one beside it; with tool messages, two calls in a response, one a repeat or a
failure; with attempts, one retry and one later request for the same call. Ingestion needs a second
writer, a shorter text and a blank one, and a second document for partial requests. Fusion differs
on ties, on agreement and on absence, which four chunks in two lists all exhibit. A splice needs six
tokens, as do two hallucinated citations. FAISS needs two tables that differ in length and in the first row.
Seeding needs two seeds with different postmortems; its draws have incidents that are
open, unresolved or not severe, on either side of the four days in which one may be open. The tools
need a cap below the number of groups, ties at the cap, one column too many and an empty selection.
Nothing else in the modules depends on a constant's size. Two bounds cut off behaviour: the list
lengths of the MC modules and `MaxLength`, the length of a completion in `MCGeneration`. The history
counter `calls` stays finite by alternating between two values past those it is checked against; a
saturated counter would turn endless retries into stuttering, and `Termination` would hold of a loop
that never gives up.

Fairness is assumed in `chat` only: weak fairness of `Session`, the steps of the handler, at the places
that are not `Stuck`. Tool calls are cut off by `tool_timeout_seconds` (`mcp_client/client.py:81`), and the
SDKs under the completions and under closing a session have timeouts of their own. Elsewhere the code
guarantees nothing, and `RequestEnds` allows a request to hang there for good:

* the handshake with the tool server and the listing of its tools have no timeout
  (`mcp_client/client.py:55` and `74`);
* the retrieval for the seed waits for Postgres, and the engine is made without a command or statement
  timeout (`core/db.py:27-33`); inside a tool call the same wait is cut off;
* a client that stays connected and reads no more holds up a yield, because `EventSourceResponse` is given
  no send timeout (`api/chat.py:63`). The model lets such a client hold up any yield, and lets a request
  pass that the buffers can take.

What `RequestEnds` then says is about the loop and the clean-up: no retry, no repetition and no failure makes
a request go on for ever. With a retry counter that is reset, it fails.

### Where code and documentation disagree

Each of these runs checks one statement of a comment or document, and TLC finds it violated.

| Run | Statement | What the code does |
| --- | --- | --- |
| `citation_splice` | "strip hallucinated indices" (`agent/citations.py:1`) | `[[2]2]` becomes `[2]`, still unknown |
| `ingestion_race` | "orphaned chunks from a now-shorter document are pruned" (`ingestion/indexer.py:5`) | with two requests for one document, current chunks are pruned as well |
| `faiss_name` | "if the files are missing or the stamped embedding model differs, the index is rebuilt" (`retrieval/faiss_store.py:5`) | the harness passes the name of the LLM as the embedding model (`eval/harness.py:140`): the stamp never differs, and an index of another embedding model is kept |
| `gold_ids` | "written over known seeded documents" (`scripts/build_gold.py:5`) | a runbook is relevant as `RB-004`, and is loaded as `RB-004-scaling-the-api-gateway` |

More disagreements have no run of their own; where a property of a passing run comes near one, it names
the condition.

* "Concurrent reads are fine" (`retrieval/faiss_store.py:8`), but a search that spans a rebuild
  resolves its hits through the new map. `QuietSearchReturnsMatch` is about the other searches.
* The check of the embedding model reads the stamp of one arbitrary row
  (`retrieval/pgvector_store.py:120`), where "retrieval asserts a match at query time"
  (`architecture.md:45`). `VectorsComparable` names when that is enough.
* A crash between the two writes of `_persist()` leaves files of two builds that the next `ensure()`
  loads; `ensure()` compares names, so it loads an index older than the last ingestion; `load_all()`
  returns rows of any model, and the index built of them is stamped with the caller's. These are
  against "never diverge silently" (`architecture.md:49`). `IndexIsOneBuild`, `RebuiltIndexIsTable`
  and `StampIsOfIndex` say that nothing else goes wrong and that the next build repairs the first.
* `--no-truncate` should append (`scripts/seed_db.py:7`), but on tables that hold anything it is refused,
  because the ids of the SLAs are always the same. `TablesAreOneDataset` says so.
* `list_schema` offers `metrics_daily`, but `get_record` on it always fails in the database: its id is
  an integer and the argument a text. And it names filter columns without their types: an `aggregate` with
  the filter `{"severity": 1}` passes validation and fails as well. `OffersAreServed` says that these
  are the only such calls.
* The budget is "reconciled against actual usage after each call" (`architecture.md:98`), but the
  usage of the forced final completion only enters the total.

## What is proved

All theorems hold for every value of the constants that satisfies the named assumptions.

* `CitationRegistry_proof`: `AddKeepsRegistry` and the lemmas about first occurrences and ranks on
  which it rests. Induction over data is out of the provers' reach, so "there is a first
  occurrence" is derived from the least element of a set of naturals.
* `RegistryLoop_proof`: `AddIsItsLoop`, `IndexOrder`, `EntriesNeverChange` and `LoopTypeCorrect`. The
  inductive invariant `LoopInv` says that at every iteration the object is the closed form `Add` of the
  registry at the call and the records read so far; the closed form alone is not inductive,
  because in the middle of a call nothing relates the object to it. The step is `AddAppend`:
  adding one more record to the list adds at most one entry, with the next index.
* `Orchestrator_proof`: `BudgetIsRespected` and `CompletionsAreBounded` each by a small arithmetic
  invariant. `AttemptsAreBounded` needs `CallInv`: a call that is not in `seen` was never
  attempted, and the attempts of the call in progress are one more than its failures.
  `LabelsKeepTheirMeaning` needs `LabelInv`, which adds that the registry is well indexed and that
  nothing is shown before the first prompt. `TypeCorrect` rests on `ReportInv`, the types with those
  of the report, and `StopReasonIsTrue` on `ReasonInv`, which ties the
  reason to the step and the budget at which the loop was left. `CitationsAreCovered` is a counting
  argument: the labels up to the size of the registry are those of its entries.
  `AgentImplementsGroundedAnswer` maps every step of the
  loop to a surfacing, an answer, a failure or a stutter of `GroundedAnswer`; that a label never
  changes its record comes from `LabelInv` and `AddExtendsEntries`.
* `Conversation_proof`, on the conversation: `EveryCallIsAnswered`, by `ConversationInv`. While the calls
  of a response run, its message stands so far from the end of the conversation as calls are answered;
  everywhere else every assistant message is followed by as many answers as it has calls. `TraceIsTrue`
  needs `TraceInv`, which gives each tool message its place in the trace and counts the assistant
  messages to know the step. `ToolTurnsPair` and `BothAreTold` are about the loop that translates a
  conversation for Claude: `WireInv` says what has been put out and what waits after each message,
  because the results of a turn are only put out when the next message comes, and `WireTold` that both,
  one after the other, are the trace.
* `Conversation_proof`, on the request: `ChatRunsLoop` (every step of a request is a step of the loop or a
  stutter, so that the theorems about the loop are theorems about requests), `SessionIsClosed`,
  `StreamIsEnded` by `StreamInv`, and `StreamIsTrue` by `SeenInv`, which says in addition that the event
  before a result is the announcement of its call, and that while a call is attempted its
  announcement is the last event.
* `SingleShot_proof`, on a generation: `ReportsAreRead`, `AnswersAreClean` and
  `GenerationImplementsGroundedAnswer`, by `GenInv`. Their substance is in the lemmas about
  `validate_and_strip`: a match lies in one run of a text, removing characters that belong to no match
  keeps every match and joins none unless a removed citation stood between the pieces, and squeezing
  the spaces neither makes nor breaks one.
* `SingleShot_proof`, on a retrieval: `VectorsAreComparable` and `ChunksAreReturnedOnce`, by `SearchInv`,
  and `FusionFair`. Sorting by score and then by number is a total order, so each fused chunk has a standing,
  the number of chunks not after it; agreement and symmetry are then facts about the scores alone.
* `SingleShot_proof`, on the evaluation: `MetricsSound`, for any number of documents asked for. A deduplicated
  ranking has at most as many relevant ranks as there are relevant documents, and by `GainsCompare` the
  discounts of so many ranks add up to at most those of the first ones, and to as much only at these.
* `Ingestion_proof`, on the table: `IngestionIsExact` and `ReplacedNeverVanishes`, by `IngestionInv`. It
  says of a request that runs alone with its documents which of them are settled, and that between its
  two transactions a document holds the new rows and a surplus of old ones above them; that rows doomed
  by a DELETE are surplus; and that other requests are about other documents.
* `Ingestion_proof`, on the chunks: `ChunksCoverDocument`, `ChunksAdvance` and `ChunksKeepSections`, for any
  text, window and overlap, an overlap larger than the window included. `ChunkInv` has three parts. The
  sections found so far follow one another from the first token, and each header read so far
  begins one (`SplitInv`). The next window begins no later than the windows before it reach
  (`Reached`, `Covered`), every token up to there is in a piece, and every piece begins before the
  one and ends before the other. Every piece lies in a section.
* `FaissStore_proof`: one theorem for each property of the run. `IndexInv` describes what memory and
  files hold for every place at which the holder of the lock is suspended; `SearchInv`,
  `ModelInv`, `ServingInv` and `RebuildInv` add what a search, a stamp, a name asked for and a fetched
  table are worth. `ProviderGetsActiveModel` proves the documented statement that `faiss_name` refutes,
  under the assumption that every caller passes the name of the embedding model.
* `Seeding_proof`, on the tables: `SeedingIsIdempotent`. The rows of a generated dataset have distinct keys,
  pass the checks and find their targets, so a load into empty tables in the order of `load_database()` is
  never refused; a load into full ones is refused at its first row. `TablesInv` says how far the
  transaction is at each table.
* `Seeding_proof`, on the corpus: `CorpusIsOfItsSeed`, by `CorpusInv`. A corpus being written is on disk up to
  its next document and nothing of an earlier run is left beside it, whatever a crash left; since the
  documents of a dataset have names of their own, what is loaded from a finished one is exactly they.
* `Seeding_proof`, on the tools: `CallsChangeNothing`, by which every theorem about the script holds with calls
  in between, and `ServerServesOffers`. The whitelist is consistent with the columns of the tables,
  the limits of three columns and eight filters are never below what is offered for a table,
  and so each offered call passes validation and, but for the two kinds named, can be executed.
* `Seeding_proof`, on the figures: `ToolsAgree`, for any seeded tables and any cap. The groups of an aggregate
  partition the selected rows (`GroupsPartition`), so their sizes add up to the size of their union
  (`DisjointSetsAddUp`), and what LIMIT leaves out is not larger than what it keeps (`LargestAreKept`). A
  sum lies between its number of terms times their bounds (`SumIsBetween`), and the middle rows of
  `percentile_cont` exist (`NthTimeExists`). `SumExists` gives the equations of the recursion behind
  `SumFunction`, whatever order its CHOOSE takes.

`RegistryLoop` links the loop of the code to the closed form, and everything else uses the
closed form. The assumptions are the ones named in the modules, that limits and sizes are natural numbers and
inputs have the shape the code gives them; TLC evaluates them on every run.

Eight modules hold the theorems, one for each group of components that share lemmas. All safety invariants and
action properties of the passing runs are proved.

### Only model-checked

* `RequestEnds`, because the provers do not handle liveness.
* What recursive definitions compute, beyond the equations that the proofs derive. The library's induction
  theorems cannot be instantiated here; where a recursion runs over a list, ranks or a finite set, as in the
  translation of a conversation, in `Gain` and in `SumFunction`, the proofs count up its size
  (`CountingUp`).
* The statements that a run finds violated (`HallucinationsStripped`, `WholeWhenQuiet`,
  `IndexOfActiveModel`, `GoldDocumentsAreLoaded`).

## What is not modelled

Vector distances and full-text ranking (any ranking is allowed), prompt wording, logging, price
arithmetic, settings parsing, the prose of the seed data, HTTP status mapping, `/search` and
`/health` (one call of a modelled service each). FAISS index types differ only in recall. Token
counters are modelled by their result and its error, embeddings by the name of their model; the numbers
in them distinguish nothing here. Latencies and the LLM judge of the evaluation have no
property to violate. Half-written FAISS files are left out, by a crash or by a write that raises: what `faiss.read_index`
makes of them is the library's.

## Plan

Done: every component of the table above that keeps state or decides something. Left, in this order:

1. The contents of `get_timeseries` (buckets of `date_trunc`, the cap that cuts off the latest ones) next
   to the other figures of `Analytics`.
2. The echo provider, which plays the model in tests, as a refinement of what the loop may get.
