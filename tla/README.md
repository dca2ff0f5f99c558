# Vtree-Search: TLA+ specifications

These modules describe the parts of Vtree-Search in which the order of events
matters: the Redis job queue with its callers and workers, the runs that ingest
a document version, the search that a worker makes, and the way from source
files to page nodes and sections. TLC checks them on small instances; TLAPS
proves the theorems listed below for every value of the constants.

Run `tlc -config <run>.cfg <module>` for a run of the table in *Runs*, and
`tlapm <module>.tla` for a module with theorems.

## 1. The system

| Component | Source | State it keeps | Operations |
|---|---|---|---|
| search job queue | `queue/redis_streams.py` | stream and consumer group, job hashes, fingerprint keys, DLQ stream (all in Redis) | enqueue, read, ack, trim, DLQ, `mark_*` updates, fingerprint claim/bind/release |
| search engine | `search/engine.py` | local variables of a call or of a worker | `submit_search`, `cancel_job`, `get_job`, `fetch_result`, `run_worker_once/forever` |
| search pipeline | `src_rs/core/search_pipeline.rs` | candidate map of one search | `execute_search` |
| result filter | `llm/langchain_search.py`, `engine.py` | - | `filter`, decision check, sort and cut |
| ingestion coordinator | `ingestion/ingestor.py` | local variables of a call | `upsert_document_from_path` with or without a state store, `upsert_document`, `upsert_pages`, `rebuild_summary_embeddings` |
| summary state store | `ingestion/summary_state.py` | writer lock, five keys for each run (Redis) | lock, `initialize_run`, `upsert_*_state`, `mark_*` |
| ingestion pipeline | `src_rs/core/ingestion_pipeline.rs`, `index/postgres_repo.rs` | summary and page tables (Postgres) | row-by-row upserts |
| source parser | `ingestion/source_parser.py`, `parser_helpers.py`, `docx_layout.py` | blocks, page accumulator, image files | extraction of Markdown, DOCX (layout estimate, headings, tables) and PDF (text, tables, images), chunking |
| summary snapshot | `ingestor.py` | sections, coverage map | `_build_summary_snapshot` |
| configuration, contracts, bridge, annotation LLM, facades, scripts | see `PROJECT.json` | - | values, JSON, wording: not modelled |

How they interact. A caller's thread runs `submit_search`: it looks for a
reusable job by fingerprint, checks the queue's length, claims the fingerprint,
writes the job hash and adds a message. Worker processes read messages of the
consumer group, load the hash, run the Rust pipeline in a thread, filter its
candidates with an LLM, write the outcome and acknowledge. Callers poll the hash
and may ask for cancellation by writing to it. Independently, an ingestion call
takes the writer lock of a document version, parses files, records its progress
in the run's own Redis keys, has the Rust pipeline upsert rows, and releases the
lock. A search reads the same tables in several statements.

What is hard: nothing in Redis is written in a transaction, so every two commands
of one call may be separated by those of another process or by its death; the
message of a retry exists before its predecessor is acknowledged; the lock has a
TTL that nobody refreshes; a cancelled coroutine leaves its thread running; the
direct operations write the same tables without any lock; image files are named by a
file's stem alone; page paths are sorted as texts. `PROJECT.json` ("hazards") lists each of these at its
line, with the properties that would notice it going wrong, or the reason why there is none.

What makes a component correct, in a sentence: the queue loses no job, runs none
twice at a time or too often, and admits work while it has room; a record tells the
truth about its job; one writer at a time changes a document version, and a run
marked SUCCEEDED is complete; a search returns the best approved pages; a document's
blocks all reach a page node, and its sections are those of its headings. Where
the code does not do so, a run with a counterexample says how (section 4).

## 2. Modules

**RedisQueue** - the Redis keys of the search queue; one operator for each command.
The stream is an append-only sequence; an entry is ready, pending or acked, and
`trimmed` counts the entries XTRIM has removed. `MAXLEN ~` may remove any number
of whole nodes, so the operator is nondeterministic between nothing and all the
entries above the limit. A job hash is reduced to `state`, `retries`, `canceled`;
writing to an expired hash recreates it with the defaults its readers use.

**SearchQueue** (extends RedisQueue) - `engine.py`. Each client and each worker has
a program counter; every action is one Redis command of `submit_search`,
`cancel_job` or `_process_message`, so processes interleave where the code lets
them. A search itself is a choice between success and failure (module
SearchPipeline looks inside it). Faults are taken from `Budget`: a process
stops, a command raises, an XADD is applied twice (that of a job or of the DLQ), a key
expires, a job is canceled. The branch of `_process_message` for an empty payload
(engine.py:268-273) is left out because nothing reaches it: the payload is taken from
the message first, and every `enqueue` writes a payload that is not empty.

**JobLifecycle** - what a caller may assume of a job's `state` and `retries`.
SearchQueue implements it under the mapping in its last lines, as long as nobody
cancels, nothing expires and no XADD is applied twice (run `queue_retries`, and a
theorem that lets clients and workers stop at any step).

**SummaryState** - the lock of each document version, each run's keys with their
revision rule, and the two tables; one operator for each store method or row.

**IngestionRun** (extends SummaryState) - concurrent calls of the five writing
operations. A call has an operation and a version (`Mixes`); `Order(op)` lists what the
operation does, `Items` how often (for the Rust job: one step for each row). Only a
tracked operation takes the lock. A call returns, raises with or without its write, or
is left behind in its thread when the coroutine is cancelled (`late`). This holds of taking
the lock, too: when the SET NX was applied and the coroutine does not learn it
(`AcquireRaises`, which includes a resent SET that meets its own lock, and
`CancelledWhileAcquiring`), the call ends before its try block and the lock stays until its
TTL; and of releasing it (`ReleaseRaises`, `CancelledWhileReleasing`). `Learns` is what
the coroutine knows after it (`state_initialized`, the result); `out` is what its
caller sees. The except and finally clauses are `AfterError`, `ReleaseWriterLock` and
`ReleaseRaises`. `add_page_done` is two steps, SADD and the meta update. The other store
methods are one step although each follows its write with EXPIRE commands: those change
nothing that is modelled, and a failing one is a call that raises after its write.

**IngestionLifecycle** - the state diagram of how-this-works.md:71-74 with the stages in their
order: `After` says where a run may go from each status and stage. SUCCEEDED and FAILED
are final. IngestionRun implements it under every fault (property `LifecycleSpec`) for the
*settled* status of a run, not for the meta hash as it stands: `update_meta` sets
SUCCEEDED with an HSET and then renews TTLs, and if that raises, the run is marked FAILED
after all. `Settled` therefore counts a run as RUNNING while the call that wrote SUCCEEDED
can still go on to `mark_failed`. A reader of the hash may see SUCCEEDED for that moment;
PROJECT.json reports this as a disagreement with the diagram, and section 4 describes it.

**SearchPipeline** - one attempt at a job: entry search with ties in any order, one
page query for each entry (which pages its LIMIT keeps is left open: the
order is that of a text column in the database's collation), the merge, the early stop, the LLM's answer (any
assignment of decisions), the final ranking and cut. `UpsertPage` is an ingestion that
writes between two queries. Scores are integers with 0..TopScore for 0.0 to 1.0. (In
the code the SQL expression is a float8 that the row mapper reads as f32; types
of columns are not modelled.)

**DocxLayout** - `docx_layout.py` and the guesses of body size and headings. Sizes are
in hundredths of a point; a value that a document may leave out is a sequence of at
most one element, so "own, else style, else default" is a concatenation. Rounding to
whole hundredths stands for the code's floats. `Nth`, the n-th of a list's sorted values,
of which the medians are made, is defined by counting smaller and equal values. The page estimate of a block is the
closed form of the loop in `advance_docx_page_state`: where the block starts, where it
ends, and how much of that page is then used.

**PdfImages** - which images of a PDF page become blocks: upright boxes, no duplicates
after rounding, the padded crop of the rendered page in pixels, the size limits.

**PageNodes** (extends DocxLayout, PdfImages) - from files to chunks. A text is its
length, a chunk is an interval of blocks. Markdown is read by line, a DOCX document by
paragraph and table, a PDF file by page and image; `assets` is the directory of image
files. Chunking handles one block at a time, as its loop does. In a PDF file the code
collects tables, images and text in three passes over the pages and sorts them into
pages at the end; the module makes the blocks in the resulting order.

**SummarySnapshot** (extends PageNodes) - from chunks to sections and coverage. A
page node is its index; paths are compared digit by digit, and a node's place in the
sorted list is the number of paths before its own. A chapter is the
parent path, one page's path, or a path elsewhere, as far as prefix matching can
tell them apart.

**SearchQueueProofs, SearchQueueExecution, SearchQueueLifecycle** (each extends the one
before it) - theorems about SearchQueue; **IngestionRunProofs, IngestionRunOutcome** -
theorems about IngestionRun; **SearchPipelineProofs** - theorems about SearchPipeline;
**DocumentLemmas** - what the operators of DocxLayout and PdfImages return;
**SummarySnapshotProofs** - theorems about PageNodes and SummarySnapshot.

**MCSearchQueue, MCIngestionRun, MCSearchPipeline, MCSummarySnapshot** - constant
values, state constraint and symmetry for TLC. Permuting clients, workers, job ids,
run ids or page ids changes nothing in these specifications, except through CHOOSE
on fingerprints, which are never permuted; runs that check liveness use no symmetry.

Operators with names such as `OverloadedLate`, marked *Mutant*, are changed versions
of the operator that follows. `PROJECT.json` names a mutant for each property of a
passing run: with it, TLC finds the property violated.

## 3. Runs that pass

| Run | What it checks | Bounds, and why they are enough |
|---|---|---|
| `queue_retries` | `TypeOK`; `SingleExecution`, `AttemptsBounded`: a job is run by one worker at a time and at most `max_retries + 1` times; `AcceptedIsBacked`: a returned id has a message or is finished; `AdmissionBound`, `OverloadIsForever`, `NoUndeliveredTrimmed`: the two limits of the stream; `LifecycleSpec` | 2 clients race for 1 fingerprint, 2 workers, batches of 1 and 2, 1 retry, reject at 2, trim at 3: both clients pass the guard together, retries fill the stream and cause trimming. 4 job ids, more than can be admitted |
| `queue_faults` | `UnfinishedKeepsMessage`: an unfinished job keeps a message, wherever a process stops; `DlqMatchesFailures`: a job is in the DLQ at most once, only when its last retry failed, and the failed jobs missing there are at most as many as the processes that stopped; `CancelFlagSticks` | 1 client, 2 workers, at most 3 of the 5 kinds of fault, each once |
| `queue_progress` | `AcceptedTerminates`, `CanceledSettles` under fairness | 1 client, 2 workers, 2 fingerprints, 1 cancellation |
| `ingestion_runs` | `OneWriterUnlessOverrun`, `LastWriterWins`, `ReleaseKeepsOthersLock`: the lock; `SucceededIsComplete`, `OutcomeMatchesStatus`: the statuses and what the caller sees; `LockLeaksOnlyByFault`: every way out releases it; `LifecycleSpec` | 3 calls: three runs under one lock; two and a call that takes none; a run beside a run of another version, or beside calls without a lock. 2 summary rows, 1 row of the other kinds (a run is overtaken between two rows); two faults in a behaviour, of two kinds or two failing calls (the second is the `mark_failed` of the first) |
| `search_answer` | `CandidatesSound`, `ScoreIsBest`: the merge; `EarlyStopCostsNothing`; `ResultIsBestApproved`: the filter | 3 entries, one above another, 3 pages, scores below, at and above 0, limits of 1 to 3, 1 row written meanwhile |
| `document_build` | `ChunksPartition`, `ChunksFit`: chunking; `PagesHoldBlocks`: the DOCX page estimate never packs more into the pages than they hold; `SizeHeadingsStandOut`: the guess of the body size; `AssetsOverwrittenByNamesakes`: image files; `SectionsMatchCoverage`, `HeadingsOpenSections`: sections | 2 files of any format, 4 items; lines of which two fit a chunk but not always three; DOCX pages at their least size (120 by 160 points) with blocks of half a page, exactly two pages and more, page breaks, skipped and table blocks, sizes that make a heading or not; PDF pages with an icon, a photo, its duplicate and one that only its padding makes large enough; a page with 10 tables, so labels reach two digits; 2 file names, so that two files may share one; 3 chapter plans |

`CHECK_DEADLOCK FALSE` stands in the configurations of `ingestion_runs`, `writer_lock`,
`search_answer`, `document_build` and `section_order`: every call, attempt or build
ends there. In the queue runs workers wait when nothing is left, and the callers
can always make a new call, so deadlock is checked.

Fairness (`FairSpec`, used by `queue_progress` and `at_least_once`): a client that is in
a call goes on, since it is a thread that runs straight through, and a worker takes
its next step, since `run_worker_forever` loops and each message is processed to its
end; that the search itself returns or raises is an assumption. Nothing is assumed of
new submissions, of cancellations, of faults, or of whether a search succeeds. The
fairness of a worker is for all its steps together: it never waits for another process.

## 4. Runs that find a counterexample

Each checks one sentence of the documentation against what the code does.

- `overload_is_backlog`: "포화 시 예외" (README:72). The queue's length is XLEN, and acknowledged
  entries stay in the stream. With the default limits, 180 messages after the stream
  was created every submission is refused, with nothing waiting. `AdmissionBound` and
  `OverloadIsForever` are theorems about the same behaviour.
- `terminal_is_final`: the state diagram of how-this-works.md:67-69. `cancel_job` and a worker
  each write what they decided on an older state.
- `one_job_per_request`: reuse of equal submissions (README:73). The window is between the
  winner's claim and its job record.
- `at_least_once`: README:69. Pending entries of a worker that stopped are never claimed.
- `writer_lock`: queueing-and-slo.md:78-79. The TTL runs out under a long run.
- `section_order`: how-this-works.md:49-50. Paths sorted as texts mix the pages of two files
  and put page 10 before page 2, so sections do not follow the headings.

A seventh disagreement has no run of its own: the meta hash may go from SUCCEEDED to
FAILED, which how-this-works.md:71-74 does not draw (`IngestionLifecycle` in section 2).
`ingestion_runs` contains the behaviour; put `<<state[r].status, state[r].stage>>` in
place of `Settled(r)` in module IngestionRun and TLC answers `LifecycleSpec` with it: the
call "succeed" raises after its write, the call "fail" returns.

## 5. Proofs

All of them are for every value of the constants: any number of clients, workers, jobs,
runs, rows and faults, any tree and scores, any documents and layouts. The assumptions
are the named ASSUMEs of the modules: the limits are positive, the sets that are counted
are finite, `NoJob` (`NoRun`, `NoPath`) is not an id or path, budgets are natural numbers;
what is read of a document is typed (`LayoutAssumption`), and a list of chapters is not
empty and names none twice (`PlansAssumption`). TLC evaluates them in every run. A theorem
with a condition names it in its statement; the conditions are about the environment:

- `NoResends`: no XADD has been applied twice so far. A resent message is run twice, as the
  hazard at `redis_streams.py:169` says, so nothing about single execution holds after it.
- `Undisturbed`: in addition nobody has canceled and no key has expired so far. A late write
  of either kind takes a job out of a final state (run `terminal_is_final`).

  Both are conditions on the state (`Spent` counts the faults that have happened), so
  `Spec => [](NoResends => P)` says that P holds until the first resend, whatever the
  budget would still allow.
- `OneCaller`: there is one client, and no command of submit_search fails.
- `RoomForRaces`: `queue_reject_at + clients - 1 <= queue_max_len`, so that clients that
  passed the guard together do not fill the stream to its trimming limit.
- `NoFaults`: every budget but that of cancellations is 0.
- `PathsInOrder`: the texts of the page paths are in the order of the page nodes.

Every inductive invariant below was checked by TLC, on a small instance, before it was
proved. Every invariant and action property of the passing runs
is stated by a theorem. The theorems on three of the runs with a
counterexample say when the sentence that the run refutes does hold.

### The queue

**TypeCorrect** (SearchQueueProofs): `TypeOK` is inductive as it stands, because it also
says where a client holds an id and that a worker's positions are inside the stream.

**AdmissionBounded, OverloadStays** (SearchQueueProofs): the jobs ever admitted are at
most `queue_reject_at - 1` plus the number of clients, and a stream that refuses
submissions refuses them for good. `AdmissionInv` adds `TrimFloor`, that a stream
shorter than `queue_max_len` has never been trimmed: a submission that passes the guard
then sees a stream that has lost nothing. Retries name jobs that are in it already.

**SingleRun, RunsBounded, UndeliveredKept** (SearchQueueExecution), from `ExecutionInv`: of
all the entries of a job only the last may still have to be run; the retry number in it
bounds the searches started before it; the entries that wait for delivery are a suffix of the stream, and name different jobs. That the
runs are bounded and never two at once follows from the first two parts, that trimming
removes no waiting entry from the third and the admission bound: fewer entries
wait than the stream may hold.

**CancelSticks** (SearchQueueExecution): a cancellation that has been written is lost by no
later write. The one write that would drop it is the creation of the record, and
`UnbornJobs` says that nobody can name a job before its record exists.

**LifeInvariant, DeadLettersMatch, ImplementsLifecycle** (SearchQueueLifecycle), from
`LifeInv`: while `Undisturbed`, the record of a job says what its last entry and the worker
at that entry are about to do. Then each step of the queue is a step of JobLifecycle or
invisible in it (`ImplementsLifecycle`: if `Undisturbed` holds throughout). **DeadLettersMatch** counts:
`Unburied`, the jobs that failed for good, are not in the DLQ and have no worker about to add
them, grow only when a worker stops between `mark_failed` and `move_to_dlq`, by the one job it
was at (`UnburiedStep`, `GravesStep`). Nobody reclaims that worker's entry, so such a
job never reaches the DLQ; the theorem says that there is no other way to miss it.

**TerminalStays** (SearchQueueLifecycle): in the same condition only the worker that runs a job
writes its record (`RecordChanges`), so a finished job stays as it is.

**OneCallerShares** (SearchQueueLifecycle), from `SharingInv`: with one caller the fingerprint key of
a request names its one unfinished job, and from the guard to the binding of the key no
job of the request is unfinished (`AllOver`). It holds however often the caller stops
inside submit_search, and whatever the workers do. With a second caller `AllOver` is
what another's step takes away between the guard and the claim.

**UnfinishedKept** (SearchQueueLifecycle), from `DeliveryInv`: an entry that a worker has let
go of was followed by a retry, or its job is finished; a record is never ahead of an
entry that still waits. So an unfinished job in the stream keeps an entry, whoever
stops, fails or cancels at whatever step (`NoResends`, `RoomForRaces`, nothing expired).

**AcceptedBacked** (SearchQueueLifecycle), from `BackedInv`: while nothing fails, only jobs
that are in the stream, or about to be added, have records, so the id that a caller gets
back, its own or a reused one, names a job that will be run.

### Ingestion runs

**TypeCorrect** (IngestionRunProofs): the lemmas on `Order` say that what follows a call is
a call with something to do, so no row or call past the last one is ever made.

**OneWriter**: `WriterInv` says that a run between its acquisition and its release *holds*
the lock, and that the budget only falls, so that a lapse or a cancellation remains
visible. That two runs are inside at once is then impossible, since the lock has one
value; the property alone is not inductive, for it does not say whose the lock is.

**ReleaseSafe** by cases on the step that changes the lock. **LocksAreReleased**, from
`OwnersAre`: who owns a lock took it for its own version, and is at work or has ended
without releasing it; a tracked call has no way from its try block to its end but
through the release. The exceptions are all outside the try block or in its finally clause:
the owner's death, a release that raises or is cancelled, and an acquiring call that is
cancelled or raises after its SET was applied.

**SucceededComplete, ImplementsLifecycle** (IngestionRunOutcome), from `OutcomeInv`: what the
store holds of a run is determined by the call that its coroutine, or the thread it has
left behind, is about to make. `ShownBefore` gives the status and stage, `Behind` the
writing calls that are over. No condition is needed: both hold with every fault.

**LastWriter**, from `LastInv`: the holder of a lock is the last that took it, and each
summary row that the last taker has passed was last written by itself or by a call that
does not take this lock.

**OutcomeTold**, from `ToldInv`: an outcome is decided by the last call or the first
exception. A caller who saw an exception finds FAILED, or no run when `initialize_run` was not
reached; the property excuses a run that is left RUNNING only by a failing `mark_failed`
after a first failing call, or an `initialize_run` that raised after its write. The rows that operations without a store have written are in `PlainProgress`.
Since "fail" is entered by a call that raised, only a second failing call can keep
FAILED from being written.

### The search attempt

All five from one inductive invariant, `SearchInv` (SearchPipelineProofs). Besides the
properties it says that the entries are sorted, that the scan is at its end or the pool full
when the filter begins (`Progress`), and that, while no row has been written, each
page below a scanned entry whose pages were all fetched is a candidate and scores at least
that entry (`Collected`). **TypeCorrect**, **CandidatesAreSound** and
**BestApprovedReturned** need no condition: an ingestion may write between any two queries.
**BestScoreKept** and **EarlyStopIsSafe** state their conditions in the property.

### The document build

`BaseInv` is the common invariant of the phases (SummarySnapshotProofs). `FilesOK` and
`ReaderOK` say what the reader is in the middle of, `BlocksOK` which file and item a block
was made of, `PhasesOK` what is still empty, and `ChunksOK` that
the chunks and then the buffer divide the blocks read so far. **TypeCorrect**,
**ChunksPartitionBlocks** and **ChunksStayWithinLimit** follow; the chunks alone would not
do, since only the buffer says what may be merged next.

**PagesHoldTheirBlocks**, from `PagesHoldSoFar`: from any block of the document on, the
heights so far fit in the pages begun since and what is `used` of the current one.
DocumentLemmas says where the closed form puts a block.

**HeadingsStandOut**, from `HeadingsAreParagraphs` (a heading was made of a paragraph that
is one) and the bound of the median in DocumentLemmas: at least a quarter of the sizes
are no larger than the size that is guessed.

**AssetsStayUnlessOverwritten**, from `ImagesHeld`: a block's image file holds that block or a
later one, of a file with the same stem.

**CoverageOfSections**, **HeadingsBeginSections**: inductive beside `BaseInv`; the second
with the first section of a chapter named as the one with the least index.

**PathsAreSorted**, **NoNodeIsLost**: two labels differ in their digits, and the order of texts is
strict and total, so the ranks of n paths are 0 to n - 1 and the list is a permutation. A node that is
assigned is in a section of its chapter, and all are assigned in the end.

**SectionsFollowInOrder**, from `HeadingsFollowed`: if the paths are in the order of the nodes
(`PathsInOrder`), the last heading is in the last section of its chapter until another heading comes.
It is so while page numbers do not fall and they and the labels have one digit
(`SingleDigitsInOrder`).

What the recursive functions and folds of these modules compute (digits, merged lengths,
flattened sequences) is proved by taking a least counterexample instead of the library's induction
theorems, whose operator parameters the provers cannot instantiate.

### Only model-checked

Liveness: `AcceptedTerminates` and `CanceledSettles`, which the proof system does not
handle.

## 6. Not modelled

- Of ingestion: the choice of files and the sample option (`scan_input_files`), HTML, the
  prompts and texts of annotations, the formatting of tables and summaries, guesses of
  `_length_to_pt` for bare numbers (python-docx gives typed lengths) and the y0/y1
  fallback of image boxes (pdfplumber gives top and bottom).
- Of the state store: the TTL of run keys, which each write sets anew, and
  `refresh_writer_lock`, which nothing calls.
- Of the search: scores as floats and column types, the SQL of the vector index, the
  connection pool and statement timeouts, the length of the back-off.
- Configuration, contracts, the runtime bridge, annotation models, facades and scripts:
  they hold values, convert JSON or call one of the modelled operations.

## 7. Plan

Done: the queue, its engine and their proofs; ingestion runs of all five operations and
their proofs; the search attempt and the document build with DOCX layout and PDF images,
both with the proofs of all their invariants.

What could follow: re-ingestion of a document and what a search sees of two versions
(SearchPipeline over the tables of SummaryState; page ids are drawn anew, so old pages
stay); TTLs of run keys; `scan_input_files` with its sample; an abstract queue of
jobs that SearchQueue implements with resent messages allowed; what of `LifeInv` is left
when somebody cancels.
