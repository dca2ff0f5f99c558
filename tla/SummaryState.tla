---------------------------- MODULE SummaryState ----------------------------
(***************************************************************************)
(* What a document version's ingestion runs write: the Redis keys of       *)
(* RedisSummaryStateStore (src_py/vtree_search/ingestion/summary_state.py) *)
(* and the two Postgres tables of src_rs/index/postgres_repo.rs.           *)
(*                                                                         *)
(* A run's key names carry its run_id, so its hashes are its own.  A lock  *)
(* is shared by the runs of one document version, the tables by every run  *)
(* that writes rows of the document: a row carries no version.             *)
(***************************************************************************)
EXTENDS Integers, Sequences, FiniteSets

CONSTANTS
    Runs,        \* run ids; a run's lock token is drawn with it
    NoRun,       \* no lock; a row that no run has written
    Versions,    \* document versions
    NumPages,    \* page nodes a run builds, possibly none
    NumSubch,    \* sub-chapter states of its snapshot
    NumSummary   \* summary nodes, which are also its chapters

ASSUME NoRunAssumption == NoRun \notin Runs
ASSUME SizesAssumption == NumPages \in Nat /\ NumSubch \in Nat /\ NumSummary \in Nat \ {0}

VARIABLES
    lock,     \* sumstate:{doc}:{ver}:lock of each version
    state,    \* each run's meta, page_done, subch, ch and doc keys
    summary,  \* summary table: the run that last wrote each node
    pages     \* page table: page i of run r has an id of its own

storeVars == <<lock, state, summary, pages>>

Statuses == {"NONE", "RUNNING", "SUCCEEDED", "FAILED"}
Stages   == {"NONE", "PAGE", "SUBCH", "CH", "DOC", "COMMIT"}

\* subch and ch hold the revision of each field, 0 for a missing one; "doc"
\* is the revision of the doc key, 1 for DRAFT and 2 for FINAL.
RunState == [status : Statuses, stage : Stages,
             done_pages : 0..NumPages, done_subch : 0..NumSubch, done_ch : 0..NumSummary,
             page_done : SUBSET (1..NumPages),
             subch : [1..NumSubch -> 0..NumSubch],
             ch : [1..NumSummary -> 0..NumSummary],
             doc : 0..2]

NoState == [status |-> "NONE", stage |-> "NONE",
            done_pages |-> 0, done_subch |-> 0, done_ch |-> 0,
            page_done |-> {},
            subch |-> [i \in 1..NumSubch |-> 0],
            ch |-> [i \in 1..NumSummary |-> 0],
            doc |-> 0]

StoreTypeOK ==
    /\ lock \in [Versions -> Runs \cup {NoRun}]
    /\ state \in [Runs -> RunState]
    /\ summary \in [1..NumSummary -> Runs \cup {NoRun}]
    /\ pages \subseteq Runs \X (1..NumPages)

StoreInit ==
    /\ lock = [v \in Versions |-> NoRun]
    /\ state = [r \in Runs |-> NoState]
    /\ summary = [i \in 1..NumSummary |-> NoRun]
    /\ pages = {}

-----------------------------------------------------------------------------
(* The writer lock. *)

\* Mutant: SET without NX.
AcquireAlways(r, v) == lock' = [lock EXCEPT ![v] = r]

\* SET NX EX.
AcquireLock(r, v) == lock[v] = NoRun /\ lock' = [lock EXCEPT ![v] = r]

\* Mutant: DEL without comparing the token.
ReleaseAny(r, v) == lock' = [lock EXCEPT ![v] = NoRun]

\* The script that deletes the key if it holds the caller's token.
ReleaseLock(r, v) == lock' = IF lock[v] = r THEN [lock EXCEPT ![v] = NoRun] ELSE lock

-----------------------------------------------------------------------------
(* The run's own keys. *)

Write(r, value) == state' = [state EXCEPT ![r] = value]

InitializeRun(r) ==
    Write(r, [state[r] EXCEPT !.status = "RUNNING", !.stage = "PAGE",
                              !.done_pages = 0, !.done_subch = 0, !.done_ch = 0])

Meta(r, stage, status) == [state[r] EXCEPT !.stage = stage, !.status = status]

AddPageDone(r) == Write(r, [state[r] EXCEPT !.page_done = 1..NumPages])
CountPages(r)  == Write(r, [Meta(r, "PAGE", "RUNNING") EXCEPT
                               !.done_pages = Cardinality(state[r].page_done)])

EnterSubch(r) == Write(r, Meta(r, "SUBCH", "RUNNING"))
EnterCh(r)    == Write(r, [Meta(r, "CH", "RUNNING") EXCEPT !.done_subch = NumSubch])
EnterDoc(r)   == Write(r, [Meta(r, "DOC", "RUNNING") EXCEPT !.done_subch = NumSubch,
                                                            !.done_ch = NumSummary])

\* A field is written only with a higher revision.
UpsertSubch(r, i) == Write(r, IF state[r].subch[i] >= i THEN state[r]
                              ELSE [state[r] EXCEPT !.subch[i] = i])
UpsertCh(r, i)    == Write(r, IF state[r].ch[i] >= i THEN state[r]
                              ELSE [state[r] EXCEPT !.ch[i] = i])
UpsertDoc(r, n)   == Write(r, IF state[r].doc >= n THEN state[r]
                              ELSE [state[r] EXCEPT !.doc = n])

MarkSucceeded(r) == Write(r, Meta(r, "COMMIT", "SUCCEEDED"))
MarkFailed(r)    == Write(r, Meta(r, "COMMIT", "FAILED"))

-----------------------------------------------------------------------------
(* The tables: one INSERT .. ON CONFLICT per row, each its own transaction. *)

\* Mutant: ON CONFLICT DO NOTHING.
UpsertSummaryKept(r, i) == summary' = [summary EXCEPT ![i] = IF @ = NoRun THEN r ELSE @]

UpsertSummaryNode(r, i) == summary' = [summary EXCEPT ![i] = r]
UpsertPageNode(r, i)    == pages' = pages \cup {<<r, i>>}
=============================================================================
