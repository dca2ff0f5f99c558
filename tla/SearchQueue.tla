---------------------------- MODULE SearchQueue ----------------------------
(***************************************************************************)
(* VTreeSearchEngine (src_py/vtree_search/search/engine.py): callers that  *)
(* submit and cancel search jobs, and workers that run them, over the      *)
(* Redis state of module RedisQueue.  Every step is one Redis command; a   *)
(* process may stop, and other processes may run, between any two.         *)
(***************************************************************************)
EXTENDS RedisQueue

CONSTANTS
    Clients,     \* threads that call submit_search and cancel_job
    Workers,     \* consumers that loop over run_worker_once
    MaxRetries,  \* SearchConfig.max_retries
    BatchSize,   \* largest max_items of run_worker_once
    Budget       \* how often each kind of fault or cancellation may happen

\* "crash"  a client or worker stops (process death, cancelled coroutine, or
\*          an exception of a Redis command outside the try blocks)
\* "error"  a Redis command of submit_search's try block raises
\* "resend" an XADD is applied twice
\* "expire" a TTL runs out
\* "cancel" cancel_job is called
Kinds == {"crash", "error", "resend", "expire", "cancel"}

ASSUME RetriesAssumption == MaxRetries \in Nat
ASSUME BatchAssumption == BatchSize \in Nat \ {0}
ASSUME BudgetAssumption == Budget \in [Kinds -> Nat]
ASSUME ClientsAssumption == IsFiniteSet(Clients)
ASSUME FingerprintsAssumption == Fingerprints # {}

VARIABLES
    cl,        \* each client's position in its call and its local variables
    wk,        \* each worker's position, current entry and last entry of its batch
    accepted,  \* job ids returned to callers by submit_search
    runs,      \* history: how often each job's search has been started
    left       \* what is left of the budget

processVars == <<cl, wk, accepted, runs, left>>
vars == <<queueVars, processVars>>

ClientPC == {"idle", "inspect", "guard", "claim", "relookup", "bind", "create",
             "trim", "add", "release", "delete", "flag_pending", "flag_running", "cancel"}
WorkerPC == {"idle", "load", "cancel", "start", "exec", "trim", "add",
             "backoff", "dlq", "ack"}

\* Where a client holds an id of its own, and where it looks at one it read.
OwnsJob == {"claim", "relookup", "bind", "create", "trim", "add", "release", "delete"}
SawJob  == {"inspect", "flag_pending", "flag_running", "cancel"}

\* fp: the request; job: the id drawn for it; seen: a job id read from Redis
\* (or given to cancel_job).
Client == [pc : ClientPC, fp : Fingerprints, job : Jobs \cup {NoJob}, seen : Jobs \cup {NoJob}]
Worker == [pc : WorkerPC, msg : Nat, last : Nat]

IdleClient == [pc |-> "idle", fp |-> CHOOSE f \in Fingerprints : TRUE, job |-> NoJob, seen |-> NoJob]
IdleWorker == [pc |-> "idle", msg |-> 0, last |-> 0]

ClientsOK ==
    /\ cl \in [Clients -> Client]
    /\ \A c \in Clients : /\ cl[c].pc \in OwnsJob => cl[c].job \in Jobs
                          /\ cl[c].pc \in SawJob => cl[c].seen \in Jobs

WorkersOK ==
    /\ wk \in [Workers -> Worker]
    /\ \A w \in Workers :
          wk[w].pc # "idle" => wk[w].msg \in DOMAIN log /\ wk[w].last \in DOMAIN log

TypeOK ==
    /\ QueueTypeOK /\ ClientsOK /\ WorkersOK
    /\ accepted \subseteq Jobs
    /\ runs \in [Jobs -> Nat]
    /\ left \in [Kinds -> Nat]

Init ==
    /\ QueueInit
    /\ cl = [c \in Clients |-> IdleClient]
    /\ wk = [w \in Workers |-> IdleWorker]
    /\ accepted = {}
    /\ runs = [j \in Jobs |-> 0]
    /\ left = Budget

Spend(kind) == left[kind] > 0 /\ left' = [left EXCEPT ![kind] = @ - 1]

-----------------------------------------------------------------------------
(* submit_search *)

ClientAt(c, pc) == cl[c].pc = pc
ClientGoes(c, pc) == cl' = [cl EXCEPT ![c].pc = pc]
Returns(c) == cl' = [cl EXCEPT ![c] = IdleClient]

\* uuid4: an id that occurs nowhere yet.
FreshJobs == Jobs \ ( {log[i].job : i \in DOMAIN log} \cup {j \in Jobs : rec[j] # Absent}
                      \cup {fps[f] : f \in Fingerprints} \cup accepted
                      \cup {cl[c].job : c \in Clients} \cup {cl[c].seen : c \in Clients} )

\* _find_reusable_job, first half: GET of the fingerprint key.
Lookup(c, f, job, notFound) ==
    cl' = [cl EXCEPT ![c] = [pc |-> IF fps[f] = NoJob THEN notFound ELSE "inspect",
                             fp |-> f, job |-> job, seen |-> fps[f]]]

SubmitSearch(c) ==
    /\ ClientAt(c, "idle")
    /\ \E f \in Fingerprints : Lookup(c, f, NoJob, "guard")
    /\ UNCHANGED <<queueVars, wk, accepted, runs, left>>

\* _find_reusable_job, second half: HGETALL of the job it names.
Reusable(j) == rec[j].state \in {"PENDING", "RUNNING", "SUCCEEDED"}

ReuseJob(c) ==
    /\ ClientAt(c, "inspect")
    /\ Reusable(cl[c].seen)
    /\ accepted' = accepted \cup {cl[c].seen}
    /\ Returns(c)
    /\ UNCHANGED <<queueVars, wk, runs, left>>

NothingToReuse(c) ==
    /\ ClientAt(c, "inspect")
    /\ ~Reusable(cl[c].seen)
    /\ cl' = [cl EXCEPT ![c].pc = IF cl[c].job = NoJob THEN "guard" ELSE "bind", ![c].seen = NoJob]
    /\ UNCHANGED <<queueVars, wk, accepted, runs, left>>

\* guard_capacity raises QueueOverloadedError.
RejectSubmission(c) ==
    /\ ClientAt(c, "guard")
    /\ Overloaded
    /\ Returns(c)
    /\ UNCHANGED <<queueVars, wk, accepted, runs, left>>

AdmitSubmission(c) ==
    /\ ClientAt(c, "guard")
    /\ ~Overloaded
    /\ \E j \in FreshJobs : cl' = [cl EXCEPT ![c].pc = "claim", ![c].job = j]
    /\ UNCHANGED <<queueVars, wk, accepted, runs, left>>

\* SET NX of the fingerprint key.
ClaimFingerprint(c) ==
    /\ ClientAt(c, "claim")
    /\ IF fps[cl[c].fp] = NoJob
       THEN BindFingerprint(cl[c].fp, cl[c].job) /\ ClientGoes(c, "create")
       ELSE ClientGoes(c, "relookup") /\ UNCHANGED fps
    /\ UNCHANGED <<log, trimmed, rec, dlq, wk, accepted, runs, left>>

LookupAgain(c) ==
    /\ ClientAt(c, "relookup")
    /\ Lookup(c, cl[c].fp, cl[c].job, "bind")
    /\ UNCHANGED <<queueVars, wk, accepted, runs, left>>

RebindFingerprint(c) ==
    /\ ClientAt(c, "bind")
    /\ BindFingerprint(cl[c].fp, cl[c].job)
    /\ ClientGoes(c, "create")
    /\ UNCHANGED <<log, trimmed, rec, dlq, wk, accepted, runs, left>>

CreateJobRecord(c) ==
    /\ ClientAt(c, "create")
    /\ CreateRecord(cl[c].job)
    /\ ClientGoes(c, "trim")
    /\ UNCHANGED <<log, trimmed, fps, dlq, wk, accepted, runs, left>>

TruncateBeforeAdd(c) ==
    /\ ClientAt(c, "trim")
    /\ TruncateIfNeeded
    /\ ClientGoes(c, "add")
    /\ UNCHANGED <<log, rec, fps, dlq, wk, accepted, runs, left>>

EnqueueJob(c) ==
    /\ ClientAt(c, "add")
    /\ \/ Enqueue(cl[c].job, cl[c].fp, 0) /\ UNCHANGED left
       \/ EnqueueTwice(cl[c].job, cl[c].fp, 0) /\ Spend("resend")
    /\ accepted' = accepted \cup {cl[c].job}
    /\ Returns(c)
    /\ UNCHANGED <<trimmed, rec, fps, dlq, wk, runs>>

\* The except clause: the failing command may have been applied or not.
SubmitFails(c) ==
    /\ cl[c].pc \in {"create", "trim", "add"}
    /\ Spend("error")
    /\ \/ UNCHANGED <<rec, log>>
       \/ ClientAt(c, "create") /\ CreateRecord(cl[c].job) /\ UNCHANGED log
       \/ ClientAt(c, "add") /\ Enqueue(cl[c].job, cl[c].fp, 0) /\ UNCHANGED rec
    /\ ClientGoes(c, "release")
    /\ UNCHANGED <<trimmed, fps, dlq, wk, accepted, runs>>

\* release_fingerprint_if_owner: GET, then DEL, then the exception goes on.
CheckOwner(c) ==
    /\ ClientAt(c, "release")
    /\ IF fps[cl[c].fp] = cl[c].job THEN ClientGoes(c, "delete") ELSE Returns(c)
    /\ UNCHANGED <<queueVars, wk, accepted, runs, left>>

ReleaseFingerprint(c) ==
    /\ ClientAt(c, "delete")
    /\ DeleteFingerprint(cl[c].fp)
    /\ Returns(c)
    /\ UNCHANGED <<log, trimmed, rec, dlq, wk, accepted, runs, left>>

ClientStops(c) ==
    /\ ~ClientAt(c, "idle")
    /\ Spend("crash")
    /\ Returns(c)
    /\ UNCHANGED <<queueVars, wk, accepted, runs>>

-----------------------------------------------------------------------------
(* cancel_job *)

\* The calls that find no record, or a terminal one, write nothing.
CancelJob(c) ==
    /\ ClientAt(c, "idle")
    /\ Spend("cancel")
    /\ \E j \in accepted :
          /\ rec[j].state \in Live
          /\ cl' = [cl EXCEPT ![c].seen = j,
                              ![c].pc = IF rec[j].state = "PENDING" THEN "flag_pending" ELSE "flag_running"]
    /\ UNCHANGED <<queueVars, wk, accepted, runs>>

FlagCancel(c) ==
    /\ cl[c].pc \in {"flag_pending", "flag_running"}
    /\ MarkCancelRequested(cl[c].seen)
    /\ IF ClientAt(c, "flag_pending") THEN ClientGoes(c, "cancel") ELSE Returns(c)
    /\ UNCHANGED <<log, trimmed, fps, dlq, wk, accepted, runs, left>>

CancelPending(c) ==
    /\ ClientAt(c, "cancel")
    /\ MarkCanceled(cl[c].seen)
    /\ Returns(c)
    /\ UNCHANGED <<log, trimmed, fps, dlq, wk, accepted, runs, left>>

-----------------------------------------------------------------------------
(* run_worker_once and _process_message *)

WorkerAt(w, pc) == wk[w].pc = pc
WorkerGoes(w, pc) == wk' = [wk EXCEPT ![w].pc = pc]
JobOf(w) == log[wk[w].msg].job
RetriesOf(w) == log[wk[w].msg].retries
RequestOf(w) == log[wk[w].msg].req

ReadBatch(w) ==
    /\ WorkerAt(w, "idle")
    /\ Ready # {}
    /\ \E count \in 1..BatchSize :
          /\ Deliver(NextReady, LastOf(count))
          /\ wk' = [wk EXCEPT ![w] = [pc |-> "load", msg |-> NextReady, last |-> LastOf(count)]]
    /\ UNCHANGED <<trimmed, rec, fps, dlq, cl, accepted, runs, left>>

\* Mutants: drops canceled jobs without marking them; drops first attempts.
StaleIfCanceled(w) == \/ rec[JobOf(w)].state \in Terminal \cup {"ABSENT"}
                      \/ rec[JobOf(w)].canceled
                      \/ RetriesOf(w) < rec[JobOf(w)].retries
StaleOffByOne(w) == \/ rec[JobOf(w)].state \in Terminal \cup {"ABSENT"}
                    \/ ~rec[JobOf(w)].canceled /\ RetriesOf(w) <= rec[JobOf(w)].retries

\* A message whose job is gone, finished or already further on.
Stale(w) == \/ rec[JobOf(w)] = Absent
            \/ rec[JobOf(w)].state \in Terminal
            \/ ~rec[JobOf(w)].canceled /\ RetriesOf(w) < rec[JobOf(w)].retries

\* HGETALL of the record, and the early returns that it decides.
LoadRecord(w) ==
    /\ WorkerAt(w, "load")
    /\ WorkerGoes(w, CASE Stale(w) -> "ack"
                       [] ~Stale(w) /\ rec[JobOf(w)].canceled -> "cancel"
                       [] OTHER -> "start")
    /\ UNCHANGED <<queueVars, cl, accepted, runs, left>>

HonourCancel(w) ==
    /\ WorkerAt(w, "cancel")
    /\ MarkCanceled(JobOf(w))
    /\ WorkerGoes(w, "ack")
    /\ UNCHANGED <<log, trimmed, fps, dlq, cl, accepted, runs, left>>

StartSearch(w) ==
    /\ WorkerAt(w, "start")
    /\ MarkRunning(JobOf(w), RetriesOf(w))
    /\ runs' = [runs EXCEPT ![JobOf(w)] = @ + 1]
    /\ WorkerGoes(w, "exec")
    /\ UNCHANGED <<log, trimmed, fps, dlq, cl, accepted, left>>

SearchSucceeds(w) ==
    /\ WorkerAt(w, "exec")
    /\ MarkSucceeded(JobOf(w))
    /\ WorkerGoes(w, "ack")
    /\ UNCHANGED <<log, trimmed, fps, dlq, cl, accepted, runs, left>>

\* Mutant: one attempt too many.
MayRetryOnceMore(n) == n <= MaxRetries
MayRetry(n) == n + 1 <= MaxRetries

SearchFails(w) ==
    /\ WorkerAt(w, "exec")
    /\ IF MayRetry(RetriesOf(w))
       THEN MarkPendingRetry(JobOf(w), RetriesOf(w) + 1) /\ WorkerGoes(w, "trim")
       ELSE MarkFailed(JobOf(w), RetriesOf(w) + 1) /\ WorkerGoes(w, "dlq")
    /\ UNCHANGED <<log, trimmed, fps, dlq, cl, accepted, runs, left>>

TruncateBeforeRetry(w) ==
    /\ WorkerAt(w, "trim")
    /\ TruncateIfNeeded
    /\ WorkerGoes(w, "add")
    /\ UNCHANGED <<log, rec, fps, dlq, cl, accepted, runs, left>>

EnqueueRetry(w) ==
    /\ WorkerAt(w, "add")
    /\ \/ Enqueue(JobOf(w), RequestOf(w), RetriesOf(w) + 1) /\ UNCHANGED left
       \/ EnqueueTwice(JobOf(w), RequestOf(w), RetriesOf(w) + 1) /\ Spend("resend")
    /\ WorkerGoes(w, "backoff")
    /\ UNCHANGED <<trimmed, rec, fps, dlq, cl, accepted, runs>>

DeadLetter(w) ==
    /\ WorkerAt(w, "dlq")
    /\ \/ MoveToDlq(JobOf(w), 1) /\ UNCHANGED left
       \/ MoveToDlq(JobOf(w), 2) /\ Spend("resend")
    /\ WorkerGoes(w, "ack")
    /\ UNCHANGED <<log, trimmed, rec, fps, cl, accepted, runs>>

\* XACK, after the back-off sleep of a retry; then the next entry of the batch.
AckMessage(w) ==
    /\ wk[w].pc \in {"ack", "backoff"}
    /\ Acknowledge(wk[w].msg)
    /\ wk' = [wk EXCEPT ![w] = IF wk[w].msg < wk[w].last
                               THEN [pc |-> "load", msg |-> wk[w].msg + 1, last |-> wk[w].last]
                               ELSE IdleWorker]
    /\ UNCHANGED <<trimmed, rec, fps, dlq, cl, accepted, runs, left>>

WorkerStops(w) ==
    /\ ~WorkerAt(w, "idle")
    /\ Spend("crash")
    /\ wk' = [wk EXCEPT ![w] = IdleWorker]
    /\ UNCHANGED <<queueVars, cl, accepted, runs>>

-----------------------------------------------------------------------------
Expiry ==
    /\ Spend("expire")
    /\ \/ \E j \in Jobs : ExpireRecord(j) /\ UNCHANGED fps
       \/ \E f \in Fingerprints : ExpireFingerprint(f) /\ UNCHANGED rec
    /\ UNCHANGED <<log, trimmed, dlq, cl, wk, accepted, runs>>

\* A call under way goes on by itself; a new one is up to the caller.
ClientStep(c) ==
    \/ ReuseJob(c) \/ NothingToReuse(c) \/ RejectSubmission(c) \/ AdmitSubmission(c)
    \/ ClaimFingerprint(c) \/ LookupAgain(c) \/ RebindFingerprint(c)
    \/ CreateJobRecord(c) \/ TruncateBeforeAdd(c) \/ EnqueueJob(c)
    \/ CheckOwner(c) \/ ReleaseFingerprint(c)
    \/ FlagCancel(c) \/ CancelPending(c)

WorkerStep(w) ==
    \/ ReadBatch(w) \/ LoadRecord(w) \/ HonourCancel(w)
    \/ StartSearch(w) \/ SearchSucceeds(w) \/ SearchFails(w)
    \/ TruncateBeforeRetry(w) \/ EnqueueRetry(w) \/ DeadLetter(w) \/ AckMessage(w)

Next ==
    \/ \E c \in Clients : ClientStep(c) \/ SubmitSearch(c) \/ CancelJob(c)
                          \/ SubmitFails(c) \/ ClientStops(c)
    \/ \E w \in Workers : WorkerStep(w) \/ WorkerStops(w)
    \/ Expiry

Spec == Init /\ [][Next]_vars

\* A caller's thread finishes the call it made, and run_worker_forever keeps
\* reading and finishes each message: the search call returns or raises.
Fairness ==
    /\ \A c \in Clients : WF_vars(ClientStep(c))
    /\ \A w \in Workers : WF_vars(WorkerStep(w))

FairSpec == Spec /\ Fairness

-----------------------------------------------------------------------------
(* Properties *)

Enqueued == {log[i].job : i \in DOMAIN log}

Spent(kind) == Budget[kind] - left[kind]

\* Without XADDs applied twice, no two workers ever run the same job at the
\* same time: a retry is read by ">" only after its predecessor has failed.
SingleExecution ==
    \A v, w \in Workers :
        v # w /\ WorkerAt(v, "exec") /\ WorkerAt(w, "exec") => JobOf(v) # JobOf(w)

\* A job's search is started at most max_retries + 1 times, whatever the order
\* in which workers read, fail, requeue, sleep and acknowledge.
AttemptsBounded == \A j \in Jobs : runs[j] <= MaxRetries + 1

\* XACK comes last: as long as an enqueued job is not finished, some entry of
\* it is undelivered or still in the pending list. (A cancellation that writes
\* to a hash that has just expired leaves a PENDING hash without a message.)
Unfinished(j) == rec[j].state \in Live
HasMessage(j) == \E i \in DOMAIN log : /\ log[i].job = j
                                        /\ \/ log[i].status = "pending"
                                           \/ i \in Ready
UnfinishedKeepsMessage ==
    Spent("expire") = 0 => \A j \in Enqueued : Unfinished(j) => HasMessage(j)

\* While no command fails, an id that submit_search has returned names a job
\* that is finished, has an entry in the stream, or is about to get one.
AcceptedIsBacked ==
    \A j \in accepted : \/ ~Unfinished(j)
                         \/ HasMessage(j)
                         \/ \E c \in Clients : cl[c].job = j /\ cl[c].pc \in {"trim", "add"}

\* Without resends, cancellations and expiry the dead-letter stream holds one entry
\* for each job whose last retry has failed, and none for any other job; it lacks at
\* most as many as processes have stopped: each at most the one it was about to add.
Burying(j) == \E w \in Workers : WorkerAt(w, "dlq") /\ JobOf(w) = j
Unburied == {j \in Jobs : rec[j].state = "FAILED" /\ dlq[j] = 0 /\ ~Burying(j)}
DlqMatchesFailures ==
    Spent("resend") = 0 /\ Spent("cancel") = 0 /\ Spent("expire") = 0 =>
        /\ \A j \in Jobs : /\ dlq[j] <= 1
                          /\ dlq[j] = 1 => rec[j].state = "FAILED" /\ rec[j].retries = MaxRetries + 1
        /\ Cardinality(Unburied) <= Spent("crash")

\* Entries are never deleted, so submit_search admits a bounded number of jobs
\* over the whole life of the stream.
Held == {cl[c].job : c \in Clients} \ {NoJob}
Admitted == Enqueued \cup Held
AdmissionBound ==
    RejectAt <= MaxLen => Cardinality(Admitted) <= RejectAt - 1 + Cardinality(Clients)

\* Trimming stops at MaxLen, so a short stream has never been trimmed.
TrimFloor == trimmed = 0 \/ Depth >= MaxLen

\* Once the stream is long enough for submissions to be refused it stays so,
\* even when every entry has been processed and acknowledged.
OverloadIsForever == [][RejectAt <= MaxLen /\ Depth >= RejectAt => Depth' >= RejectAt]_vars

\* With enough room between the two limits for the submissions that passed the
\* guard together, XTRIM removes no entry that was not delivered, although
\* retries are added without looking at the guard.
NoUndeliveredTrimmed ==
    RejectAt + Cardinality(Clients) - 1 <= MaxLen =>
        \A i \in 1..trimmed : log[i].status # "ready"

\* No update of a record by a worker or a canceller loses a cancellation.
CancelFlagSticks ==
    [][\A j \in Jobs : rec[j].canceled => rec'[j].canceled \/ rec'[j] = Absent]_vars

\* guard_capacity refuses a submission because the queue is full: some job is
\* then waiting or being run.
RejectionMeansBacklog ==
    \A c \in Clients : ClientAt(c, "guard") /\ Overloaded =>
        \E i \in DOMAIN log : log[i].status = "pending" \/ i \in Ready

\* A finished job stays as it is.
TerminalIsFinal ==
    [][\A j \in Jobs : rec[j].state \in Terminal => rec'[j].state \in {rec[j].state, "ABSENT"}]_vars

\* Equal requests share one job: two different unfinished jobs in the stream
\* were submitted for different requests.
OneLiveJobPerRequest ==
    \A i, k \in DOMAIN log :
        log[i].req = log[k].req /\ Unfinished(log[i].job) /\ Unfinished(log[k].job)
            => log[i].job = log[k].job

\* At-least-once: a job that is in the stream is run to an end.
EnqueuedTerminates == \A j \in Jobs : j \in Enqueued ~> rec[j].state \in Terminal

\* Every accepted job is finished at some time.
AcceptedTerminates == \A j \in Jobs : j \in accepted ~> rec[j].state \in Terminal

\* A job that somebody asked to cancel is finished at some time, canceled or not.
CanceledSettles == \A j \in Jobs : rec[j].canceled ~> rec[j].state \in Terminal

\* The life of a job that is never canceled and whose record does not expire.
Lifecycle == INSTANCE JobLifecycle WITH
                 state <- [j \in Jobs |-> rec[j].state],
                 tries <- [j \in Jobs |-> rec[j].retries]
LifecycleSpec == Lifecycle!Spec
=============================================================================
