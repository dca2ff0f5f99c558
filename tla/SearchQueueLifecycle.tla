------------------------ MODULE SearchQueueLifecycle ------------------------
(***************************************************************************)
(* Why a job's record says what its last entry and its worker do as long   *)
(* as nobody has canceled, no TTL has run out and no XADD was applied      *)
(* twice: SearchQueue then implements JobLifecycle, and the dead-letter    *)
(* stream lacks at most one failed job for each process that has stopped.  *)
(***************************************************************************)
EXTENDS SearchQueueExecution

\* So far nobody has canceled, no TTL has run out and no XADD was applied twice;
\* clients and workers may have stopped, and commands of submit_search failed.
Undisturbed == NoResends /\ Spent("cancel") = 0 /\ Spent("expire") = 0

\* What the record of the entry that a worker is at says.
WorkerRecord(w) ==
    LET r == rec[JobOf(w)]
    IN  /\ wk[w].pc = "exec" => r.state = "RUNNING" /\ r.retries = RetriesOf(w)
        /\ wk[w].pc \in {"trim", "add"} => r.state = "PENDING" /\ r.retries = RetriesOf(w) + 1
        /\ wk[w].pc = "dlq" => r.state = "FAILED" /\ dlq[JobOf(w)] = 0
        /\ wk[w].pc = "ack" => r.state = "SUCCEEDED" \/ dlq[JobOf(w)] = 1
        /\ wk[w].pc = "backoff" => RetriesOf(w) < MaxRetries
        /\ wk[w].pc # "cancel"

NobodyCancels == \A c \in Clients : ~Flagging(c)

RecordsFollow ==
    /\ \A j \in Jobs : ~rec[j].canceled
    /\ \A c \in Clients : cl[c].pc \in {"trim", "add"} => rec[cl[c].job] = Blank
    /\ \A i \in DOMAIN log : Waiting(i) =>
          rec[log[i].job].state = "PENDING" /\ rec[log[i].job].retries = log[i].retries
    /\ \A w \in Workers : WorkerRecord(w)

FailuresFollow ==
    /\ \A v, w \in Workers : v # w /\ wk[v].pc = "dlq" /\ wk[w].pc = "dlq" => JobOf(v) # JobOf(w)
    /\ \A j \in Jobs :
          /\ dlq[j] \in {0, 1} /\ (dlq[j] = 1 => rec[j].state = "FAILED")
          /\ rec[j].state = "FAILED" => rec[j].retries = MaxRetries + 1
          /\ rec[j].state = "FAILED" /\ dlq[j] = 0 =>
                \E i \in DOMAIN log :
                    log[i].job = j /\ log[i].status = "pending" /\ log[i].retries = MaxRetries

LifeInv == ExecutionInv /\ UnbornJobs /\ NobodyCancels /\ RecordsFollow /\ FailuresFollow

\* A step between two undisturbed states takes from none of the three.
LEMMA CalmStep ==
    ASSUME TypeOK, Undisturbed, Undisturbed'
    PROVE  /\ ~Spend("resend") /\ ~Spend("cancel") /\ ~Spend("expire")
           /\ ~Expiry /\ \A c \in Clients : ~CancelJob(c)
<1>1. left \in [Kinds -> Nat] /\ Budget \in [Kinds -> Nat]
  BY BudgetAssumption DEF TypeOK
<1>2. ASSUME NEW kind \in Kinds, Spent(kind) = 0, Spent(kind)' = 0 PROVE ~Spend(kind)
  <2>1. Budget[kind] - left[kind] = 0 /\ Budget[kind] - left'[kind] = 0
    BY <1>2 DEF Spent
  <2>2. Spend(kind) => left'[kind] = left[kind] - 1
    BY <1>1 DEF Spend
  <2>3. QED
    BY <1>1, <2>1, <2>2
<1>3. ~Spend("resend") /\ ~Spend("cancel") /\ ~Spend("expire")
  BY <1>2 DEF Undisturbed, NoResends, Kinds
<1>4. QED
  BY <1>3 DEF Expiry, CancelJob

\* An undisturbed state comes after an undisturbed one.
LEMMA CalmBefore ==
    ASSUME TypeOK, BudgetSpent, [Next]_vars, Undisturbed'
    PROVE  Undisturbed
BY NotYet DEF Undisturbed, NoResends, Kinds

Fields(s, n) == [state |-> s, retries |-> n, canceled |-> FALSE]

\* What an update leaves of a record that nobody has flagged.
LEMMA UpdatedFields ==
    ASSUME QueueTypeOK, NEW k \in Jobs, NEW n \in Nat, rec[k] # Absent, ~rec[k].canceled
    PROVE  /\ MarkRunning(k, n) => rec' = [rec EXCEPT ![k] = Fields("RUNNING", n)]
           /\ MarkPendingRetry(k, n) => rec' = [rec EXCEPT ![k] = Fields("PENDING", n)]
           /\ MarkFailed(k, n) => rec' = [rec EXCEPT ![k] = Fields("FAILED", n)]
           /\ MarkSucceeded(k) => rec' = [rec EXCEPT ![k] = Fields("SUCCEEDED", rec[k].retries)]
<1>1. Current(k) = rec[k] /\ rec[k] \in JobRecord /\ rec[k].canceled = FALSE
  BY DEF QueueTypeOK, Current, JobRecord
<1>2. ASSUME NEW s \in Live \cup Terminal
      PROVE  /\ [rec[k] EXCEPT !.state = s, !.retries = n] = Fields(s, n)
             /\ [rec[k] EXCEPT !.state = s] = Fields(s, rec[k].retries)
  <2>1. \A r \in JobRecord : r = [state |-> r.state, retries |-> r.retries, canceled |-> r.canceled]
    BY DEF JobRecord
  <2>2. PICK x : x = [rec[k] EXCEPT !.state = s, !.retries = n]
    OBVIOUS
  <2>3. x \in JobRecord /\ x.state = s /\ x.retries = n /\ x.canceled = FALSE
    BY <1>1, <2>2 DEF JobRecord
  <2>4. PICK y : y = [rec[k] EXCEPT !.state = s]
    OBVIOUS
  <2>5. y \in JobRecord /\ y.state = s /\ y.retries = rec[k].retries /\ y.canceled = FALSE
    BY <1>1, <2>4 DEF JobRecord
  <2>6. x = Fields(s, n) /\ y = Fields(s, rec[k].retries)
    BY <2>1, <2>3, <2>5 DEF Fields
  <2>7. QED
    BY <2>2, <2>4, <2>6
<1>3. "RUNNING" \in Live /\ "PENDING" \in Live /\ "FAILED" \in Terminal /\ "SUCCEEDED" \in Terminal
  BY DEF Live, Terminal
<1>4. QED
  BY <1>1, <1>2, <1>3 DEF MarkRunning, MarkPendingRetry, MarkFailed, MarkSucceeded

\* The workers' jobs are in the stream; the submitters' are not yet.
LEMMA JobsApart ==
    ASSUME LifeInv, NEW c \in Clients, Drawn(c), NEW w \in Workers, wk[w].pc # "idle"
    PROVE  cl[c].job # JobOf(w)
<1>1. JobOf(w) \in Enqueued
  BY WorkerIs DEF LifeInv, ExecutionInv, JobOf, Enqueued
<1>2. QED
  BY <1>1 DEF LifeInv, ExecutionInv, DrawnAreNew

\* A step that writes no record, makes no entry and moves nobody to a place
\* where a record is expected of it.
LEMMA LifeSame ==
    ASSUME LifeInv, AttemptsKept, DOMAIN log' = DOMAIN log, UNCHANGED <<rec, dlq>>,
           \A c \in Clients : cl'[c].pc \in {"trim", "add"} =>
               cl[c].pc \in {"trim", "add"} /\ cl'[c].job = cl[c].job,
           \A w \in Workers : WorkerRecord(w)',
           \A w \in Workers : wk'[w].pc = "dlq" => wk'[w] = wk[w] /\ wk[w].msg \in DOMAIN log,
           \A i \in DOMAIN log : \/ log[i].status = "pending" => log'[i].status = "pending"
                                 \/ rec[log[i].job].state # "FAILED" \/ dlq[log[i].job] = 1
                                 \/ log[i].retries # MaxRetries
    PROVE  RecordsFollow' /\ FailuresFollow'
<1> USE DEF LifeInv
<1>1. RecordsFollow'
  <2>1. \A c \in Clients : cl'[c].pc \in {"trim", "add"} => rec'[cl'[c].job] = Blank
    BY DEF RecordsFollow
  <2>2. \A i \in DOMAIN log' : Waiting(i)' =>
          rec'[log'[i].job].state = "PENDING" /\ rec'[log'[i].job].retries = log'[i].retries
    BY DEF RecordsFollow, AttemptsKept
  <2>3. \A j \in Jobs : ~rec'[j].canceled
    BY DEF RecordsFollow
  <2>4. QED
    BY <2>1, <2>2, <2>3 DEF RecordsFollow
<1>2. FailuresFollow'
  <2>1. \A v, w \in Workers : v # w /\ wk'[v].pc = "dlq" /\ wk'[w].pc = "dlq" => JobOf(v)' # JobOf(w)'
    <3> SUFFICES ASSUME NEW v \in Workers, NEW w \in Workers, v # w, wk'[v].pc = "dlq", wk'[w].pc = "dlq"
                 PROVE  JobOf(v)' # JobOf(w)'
      OBVIOUS
    <3>1. /\ wk'[v] = wk[v] /\ wk'[w] = wk[w] /\ wk[v].msg \in DOMAIN log /\ wk[w].msg \in DOMAIN log
      OBVIOUS
    <3>2. JobOf(v)' = JobOf(v) /\ JobOf(w)' = JobOf(w)
      BY <3>1 DEF JobOf, AttemptsKept
    <3>3. QED
      BY <3>1, <3>2 DEF FailuresFollow
  <2>2. ASSUME NEW j \in Jobs, rec[j].state = "FAILED", dlq[j] = 0
        PROVE  \E i \in DOMAIN log' :
                   log'[i].job = j /\ log'[i].status = "pending" /\ log'[i].retries = MaxRetries
    <3>1. PICK i \in DOMAIN log : log[i].job = j /\ log[i].status = "pending" /\ log[i].retries = MaxRetries
      BY <2>2 DEF FailuresFollow
    <3>2. log'[i].job = j /\ log'[i].retries = MaxRetries
      BY <3>1 DEF AttemptsKept
    <3>3. log'[i].status = "pending"
      BY <2>2, <3>1
    <3>4. QED
      BY <3>2, <3>3
  <2>3. \A j \in Jobs : /\ dlq'[j] \in {0, 1} /\ (dlq'[j] = 1 => rec'[j].state = "FAILED")
                        /\ rec'[j].state = "FAILED" => rec'[j].retries = MaxRetries + 1
    BY DEF FailuresFollow
  <2>4. QED
    BY <2>1, <2>2, <2>3 DEF FailuresFollow
<1>3. QED
  BY <1>1, <1>2

\* A worker writes the record of the job that it runs.
LEMMA LifeUpdate ==
    ASSUME LifeInv, AttemptsKept, UNCHANGED <<log, cl, dlq>>,
           NEW w \in Workers, wk[w].pc # "idle", wk[w].msg \in DOMAIN log,
           NEW j \in Jobs, j = JobOf(w), rec[j].state \in Live,
           NEW s, NEW n, rec' = [rec EXCEPT ![j] = Fields(s, n)],
           \A v \in Workers \ {w} : wk'[v] = wk[v] /\ (wk[v].pc \in InRun => JobOf(v) # j),
           \A i \in DOMAIN log : log[i].job = j => ~Waiting(i)',
           wk'[w].msg = wk[w].msg, WorkerRecord(w)',
           s = "FAILED" => n = MaxRetries + 1 /\ RetriesOf(w) = MaxRetries
    PROVE  RecordsFollow' /\ FailuresFollow'
<1> USE DEF LifeInv
<1>0. /\ rec \in [Jobs -> JobRecord] /\ dlq \in [Jobs -> Nat]
      /\ \A i \in DOMAIN log : log[i].job \in Jobs
      /\ \A v \in Workers : wk[v].pc # "idle" => wk[v].msg \in DOMAIN log /\ JobOf(v) \in Jobs
  <2>1. \A i \in DOMAIN log : log[i].job \in Jobs
    BY StreamIs DEF ExecutionInv
  <2>2. \A v \in Workers : wk[v].pc # "idle" => wk[v].msg \in DOMAIN log
    BY WorkerIs DEF ExecutionInv
  <2>3. QED
    BY <2>1, <2>2 DEF ExecutionInv, TypeOK, QueueTypeOK, JobOf
<1>1. /\ rec'[j].state = s /\ rec'[j].retries = n
      /\ \A k \in Jobs \ {j} : rec'[k] = rec[k]
  BY <1>0 DEF Fields
<1>2. \A v \in Workers : wk'[v].msg = wk[v].msg /\ (JobOf(v)' = JobOf(v)) /\ (RetriesOf(v)' = RetriesOf(v))
  BY DEF JobOf, RetriesOf
<1>3. dlq[j] = 0
  BY <1>0 DEF FailuresFollow, Live
<1>4. \A v \in Workers \ {w} : wk[v].pc \in {"dlq", "ack"} => JobOf(v) # j
  BY <1>3 DEF RecordsFollow, WorkerRecord, Live
<1>5. RecordsFollow'
  <2>1. ASSUME NEW c \in Clients, cl[c].pc \in {"trim", "add"} PROVE rec'[cl[c].job] = Blank
    <3>1. Drawn(c) /\ cl[c].job \in Jobs
      BY <2>1 DEF Drawn, ExecutionInv, TypeOK, ClientsOK, OwnsJob
    <3>2. cl[c].job # j
      BY <3>1, JobsApart
    <3>3. QED
      BY <1>1, <2>1, <3>1, <3>2 DEF RecordsFollow
  <2>2. ASSUME NEW i \in DOMAIN log, Waiting(i)'
        PROVE  rec'[log[i].job].state = "PENDING" /\ rec'[log[i].job].retries = log[i].retries
    <3>1. Waiting(i) /\ log[i].job # j
      BY <2>2 DEF AttemptsKept
    <3>2. QED
      BY <1>0, <1>1, <3>1 DEF RecordsFollow
  <2>3. ASSUME NEW v \in Workers PROVE WorkerRecord(v)'
    <3>1. CASE v = w
      BY <3>1
    <3>2. CASE v # w /\ wk[v].pc \in {"exec", "trim", "add", "dlq", "ack"}
      <4>1. JobOf(v) # j /\ JobOf(v) \in Jobs
        BY <1>0, <1>4, <3>2 DEF InRun
      <4>2. rec'[JobOf(v)] = rec[JobOf(v)] /\ wk'[v] = wk[v]
        BY <1>1, <3>2, <4>1
      <4>3. QED
        BY <1>2, <4>2 DEF RecordsFollow, WorkerRecord
    <3>3. CASE v # w /\ wk[v].pc \notin {"exec", "trim", "add", "dlq", "ack"}
      <4>1. wk'[v] = wk[v]
        BY <3>3
      <4>2. QED
        BY <1>2, <3>3, <4>1 DEF RecordsFollow, WorkerRecord
    <3>4. QED
      BY <3>1, <3>2, <3>3
  <2>4. \A k \in Jobs : ~rec'[k].canceled
    <3>1. ~rec'[j].canceled
      BY <1>0 DEF Fields
    <3>2. QED
      BY <1>1, <3>1 DEF RecordsFollow
  <2>5. QED
    BY <2>1, <2>2, <2>3, <2>4 DEF RecordsFollow
<1>6. FailuresFollow'
  <2>1. ASSUME NEW u \in Workers, NEW v \in Workers, u # v, wk'[u].pc = "dlq", wk'[v].pc = "dlq"
        PROVE  JobOf(u)' # JobOf(v)'
    BY <2>1, <1>2, <1>4 DEF FailuresFollow
  <2>2. ASSUME NEW k \in Jobs
        PROVE  /\ dlq'[k] \in {0, 1} /\ (dlq'[k] = 1 => rec'[k].state = "FAILED")
               /\ rec'[k].state = "FAILED" => rec'[k].retries = MaxRetries + 1
               /\ rec'[k].state = "FAILED" /\ dlq'[k] = 0 =>
                     \E i \in DOMAIN log :
                         log[i].job = k /\ log[i].status = "pending" /\ log[i].retries = MaxRetries
    <3>1. CASE k = j
      <4>1. log[wk[w].msg].job = j /\ log[wk[w].msg].status = "pending"
        <5>1. Owns(w, wk[w].msg)
          BY WorkerIs DEF Owns, ExecutionInv, BatchesApart
        <5>2. QED
          BY <5>1 DEF ExecutionInv, BatchesApart, JobOf
      <4>2. s = "FAILED" => log[wk[w].msg].retries = MaxRetries
        BY DEF RetriesOf
      <4>3. QED
        BY <1>1, <1>3, <3>1, <4>1, <4>2
    <3>2. CASE k # j
      BY <1>1, <3>2 DEF FailuresFollow
    <3>3. QED
      BY <3>1, <3>2
  <2>3. QED
    BY <2>1, <2>2 DEF FailuresFollow
<1>7. QED
  BY <1>5, <1>6

\* Nobody flags a job that nobody cancels.
LEMMA NobodyCancelsStep ==
    ASSUME LifeInv, Undisturbed, Undisturbed', [Next]_vars
    PROVE  NobodyCancels'
<1>t. cl \in [Clients -> Client]
  BY DEF LifeInv, ExecutionInv, TypeOK, ClientsOK
<1>0. \A c \in Clients : ~Flagging(c)
  BY DEF LifeInv, NobodyCancels
<1>2. \A c \in Clients : ~CancelJob(c)
  BY CalmStep DEF LifeInv, ExecutionInv
<1>3. \A d \in Clients : ~Flagging(d)'
  <2>1. CASE \E c \in Clients : AdmitSubmission(c)
    <3>1. PICK c \in Clients : AdmitSubmission(c)
      BY <2>1
    <3>2. PICK j : cl' = [cl EXCEPT ![c] = [cl[c] EXCEPT !.pc = "claim", !.job = j]]
      BY <3>1, Zenon DEF AdmitSubmission
    <3>3. cl'[c].pc = "claim" /\ \A d \in Clients \ {c} : cl'[d] = cl[d]
      BY <1>t, <3>2 DEF Client
    <3>4. QED
      BY <1>0, <3>3 DEF Flagging
  <2>2. CASE ~\E c \in Clients : AdmitSubmission(c)
    BY <1>0, <1>2, <2>2, ClientsStep DEF LifeInv, ExecutionInv
  <2>3. QED
    BY <2>1, <2>2
<1>4. QED
  BY <1>3 DEF NobodyCancels

\* Of the records, a client writes only the one it creates.
LEMMA ClientWrites ==
    ASSUME LifeInv, Undisturbed, Undisturbed', NEW c \in Clients,
           ClientStep(c) \/ SubmitSearch(c) \/ CancelJob(c) \/ SubmitFails(c) \/ ClientStops(c)
    PROVE  \/ UNCHANGED rec
           \/ /\ cl[c].pc = "create" /\ cl[c].job \in Jobs /\ rec[cl[c].job] = Absent
              /\ rec' = [rec EXCEPT ![cl[c].job] = Blank]
<1>1. cl[c].pc = "create" => cl[c].job \in Jobs /\ rec[cl[c].job] = Absent
  BY DEF LifeInv, ExecutionInv, TypeOK, ClientsOK, OwnsJob, UnbornJobs, Unborn
<1>2. ~FlagCancel(c) /\ ~CancelPending(c) /\ ~CancelJob(c)
  BY CalmStep DEF LifeInv, ExecutionInv, NobodyCancels, Flagging, FlagCancel, CancelPending, ClientAt
<1>3. QED
  BY <1>1, <1>2
     DEF ClientStep, SubmitSearch, SubmitFails, ClientStops, ReuseJob, NothingToReuse, RejectSubmission,
         AdmitSubmission, ClaimFingerprint, LookupAgain, RebindFingerprint, CreateJobRecord, TruncateBeforeAdd,
         EnqueueJob, CheckOwner, ReleaseFingerprint, queueVars, CreateRecord, ClientAt

\* A client's step: a record is created before its job is in the stream, and is
\* still as it was created when the job's first entry is added.
LEMMA LifeClient ==
    ASSUME LifeInv, Undisturbed, Undisturbed', NEW c \in Clients,
           ClientStep(c) \/ SubmitSearch(c) \/ CancelJob(c) \/ SubmitFails(c) \/ ClientStops(c)
    PROVE  RecordsFollow' /\ FailuresFollow'
<1> USE DEF LifeInv
<1>t. /\ cl \in [Clients -> Client] /\ rec \in [Jobs -> JobRecord] /\ dlq \in [Jobs -> Nat]
      /\ \A d \in Clients : Drawn(d) => cl[d].job \in Jobs \cup {NoJob}
      /\ cl[c].pc \in OwnsJob => cl[c].job \in Jobs
  BY DEF ExecutionInv, TypeOK, ClientsOK, QueueTypeOK, Client
<1>0. UNCHANGED <<wk, dlq>>
  BY DEF ClientStep, SubmitSearch, CancelJob, SubmitFails, ClientStops,
         ReuseJob, NothingToReuse, RejectSubmission, AdmitSubmission, ClaimFingerprint, LookupAgain,
         RebindFingerprint, CreateJobRecord, TruncateBeforeAdd, EnqueueJob, CheckOwner, ReleaseFingerprint,
         FlagCancel, CancelPending, queueVars
<1>1. /\ AttemptsKept /\ \A i \in DOMAIN log : log'[i] = log[i]
      /\ \A i \in DOMAIN log' \ DOMAIN log : cl[c].pc = "add" /\ log'[i].job = cl[c].job /\ log'[i].retries = 0
  BY ExecutionClient DEF Undisturbed
<1>2. ~FlagCancel(c) /\ ~CancelPending(c) /\ ~CancelJob(c)
  BY CalmStep DEF ExecutionInv, NobodyCancels, Flagging, FlagCancel, CancelPending, ClientAt
<1>3. UNCHANGED rec \/ (cl[c].pc = "create" /\ cl[c].job \in Jobs /\ rec' = [rec EXCEPT ![cl[c].job] = Blank])
  BY ClientWrites
<1>4. \A d \in Clients : cl'[d].pc \in {"trim", "add"} =>
         \/ cl[d].pc \in {"trim", "add"} /\ cl'[d].job = cl[d].job
         \/ d = c /\ CreateJobRecord(c) /\ cl'[c].job = cl[c].job
  BY RecordCreated DEF ExecutionInv
<1>5. \A w \in Workers : wk[w].pc # "idle" =>
         /\ JobOf(w)' = JobOf(w) /\ RetriesOf(w)' = RetriesOf(w) /\ JobOf(w) \in Jobs
         /\ rec'[JobOf(w)] = rec[JobOf(w)]
  <2> SUFFICES ASSUME NEW w \in Workers, wk[w].pc # "idle"
               PROVE  /\ JobOf(w)' = JobOf(w) /\ RetriesOf(w)' = RetriesOf(w) /\ JobOf(w) \in Jobs
                      /\ rec'[JobOf(w)] = rec[JobOf(w)]
    OBVIOUS
  <2>1. wk[w].msg \in DOMAIN log
    BY WorkerIs DEF ExecutionInv
  <2>2. JobOf(w)' = JobOf(w) /\ RetriesOf(w)' = RetriesOf(w) /\ JobOf(w) \in Jobs
    BY <1>0, <1>1, <2>1, StreamIs DEF JobOf, RetriesOf, ExecutionInv
  <2>3. cl[c].pc = "create" => cl[c].job # JobOf(w)
    BY JobsApart DEF Drawn
  <2>4. QED
    BY <1>t, <1>3, <2>2, <2>3
<1>6. RecordsFollow'
  <2>1. \A j \in Jobs : ~rec'[j].canceled
    BY <1>t, <1>3 DEF RecordsFollow, Blank
  <2>2. ASSUME NEW d \in Clients, cl'[d].pc \in {"trim", "add"} PROVE rec'[cl'[d].job] = Blank
    <3>1. CASE cl[d].pc \in {"trim", "add"} /\ cl'[d].job = cl[d].job
      <4>1. Drawn(d) /\ rec[cl[d].job] = Blank
        BY <3>1 DEF Drawn, RecordsFollow
      <4>2. cl[c].pc = "create" => cl[c].job # cl[d].job
        BY <3>1, <4>1 DEF Drawn, ExecutionInv, DrawnAreNew
      <4>3. cl[d].job \in Jobs
        BY <3>1 DEF ExecutionInv, TypeOK, ClientsOK, OwnsJob
      <4>4. rec'[cl[d].job] = rec[cl[d].job]
        BY <1>t, <1>3, <4>2, <4>3
      <4>5. QED
        BY <3>1, <4>1, <4>4
    <3>3. CASE d = c /\ CreateJobRecord(c) /\ cl'[c].job = cl[c].job
      BY <1>t, <3>3 DEF CreateJobRecord, CreateRecord, ClientAt, OwnsJob
    <3>4. QED
      BY <1>4, <2>2, <3>1, <3>3
  <2>3. ASSUME NEW i \in DOMAIN log', Waiting(i)'
        PROVE  rec'[log'[i].job].state = "PENDING" /\ rec'[log'[i].job].retries = log'[i].retries
    <3>1. CASE i \in DOMAIN log
      <4>1. Waiting(i) /\ log'[i] = log[i] /\ log[i].job \in Jobs
        BY <1>1, <2>3, <3>1, StreamIs DEF AttemptsKept, ExecutionInv
      <4>2. cl[c].pc = "create" => cl[c].job # log[i].job
        BY <3>1 DEF Drawn, ExecutionInv, DrawnAreNew, Enqueued
      <4>3. rec'[log[i].job] = rec[log[i].job]
        BY <1>t, <1>3, <4>1, <4>2
      <4>4. QED
        BY <3>1, <4>1, <4>3 DEF RecordsFollow
    <3>2. CASE i \notin DOMAIN log
      <4>1. cl[c].pc = "add" /\ log'[i].job = cl[c].job /\ log'[i].retries = 0
        BY <1>1, <3>2
      <4>2. rec'[cl[c].job] = Blank
        BY <1>3, <4>1 DEF RecordsFollow
      <4>3. QED
        BY <4>1, <4>2 DEF Blank
    <3>3. QED
      BY <3>1, <3>2
  <2>4. ASSUME NEW w \in Workers PROVE WorkerRecord(w)'
    <3>1. CASE wk[w].pc = "idle"
      BY <1>0, <3>1 DEF WorkerRecord
    <3>2. CASE wk[w].pc # "idle"
      BY <1>0, <1>5, <3>2 DEF WorkerRecord, RecordsFollow
    <3>3. QED
      BY <3>1, <3>2
  <2>5. QED
    BY <2>1, <2>2, <2>3, <2>4 DEF RecordsFollow
<1>7. FailuresFollow'
  <2>1. ASSUME NEW v \in Workers, NEW w \in Workers, v # w, wk'[v].pc = "dlq", wk'[w].pc = "dlq"
        PROVE  JobOf(v)' # JobOf(w)'
    BY <2>1, <1>0, <1>5 DEF FailuresFollow
  <2>2. ASSUME NEW j \in Jobs
        PROVE  /\ dlq'[j] \in {0, 1} /\ (dlq'[j] = 1 => rec'[j].state = "FAILED")
               /\ rec'[j].state = "FAILED" => rec'[j].retries = MaxRetries + 1
               /\ rec'[j].state = "FAILED" /\ dlq'[j] = 0 =>
                     \E i \in DOMAIN log' :
                         log'[i].job = j /\ log'[i].status = "pending" /\ log'[i].retries = MaxRetries
    <3>1. CASE rec'[j] = rec[j]
      <4>1. ASSUME rec[j].state = "FAILED", dlq[j] = 0
            PROVE  \E i \in DOMAIN log' :
                       log'[i].job = j /\ log'[i].status = "pending" /\ log'[i].retries = MaxRetries
        <5>1. PICK i \in DOMAIN log :
                log[i].job = j /\ log[i].status = "pending" /\ log[i].retries = MaxRetries
          BY <4>1 DEF FailuresFollow
        <5>2. i \in DOMAIN log' /\ log'[i] = log[i]
          BY <1>1 DEF AttemptsKept
        <5>3. QED
          BY <5>1, <5>2
      <4>2. QED
        BY <1>0, <3>1, <4>1 DEF FailuresFollow
    <3>2. CASE rec'[j] # rec[j]
      <4>1. cl[c].pc = "create" /\ cl[c].job = j /\ rec'[j] = Blank
        BY <1>t, <1>3, <3>2
      <4>2. rec[j] = Absent
        BY <4>1 DEF UnbornJobs, Unborn
      <4>3. QED
        BY <1>0, <4>1, <4>2 DEF FailuresFollow, Absent, Blank
    <3>3. QED
      BY <3>1, <3>2
  <2>3. QED
    BY <2>1, <2>2 DEF FailuresFollow
<1>8. QED
  BY <1>6, <1>7

\* What a worker's step leaves alone of another worker's entry.
LEMMA OtherSame ==
    ASSUME LifeInv, AttemptsKept, NEW v \in Workers, wk'[v] = wk[v],
           rec'[JobOf(v)] = rec[JobOf(v)], dlq'[JobOf(v)] = dlq[JobOf(v)]
    PROVE  WorkerRecord(v)'
<1>1. CASE wk[v].pc = "idle"
  BY <1>1 DEF WorkerRecord
<1>2. CASE wk[v].pc # "idle"
  <2>1. wk[v].msg \in DOMAIN log
    BY <1>2, WorkerIs DEF LifeInv, ExecutionInv
  <2>2. JobOf(v)' = JobOf(v) /\ RetriesOf(v)' = RetriesOf(v)
    BY <2>1 DEF JobOf, RetriesOf, AttemptsKept
  <2>3. QED
    BY <2>2 DEF WorkerRecord, LifeInv, RecordsFollow
<1>3. QED
  BY <1>1, <1>2

\* The entry a worker is at, and its job's record.
LEMMA WorkerHas ==
    ASSUME LifeInv, NEW w \in Workers, wk[w].pc # "idle"
    PROVE  /\ wk[w].msg \in DOMAIN log /\ JobOf(w) \in Jobs /\ RetriesOf(w) \in Nat
           /\ RetriesOf(w) <= MaxRetries /\ MaxRetries \in Nat
           /\ Owns(w, wk[w].msg) /\ wk[w].msg \in Nat
           /\ wk[w].pc \in BeforeRun => Waiting(wk[w].msg)
           /\ rec \in [Jobs -> JobRecord] /\ dlq \in [Jobs -> Nat] /\ rec[JobOf(w)].retries \in Nat
           /\ ~rec[JobOf(w)].canceled
<1>1. wk[w].msg \in DOMAIN log /\ wk[w].msg \in Nat
  BY WorkerIs DEF LifeInv, ExecutionInv
<1>2. JobOf(w) \in Jobs /\ RetriesOf(w) \in Nat /\ RetriesOf(w) <= MaxRetries /\ MaxRetries \in Nat
  BY <1>1, StreamIs DEF LifeInv, ExecutionInv, JobOf, RetriesOf, RunsCounted
<1>3. Owns(w, wk[w].msg)
  BY <1>1 DEF Owns, LifeInv, ExecutionInv, BatchesApart
<1>4. rec \in [Jobs -> JobRecord] /\ dlq \in [Jobs -> Nat]
  BY DEF LifeInv, ExecutionInv, TypeOK, QueueTypeOK
<1>5. rec[JobOf(w)].retries \in Nat
  BY <1>2, <1>4 DEF JobRecord
<1>6. QED
  BY <1>1, <1>2, <1>3, <1>4, <1>5 DEF Waiting, LifeInv, RecordsFollow

\* Reading a batch, reading a record, trimming and stopping write no record.
\* What the record of an entry says is never behind it, so none is dropped.
LEMMA LifeReads ==
    ASSUME LifeInv, Undisturbed, Undisturbed', AttemptsKept, NEW w \in Workers,
           ReadBatch(w) \/ LoadRecord(w) \/ TruncateBeforeRetry(w) \/ WorkerStops(w)
    PROVE  RecordsFollow' /\ FailuresFollow'
<1>t. TypeOK /\ wk \in [Workers -> Worker]
  BY DEF LifeInv, ExecutionInv, TypeOK, WorkersOK
<1>1. UNCHANGED <<rec, dlq, cl>>
  BY DEF ReadBatch, LoadRecord, TruncateBeforeRetry, WorkerStops, queueVars
<1>2. /\ \A v \in Workers \ {w} : wk'[v] = wk[v]
      /\ wk'[w].pc \in {"load", "start", "idle", "add"}
      /\ wk'[w].pc = "add" => wk[w].pc = "trim" /\ wk'[w].msg = wk[w].msg
  <2>1. CASE ReadBatch(w)
    BY <2>1, <1>t DEF ReadBatch
  <2>2. CASE LoadRecord(w)
    <3>1. wk[w].pc = "load"
      BY <2>2 DEF LoadRecord, WorkerAt
    <3>2. Waiting(wk[w].msg) /\ wk[w].msg \in DOMAIN log /\ RetriesOf(w) \in Nat
      BY <3>1, WorkerHas DEF BeforeRun
    <3>3. rec[JobOf(w)].state = "PENDING" /\ rec[JobOf(w)].retries = RetriesOf(w) /\ ~rec[JobOf(w)].canceled
      BY <3>1, <3>2, WorkerHas DEF LifeInv, RecordsFollow, JobOf, RetriesOf
    <3>4. ~Stale(w)
      BY <3>2, <3>3 DEF Stale, Absent, Terminal
    <3>5. WorkerGoes(w, "start")
      BY <2>2, <3>3, <3>4 DEF LoadRecord
    <3>6. QED
      BY <1>t, <3>5, WorkerGoesOn
  <2>3. CASE TruncateBeforeRetry(w)
    BY <2>3, <1>t, WorkerGoesOn DEF TruncateBeforeRetry, WorkerAt
  <2>4. CASE WorkerStops(w)
    BY <2>4, <1>t DEF WorkerStops, IdleWorker
  <2>5. QED
    BY <2>1, <2>2, <2>3, <2>4
<1>3. \A v \in Workers : WorkerRecord(v)'
  <2>1. ASSUME NEW v \in Workers \ {w} PROVE WorkerRecord(v)'
    BY <1>1, <1>2, OtherSame
  <2>2. WorkerRecord(w)'
    <3>1. CASE wk'[w].pc = "add"
      <4>1. wk[w].pc = "trim" /\ wk'[w].msg = wk[w].msg /\ wk[w].msg \in DOMAIN log
        BY <1>2, <3>1, WorkerHas
      <4>2. JobOf(w)' = JobOf(w) /\ RetriesOf(w)' = RetriesOf(w)
        BY <4>1 DEF JobOf, RetriesOf, AttemptsKept
      <4>3. WorkerRecord(w)
        BY DEF LifeInv, RecordsFollow
      <4>4. QED
        BY <1>1, <3>1, <4>1, <4>2, <4>3 DEF WorkerRecord
    <3>2. CASE wk'[w].pc # "add"
      BY <1>2, <3>2 DEF WorkerRecord
    <3>3. QED
      BY <3>1, <3>2
  <2>3. QED
    BY <2>1, <2>2
<1>4. /\ DOMAIN log' = DOMAIN log
      /\ \A i \in DOMAIN log : log[i].status = "pending" => log'[i].status = "pending"
  <2>1. CASE ReadBatch(w)
    <3>1. \A i \in DOMAIN log : log[i] \in Message
      BY <1>t, StreamIs
    <3>2. \A m \in Message : [m EXCEPT !.status = "pending"].status = "pending"
      BY DEF Message
    <3>3. PICK n : Deliver(NextReady, LastOf(n))
      BY <2>1 DEF ReadBatch
    <3>4. \A i \in DOMAIN log : log'[i] = log[i] \/ log'[i] = [log[i] EXCEPT !.status = "pending"]
      BY <3>3 DEF Deliver
    <3>5. DOMAIN log' = DOMAIN log
      BY <3>3 DEF Deliver
    <3>6. ASSUME NEW i \in DOMAIN log, log[i].status = "pending" PROVE log'[i].status = "pending"
      BY <3>1, <3>2, <3>4, <3>6
    <3>7. QED
      BY <3>5, <3>6
  <2>2. CASE LoadRecord(w) \/ TruncateBeforeRetry(w) \/ WorkerStops(w)
    BY <2>2 DEF LoadRecord, TruncateBeforeRetry, WorkerStops, queueVars
  <2>3. QED
    BY <2>1, <2>2
<1>5. \A v \in Workers : wk'[v].pc = "dlq" => wk'[v] = wk[v] /\ wk[v].msg \in DOMAIN log
  BY <1>2, WorkerHas
<1>6. QED
  BY <1>1, <1>3, <1>4, <1>5, LifeSame

\* What the worker that runs a job finds in its record and writes to it.
LEMMA RunWrites ==
    ASSUME LifeInv, NEW w \in Workers, NEW j, j = JobOf(w),
           StartSearch(w) \/ SearchSucceeds(w) \/ SearchFails(w)
    PROVE  /\ j \in Jobs /\ rec[j].retries = RetriesOf(w) /\ RetriesOf(w) \in Nat /\ MaxRetries \in Nat
           /\ \/ /\ StartSearch(w) /\ WorkerGoes(w, "exec") /\ rec[j].state = "PENDING"
                 /\ rec' = [rec EXCEPT ![j] = Fields("RUNNING", RetriesOf(w))]
              \/ /\ ~StartSearch(w) /\ WorkerGoes(w, "ack") /\ rec[j].state = "RUNNING"
                 /\ rec' = [rec EXCEPT ![j] = Fields("SUCCEEDED", RetriesOf(w))]
              \/ /\ ~StartSearch(w) /\ WorkerGoes(w, "trim") /\ rec[j].state = "RUNNING"
                 /\ RetriesOf(w) < MaxRetries
                 /\ rec' = [rec EXCEPT ![j] = Fields("PENDING", RetriesOf(w) + 1)]
              \/ /\ ~StartSearch(w) /\ WorkerGoes(w, "dlq") /\ rec[j].state = "RUNNING"
                 /\ RetriesOf(w) = MaxRetries
                 /\ rec' = [rec EXCEPT ![j] = Fields("FAILED", RetriesOf(w) + 1)]
<1>t. QueueTypeOK /\ wk[w].pc # "idle" /\ (StartSearch(w) <=> wk[w].pc = "start")
      /\ (wk[w].pc = "start" \/ wk[w].pc = "exec")
  BY DEF LifeInv, ExecutionInv, TypeOK, StartSearch, SearchSucceeds, SearchFails, WorkerAt
<1>h. /\ j \in Jobs /\ wk[w].msg \in DOMAIN log /\ RetriesOf(w) \in Nat
      /\ RetriesOf(w) <= MaxRetries /\ MaxRetries \in Nat /\ RetriesOf(w) + 1 \in Nat
      /\ wk[w].pc \in BeforeRun => Waiting(wk[w].msg)
      /\ ~rec[j].canceled
  BY <1>t, WorkerHas
<1>1. CASE StartSearch(w)
  <2>1. rec[j].state = "PENDING" /\ rec[j].retries = RetriesOf(w) /\ rec[j] # Absent
    BY <1>1, <1>t, <1>h DEF BeforeRun, LifeInv, RecordsFollow, JobOf, RetriesOf, Absent
  <2>2. WorkerGoes(w, "exec") /\ rec' = [rec EXCEPT ![j] = Fields("RUNNING", RetriesOf(w))]
    BY <1>1, <1>h, <1>t, <2>1, UpdatedFields DEF StartSearch
  <2>3. QED
    BY <1>1, <1>h, <2>1, <2>2
<1>2. CASE SearchSucceeds(w) \/ SearchFails(w)
  <2>1. rec[j].state = "RUNNING" /\ rec[j].retries = RetriesOf(w) /\ rec[j] # Absent /\ ~StartSearch(w)
    BY <1>2, <1>t DEF LifeInv, RecordsFollow, WorkerRecord, Absent, SearchSucceeds, SearchFails, WorkerAt
  <2>2. CASE SearchSucceeds(w)
    <3>1. WorkerGoes(w, "ack") /\ rec' = [rec EXCEPT ![j] = Fields("SUCCEEDED", RetriesOf(w))]
      BY <2>1, <2>2, <1>h, <1>t, UpdatedFields DEF SearchSucceeds
    <3>2. QED
      BY <1>h, <2>1, <3>1
  <2>3. CASE SearchFails(w) /\ MayRetry(RetriesOf(w))
    <3>1. WorkerGoes(w, "trim") /\ rec' = [rec EXCEPT ![j] = Fields("PENDING", RetriesOf(w) + 1)]
      BY <2>1, <2>3, <1>h, <1>t, UpdatedFields DEF SearchFails
    <3>2. QED
      BY <1>h, <2>1, <2>3, <3>1 DEF MayRetry
  <2>4. CASE SearchFails(w) /\ ~MayRetry(RetriesOf(w))
    <3>1. WorkerGoes(w, "dlq") /\ rec' = [rec EXCEPT ![j] = Fields("FAILED", RetriesOf(w) + 1)]
      BY <2>1, <2>4, <1>h, <1>t, UpdatedFields DEF SearchFails
    <3>2. QED
      BY <1>h, <2>1, <2>4, <3>1 DEF MayRetry
  <2>5. QED
    BY <1>2, <2>2, <2>3, <2>4
<1>3. QED
  BY <1>1, <1>2

\* The record follows the worker that runs the job, whose entry is its last.
LEMMA LifeRuns ==
    ASSUME LifeInv, Undisturbed, Undisturbed', AttemptsKept, NEW w \in Workers,
           StartSearch(w) \/ SearchSucceeds(w) \/ SearchFails(w)
    PROVE  RecordsFollow' /\ FailuresFollow'
<1>t. TypeOK /\ QueueTypeOK /\ wk[w].pc # "idle"
  BY DEF LifeInv, ExecutionInv, TypeOK, StartSearch, SearchSucceeds, SearchFails, WorkerAt
<1>1. PICK j : j = JobOf(w) /\ j \in Jobs
  BY <1>t, WorkerHas
<1>h. /\ wk[w].msg \in DOMAIN log /\ RetriesOf(w) \in Nat
      /\ RetriesOf(w) <= MaxRetries /\ MaxRetries \in Nat /\ RetriesOf(w) + 1 \in Nat
      /\ wk[w].pc \in BeforeRun => Waiting(wk[w].msg)
      /\ rec[j].retries \in Nat /\ ~rec[j].canceled /\ log[wk[w].msg].job = j
      /\ log[wk[w].msg].retries = RetriesOf(w)
  BY <1>t, <1>1, WorkerHas DEF JobOf, RetriesOf
<1>2. UNCHANGED <<log, cl, dlq>>
  BY DEF StartSearch, SearchSucceeds, SearchFails
<1>3. rec[j].state \in Live /\ rec[j] # Absent
  <2>1. wk[w].pc = "start" => rec[j].state = "PENDING"
    BY <1>h DEF BeforeRun, LifeInv, RecordsFollow
  <2>2. wk[w].pc = "exec" => rec[j].state = "RUNNING"
    BY <1>1 DEF LifeInv, RecordsFollow, WorkerRecord
  <2>3. QED
    BY <2>1, <2>2 DEF StartSearch, SearchSucceeds, SearchFails, WorkerAt, Live, Absent
<1>4. \A i \in DOMAIN log : log[i].job = j => ~Waiting(i)'
  <2> SUFFICES ASSUME NEW i \in DOMAIN log, log[i].job = j, Waiting(i)' PROVE FALSE
    OBVIOUS
  <2>1. Waiting(i)
    BY DEF AttemptsKept
  <2>2. CASE wk[w].pc = "exec"
    BY <1>1, <2>1, <2>2, RunIsLast DEF InRun, LifeInv, ExecutionInv
  <2>3. CASE StartSearch(w)
    <3>1. wk[w].msg <= i /\ i <= wk[w].msg
      BY <1>h, <2>1, <2>3 DEF StartSearch, WorkerAt, BeforeRun, LifeInv, ExecutionInv, LastOnesRun
    <3>2. i = wk[w].msg
      BY <1>t, <3>1, StreamIs, WorkerIs
    <3>3. ~Waiting(wk[w].msg)'
      BY <2>3, StartKeeps DEF LifeInv, ExecutionInv
    <3>4. QED
      BY <3>2, <3>3, WorkerGoesOn, <1>t, <2>3 DEF StartSearch
  <2>4. QED
    BY <2>2, <2>3 DEF SearchSucceeds, SearchFails, WorkerAt
<1>5. \A v \in Workers \ {w} : wk[v].pc \in InRun => JobOf(v) # j
  <2> SUFFICES ASSUME NEW v \in Workers \ {w}, wk[v].pc \in InRun, JobOf(v) = j PROVE FALSE
    OBVIOUS
  <2>1. ~Waiting(wk[w].msg) /\ (wk[w].pc \in InRun => w = v)
    BY <1>h, RunIsLast DEF LifeInv, ExecutionInv
  <2>2. QED
    BY <1>h, <2>1 DEF StartSearch, SearchSucceeds, SearchFails, WorkerAt, BeforeRun, InRun
<1>6. ASSUME NEW s, NEW n, NEW pc, WorkerGoes(w, pc), rec' = [rec EXCEPT ![j] = Fields(s, n)],
             s = "FAILED" => n = MaxRetries + 1 /\ RetriesOf(w) = MaxRetries,
             \/ pc = "exec" /\ s = "RUNNING" /\ n = RetriesOf(w)
             \/ pc = "trim" /\ s = "PENDING" /\ n = RetriesOf(w) + 1
             \/ pc = "dlq" /\ s = "FAILED"
             \/ pc = "ack" /\ s = "SUCCEEDED"
      PROVE  RecordsFollow' /\ FailuresFollow'
  <2>1. /\ wk'[w].pc = pc /\ wk'[w].msg = wk[w].msg
        /\ \A v \in Workers \ {w} : wk'[v] = wk[v]
    BY <1>6, <1>t, WorkerGoesOn
  <2>2. JobOf(w)' = j /\ RetriesOf(w)' = RetriesOf(w)
    BY <1>2, <1>1, <2>1 DEF JobOf, RetriesOf
  <2>3. rec'[j].state = s /\ rec'[j].retries = n
    BY <1>1, <1>6, <1>t DEF Fields, QueueTypeOK
  <2>4. dlq'[j] = 0
    BY <1>1, <1>2, <1>3 DEF LifeInv, FailuresFollow, Live
  <2>5. WorkerRecord(w)'
    BY <1>6, <2>1, <2>2, <2>3, <2>4 DEF WorkerRecord
  <2>6. QED
    BY <1>1, <1>2, <1>3, <1>4, <1>5, <1>6, <1>h, <1>t, <2>1, <2>5, LifeUpdate
<1>7. QED
  BY <1>1, <1>6, RunWrites

\* A retry is added when the record already announces it.
LEMMA LifeRetries ==
    ASSUME LifeInv, Undisturbed, Undisturbed', NEW w \in Workers, EnqueueRetry(w)
    PROVE  RecordsFollow' /\ FailuresFollow'
<1>t. TypeOK /\ wk[w].pc = "add"
  BY DEF LifeInv, ExecutionInv, EnqueueRetry, WorkerAt
<1>1. /\ AttemptsKept /\ \A i \in DOMAIN log : log'[i] = log[i]
      /\ \A i \in DOMAIN log' \ DOMAIN log : log'[i].job = JobOf(w) /\ log'[i].retries = RetriesOf(w) + 1
  BY ExecutionRetry DEF LifeInv, Undisturbed
<1>2. UNCHANGED <<rec, dlq, cl>> /\ WorkerGoes(w, "backoff")
  BY DEF EnqueueRetry
<1>3. /\ wk'[w].pc = "backoff" /\ wk'[w].msg = wk[w].msg
      /\ \A v \in Workers \ {w} : wk'[v] = wk[v]
  BY <1>t, <1>2, WorkerGoesOn
<1>4. RecordsFollow'
  <2>1. ASSUME NEW i \in DOMAIN log', Waiting(i)'
        PROVE  rec'[log'[i].job].state = "PENDING" /\ rec'[log'[i].job].retries = log'[i].retries
    <3>1. CASE i \in DOMAIN log
      <4>1. Waiting(i) /\ log'[i] = log[i]
        BY <1>1, <2>1, <3>1 DEF AttemptsKept
      <4>2. QED
        BY <1>2, <3>1, <4>1 DEF LifeInv, RecordsFollow
    <3>2. CASE i \notin DOMAIN log
      <4>1. WorkerRecord(w)
        BY DEF LifeInv, RecordsFollow
      <4>2. QED
        BY <1>t, <1>1, <1>2, <3>2, <4>1 DEF WorkerRecord
    <3>3. QED
      BY <3>1, <3>2
  <2>2. ASSUME NEW v \in Workers \ {w} PROVE WorkerRecord(v)'
    BY <1>1, <1>2, <1>3, OtherSame
  <2>3. WorkerRecord(w)'
    <3>1. RetriesOf(w)' = RetriesOf(w)
      BY <1>t, <1>1, <1>3, WorkerHas DEF RetriesOf
    <3>2. RetriesOf(w) < MaxRetries
      BY <1>t DEF LifeInv, ExecutionInv, RunsCounted, RetriesOf
    <3>3. QED
      BY <1>3, <3>1, <3>2 DEF WorkerRecord
  <2>4. \A v \in Workers : WorkerRecord(v)'
    BY <2>2, <2>3
  <2>5. QED
    BY <1>2, <2>1, <2>4 DEF LifeInv, RecordsFollow
<1>5. FailuresFollow'
  <2>1. ASSUME NEW u \in Workers, NEW v \in Workers, u # v, wk'[u].pc = "dlq", wk'[v].pc = "dlq"
        PROVE  JobOf(u)' # JobOf(v)'
    <3>1. /\ wk'[u] = wk[u] /\ wk'[v] = wk[v] /\ wk[u].msg \in DOMAIN log /\ wk[v].msg \in DOMAIN log
      BY <1>3, <2>1, WorkerHas
    <3>2. JobOf(u)' = JobOf(u) /\ JobOf(v)' = JobOf(v)
      BY <1>1, <3>1 DEF JobOf
    <3>3. QED
      BY <2>1, <3>1, <3>2 DEF LifeInv, FailuresFollow
  <2>2. ASSUME NEW j \in Jobs, rec[j].state = "FAILED", dlq[j] = 0
        PROVE  \E i \in DOMAIN log' :
                   log'[i].job = j /\ log'[i].status = "pending" /\ log'[i].retries = MaxRetries
    <3>1. PICK i \in DOMAIN log : log[i].job = j /\ log[i].status = "pending" /\ log[i].retries = MaxRetries
      BY <2>2 DEF LifeInv, FailuresFollow
    <3>2. i \in DOMAIN log' /\ log'[i] = log[i]
      BY <1>1 DEF AttemptsKept
    <3>3. QED
      BY <3>1, <3>2
  <2>3. QED
    BY <1>2, <2>1, <2>2 DEF LifeInv, FailuresFollow
<1>6. QED
  BY <1>4, <1>5

\* The dead letter is written once: no other worker has the failed job's last entry.
LEMMA LifeBuries ==
    ASSUME LifeInv, Undisturbed, Undisturbed', AttemptsKept, NEW w \in Workers, DeadLetter(w)
    PROVE  RecordsFollow' /\ FailuresFollow'
<1>t. TypeOK /\ wk[w].pc = "dlq"
  BY DEF LifeInv, ExecutionInv, DeadLetter, WorkerAt
<1>1. PICK j : j = JobOf(w) /\ j \in Jobs
  BY <1>t, WorkerHas
<1>2. UNCHANGED <<rec, log, cl>> /\ WorkerGoes(w, "ack")
  BY DEF DeadLetter
<1>3. /\ wk'[w].pc = "ack" /\ wk'[w].msg = wk[w].msg
      /\ \A v \in Workers \ {w} : wk'[v] = wk[v]
  BY <1>t, <1>2, WorkerGoesOn
<1>4. rec[j].state = "FAILED" /\ dlq[j] = 0
  BY <1>t, <1>1 DEF LifeInv, RecordsFollow, WorkerRecord
<1>5. dlq'[j] = 1 /\ \A k \in Jobs \ {j} : dlq'[k] = dlq[k]
  <2>1. MoveToDlq(j, 1)
    BY <1>t, <1>1, CalmStep DEF DeadLetter
  <2>2. dlq \in [Jobs -> Nat]
    BY <1>t DEF TypeOK, QueueTypeOK
  <2>3. QED
    BY <1>1, <1>4, <2>1, <2>2 DEF MoveToDlq
<1>6. RecordsFollow'
  <2>1. ASSUME NEW v \in Workers \ {w} PROVE WorkerRecord(v)'
    <3>1. CASE wk[v].pc # "idle" /\ JobOf(v) = j
      <4>1. wk[v].pc # "dlq"
        BY <1>t, <1>1, <3>1 DEF LifeInv, FailuresFollow
      <4>2. JobOf(v)' = j /\ RetriesOf(v)' = RetriesOf(v) /\ wk'[v] = wk[v]
        BY <1>2, <1>3, <3>1 DEF JobOf, RetriesOf
      <4>3. WorkerRecord(v)
        BY DEF LifeInv, RecordsFollow
      <4>4. QED
        BY <1>2, <1>5, <3>1, <4>1, <4>2, <4>3 DEF WorkerRecord
    <3>2. CASE wk[v].pc # "idle" /\ JobOf(v) # j
      <4>1. dlq'[JobOf(v)] = dlq[JobOf(v)]
        BY <1>5, <3>2, WorkerHas
      <4>2. QED
        BY <1>2, <1>3, <4>1, OtherSame
    <3>3. CASE wk[v].pc = "idle"
      BY <1>3, <3>3 DEF WorkerRecord
    <3>4. QED
      BY <3>1, <3>2, <3>3
  <2>2. WorkerRecord(w)'
    <3>1. JobOf(w)' = j
      BY <1>1, <1>2, <1>3 DEF JobOf
    <3>2. QED
      BY <1>3, <1>5, <3>1 DEF WorkerRecord
  <2>3. \A v \in Workers : WorkerRecord(v)'
    BY <2>1, <2>2
  <2>4. \A i \in DOMAIN log : Waiting(i)' => Waiting(i)
    BY DEF AttemptsKept
  <2>5. QED
    BY <1>2, <2>3, <2>4 DEF LifeInv, RecordsFollow
<1>7. FailuresFollow'
  <2>1. ASSUME NEW u \in Workers, NEW v \in Workers, u # v, wk'[u].pc = "dlq", wk'[v].pc = "dlq"
        PROVE  JobOf(u)' # JobOf(v)'
    BY <1>2, <1>3, <2>1 DEF LifeInv, FailuresFollow, JobOf
  <2>2. ASSUME NEW k \in Jobs
        PROVE  /\ dlq'[k] \in {0, 1} /\ (dlq'[k] = 1 => rec'[k].state = "FAILED")
               /\ rec'[k].state = "FAILED" => rec'[k].retries = MaxRetries + 1
               /\ rec'[k].state = "FAILED" /\ dlq'[k] = 0 =>
                     \E i \in DOMAIN log' :
                         log'[i].job = k /\ log'[i].status = "pending" /\ log'[i].retries = MaxRetries
    <3>1. CASE k = j
      BY <1>1, <1>2, <1>4, <1>5, <3>1 DEF LifeInv, FailuresFollow
    <3>2. CASE k # j
      BY <1>2, <1>5, <3>2 DEF LifeInv, FailuresFollow
    <3>3. QED
      BY <3>1, <3>2
  <2>3. QED
    BY <2>1, <2>2 DEF FailuresFollow
<1>8. QED
  BY <1>6, <1>7

\* XACK: the entry of a failed job's last attempt has its dead letter by then.
LEMMA LifeAcks ==
    ASSUME LifeInv, Undisturbed, Undisturbed', NEW w \in Workers, AckMessage(w)
    PROVE  RecordsFollow' /\ FailuresFollow'
<1>t. TypeOK /\ wk[w].pc \in {"ack", "backoff"} /\ wk \in [Workers -> Worker]
  BY DEF LifeInv, ExecutionInv, AckMessage, TypeOK, WorkersOK
<1>1. AttemptsKept /\ DOMAIN log' = DOMAIN log
  BY AckKeeps DEF LifeInv, ExecutionInv
<1>2. UNCHANGED <<rec, dlq, cl>>
  BY DEF AckMessage
<1>3. /\ wk'[w].pc \in {"load", "idle"}
      /\ \A v \in Workers \ {w} : wk'[v] = wk[v]
  BY <1>t DEF AckMessage, IdleWorker
<1>4. \A v \in Workers : WorkerRecord(v)'
  <2>1. ASSUME NEW v \in Workers \ {w} PROVE WorkerRecord(v)'
    BY <1>1, <1>2, <1>3, OtherSame
  <2>2. WorkerRecord(w)'
    BY <1>3 DEF WorkerRecord
  <2>3. QED
    BY <2>1, <2>2
<1>5. \A v \in Workers : wk'[v].pc = "dlq" => wk'[v] = wk[v] /\ wk[v].msg \in DOMAIN log
  BY <1>3, WorkerHas
<1>6. PICK m : m = wk[w].msg /\ m \in DOMAIN log
  BY <1>t, WorkerHas
<1>7. \A i \in DOMAIN log \ {m} : log'[i] = log[i]
  BY <1>6 DEF AckMessage, Acknowledge
<1>8. \/ rec[log[m].job].state # "FAILED" \/ dlq[log[m].job] = 1
      \/ log[m].retries # MaxRetries
  <2>1. CASE wk[w].pc = "ack"
    BY <1>6, <2>1 DEF LifeInv, RecordsFollow, WorkerRecord, JobOf
  <2>2. CASE wk[w].pc = "backoff"
    <3>1. RetriesOf(w) < MaxRetries /\ RetriesOf(w) \in Nat /\ MaxRetries \in Nat
      BY <2>2, WorkerHas DEF LifeInv, RecordsFollow, WorkerRecord
    <3>2. QED
      BY <1>6, <3>1 DEF RetriesOf
  <2>3. QED
    BY <1>t, <2>1, <2>2
<1>9. \A i \in DOMAIN log : \/ log[i].status = "pending" => log'[i].status = "pending"
                            \/ rec[log[i].job].state # "FAILED" \/ dlq[log[i].job] = 1
                            \/ log[i].retries # MaxRetries
  BY <1>7, <1>8
<1>10. QED
  BY <1>1, <1>2, <1>4, <1>5, <1>9, LifeSame

\* A worker's step: none of them meets a record it does not expect.
LEMMA LifeWorker ==
    ASSUME LifeInv, Undisturbed, Undisturbed', NEW w \in Workers, WorkerStep(w) \/ WorkerStops(w)
    PROVE  RecordsFollow' /\ FailuresFollow'
<1>1. AttemptsKept
  BY ExecutionWorker DEF LifeInv, Undisturbed
<1>2. ~HonourCancel(w)
  BY DEF HonourCancel, WorkerAt, LifeInv, RecordsFollow, WorkerRecord
<1>3. QED
  BY <1>1, <1>2, LifeReads, LifeRuns, LifeRetries, LifeBuries, LifeAcks DEF WorkerStep

\* Every step keeps the records in line with the queue.
LEMMA LifeStep ==
    ASSUME LifeInv, Undisturbed, Undisturbed', [Next]_vars
    PROVE  LifeInv'
<1>1. ExecutionInv' /\ UnbornJobs' /\ NobodyCancels'
  BY ExecutionStep, CancelStep, NobodyCancelsStep DEF LifeInv, CancelInv, ExecutionInv, Undisturbed
<1>2. RecordsFollow' /\ FailuresFollow'
  <2>1. CASE UNCHANGED vars
    <3>1. UNCHANGED <<log, rec, dlq, cl, wk>>
      BY <2>1 DEF vars, queueVars, processVars
    <3>2. AttemptsKept
      BY <3>1 DEF AttemptsKept, Waiting, Owns
    <3>3. \A w \in Workers : WorkerRecord(w)'
      BY <3>1, <3>2, OtherSame
    <3>4. \A w \in Workers : wk'[w].pc = "dlq" => wk'[w] = wk[w] /\ wk[w].msg \in DOMAIN log
      BY <3>1, WorkerHas
    <3>5. QED
      BY <3>1, <3>2, <3>3, <3>4, LifeSame
  <2>2. ~Expiry
    BY CalmStep DEF LifeInv, ExecutionInv
  <2>3. QED
    BY <2>1, <2>2, LifeClient, LifeWorker DEF Next
<1>3. QED
  BY <1>1, <1>2 DEF LifeInv

\* An empty queue has no records.
LEMMA LifeInit == Init => LifeInv
<1> SUFFICES ASSUME Init PROVE LifeInv
  OBVIOUS
<1>1. ExecutionInv
  BY ExecutionInit
<1>2. \A c \in Clients : cl[c].pc = "idle" /\ cl[c].job = NoJob
  BY DEF Init, IdleClient
<1>3. \A w \in Workers : wk[w].pc = "idle"
  BY DEF Init, IdleWorker
<1>4. log = <<>> /\ \A j \in Jobs : rec[j] = Absent /\ dlq[j] = 0
  BY DEF Init, QueueInit
<1>5. UnbornJobs
  BY <1>2 DEF UnbornJobs, Unborn
<1>6. NobodyCancels
  BY <1>2 DEF NobodyCancels, Flagging
<1>7. RecordsFollow
  BY <1>2, <1>3, <1>4 DEF RecordsFollow, WorkerRecord, Absent
<1>8. FailuresFollow
  BY <1>3, <1>4 DEF FailuresFollow, Absent
<1>9. QED
  BY <1>1, <1>5, <1>6, <1>7, <1>8 DEF LifeInv

\* As long as nobody cancels, no TTL runs out and no XADD is applied twice, the
\* record of a job always says what its last entry and its worker do.
THEOREM LifeInvariant == Spec => [](Undisturbed => LifeInv)
<1>1. TypeOK /\ BudgetSpent /\ (Undisturbed => LifeInv) /\ [Next]_vars => (Undisturbed => LifeInv)'
  BY LifeStep, CalmBefore
<1>2. Init => (Undisturbed => LifeInv)
  BY LifeInit
<1>3. QED
  BY <1>1, <1>2, TypeCorrect, BudgetKept, PTL DEF Spec

\* Every worker keeps its entry's job, whoever moves.
LEMMA EveryAttemptKept ==
    ASSUME LifeInv, Undisturbed, Undisturbed', [Next]_vars
    PROVE  AttemptsKept
<1>1. CASE UNCHANGED <<log, wk>>
  BY <1>1 DEF AttemptsKept, Waiting, Owns
<1>2. QED
  BY <1>1, ExecutionClient, ExecutionWorker
     DEF LifeInv, Undisturbed, Next, Expiry, vars, queueVars, processVars

\* A worker about to add a dead letter adds it or stops.
LEMMA BurialGoesOn ==
    ASSUME LifeInv, Undisturbed, Undisturbed', [Next]_vars, NEW w \in Workers, WorkerAt(w, "dlq")
    PROVE  \/ wk'[w] = wk[w] /\ JobOf(w)' = JobOf(w)
           \/ DeadLetter(w)
           \/ WorkerStops(w)
<1>1. wk[w].msg \in DOMAIN log /\ wk \in [Workers -> Worker]
  BY WorkerHas DEF WorkerAt, LifeInv, ExecutionInv, TypeOK, WorkersOK
<1>2. ASSUME wk'[w] = wk[w] PROVE JobOf(w)' = JobOf(w)
  BY <1>1, <1>2, EveryAttemptKept DEF AttemptsKept, JobOf
<1>3. CASE UNCHANGED wk
  BY <1>2, <1>3
<1>4. ASSUME NEW v \in Workers, v # w, WorkerStep(v) \/ WorkerStops(v) PROVE wk'[w] = wk[w]
  BY <1>1, <1>4 DEF WorkerStep, WorkerStops, ReadBatch, LoadRecord, HonourCancel, StartSearch, SearchSucceeds,
                    SearchFails, TruncateBeforeRetry, EnqueueRetry, DeadLetter, AckMessage, WorkerGoes
<1>5. CASE WorkerStep(w) \/ WorkerStops(w)
  BY <1>5 DEF WorkerStep, ReadBatch, LoadRecord, HonourCancel, StartSearch, SearchSucceeds, SearchFails,
              TruncateBeforeRetry, EnqueueRetry, AckMessage, WorkerAt
<1>6. ASSUME NEW c \in Clients,
             ClientStep(c) \/ SubmitSearch(c) \/ CancelJob(c) \/ SubmitFails(c) \/ ClientStops(c)
      PROVE  UNCHANGED wk
  BY <1>6 DEF ClientStep, SubmitSearch, CancelJob, SubmitFails, ClientStops, ReuseJob, NothingToReuse,
         RejectSubmission, AdmitSubmission, ClaimFingerprint, LookupAgain, RebindFingerprint, CreateJobRecord,
         TruncateBeforeAdd, EnqueueJob, CheckOwner, ReleaseFingerprint, FlagCancel, CancelPending
<1>7. QED
  BY <1>2, <1>3, <1>4, <1>5, <1>6 DEF Next, Expiry, vars, processVars

\* A job that has just failed is about to be buried.
LEMMA FailedBefore ==
    ASSUME LifeInv, Undisturbed, Undisturbed', [Next]_vars, NEW j \in Jobs,
           rec'[j].state = "FAILED", ~Burying(j)'
    PROVE  rec[j].state = "FAILED"
<1>t. rec \in [Jobs -> JobRecord]
  BY DEF LifeInv, ExecutionInv, TypeOK, QueueTypeOK
<1>1. CASE UNCHANGED rec
  BY <1>1
<1>2. ASSUME NEW c \in Clients,
             ClientStep(c) \/ SubmitSearch(c) \/ CancelJob(c) \/ SubmitFails(c) \/ ClientStops(c)
      PROVE  rec[j].state = "FAILED"
  BY <1>2, <1>t, ClientWrites DEF Blank
<1>3. ASSUME NEW w \in Workers, StartSearch(w) \/ SearchSucceeds(w) \/ SearchFails(w)
      PROVE  rec[j].state = "FAILED"
  <2>1. PICK k : k = JobOf(w)
    OBVIOUS
  <2>2. CASE k # j
    BY <1>3, <1>t, <2>1, <2>2, RunWrites
  <2>3. CASE k = j
    <3>1. \A s, n : Fields(s, n).state = s
      BY DEF Fields
    <3>2. WorkerGoes(w, "dlq")
      <4>1. \/ WorkerGoes(w, "dlq")
            \/ rec' = [rec EXCEPT ![j] = Fields("RUNNING", RetriesOf(w))]
            \/ rec' = [rec EXCEPT ![j] = Fields("SUCCEEDED", RetriesOf(w))]
            \/ rec' = [rec EXCEPT ![j] = Fields("PENDING", RetriesOf(w) + 1)]
        BY <1>3, <2>1, <2>3, RunWrites
      <4>2. ASSUME NEW s, NEW n, rec' = [rec EXCEPT ![j] = Fields(s, n)] PROVE s = "FAILED"
        BY <1>t, <3>1, <4>2
      <4>3. QED
        BY <4>1, <4>2
    <3>3. wk'[w].pc = "dlq" /\ wk'[w].msg = wk[w].msg
      BY <1>3, <3>2, WorkerGoesOn
         DEF LifeInv, ExecutionInv, StartSearch, SearchSucceeds, SearchFails, WorkerAt
    <3>4. UNCHANGED log
      BY <1>3 DEF StartSearch, SearchSucceeds, SearchFails
    <3>5. Burying(j)'
      BY <2>1, <2>3, <3>3, <3>4 DEF Burying, WorkerAt, JobOf
    <3>6. QED
      BY <3>5
  <2>4. QED
    BY <2>2, <2>3
<1>4. ASSUME NEW w \in Workers, WorkerStep(w) \/ WorkerStops(w)
      PROVE  UNCHANGED rec \/ StartSearch(w) \/ SearchSucceeds(w) \/ SearchFails(w)
  <2>1. ~HonourCancel(w)
    BY DEF HonourCancel, WorkerAt, LifeInv, RecordsFollow, WorkerRecord
  <2>2. QED
    BY <1>4, <2>1 DEF WorkerStep, WorkerStops, ReadBatch, LoadRecord, TruncateBeforeRetry, EnqueueRetry,
                      DeadLetter, AckMessage, queueVars
<1>5. ~Expiry
  BY CalmStep DEF LifeInv, ExecutionInv
<1>6. QED
  BY <1>1, <1>2, <1>3, <1>4, <1>5 DEF Next, vars, queueVars

\* Only a worker that stops makes a job lack its dead letter.
LEMMA UnburiedStep ==
    ASSUME LifeInv, Undisturbed, Undisturbed', [Next]_vars, NEW j \in Unburied'
    PROVE  j \in Unburied \/ \E w \in Workers : WorkerStops(w) /\ JobOf(w) = j
<1>1. j \in Jobs /\ rec'[j].state = "FAILED" /\ dlq'[j] = 0 /\ ~Burying(j)'
  BY DEF Unburied
<1>2. rec[j].state = "FAILED"
  BY <1>1, FailedBefore
<1>3. dlq \in [Jobs -> Nat] /\ dlq[j] \in {0, 1}
  BY <1>1 DEF LifeInv, ExecutionInv, TypeOK, QueueTypeOK, FailuresFollow
<1>4. ASSUME NEW w \in Workers, DeadLetter(w)
      PROVE  /\ \A k \in Jobs : dlq'[k] = IF k = JobOf(w) THEN dlq[k] + 1 ELSE dlq[k]
             /\ WorkerAt(w, "dlq")
  BY <1>3, <1>4, CalmStep DEF DeadLetter, MoveToDlq, LifeInv, ExecutionInv
<1>5. dlq[j] = 0
  <2>1. UNCHANGED dlq \/ \E w \in Workers : DeadLetter(w)
    BY DEF Next, ClientStep, WorkerStep, SubmitSearch, CancelJob, SubmitFails, ClientStops, WorkerStops, Expiry,
           ReuseJob, NothingToReuse, RejectSubmission, AdmitSubmission, ClaimFingerprint, LookupAgain,
           RebindFingerprint, CreateJobRecord, TruncateBeforeAdd, EnqueueJob, CheckOwner, ReleaseFingerprint,
           FlagCancel, CancelPending, ReadBatch, LoadRecord, HonourCancel, StartSearch, SearchSucceeds,
           SearchFails, TruncateBeforeRetry, EnqueueRetry, AckMessage, vars, queueVars
  <2>2. QED
    BY <1>1, <1>3, <1>4, <2>1
<1>6. ASSUME NEW w \in Workers, WorkerAt(w, "dlq"), JobOf(w) = j PROVE WorkerStops(w)
  <2>1. ~DeadLetter(w)
    BY <1>1, <1>3, <1>4, <1>6
  <2>2. ~(wk'[w] = wk[w] /\ JobOf(w)' = JobOf(w))
    BY <1>1, <1>6 DEF Burying, WorkerAt
  <2>3. QED
    BY <1>6, <2>1, <2>2, BurialGoesOn
<1>7. QED
  BY <1>1, <1>2, <1>5, <1>6 DEF Unburied, Burying

\* As many jobs lack their dead letter as processes have stopped, at most.
GravesCounted == IsFiniteSet(Unburied) /\ Cardinality(Unburied) <= Spent("crash")

LEMMA GravesStep ==
    ASSUME LifeInv, Undisturbed, Undisturbed', [Next]_vars, GravesCounted
    PROVE  GravesCounted'
<1>t. /\ left["crash"] \in Nat /\ left'["crash"] \in Nat /\ Budget["crash"] \in Nat
      /\ left \in [Kinds -> Nat] /\ TypeOK
  BY TypeStep, BudgetAssumption DEF LifeInv, ExecutionInv, TypeOK, Kinds
<1>n. Cardinality(Unburied) \in Nat /\ Cardinality(Unburied) <= Budget["crash"] - left["crash"]
  BY FS_CardinalityType DEF GravesCounted, Spent
<1>1. CASE Unburied' \subseteq Unburied
  <2>1. IsFiniteSet(Unburied') /\ Cardinality(Unburied') <= Cardinality(Unburied)
    BY <1>1, FS_Subset DEF GravesCounted
  <2>2. Cardinality(Unburied') \in Nat
    BY <2>1, FS_CardinalityType
  <2>3. left'["crash"] <= left["crash"]
    BY <1>t, BudgetStep DEF Kinds
  <2>4. Cardinality(Unburied') <= Budget["crash"] - left'["crash"]
    BY <1>t, <1>n, <2>1, <2>2, <2>3
  <2>5. QED
    BY <2>1, <2>4 DEF GravesCounted, Spent
<1>2. CASE ~(Unburied' \subseteq Unburied)
  <2>1. PICK w \in Workers : WorkerStops(w)
    BY <1>2, UnburiedStep
  <2>2. \A v \in Workers : WorkerStops(v) => v = w
    BY <2>1 DEF WorkerStops, WorkerAt, IdleWorker, LifeInv, ExecutionInv, TypeOK, WorkersOK
  <2>3. PICK k : k = JobOf(w)
    OBVIOUS
  <2>4. Unburied' \subseteq Unburied \cup {k}
    BY <2>2, <2>3, UnburiedStep
  <2>5. /\ IsFiniteSet(Unburied \cup {k}) /\ Cardinality(Unburied \cup {k}) \in Nat
        /\ Cardinality(Unburied \cup {k}) <= Cardinality(Unburied) + 1
    <3>1. IsFiniteSet(Unburied)
      BY DEF GravesCounted
    <3>2. IsFiniteSet(Unburied \cup {k}) /\ Cardinality(Unburied \cup {k}) <= Cardinality(Unburied) + 1
      <4>1. /\ IsFiniteSet(Unburied \cup {k})
            /\ \/ Cardinality(Unburied \cup {k}) = Cardinality(Unburied)
               \/ Cardinality(Unburied \cup {k}) = Cardinality(Unburied) + 1
        BY <3>1, FS_AddElement, Zenon
      <4>2. QED
        BY <1>n, <4>1
    <3>3. QED
      BY <3>2, FS_CardinalityType
  <2>6. IsFiniteSet(Unburied') /\ Cardinality(Unburied') <= Cardinality(Unburied \cup {k})
    BY <2>4, <2>5, FS_Subset
  <2>7. Cardinality(Unburied') \in Nat
    BY <2>6, FS_CardinalityType
  <2>8. left'["crash"] = left["crash"] - 1
    BY <1>t, <2>1 DEF WorkerStops, Spend, Kinds
  <2>9. Cardinality(Unburied') <= Budget["crash"] - left'["crash"]
    BY <1>t, <1>n, <2>5, <2>6, <2>7, <2>8
  <2>10. QED
    BY <2>6, <2>9 DEF GravesCounted, Spent
<1>3. QED
  BY <1>1, <1>2

\* As long as no XADD is applied twice, nobody cancels and no TTL runs out, the
\* dead-letter stream holds at most one entry of a job, only of a job that failed
\* its last retry, and it lacks the entry of such a job only while a worker is
\* about to add it, or because a worker stopped right then: the jobs without an
\* entry are at most as many as the processes that have stopped.
THEOREM DeadLettersMatch == Spec => []DlqMatchesFailures
<1>1. Init => GravesCounted
  <2> SUFFICES ASSUME Init PROVE GravesCounted
    OBVIOUS
  <2>1. Unburied = {}
    BY DEF Init, QueueInit, Unburied, Absent
  <2>2. Spent("crash") = 0
    <3>1. left["crash"] = Budget["crash"] /\ Budget["crash"] \in Nat
      BY BudgetAssumption DEF Init, Kinds
    <3>2. QED
      BY <3>1 DEF Spent
  <2>3. QED
    BY <2>1, <2>2, FS_EmptySet DEF GravesCounted
<1>2. /\ TypeOK /\ BudgetSpent /\ (Undisturbed => LifeInv)
      /\ (Undisturbed => GravesCounted) /\ [Next]_vars
      => (Undisturbed => GravesCounted)'
  BY GravesStep, CalmBefore
<1>3. (Undisturbed => LifeInv) /\ (Undisturbed => GravesCounted) => DlqMatchesFailures
  <2> SUFFICES ASSUME LifeInv, GravesCounted, NEW j \in Jobs
               PROVE  /\ dlq[j] <= 1
                      /\ dlq[j] = 1 => rec[j].state = "FAILED" /\ rec[j].retries = MaxRetries + 1
    BY DEF DlqMatchesFailures, GravesCounted, Undisturbed, NoResends
  <2>1. dlq[j] \in {0, 1}
    BY DEF LifeInv, FailuresFollow
  <2>2. dlq[j] = 1 => rec[j].state = "FAILED" /\ rec[j].retries = MaxRetries + 1
    BY DEF LifeInv, FailuresFollow
  <2>3. QED
    BY <2>1, <2>2
<1>4. QED
  BY <1>1, <1>2, <1>3, LifeInvariant, TypeCorrect, BudgetKept, PTL DEF Spec

-----------------------------------------------------------------------------
(* What a poller of get_job sees: SearchQueue implements JobLifecycle. *)

\* The record of one job is written over another that it may follow.
LEMMA RecordMoves ==
    ASSUME LifeInv, NEW j \in Jobs, NEW s, NEW n, NEW r,
           r.state = s, r.retries = n, rec' = [rec EXCEPT ![j] = r],
           \/ rec[j].state = "ABSENT" /\ s = "PENDING" /\ n = rec[j].retries
           \/ rec[j].state = "PENDING" /\ s = "RUNNING" /\ n = rec[j].retries
           \/ rec[j].state = "RUNNING" /\ s = "SUCCEEDED" /\ n = rec[j].retries
           \/ rec[j].state = "RUNNING" /\ s = "PENDING" /\ rec[j].retries < MaxRetries /\ n = rec[j].retries + 1
           \/ rec[j].state = "RUNNING" /\ s = "FAILED" /\ rec[j].retries = MaxRetries /\ n = rec[j].retries + 1
    PROVE  Lifecycle!Next
<1>1. PICK state : state = [k \in Jobs |-> rec[k].state]
  OBVIOUS
<1>2. PICK tries : tries = [k \in Jobs |-> rec[k].retries]
  OBVIOUS
<1>3. /\ [k \in Jobs |-> rec'[k].state] = [state EXCEPT ![j] = s]
      /\ [k \in Jobs |-> rec'[k].retries] = [tries EXCEPT ![j] = n]
      /\ tries[j] = rec[j].retries /\ state[j] = rec[j].state
  <2>1. rec \in [Jobs -> JobRecord]
    BY DEF LifeInv, ExecutionInv, TypeOK, QueueTypeOK
  <2>2. \A k \in Jobs : rec'[k] = IF k = j THEN r ELSE rec[k]
    BY <2>1
  <2>3. [k \in Jobs |-> rec'[k].state] = [state EXCEPT ![j] = s]
    <3>1. \A k \in Jobs : rec'[k].state = [state EXCEPT ![j] = s][k]
      BY <1>1, <2>2
    <3>2. QED
      BY <1>1, <3>1
  <2>4. [k \in Jobs |-> rec'[k].retries] = [tries EXCEPT ![j] = n]
    <3>1. \A k \in Jobs : rec'[k].retries = [tries EXCEPT ![j] = n][k]
      BY <1>2, <2>2
    <3>2. QED
      BY <1>2, <3>1
  <2>5. QED
    BY <1>1, <1>2, <2>3, <2>4
<1>4. n = rec[j].retries => [tries EXCEPT ![j] = n] = tries
  BY <1>2
<1>5. Lifecycle!Submit(j) \/ Lifecycle!Start(j) \/ Lifecycle!Succeed(j) \/ Lifecycle!Retry(j) \/ Lifecycle!GiveUp(j)
  BY <1>1, <1>2, <1>3, <1>4
     DEF Lifecycle!Submit, Lifecycle!Start, Lifecycle!Succeed, Lifecycle!Retry, Lifecycle!GiveUp, Lifecycle!Moves
<1>6. QED
  BY <1>5 DEF Lifecycle!Next

\* Every step of the queue is a step of one job's life, or invisible in it.
LEMMA StepMoves ==
    ASSUME LifeInv, Undisturbed, Undisturbed', [Next]_vars
    PROVE  [Lifecycle!Next]_(Lifecycle!vars)
<1>1. CASE UNCHANGED rec
  BY <1>1 DEF Lifecycle!vars
<1>2. ASSUME NEW c \in Clients, ~UNCHANGED rec,
             ClientStep(c) \/ SubmitSearch(c) \/ CancelJob(c) \/ SubmitFails(c) \/ ClientStops(c)
      PROVE  Lifecycle!Next
  <2>1. PICK j \in Jobs : rec[j] = Absent /\ rec' = [rec EXCEPT ![j] = Blank]
    BY <1>2, ClientWrites
  <2>2. rec[j].state = "ABSENT" /\ rec[j].retries = 0 /\ Blank.state = "PENDING" /\ Blank.retries = 0
    BY <2>1 DEF Absent, Blank
  <2>3. QED
    BY <2>1, <2>2, RecordMoves
<1>3. ASSUME NEW w \in Workers, StartSearch(w) \/ SearchSucceeds(w) \/ SearchFails(w)
      PROVE  Lifecycle!Next
  <2>1. PICK j : j = JobOf(w)
    OBVIOUS
  <2>2. \A s, n : Fields(s, n).state = s /\ Fields(s, n).retries = n
    BY DEF Fields
  <2>3. ASSUME NEW s, NEW n, j \in Jobs, rec' = [rec EXCEPT ![j] = Fields(s, n)],
               \/ rec[j].state = "PENDING" /\ s = "RUNNING" /\ n = rec[j].retries
               \/ rec[j].state = "RUNNING" /\ s = "SUCCEEDED" /\ n = rec[j].retries
               \/ /\ rec[j].state = "RUNNING" /\ s = "PENDING"
                  /\ rec[j].retries < MaxRetries /\ n = rec[j].retries + 1
               \/ /\ rec[j].state = "RUNNING" /\ s = "FAILED"
                  /\ rec[j].retries = MaxRetries /\ n = rec[j].retries + 1
        PROVE  Lifecycle!Next
    <3>1. PICK r : r = Fields(s, n)
      OBVIOUS
    <3>2. r.state = s /\ r.retries = n /\ rec' = [rec EXCEPT ![j] = r]
      BY <2>2, <2>3, <3>1
    <3>3. QED
      BY <2>3, <3>2, RecordMoves, ZenonT(60)
  <2>4. /\ j \in Jobs /\ rec[j].retries = RetriesOf(w)
        /\ \/ rec[j].state = "PENDING" /\ rec' = [rec EXCEPT ![j] = Fields("RUNNING", RetriesOf(w))]
           \/ rec[j].state = "RUNNING" /\ rec' = [rec EXCEPT ![j] = Fields("SUCCEEDED", RetriesOf(w))]
           \/ /\ rec[j].state = "RUNNING" /\ RetriesOf(w) < MaxRetries
              /\ rec' = [rec EXCEPT ![j] = Fields("PENDING", RetriesOf(w) + 1)]
           \/ /\ rec[j].state = "RUNNING" /\ RetriesOf(w) = MaxRetries
              /\ rec' = [rec EXCEPT ![j] = Fields("FAILED", RetriesOf(w) + 1)]
    BY <1>3, <2>1, RunWrites
  <2>5. QED
    BY <2>3, <2>4
<1>4. ASSUME NEW w \in Workers, WorkerStep(w) \/ WorkerStops(w)
      PROVE  UNCHANGED rec \/ StartSearch(w) \/ SearchSucceeds(w) \/ SearchFails(w)
  <2>1. ~HonourCancel(w)
    BY DEF HonourCancel, WorkerAt, LifeInv, RecordsFollow, WorkerRecord
  <2>2. QED
    BY <1>4, <2>1 DEF WorkerStep, WorkerStops, ReadBatch, LoadRecord, TruncateBeforeRetry, EnqueueRetry,
                      DeadLetter, AckMessage, queueVars
<1>5. ~Expiry
  BY CalmStep DEF LifeInv, ExecutionInv
<1>6. QED
  BY <1>1, <1>2, <1>3, <1>4, <1>5 DEF Next, vars, queueVars

\* SearchQueue implements JobLifecycle: as long as nobody cancels, no TTL runs
\* out and no XADD is applied twice, a caller that polls a job sees its attempts
\* one after the other, each counted once, and one end, whoever stops at any step.
THEOREM ImplementsLifecycle == Spec /\ []Undisturbed => LifecycleSpec
<1>1. Init => Lifecycle!Init
  <2> SUFFICES ASSUME Init PROVE Lifecycle!Init
    OBVIOUS
  <2>1. \A j \in Jobs : rec[j].state = "ABSENT" /\ rec[j].retries = 0
    BY DEF Init, QueueInit, Absent
  <2>2. QED
    BY <2>1 DEF Lifecycle!Init
<1>2. LifeInv /\ Undisturbed /\ Undisturbed' /\ [Next]_vars => [Lifecycle!Next]_(Lifecycle!vars)
  BY StepMoves
<1>3. QED
  BY <1>1, <1>2, LifeInvariant, PTL DEF Spec, LifecycleSpec, Lifecycle!Spec

-----------------------------------------------------------------------------
(***************************************************************************)
(* When the documentation's two sentences about records and requests hold  *)
(* after all: a finished job stays as it is while Undisturbed, and equal   *)
(* requests share a job if in addition a single caller submits them and no *)
(* command fails.  The runs terminal_is_final and one_job_per_request show *)
(* what a cancellation and a second caller change.                         *)
(***************************************************************************)

\* Who may write the record of a job: the client that creates it, and, until it
\* is finished, the worker that runs it.
LEMMA RecordChanges ==
    ASSUME LifeInv, Undisturbed, Undisturbed', [Next]_vars, NEW j \in Jobs
    PROVE  \/ rec'[j] = rec[j]
           \/ rec[j] = Absent /\ \E c \in Clients : cl[c].pc = "create" /\ cl[c].job = j
           \/ rec[j].state \in Live
<1>t. rec \in [Jobs -> JobRecord]
  BY DEF LifeInv, ExecutionInv, TypeOK, QueueTypeOK
<1>1. CASE UNCHANGED rec
  BY <1>1
<1>2. ASSUME NEW c \in Clients,
             ClientStep(c) \/ SubmitSearch(c) \/ CancelJob(c) \/ SubmitFails(c) \/ ClientStops(c)
      PROVE  rec'[j] = rec[j] \/ (rec[j] = Absent /\ cl[c].pc = "create" /\ cl[c].job = j)
  BY <1>2, <1>t, ClientWrites
<1>3. ASSUME NEW w \in Workers, StartSearch(w) \/ SearchSucceeds(w) \/ SearchFails(w)
      PROVE  rec'[j] = rec[j] \/ rec[j].state \in Live
  <2>1. PICK k : k = JobOf(w)
    OBVIOUS
  <2>2. rec[k].state \in Live /\ \E r : rec' = [rec EXCEPT ![k] = r]
    BY <1>3, <2>1, RunWrites DEF Live
  <2>3. QED
    BY <1>t, <2>2
<1>4. ASSUME NEW w \in Workers, WorkerStep(w) \/ WorkerStops(w)
      PROVE  UNCHANGED rec \/ StartSearch(w) \/ SearchSucceeds(w) \/ SearchFails(w)
  <2>1. ~HonourCancel(w)
    BY DEF HonourCancel, WorkerAt, LifeInv, RecordsFollow, WorkerRecord
  <2>2. QED
    BY <1>4, <2>1 DEF WorkerStep, WorkerStops, ReadBatch, LoadRecord, TruncateBeforeRetry, EnqueueRetry,
                      DeadLetter, AckMessage, queueVars
<1>5. ~Expiry
  BY CalmStep DEF LifeInv, ExecutionInv
<1>6. QED
  BY <1>1, <1>2, <1>3, <1>4, <1>5 DEF Next, vars, queueVars

\* A job that has succeeded or failed keeps its record, whoever stops or fails
\* at whatever step, as long as nobody cancels, no TTL runs out and no XADD is
\* applied twice.
THEOREM TerminalStays == Spec /\ []Undisturbed => TerminalIsFinal
<1>1. LifeInv /\ Undisturbed /\ Undisturbed' /\ [Next]_vars =>
         [\A j \in Jobs : rec[j].state \in Terminal => rec'[j].state \in {rec[j].state, "ABSENT"}]_vars
  <2> SUFFICES ASSUME LifeInv, Undisturbed, Undisturbed', [Next]_vars, NEW j \in Jobs, rec[j].state \in Terminal
               PROVE  rec'[j].state = rec[j].state
    OBVIOUS
  <2>1. rec[j] # Absent /\ rec[j].state \notin Live
    BY DEF Terminal, Absent, Live
  <2>2. QED
    BY <2>1, RecordChanges
<1>2. QED
  BY <1>1, LifeInvariant, PTL DEF Spec, TerminalIsFinal

\* A single caller submits, and no command of submit_search fails.
OneCaller == (\A c, d \in Clients : c = d) /\ Budget["error"] = 0

\* No job of a request that is in the stream is still to be finished.
AllOver(f) == \A i \in DOMAIN log : log[i].req = f => ~Unfinished(log[i].job)

\* What the caller knows of the fingerprint key of its request.
CallerKnows(c) ==
    /\ cl[c].pc \notin {"release", "delete"}
    /\ cl[c].pc = "inspect" => cl[c].seen = fps[cl[c].fp]
    /\ cl[c].pc \in {"guard", "claim", "relookup", "bind"} => AllOver(cl[c].fp)
    /\ cl[c].pc \in {"create", "trim", "add"} => fps[cl[c].fp] = cl[c].job

\* The fingerprint key of a request names its one unfinished job.
KeyNamesLiveJob == \A i \in DOMAIN log : Unfinished(log[i].job) => fps[log[i].req] = log[i].job

SharingInv == LifeInv /\ left["error"] = 0 /\ KeyNamesLiveJob /\ \A c \in Clients : CallerKnows(c)

\* An unfinished job in the stream was unfinished before the step.
LEMMA StaysUnfinished ==
    ASSUME LifeInv, Undisturbed, Undisturbed', [Next]_vars, NEW j \in Enqueued, rec'[j].state \in Live
    PROVE  Unfinished(j)
<1>1. j \in Jobs
  BY StreamIs DEF LifeInv, ExecutionInv, Enqueued
<1>2. \A c \in Clients : cl[c].pc = "create" => cl[c].job # j
  BY DEF LifeInv, ExecutionInv, DrawnAreNew, Drawn
<1>3. rec'[j] = rec[j] \/ rec[j].state \in Live
  BY <1>1, <1>2, RecordChanges
<1>4. QED
  BY <1>3 DEF Unfinished

\* A worker adds entries only for requests that the stream has already, and
\* touches no fingerprint key.
LEMMA WorkerRequests ==
    ASSUME LifeInv, Undisturbed, Undisturbed', NEW w \in Workers, WorkerStep(w) \/ WorkerStops(w)
    PROVE  /\ UNCHANGED <<cl, fps>>
           /\ \A i \in DOMAIN log' : \E k \in DOMAIN log :
                 log'[i].job = log[k].job /\ log'[i].req = log[k].req
<1>t. TypeOK
  BY DEF LifeInv, ExecutionInv
<1>s. log \in Seq(Message) /\ DOMAIN log = 1..Len(log) /\ Len(log) \in Nat
  BY <1>t, StreamIs DEF TypeOK, QueueTypeOK
<1>m. \A i \in DOMAIN log : log[i] \in Message
  BY <1>t, StreamIs
<1>e. \A m \in Message :
         /\ [m EXCEPT !.status = "pending"].job = m.job /\ [m EXCEPT !.status = "pending"].req = m.req
         /\ [m EXCEPT !.status = "acked"].job = m.job /\ [m EXCEPT !.status = "acked"].req = m.req
  BY DEF Message
<1>1. UNCHANGED <<cl, fps>>
  BY DEF WorkerStep, WorkerStops, ReadBatch, LoadRecord, HonourCancel, StartSearch, SearchSucceeds, SearchFails,
         TruncateBeforeRetry, EnqueueRetry, DeadLetter, AckMessage, queueVars
<1>2. CASE ReadBatch(w)
  <2>1. PICK n : Deliver(NextReady, LastOf(n))
    BY <1>2 DEF ReadBatch
  <2>2. DOMAIN log' = DOMAIN log
        /\ \A i \in DOMAIN log : log'[i] = log[i] \/ log'[i] = [log[i] EXCEPT !.status = "pending"]
    BY <2>1 DEF Deliver
  <2>3. \A i \in DOMAIN log : log'[i].job = log[i].job /\ log'[i].req = log[i].req
    BY <1>m, <1>e, <2>2
  <2>4. QED
    BY <1>1, <2>2, <2>3
<1>3. CASE AckMessage(w)
  <2>1. DOMAIN log' = DOMAIN log
        /\ \A i \in DOMAIN log : log'[i] = log[i] \/ log'[i] = [log[i] EXCEPT !.status = "acked"]
    BY <1>3, <1>s DEF AckMessage, Acknowledge
  <2>2. \A i \in DOMAIN log : log'[i].job = log[i].job /\ log'[i].req = log[i].req
    BY <1>m, <1>e, <2>1
  <2>3. QED
    BY <1>1, <2>1, <2>2
<1>4. CASE EnqueueRetry(w)
  <2>1. wk[w].pc # "idle"
    BY <1>4 DEF EnqueueRetry, WorkerAt
  <2>2. wk[w].msg \in DOMAIN log
    BY <2>1, WorkerHas
  <2>3. ~Spend("resend")
    BY <1>t, CalmStep
  <2>4. log' = Append(log, Entry(JobOf(w), RequestOf(w), RetriesOf(w) + 1))
    BY <1>4, <2>3 DEF EnqueueRetry, Enqueue
  <2>5. \A i \in DOMAIN log' : \/ i \in DOMAIN log /\ log'[i] = log[i]
                               \/ log'[i] = Entry(JobOf(w), RequestOf(w), RetriesOf(w) + 1)
    BY <1>s, <2>4, AppendProperties
  <2>6. /\ Entry(JobOf(w), RequestOf(w), RetriesOf(w) + 1).job = log[wk[w].msg].job
        /\ Entry(JobOf(w), RequestOf(w), RetriesOf(w) + 1).req = log[wk[w].msg].req
    BY DEF Entry, JobOf, RequestOf
  <2>7. QED
    BY <1>1, <2>2, <2>5, <2>6
<1>5. CASE UNCHANGED log
  BY <1>1, <1>5
<1>6. QED
  BY <1>2, <1>3, <1>4, <1>5
     DEF WorkerStep, WorkerStops, LoadRecord, HonourCancel, StartSearch, SearchSucceeds, SearchFails,
         TruncateBeforeRetry, DeadLetter, queueVars

\* The caller's own step: it adds its job for its request, and writes the key of
\* its request only while no job of it is left.
LEMMA CallerRequests ==
    ASSUME SharingInv, Undisturbed, Undisturbed', NEW c \in Clients,
           ClientStep(c) \/ SubmitSearch(c) \/ CancelJob(c) \/ SubmitFails(c) \/ ClientStops(c)
    PROVE  /\ \A i \in DOMAIN log' :
                 \/ i \in DOMAIN log /\ log'[i] = log[i]
                 \/ /\ EnqueueJob(c) /\ UNCHANGED fps /\ cl[c].pc = "add"
                    /\ log'[i].job = cl[c].job /\ log'[i].req = cl[c].fp
           /\ UNCHANGED log \/ EnqueueJob(c)
           /\ \/ UNCHANGED fps
              \/ /\ cl[c].pc \in {"claim", "bind"} /\ fps' = [fps EXCEPT ![cl[c].fp] = cl[c].job]
                 /\ ClientGoes(c, "create")
<1>t. /\ log \in Seq(Message) /\ cl[c].fp \in Fingerprints /\ left["error"] = 0 /\ TypeOK
  BY DEF SharingInv, LifeInv, ExecutionInv, TypeOK, QueueTypeOK, ClientsOK, Client
<1>1. ~SubmitFails(c) /\ ~ReleaseFingerprint(c)
  BY <1>t DEF SubmitFails, Spend, ReleaseFingerprint, ClientAt, SharingInv, CallerKnows
<1>2. UNCHANGED log \/ EnqueueJob(c)
  BY <1>1 DEF ClientStep, SubmitSearch, CancelJob, ClientStops, ReuseJob, NothingToReuse, RejectSubmission,
         AdmitSubmission, ClaimFingerprint, LookupAgain, RebindFingerprint, CreateJobRecord, TruncateBeforeAdd,
         CheckOwner, FlagCancel, CancelPending, queueVars
<1>3. ASSUME EnqueueJob(c)
      PROVE  /\ UNCHANGED fps /\ cl[c].pc = "add"
             /\ log' = Append(log, Entry(cl[c].job, cl[c].fp, 0))
  <2>1. ~Spend("resend")
    BY <1>t, CalmStep
  <2>2. QED
    BY <1>3, <2>1 DEF EnqueueJob, Enqueue, ClientAt
<1>4. ASSUME NEW i \in DOMAIN log'
      PROVE  \/ i \in DOMAIN log /\ log'[i] = log[i]
             \/ /\ EnqueueJob(c) /\ UNCHANGED fps /\ cl[c].pc = "add"
                /\ log'[i].job = cl[c].job /\ log'[i].req = cl[c].fp
  <2>1. CASE UNCHANGED log
    BY <1>4, <2>1
  <2>2. CASE EnqueueJob(c)
    <3>1. (i \in DOMAIN log /\ log'[i] = log[i]) \/ log'[i] = Entry(cl[c].job, cl[c].fp, 0)
      BY <1>t, <1>3, <1>4, <2>2, AppendProperties
    <3>2. QED
      BY <1>3, <2>2, <3>1 DEF Entry
  <2>3. QED
    BY <1>2, <2>1, <2>2
<1>5. \/ UNCHANGED fps
      \/ /\ cl[c].pc \in {"claim", "bind"} /\ fps' = [fps EXCEPT ![cl[c].fp] = cl[c].job]
         /\ ClientGoes(c, "create")
  BY <1>1 DEF ClientStep, SubmitSearch, CancelJob, ClientStops, ReuseJob, NothingToReuse, RejectSubmission,
         AdmitSubmission, ClaimFingerprint, LookupAgain, RebindFingerprint, CreateJobRecord, TruncateBeforeAdd,
         EnqueueJob, CheckOwner, FlagCancel, CancelPending, queueVars, BindFingerprint, ClientAt
<1>6. QED
  BY <1>2, <1>4, <1>5

\* Where the caller goes, and what it then knows of the key it has just read.
LEMMA CallerGoes ==
    ASSUME SharingInv, Undisturbed, Undisturbed', NEW c \in Clients,
           ClientStep(c) \/ SubmitSearch(c) \/ CancelJob(c) \/ SubmitFails(c) \/ ClientStops(c)
    PROVE  LET pc == cl'[c].pc
           IN  /\ pc \notin {"release", "delete"}
               /\ pc = "inspect" => cl'[c].seen = fps[cl'[c].fp] /\ UNCHANGED fps
               /\ pc \in {"guard", "claim", "relookup", "bind"} => AllOver(cl'[c].fp) /\ UNCHANGED log
               /\ pc \in {"create", "trim", "add"} =>
                     /\ cl'[c].fp = cl[c].fp /\ cl'[c].job = cl[c].job
                     /\ cl[c].pc \in {"create", "trim"} \/ fps' = [fps EXCEPT ![cl[c].fp] = cl[c].job]
<1>t. /\ cl \in [Clients -> Client] /\ cl[c] \in Client /\ cl[c].fp \in Fingerprints
      /\ fps \in [Fingerprints -> Jobs \cup {NoJob}] /\ left["error"] = 0 /\ CallerKnows(c)
  BY DEF SharingInv, LifeInv, ExecutionInv, TypeOK, QueueTypeOK, ClientsOK, Client
<1>1. ~SubmitFails(c) /\ ~ReleaseFingerprint(c) /\ ~CheckOwner(c)
  BY <1>t DEF SubmitFails, Spend, ReleaseFingerprint, CheckOwner, ClientAt, CallerKnows
<1>2. ~FlagCancel(c) /\ ~CancelPending(c) /\ ~CancelJob(c)
  BY CalmStep
     DEF SharingInv, LifeInv, ExecutionInv, NobodyCancels, Flagging, FlagCancel, CancelPending, ClientAt
<1>3. ASSUME Returns(c) PROVE cl'[c].pc = "idle"
  BY <1>t, <1>3 DEF Returns, IdleClient
<1>4. ASSUME NEW pc, ClientGoes(c, pc)
      PROVE  cl'[c].pc = pc /\ cl'[c].fp = cl[c].fp /\ cl'[c].job = cl[c].job /\ cl'[c].seen = cl[c].seen
  BY <1>t, <1>4 DEF ClientGoes, Client
\* A request whose key names no job has no unfinished one.
<1>5. ASSUME NEW f \in Fingerprints, fps[f] = NoJob PROVE AllOver(f)
  <2>1. \A i \in DOMAIN log : log[i].job # NoJob
    BY StreamIs, NoJobAssumption DEF SharingInv, LifeInv, ExecutionInv
  <2>2. QED
    BY <1>5, <2>1 DEF AllOver, SharingInv, KeyNamesLiveJob
<1>6. ASSUME NEW f \in Fingerprints, NEW job, NEW pc \in {"guard", "bind"}, Lookup(c, f, job, pc)
      PROVE  /\ cl'[c].pc \in {pc, "inspect"} /\ cl'[c].fp = f /\ cl'[c].seen = fps[f]
             /\ cl'[c].pc = pc => AllOver(f)
  <2>1. cl'[c] = [pc |-> IF fps[f] = NoJob THEN pc ELSE "inspect", fp |-> f, job |-> job, seen |-> fps[f]]
    BY <1>t, <1>6 DEF Lookup
  <2>2. QED
    BY <1>5, <2>1
<1>7. CASE SubmitSearch(c)
  <2>1. UNCHANGED <<log, fps>> /\ \E f \in Fingerprints : Lookup(c, f, NoJob, "guard")
    BY <1>7 DEF SubmitSearch, queueVars
  <2>2. QED
    BY <1>6, <2>1
<1>8. CASE LookupAgain(c)
  <2>1. UNCHANGED <<log, fps>> /\ Lookup(c, cl[c].fp, cl[c].job, "bind")
    BY <1>8 DEF LookupAgain, queueVars
  <2>2. QED
    BY <1>t, <1>6, <2>1
<1>9. CASE NothingToReuse(c)
  <2>1. cl[c].pc = "inspect" /\ ~Reusable(cl[c].seen) /\ UNCHANGED <<log, fps>>
    BY <1>9 DEF NothingToReuse, ClientAt, queueVars
  <2>2. cl'[c].pc \in {"guard", "bind"} /\ cl'[c].fp = cl[c].fp
    BY <1>t, <1>9 DEF NothingToReuse, Client
  <2>3. ~Unfinished(cl[c].seen) /\ cl[c].seen = fps[cl[c].fp]
    BY <1>t, <2>1 DEF Reusable, Unfinished, Live, CallerKnows
  <2>4. AllOver(cl[c].fp)
    BY <2>3 DEF AllOver, SharingInv, KeyNamesLiveJob
  <2>5. QED
    BY <2>1, <2>2, <2>4
<1>10. CASE AdmitSubmission(c)
  <2>1. PICK j : cl' = [cl EXCEPT ![c].pc = "claim", ![c].job = j]
    BY <1>10 DEF AdmitSubmission
  <2>2. cl'[c].pc = "claim" /\ cl'[c].fp = cl[c].fp
    BY <1>t, <2>1 DEF Client
  <2>3. AllOver(cl[c].fp) /\ UNCHANGED log
    BY <1>t, <1>10 DEF AdmitSubmission, ClientAt, CallerKnows, queueVars
  <2>4. QED
    BY <2>2, <2>3
<1>11. CASE ClaimFingerprint(c)
  <2>1. AllOver(cl[c].fp) /\ UNCHANGED log
    BY <1>t, <1>11 DEF ClaimFingerprint, ClientAt, CallerKnows
  <2>2. ClientGoes(c, "relookup") \/ (ClientGoes(c, "create") /\ fps' = [fps EXCEPT ![cl[c].fp] = cl[c].job])
    BY <1>11 DEF ClaimFingerprint, BindFingerprint
  <2>3. QED
    BY <1>4, <2>1, <2>2
<1>12. CASE RebindFingerprint(c)
  BY <1>4, <1>12 DEF RebindFingerprint, BindFingerprint
<1>13. CASE CreateJobRecord(c) \/ TruncateBeforeAdd(c)
  BY <1>4, <1>13 DEF CreateJobRecord, TruncateBeforeAdd, ClientAt
<1>14. CASE ReuseJob(c) \/ RejectSubmission(c) \/ EnqueueJob(c) \/ ClientStops(c)
  BY <1>3, <1>14 DEF ReuseJob, RejectSubmission, EnqueueJob, ClientStops
<1>15. QED
  BY <1>1, <1>2, <1>7, <1>8, <1>9, <1>10, <1>11, <1>12, <1>13, <1>14 DEF ClientStep

\* The caller keeps the key of its request in line with the stream.
LEMMA SharingCaller ==
    ASSUME SharingInv, OneCaller, Undisturbed, Undisturbed', [Next]_vars, NEW c \in Clients,
           ClientStep(c) \/ SubmitSearch(c) \/ CancelJob(c) \/ SubmitFails(c) \/ ClientStops(c)
    PROVE  KeyNamesLiveJob' /\ \A d \in Clients : CallerKnows(d)'
<1>t. /\ fps \in [Fingerprints -> Jobs \cup {NoJob}] /\ cl[c].fp \in Fingerprints /\ LifeInv /\ CallerKnows(c)
      /\ \A i \in DOMAIN log : log[i].job \in Enqueued
  BY DEF SharingInv, LifeInv, ExecutionInv, TypeOK, QueueTypeOK, ClientsOK, Client, Enqueued
<1>1. KeyNamesLiveJob'
  <2> SUFFICES ASSUME NEW i \in DOMAIN log', rec'[log'[i].job].state \in Live
               PROVE  fps'[log'[i].req] = log'[i].job
    BY DEF KeyNamesLiveJob, Unfinished
  <2>1. CASE i \in DOMAIN log /\ log'[i] = log[i]
    <3>1. Unfinished(log[i].job)
      BY <1>t, <2>1, StaysUnfinished
    <3>2. fps[log[i].req] = log[i].job
      BY <2>1, <3>1 DEF SharingInv, KeyNamesLiveJob
    <3>3. cl[c].pc \in {"claim", "bind"} => log[i].req # cl[c].fp
      BY <1>t, <2>1, <3>1 DEF CallerKnows, AllOver
    <3>4. fps'[log[i].req] = fps[log[i].req]
      <4>1. log[i].req \in Fingerprints
        BY <1>t, <2>1, StreamIs DEF LifeInv, ExecutionInv, Message
      <4>2. \/ UNCHANGED fps
            \/ cl[c].pc \in {"claim", "bind"} /\ fps' = [fps EXCEPT ![cl[c].fp] = cl[c].job]
        BY CallerRequests
      <4>3. QED
        BY <1>t, <3>3, <4>1, <4>2
    <3>5. QED
      BY <2>1, <3>2, <3>4
  <2>2. CASE UNCHANGED fps /\ cl[c].pc = "add" /\ log'[i].job = cl[c].job /\ log'[i].req = cl[c].fp
    BY <1>t, <2>2 DEF CallerKnows
  <2>3. QED
    BY <2>1, <2>2, CallerRequests
<1>2. CallerKnows(c)'
  <2>1. /\ cl'[c].pc \notin {"release", "delete"}
        /\ cl'[c].pc = "inspect" => cl'[c].seen = fps[cl'[c].fp] /\ UNCHANGED fps
        /\ cl'[c].pc \in {"guard", "claim", "relookup", "bind"} => AllOver(cl'[c].fp) /\ UNCHANGED log
        /\ cl'[c].pc \in {"create", "trim", "add"} =>
              /\ cl'[c].fp = cl[c].fp /\ cl'[c].job = cl[c].job
              /\ cl[c].pc \in {"create", "trim"} \/ fps' = [fps EXCEPT ![cl[c].fp] = cl[c].job]
    BY CallerGoes
  <2>2. ASSUME NEW f, AllOver(f), UNCHANGED log PROVE AllOver(f)'
    BY <1>t, <2>2, StaysUnfinished DEF AllOver, Unfinished
  <2>3. ASSUME cl[c].pc \in {"create", "trim"} PROVE UNCHANGED fps /\ fps[cl[c].fp] = cl[c].job
    BY <1>t, <2>3, CallerRequests DEF CallerKnows
  <2>4. QED
    BY <1>t, <2>1, <2>2, <2>3 DEF CallerKnows
<1>3. QED
  BY <1>1, <1>2 DEF OneCaller

\* Every step keeps the keys in line with the stream.
LEMMA SharingStep ==
    ASSUME SharingInv, OneCaller, Undisturbed, Undisturbed', [Next]_vars
    PROVE  SharingInv'
<1>t. LifeInv /\ \A i \in DOMAIN log : log[i].job \in Enqueued
  BY DEF SharingInv, Enqueued
<1>1. LifeInv'
  BY LifeStep DEF SharingInv
<1>2. left'["error"] = 0
  <2>1. left'["error"] <= left["error"] /\ left'["error"] \in Nat
    BY <1>1, <1>t, BudgetStep DEF LifeInv, ExecutionInv, TypeOK, Kinds
  <2>2. QED
    BY <2>1 DEF SharingInv
<1>3. KeyNamesLiveJob' /\ \A d \in Clients : CallerKnows(d)'
  <2>1. ASSUME UNCHANGED <<cl, fps>>,
               \A i \in DOMAIN log' : \E k \in DOMAIN log : log'[i].job = log[k].job /\ log'[i].req = log[k].req
        PROVE  KeyNamesLiveJob' /\ \A d \in Clients : CallerKnows(d)'
    <3>1. ASSUME NEW i \in DOMAIN log', rec'[log'[i].job].state \in Live
          PROVE  \E k \in DOMAIN log : /\ log'[i].job = log[k].job /\ log'[i].req = log[k].req
                                       /\ Unfinished(log[k].job)
      <4>1. PICK k \in DOMAIN log : log'[i].job = log[k].job /\ log'[i].req = log[k].req
        BY <2>1, <3>1
      <4>2. Unfinished(log[k].job)
        BY <1>t, <3>1, <4>1, StaysUnfinished
      <4>3. QED
        BY <4>1, <4>2
    <3>2. KeyNamesLiveJob'
      BY <2>1, <3>1 DEF KeyNamesLiveJob, SharingInv, Unfinished
    <3>3. \A f : AllOver(f) => AllOver(f)'
      BY <3>1 DEF AllOver, Unfinished
    <3>4. \A d \in Clients : CallerKnows(d)'
      BY <2>1, <3>3 DEF SharingInv, CallerKnows
    <3>5. QED
      BY <3>2, <3>4
  <2>2. CASE UNCHANGED vars
    BY <2>1, <2>2 DEF vars, queueVars, processVars
  <2>3. ASSUME NEW w \in Workers, WorkerStep(w) \/ WorkerStops(w)
        PROVE  KeyNamesLiveJob' /\ \A d \in Clients : CallerKnows(d)'
    BY <1>t, <2>1, <2>3, WorkerRequests
  <2>4. ~Expiry
    BY CalmStep DEF SharingInv, LifeInv, ExecutionInv
  <2>5. QED
    BY <2>2, <2>3, <2>4, SharingCaller DEF Next
<1>4. QED
  BY <1>1, <1>2, <1>3 DEF SharingInv

\* Equal requests of a single caller share one job, whoever stops at whatever
\* step, as long as no command fails, nobody cancels, no TTL runs out and no
\* XADD is applied twice.  With a second caller they do not: the job record is
\* created after the fingerprint has been claimed.
THEOREM OneCallerShares == Spec => [](Undisturbed /\ OneCaller => OneLiveJobPerRequest)
<1>1. Init => (Undisturbed /\ OneCaller => SharingInv)
  <2> SUFFICES ASSUME Init, OneCaller PROVE SharingInv
    OBVIOUS
  <2>1. LifeInv
    BY LifeInit
  <2>2. log = <<>> /\ left["error"] = 0 /\ \A c \in Clients : cl[c].pc = "idle"
    BY DEF Init, QueueInit, OneCaller, IdleClient
  <2>3. QED
    BY <2>1, <2>2 DEF SharingInv, KeyNamesLiveJob, CallerKnows
<1>2. /\ TypeOK /\ BudgetSpent /\ (Undisturbed /\ OneCaller => SharingInv) /\ [Next]_vars
      => (Undisturbed /\ OneCaller => SharingInv)'
  BY SharingStep, CalmBefore DEF OneCaller
<1>3. SharingInv => OneLiveJobPerRequest
  BY DEF SharingInv, KeyNamesLiveJob, OneLiveJobPerRequest
<1>4. QED
  BY <1>1, <1>2, <1>3, TypeCorrect, BudgetKept, PTL DEF Spec

-----------------------------------------------------------------------------
(***************************************************************************)
(* Why a job in the stream keeps an entry until it is finished, whatever   *)
(* stops, fails or is canceled, as long as no record expires and no XADD   *)
(* is applied twice: an entry that a worker lets go of for good has either *)
(* been followed by a retry or left its job in a final state.              *)
(***************************************************************************)

\* No TTL has run out so far.
NothingExpired == Spent("expire") = 0

\* The last entry of its job.
LastOfJob(i) == \A k \in DOMAIN log : log[k].job = log[i].job => k <= i

\* What holds of the entry that a worker is at, and of its job's record.
EntryOf(w) ==
    LET r == rec[JobOf(w)]
    IN  /\ wk[w].pc = "exec" => r.retries <= RetriesOf(w)
        /\ wk[w].pc \in {"trim", "add"} => r.retries <= RetriesOf(w) + 1
        /\ wk[w].pc \in {"dlq", "ack"} => LastOfJob(wk[w].msg) /\ (NothingExpired => r.state \notin Live)
        /\ wk[w].pc = "backoff" => ~LastOfJob(wk[w].msg)

\* The record is never ahead of an entry that is still to be run, so no entry
\* is dropped as overtaken.
RecordsBehind ==
    /\ \A j \in Jobs \ Enqueued : rec[j].retries = 0
    /\ \A i \in DOMAIN log : Waiting(i) => rec[log[i].job].retries <= log[i].retries
    /\ \A w \in Workers : EntryOf(w)

LastIsKept ==
    NothingExpired =>
        /\ \A j \in Enqueued : rec[j] # Absent
        /\ \A c \in Clients : cl[c].pc \in {"trim", "add"} => rec[cl[c].job] # Absent
        /\ \A i \in DOMAIN log :
              LastOfJob(i) /\ rec[log[i].job].state \in Live => log[i].status # "acked"

ExpiryBudget == left["expire"] <= Budget["expire"]

DeliveryInv == ExecutionInv /\ UnbornJobs /\ ExpiryBudget /\ RecordsBehind /\ LastIsKept

-----------------------------------------------------------------------------
(* Lemmas on single entries. *)

\* The entry a worker is at, and its job.
LEMMA EntryIs ==
    ASSUME DeliveryInv, NEW w \in Workers, wk[w].pc # "idle"
    PROVE  /\ wk[w].msg \in DOMAIN log /\ wk[w].msg \in Nat /\ DOMAIN log \subseteq Nat
           /\ JobOf(w) \in Jobs /\ RetriesOf(w) \in Nat
           /\ RetriesOf(w) <= MaxRetries /\ MaxRetries \in Nat
           /\ Owns(w, wk[w].msg) /\ log[wk[w].msg].status = "pending"
           /\ wk[w].pc \in BeforeRun => Waiting(wk[w].msg)
           /\ wk[w].pc \in InRun => Working(wk[w].msg)
<1>1. wk[w].msg \in DOMAIN log /\ wk[w].msg \in Nat /\ DOMAIN log \subseteq Nat
  BY WorkerIs, StreamIs DEF DeliveryInv, ExecutionInv
<1>2. JobOf(w) \in Jobs /\ RetriesOf(w) \in Nat /\ RetriesOf(w) <= MaxRetries /\ MaxRetries \in Nat
  BY <1>1, StreamIs DEF DeliveryInv, ExecutionInv, JobOf, RetriesOf, RunsCounted
<1>3. Owns(w, wk[w].msg)
  BY <1>1 DEF Owns, DeliveryInv, ExecutionInv, BatchesApart
<1>4. log[wk[w].msg].status = "pending"
  BY <1>1, <1>3 DEF DeliveryInv, ExecutionInv, BatchesApart
<1>5. QED
  BY <1>1, <1>2, <1>3, <1>4 DEF Waiting, Working

\* A worker that is not sleeping before a retry's XACK is at its job's last entry.
LEMMA EntryIsLast ==
    ASSUME DeliveryInv, NEW w \in Workers, wk[w].pc \notin {"idle", "backoff"}
    PROVE  LastOfJob(wk[w].msg)
<1>1. CASE wk[w].pc \in {"dlq", "ack"}
  BY <1>1 DEF DeliveryInv, RecordsBehind, EntryOf
<1>2. CASE wk[w].pc \in BeforeRun \cup InRun
  BY <1>2, EntryIs DEF LastOfJob, DeliveryInv, ExecutionInv, LastOnesRun
<1>3. wk[w].pc \in WorkerPC
  BY DEF DeliveryInv, ExecutionInv, TypeOK, WorkersOK, Worker
<1>4. QED
  BY <1>1, <1>2, <1>3 DEF WorkerPC, BeforeRun, InRun

\* So only one worker at a time is at an entry of a job, but for those that sleep.
LEMMA OneAtJob ==
    ASSUME DeliveryInv, NEW v \in Workers, NEW w \in Workers, v # w,
           wk[v].pc \notin {"idle", "backoff"}, wk[w].pc \notin {"idle", "backoff"}
    PROVE  JobOf(v) # JobOf(w)
<1> SUFFICES ASSUME JobOf(v) = JobOf(w) PROVE FALSE
  OBVIOUS
<1>1. LastOfJob(wk[v].msg) /\ LastOfJob(wk[w].msg)
  BY EntryIsLast
<1>2. /\ wk[v].msg \in DOMAIN log /\ wk[w].msg \in DOMAIN log
      /\ wk[v].msg \in Nat /\ wk[w].msg \in Nat
  BY EntryIs
<1>3. wk[v].msg = wk[w].msg
  BY <1>1, <1>2 DEF LastOfJob, JobOf
<1>4. Owns(v, wk[v].msg) /\ Owns(w, wk[v].msg)
  BY <1>3, EntryIs
<1>5. QED
  BY <1>2, <1>4 DEF DeliveryInv, ExecutionInv, BatchesApart

\* Entries keep their order and their jobs.
LEMMA LastSame ==
    ASSUME AttemptsKept, DOMAIN log' = DOMAIN log, NEW i \in DOMAIN log
    PROVE  LastOfJob(i)' <=> LastOfJob(i)
BY DEF LastOfJob, AttemptsKept

\* What the step of another leaves of a worker's entry.
LEMMA EntryStays ==
    ASSUME DeliveryInv, AttemptsKept, NEW v \in Workers, wk'[v] = wk[v],
           wk[v].pc # "idle" => /\ rec'[JobOf(v)].retries = rec[JobOf(v)].retries
                                /\ NothingExpired' => /\ NothingExpired
                                                      /\ rec[JobOf(v)].state \notin Live =>
                                                            rec'[JobOf(v)].state \notin Live,
           wk[v].pc \notin {"idle", "backoff"} =>
               \A i \in DOMAIN log' \ DOMAIN log : log'[i].job # JobOf(v)
    PROVE  EntryOf(v)'
<1>1. CASE wk[v].pc = "idle"
  BY <1>1 DEF EntryOf
<1>2. CASE wk[v].pc # "idle"
  <2>1. wk[v].msg \in DOMAIN log
    BY <1>2, EntryIs
  <2>2. JobOf(v)' = JobOf(v) /\ RetriesOf(v)' = RetriesOf(v) /\ wk'[v].msg = wk[v].msg /\ wk'[v].pc = wk[v].pc
    BY <2>1 DEF JobOf, RetriesOf, AttemptsKept
  <2>3. EntryOf(v)
    BY DEF DeliveryInv, RecordsBehind
  <2>4. wk[v].pc \in {"dlq", "ack"} => LastOfJob(wk[v].msg)'
    BY <2>1, <2>2, <2>3 DEF EntryOf, LastOfJob, AttemptsKept, JobOf
  <2>5. wk[v].pc = "backoff" => ~LastOfJob(wk[v].msg)'
    BY <2>1, <2>3 DEF EntryOf, LastOfJob, AttemptsKept
  <2>6. QED
    BY <1>2, <2>2, <2>3, <2>4, <2>5 DEF EntryOf
<1>3. QED
  BY <1>1, <1>2

-----------------------------------------------------------------------------
(* Steps. *)

\* Only an expiry, or an update of the worker's own job, touches what the
\* invariant says of a worker's record.
LEMMA ClientRecords ==
    ASSUME DeliveryInv, NEW c \in Clients,
           ClientStep(c) \/ SubmitSearch(c) \/ CancelJob(c) \/ SubmitFails(c) \/ ClientStops(c)
    PROVE  /\ UNCHANGED wk /\ left'["expire"] = left["expire"]
           /\ \A j \in Jobs : /\ rec'[j].retries = rec[j].retries
                              /\ rec[j] # Absent => /\ rec'[j] # Absent
                                                    /\ rec[j].state \notin Live => rec'[j].state \notin Live
           /\ CreateJobRecord(c) => rec'[cl[c].job] # Absent
<1>t. /\ TypeOK /\ rec \in [Jobs -> JobRecord] /\ left \in [Kinds -> Nat]
      /\ cl[c].pc \in OwnsJob => cl[c].job \in Jobs
      /\ cl[c].pc \in SawJob => cl[c].seen \in Jobs
  BY DEF DeliveryInv, ExecutionInv, TypeOK, QueueTypeOK, ClientsOK
<1>1. UNCHANGED wk
  BY DEF ClientStep, SubmitSearch, CancelJob, SubmitFails, ClientStops,
         ReuseJob, NothingToReuse, RejectSubmission, AdmitSubmission, ClaimFingerprint, LookupAgain,
         RebindFingerprint, CreateJobRecord, TruncateBeforeAdd, EnqueueJob, CheckOwner, ReleaseFingerprint,
         FlagCancel, CancelPending
<1>2. left'["expire"] = left["expire"]
  <2>1. UNCHANGED left \/ Spend("resend") \/ Spend("error") \/ Spend("crash") \/ Spend("cancel")
    BY DEF ClientStep, SubmitSearch, CancelJob, SubmitFails, ClientStops,
         ReuseJob, NothingToReuse, RejectSubmission, AdmitSubmission, ClaimFingerprint, LookupAgain,
         RebindFingerprint, CreateJobRecord, TruncateBeforeAdd, EnqueueJob, CheckOwner, ReleaseFingerprint,
         FlagCancel, CancelPending
  <2>2. QED
    BY <1>t, <2>1 DEF Spend, Kinds
<1>3. cl[c].pc = "create" => cl[c].job \in Jobs /\ rec[cl[c].job] = Absent
  BY <1>t DEF OwnsJob, DeliveryInv, UnbornJobs, Unborn
<1>4. \/ UNCHANGED rec /\ ~CreateJobRecord(c)
      \/ cl[c].pc = "create" /\ CreateRecord(cl[c].job)
      \/ cl[c].seen \in Jobs /\ MarkCancelRequested(cl[c].seen) /\ ~CreateJobRecord(c)
      \/ cl[c].seen \in Jobs /\ MarkCanceled(cl[c].seen) /\ ~CreateJobRecord(c)
  BY <1>t
     DEF ClientStep, SubmitSearch, SubmitFails, ClientStops, ReuseJob, NothingToReuse, RejectSubmission,
         AdmitSubmission, ClaimFingerprint, LookupAgain, RebindFingerprint, CreateJobRecord, TruncateBeforeAdd,
         EnqueueJob, CheckOwner, ReleaseFingerprint, queueVars, ClientAt, CancelJob, FlagCancel, CancelPending,
         SawJob
<1>5. ASSUME NEW k \in Jobs, MarkCancelRequested(k) \/ MarkCanceled(k), NEW j \in Jobs
      PROVE  /\ rec'[j].retries = rec[j].retries
             /\ rec[j] # Absent => /\ rec'[j] # Absent
                                   /\ rec[j].state \notin Live => rec'[j].state \notin Live
  <2>1. CASE j # k
    BY <1>5, <1>t, <2>1 DEF MarkCancelRequested, MarkCanceled
  <2>2. CASE j = k
    <3>1. PICK r : r = Current(k)
      OBVIOUS
    <3>2. r \in JobRecord /\ r.retries = rec[k].retries /\ (rec[k] # Absent => r = rec[k])
      BY <1>t, <3>1 DEF Current, Blank, Absent, JobRecord, Live
    <3>3. rec'[k] = [r EXCEPT !.canceled = TRUE] \/ rec'[k] = [r EXCEPT !.state = "CANCELED", !.canceled = TRUE]
      BY <1>5, <1>t, <3>1 DEF MarkCancelRequested, MarkCanceled
    <3>4. /\ rec'[k].retries = r.retries /\ rec'[k].canceled = TRUE
          /\ rec'[k].state = r.state \/ rec'[k].state = "CANCELED"
      BY <3>2, <3>3 DEF JobRecord
    <3>5. QED
      BY <2>2, <3>2, <3>4 DEF Absent, Live
  <2>3. QED
    BY <2>1, <2>2
<1>6. CASE cl[c].pc = "create" /\ CreateRecord(cl[c].job)
  BY <1>t, <1>1, <1>2, <1>3, <1>6 DEF CreateRecord, Blank, Absent
<1>7. QED
  BY <1>1, <1>2, <1>4, <1>5, <1>6

\* A client's step: its job's first entry is as new as the job.
LEMMA DeliveryClient ==
    ASSUME DeliveryInv, NoResends, NoResends', NEW c \in Clients,
           ClientStep(c) \/ SubmitSearch(c) \/ CancelJob(c) \/ SubmitFails(c) \/ ClientStops(c)
    PROVE  ExpiryBudget' /\ RecordsBehind' /\ LastIsKept'
<1> USE DEF DeliveryInv
<1>t. /\ TypeOK /\ rec \in [Jobs -> JobRecord] /\ Len(log) \in Nat /\ DOMAIN log \subseteq Nat
      /\ \A i \in DOMAIN log : log[i].job \in Jobs
      /\ \A d \in Clients : cl[d].pc \in OwnsJob => cl[d].job \in Jobs
  BY StreamIs DEF ExecutionInv, TypeOK, QueueTypeOK, ClientsOK
<1>1. /\ AttemptsKept /\ \A i \in DOMAIN log : log'[i] = log[i]
      /\ \A i \in DOMAIN log' \ DOMAIN log : cl[c].pc = "add" /\ log'[i].job = cl[c].job /\ log'[i].retries = 0
  BY ExecutionClient
<1>2. /\ UNCHANGED wk /\ left'["expire"] = left["expire"]
      /\ \A j \in Jobs : /\ rec'[j].retries = rec[j].retries
                         /\ rec[j] # Absent => /\ rec'[j] # Absent
                                               /\ rec[j].state \notin Live => rec'[j].state \notin Live
  BY ClientRecords
<1>3. cl[c].pc = "add" => cl[c].job \in Jobs /\ cl[c].job \notin Enqueued
  BY <1>t DEF OwnsJob, Drawn, ExecutionInv, DrawnAreNew
<1>4. Enqueued \subseteq Enqueued' /\ DOMAIN log \subseteq DOMAIN log'
  BY <1>1 DEF Enqueued, AttemptsKept
<1>5. \A i \in DOMAIN log : log[i].job \in Enqueued /\ log[i].job \in Jobs
  BY <1>t DEF Enqueued
<1>6. RecordsBehind'
  <2>1. \A j \in Jobs \ Enqueued' : rec'[j].retries = 0
    BY <1>2, <1>4 DEF RecordsBehind
  <2>2. ASSUME NEW i \in DOMAIN log', Waiting(i)' PROVE rec'[log'[i].job].retries <= log'[i].retries
    <3>1. CASE i \in DOMAIN log
      <4>1. Waiting(i) /\ log'[i] = log[i]
        BY <1>1, <2>2, <3>1 DEF AttemptsKept
      <4>2. QED
        BY <1>2, <1>5, <3>1, <4>1 DEF RecordsBehind
    <3>2. CASE i \notin DOMAIN log
      <4>1. log'[i].job = cl[c].job /\ log'[i].retries = 0 /\ cl[c].job \in Jobs \ Enqueued
        BY <1>1, <1>3, <3>2
      <4>2. rec'[cl[c].job].retries = 0
        BY <1>2, <4>1 DEF RecordsBehind
      <4>3. QED
        BY <4>1, <4>2
    <3>3. QED
      BY <3>1, <3>2
  <2>3. ASSUME NEW v \in Workers PROVE EntryOf(v)'
    <3>1. CASE wk[v].pc = "idle"
      BY <1>2, <3>1 DEF EntryOf
    <3>2. CASE wk[v].pc # "idle"
      <4>1. JobOf(v) \in Enqueued /\ JobOf(v) \in Jobs
        BY <1>5, <3>2, EntryIs DEF JobOf
      <4>2. NothingExpired' => NothingExpired /\ rec[JobOf(v)] # Absent
        BY <1>2, <4>1 DEF NothingExpired, Spent, LastIsKept
      <4>3. \A i \in DOMAIN log' \ DOMAIN log : log'[i].job # JobOf(v)
        BY <1>1, <1>3, <4>1
      <4>4. QED
        BY <1>1, <1>2, <4>1, <4>2, <4>3, EntryStays
    <3>3. QED
      BY <3>1, <3>2
  <2>4. QED
    BY <2>1, <2>2, <2>3 DEF RecordsBehind
<1>7. LastIsKept'
  <2> SUFFICES ASSUME NothingExpired'
               PROVE  /\ \A j \in Enqueued' : rec'[j] # Absent
                      /\ \A d \in Clients : cl'[d].pc \in {"trim", "add"} => rec'[cl'[d].job] # Absent
                      /\ \A i \in DOMAIN log' :
                            LastOfJob(i)' /\ rec'[log'[i].job].state \in Live => log'[i].status # "acked"
    BY DEF LastIsKept
  <2>0. NothingExpired
    BY <1>2 DEF NothingExpired, Spent
  <2>1. ASSUME NEW j \in Enqueued' PROVE rec'[j] # Absent
    <3>1. CASE j \in Enqueued
      BY <1>2, <1>5, <2>0, <3>1 DEF LastIsKept, Enqueued
    <3>2. CASE j \notin Enqueued
      <4>1. cl[c].pc = "add" /\ j = cl[c].job
        BY <1>1, <2>1, <3>2 DEF Enqueued
      <4>2. QED
        BY <1>2, <1>3, <2>0, <4>1 DEF LastIsKept
    <3>3. QED
      BY <3>1, <3>2
  <2>2. ASSUME NEW d \in Clients, cl'[d].pc \in {"trim", "add"} PROVE rec'[cl'[d].job] # Absent
    <3>1. \/ cl[d].pc \in {"trim", "add"} /\ cl'[d].job = cl[d].job
          \/ d = c /\ CreateJobRecord(c) /\ cl'[c].job = cl[c].job
      BY <1>t, <2>2, RecordCreated
    <3>2. CASE cl[d].pc \in {"trim", "add"} /\ cl'[d].job = cl[d].job
      <4>1. cl[d].job \in Jobs /\ rec[cl[d].job] # Absent
        BY <1>t, <2>0, <3>2 DEF OwnsJob, LastIsKept
      <4>2. QED
        BY <1>2, <3>2, <4>1
    <3>3. CASE d = c /\ CreateJobRecord(c) /\ cl'[c].job = cl[c].job
      BY <3>3, ClientRecords
    <3>4. QED
      BY <3>1, <3>2, <3>3
  <2>3. ASSUME NEW i \in DOMAIN log', LastOfJob(i)', rec'[log'[i].job].state \in Live
        PROVE  log'[i].status # "acked"
    <3>1. CASE i \in DOMAIN log
      <4>1. LastOfJob(i) /\ log'[i] = log[i]
        BY <1>1, <1>4, <2>3, <3>1 DEF LastOfJob
      <4>2. rec[log[i].job].state \in Live
        BY <1>2, <1>5, <2>0, <2>3, <3>1, <4>1 DEF LastIsKept
      <4>3. QED
        BY <2>0, <3>1, <4>1, <4>2 DEF LastIsKept
    <3>2. CASE i \notin DOMAIN log
      BY <3>2, ExecutionClient
    <3>3. QED
      BY <3>1, <3>2
  <2>4. QED
    BY <2>1, <2>2, <2>3
<1>8. QED
  BY <1>2, <1>6, <1>7 DEF ExpiryBudget

\* Steps that write no record and add no entry.
LEMMA DeliverySame ==
    ASSUME DeliveryInv, AttemptsKept, DOMAIN log' = DOMAIN log, UNCHANGED <<rec, cl>>,
           left'["expire"] = left["expire"],
           NEW w \in Workers, \A v \in Workers \ {w} : wk'[v] = wk[v], EntryOf(w)',
           \A i \in DOMAIN log : LastOfJob(i) /\ rec[log[i].job].state \in Live /\ log[i].status # "acked"
                                    => \/ ~NothingExpired
                                       \/ log'[i].status # "acked"
    PROVE  ExpiryBudget' /\ RecordsBehind' /\ LastIsKept'
<1> USE DEF DeliveryInv
<1>0. /\ Enqueued' = Enqueued /\ (NothingExpired' <=> NothingExpired)
      /\ \A i \in DOMAIN log : LastOfJob(i)' <=> LastOfJob(i)
  BY LastSame DEF Enqueued, AttemptsKept, NothingExpired, Spent
<1>1. \A v \in Workers : EntryOf(v)'
  <2>1. ASSUME NEW v \in Workers \ {w} PROVE EntryOf(v)'
    BY <1>0, EntryStays
  <2>2. QED
    BY <2>1
<1>2. RecordsBehind'
  <2>1. \A i \in DOMAIN log' : Waiting(i)' => rec'[log'[i].job].retries <= log'[i].retries
    BY DEF RecordsBehind, AttemptsKept
  <2>2. QED
    BY <1>0, <1>1, <2>1 DEF RecordsBehind
<1>3. LastIsKept'
  <2>1. ASSUME NothingExpired, NEW i \in DOMAIN log', LastOfJob(i)', rec'[log'[i].job].state \in Live
        PROVE  log'[i].status # "acked"
    <3>1. LastOfJob(i) /\ rec[log[i].job].state \in Live /\ i \in DOMAIN log
      BY <1>0, <2>1 DEF AttemptsKept
    <3>2. log[i].status # "acked"
      BY <2>1, <3>1 DEF LastIsKept
    <3>3. QED
      BY <2>1, <3>1, <3>2
  <2>2. QED
    BY <1>0, <2>1 DEF LastIsKept
<1>4. QED
  BY <1>2, <1>3 DEF ExpiryBudget

\* A worker writes the record of the job whose last entry it is at.
LEMMA DeliveryUpdate ==
    ASSUME DeliveryInv, AttemptsKept, UNCHANGED <<log, cl, left>>,
           NEW w \in Workers, wk[w].pc \notin {"idle", "backoff"},
           \A v \in Workers \ {w} : wk'[v] = wk[v],
           NEW j \in Jobs, j = JobOf(w), \A k \in Jobs \ {j} : rec'[k] = rec[k], rec'[j] # Absent,
           EntryOf(w)',
           \A i \in DOMAIN log : log[i].job = j /\ Waiting(i) => rec'[j].retries <= log[i].retries
    PROVE  ExpiryBudget' /\ RecordsBehind' /\ LastIsKept'
<1> USE DEF DeliveryInv
<1>0. /\ TypeOK /\ rec \in [Jobs -> JobRecord] /\ j \in Jobs
      /\ \A i \in DOMAIN log : log[i].job \in Jobs
  BY EntryIs, StreamIs DEF ExecutionInv, TypeOK, QueueTypeOK
<1>2. /\ Enqueued' = Enqueued /\ (NothingExpired' <=> NothingExpired)
      /\ \A i \in DOMAIN log : LastOfJob(i)' <=> LastOfJob(i)
  BY LastSame DEF Enqueued, NothingExpired, Spent
<1>3. j \in Enqueued
  BY EntryIs DEF Enqueued, JobOf
<1>5. ASSUME NEW v \in Workers \ {w} PROVE EntryOf(v)'
  <2>1. CASE wk[v].pc = "idle"
    BY <2>1 DEF EntryOf
  <2>2. CASE wk[v].pc = "backoff"
    <3>1. ~LastOfJob(wk[v].msg) /\ wk[v].msg \in DOMAIN log
      BY <2>2, EntryIs DEF RecordsBehind, EntryOf
    <3>2. wk'[v] = wk[v]
      OBVIOUS
    <3>3. ~LastOfJob(wk[v].msg)'
      BY <3>1, <3>2 DEF LastOfJob
    <3>4. QED
      BY <2>2, <3>2, <3>3 DEF EntryOf
  <2>3. CASE wk[v].pc \notin {"idle", "backoff"}
    <3>1. JobOf(v) # j /\ JobOf(v) \in Jobs
      BY <2>3, OneAtJob, EntryIs
    <3>2. rec'[JobOf(v)] = rec[JobOf(v)] /\ wk'[v] = wk[v]
      BY <3>1
    <3>3. QED
      BY <1>2, <3>2, EntryStays
  <2>4. QED
    BY <2>1, <2>2, <2>3
<1>6. RecordsBehind'
  <2>1. ASSUME NEW i \in DOMAIN log, Waiting(i)' PROVE rec'[log[i].job].retries <= log[i].retries
    <3>1. Waiting(i)
      BY <2>1 DEF AttemptsKept
    <3>2. QED
      BY <1>0, <3>1 DEF RecordsBehind
  <2>2. \A k \in Jobs \ Enqueued' : rec'[k].retries = 0
    BY <1>2, <1>3 DEF RecordsBehind
  <2>3. \A v \in Workers : EntryOf(v)'
    BY <1>5
  <2>4. QED
    BY <2>1, <2>2, <2>3 DEF RecordsBehind
<1>7. LastIsKept'
  <2> SUFFICES ASSUME NothingExpired
               PROVE  /\ \A k \in Enqueued : rec'[k] # Absent
                      /\ \A c \in Clients : cl[c].pc \in {"trim", "add"} => rec'[cl[c].job] # Absent
                      /\ \A i \in DOMAIN log : LastOfJob(i) /\ rec'[log[i].job].state \in Live
                                                  => log[i].status # "acked"
    BY <1>2 DEF LastIsKept
  <2>1. \A k \in Enqueued : rec'[k] # Absent
    BY <1>0 DEF LastIsKept, Enqueued
  <2>2. ASSUME NEW c \in Clients, cl[c].pc \in {"trim", "add"} PROVE rec'[cl[c].job] # Absent
    <3>1. cl[c].job \in Jobs
      BY <2>2 DEF ExecutionInv, TypeOK, ClientsOK, OwnsJob
    <3>2. QED
      BY <2>2, <3>1 DEF LastIsKept
  <2>3. ASSUME NEW i \in DOMAIN log, LastOfJob(i), rec'[log[i].job].state \in Live
        PROVE  log[i].status # "acked"
    <3>1. CASE log[i].job = j
      <4>1. /\ LastOfJob(wk[w].msg) /\ wk[w].msg \in DOMAIN log /\ wk[w].msg \in Nat /\ i \in Nat
            /\ log[wk[w].msg].status = "pending" /\ log[wk[w].msg].job = j
        BY EntryIs, EntryIsLast DEF JobOf
      <4>2. i = wk[w].msg
        BY <2>3, <3>1, <4>1 DEF LastOfJob
      <4>3. QED
        BY <4>1, <4>2
    <3>2. CASE log[i].job # j
      BY <1>0, <2>3, <3>2 DEF LastIsKept
    <3>3. QED
      BY <3>1, <3>2
  <2>4. QED
    BY <2>1, <2>2, <2>3
<1>8. QED
  BY <1>6, <1>7 DEF ExpiryBudget

\* Reading, trimming, the dead letter, XACK and stopping. What a worker drops is
\* the last entry of a finished job; what it acknowledges is that, or followed
\* by a retry.
LEMMA DeliveryReads ==
    ASSUME DeliveryInv, AttemptsKept, NEW w \in Workers,
           \/ ReadBatch(w) \/ LoadRecord(w) \/ TruncateBeforeRetry(w)
           \/ DeadLetter(w) \/ AckMessage(w) \/ WorkerStops(w)
    PROVE  ExpiryBudget' /\ RecordsBehind' /\ LastIsKept'
<1>t. /\ TypeOK /\ wk \in [Workers -> Worker] /\ left \in [Kinds -> Nat]
      /\ \A i \in DOMAIN log : log[i] \in Message
  BY StreamIs DEF DeliveryInv, ExecutionInv, TypeOK, WorkersOK
<1>1. UNCHANGED <<rec, cl>>
  BY DEF ReadBatch, LoadRecord, TruncateBeforeRetry, DeadLetter, AckMessage, WorkerStops, queueVars
<1>2. left'["expire"] = left["expire"]
  BY <1>t DEF ReadBatch, LoadRecord, TruncateBeforeRetry, DeadLetter, AckMessage, WorkerStops, Spend, Kinds
<1>3. NothingExpired' <=> NothingExpired
  BY <1>2 DEF NothingExpired, Spent
<1>4. CASE ReadBatch(w)
  <2>1. wk'[w].pc = "load" /\ \A v \in Workers \ {w} : wk'[v] = wk[v]
    BY <1>4, <1>t DEF ReadBatch
  <2>2. PICK n : Deliver(NextReady, LastOf(n))
    BY <1>4 DEF ReadBatch
  <2>3. /\ DOMAIN log' = DOMAIN log
        /\ \A i \in DOMAIN log : log'[i] = log[i] \/ log'[i] = [log[i] EXCEPT !.status = "pending"]
    BY <2>2 DEF Deliver
  <2>4. \A m \in Message : [m EXCEPT !.status = "pending"].status = "pending"
    BY DEF Message
  <2>5. ASSUME NEW i \in DOMAIN log, log[i].status # "acked" PROVE log'[i].status # "acked"
    BY <1>t, <2>3, <2>4, <2>5
  <2>6. EntryOf(w)'
    BY <2>1 DEF EntryOf
  <2>7. QED
    BY <1>1, <1>2, <2>1, <2>3, <2>5, <2>6, DeliverySame
<1>5. CASE LoadRecord(w) \/ TruncateBeforeRetry(w) \/ DeadLetter(w)
  <2>0. wk[w].pc \in {"load", "trim", "dlq"} /\ UNCHANGED log
    BY <1>5 DEF LoadRecord, TruncateBeforeRetry, DeadLetter, WorkerAt, queueVars
  <2>1. LastOfJob(wk[w].msg) /\ wk[w].msg \in DOMAIN log /\ EntryOf(w)
    BY <2>0, EntryIs, EntryIsLast DEF DeliveryInv, RecordsBehind
  <2>2. ASSUME NEW pc, WorkerGoes(w, pc), pc \in {"cancel", "start", "add", "ack"},
               pc = "add" => wk[w].pc = "trim",
               pc = "ack" => (NothingExpired => rec[JobOf(w)].state \notin Live)
        PROVE  ExpiryBudget' /\ RecordsBehind' /\ LastIsKept'
    <3>1. wk'[w].pc = pc /\ wk'[w].msg = wk[w].msg /\ \A v \in Workers \ {w} : wk'[v] = wk[v]
      BY <1>t, <2>2, WorkerGoesOn
    <3>2. JobOf(w)' = JobOf(w) /\ RetriesOf(w)' = RetriesOf(w)
      BY <2>0, <3>1 DEF JobOf, RetriesOf
    <3>3. LastOfJob(wk[w].msg)'
      BY <2>0, <2>1, <3>1 DEF LastOfJob
    <3>4. EntryOf(w)'
      BY <1>1, <1>3, <2>1, <2>2, <3>1, <3>2, <3>3 DEF EntryOf
    <3>5. QED
      BY <1>1, <1>2, <2>0, <3>1, <3>4, DeliverySame
  <2>3. CASE LoadRecord(w)
    <3>1. wk[w].pc = "load"
      BY <2>3 DEF LoadRecord, WorkerAt
    <3>2. rec[JobOf(w)].retries <= RetriesOf(w)
      BY <3>1, EntryIs DEF BeforeRun, DeliveryInv, RecordsBehind, JobOf, RetriesOf
    <3>3. rec[JobOf(w)].retries \in Nat /\ RetriesOf(w) \in Nat
      BY <3>1, EntryIs DEF DeliveryInv, ExecutionInv, TypeOK, QueueTypeOK, JobRecord
    <3>4. Stale(w) => rec[JobOf(w)].state \notin Live
      BY <3>2, <3>3 DEF Stale, Absent, Terminal, Live
    <3>5. CASE Stale(w)
      <4>1. WorkerGoes(w, "ack")
        BY <2>3, <3>5 DEF LoadRecord
      <4>2. QED
        BY <2>2, <3>4, <3>5, <4>1
    <3>6. CASE ~Stale(w)
      <4>1. WorkerGoes(w, "cancel") \/ WorkerGoes(w, "start")
        BY <2>3, <3>6 DEF LoadRecord
      <4>2. QED
        BY <2>2, <4>1
    <3>7. QED
      BY <3>5, <3>6
  <2>4. CASE TruncateBeforeRetry(w)
    BY <2>2, <2>4 DEF TruncateBeforeRetry, WorkerAt
  <2>5. CASE DeadLetter(w)
    <3>1. wk[w].pc = "dlq" /\ WorkerGoes(w, "ack")
      BY <2>5 DEF DeadLetter, WorkerAt
    <3>2. QED
      BY <2>1, <2>2, <3>1 DEF EntryOf
  <2>6. QED
    BY <1>5, <2>3, <2>4, <2>5
<1>6. CASE AckMessage(w)
  <2>1. /\ wk'[w].pc \in {"load", "idle"} /\ wk[w].pc \in {"ack", "backoff"}
        /\ \A v \in Workers \ {w} : wk'[v] = wk[v]
    BY <1>6, <1>t DEF AckMessage, IdleWorker
  <2>2. PICK m : m = wk[w].msg /\ m \in DOMAIN log /\ EntryOf(w)
    BY <2>1, EntryIs DEF DeliveryInv, RecordsBehind
  <2>3. DOMAIN log' = DOMAIN log /\ \A i \in DOMAIN log \ {m} : log'[i] = log[i]
    BY <1>6, <2>2 DEF AckMessage, Acknowledge
  <2>4. LastOfJob(m) /\ rec[log[m].job].state \in Live => ~NothingExpired
    BY <2>1, <2>2 DEF EntryOf, JobOf
  <2>5. EntryOf(w)'
    BY <2>1 DEF EntryOf
  <2>6. QED
    BY <1>1, <1>2, <2>1, <2>3, <2>4, <2>5, DeliverySame
<1>7. CASE WorkerStops(w)
  <2>1. wk'[w].pc = "idle" /\ UNCHANGED log /\ \A v \in Workers \ {w} : wk'[v] = wk[v]
    BY <1>7, <1>t DEF WorkerStops, IdleWorker, queueVars
  <2>2. EntryOf(w)'
    BY <2>1 DEF EntryOf
  <2>3. QED
    BY <1>1, <1>2, <2>1, <2>2, DeliverySame
<1>8. QED
  BY <1>4, <1>5, <1>6, <1>7

\* The updates of a record by the worker at its job's last entry.
LEMMA DeliveryRuns ==
    ASSUME DeliveryInv, AttemptsKept, NEW w \in Workers,
           HonourCancel(w) \/ StartSearch(w) \/ SearchSucceeds(w) \/ SearchFails(w)
    PROVE  ExpiryBudget' /\ RecordsBehind' /\ LastIsKept'
<1>0. UNCHANGED <<log, cl, left>> /\ wk[w].pc \in {"cancel", "start", "exec"}
  BY DEF HonourCancel, StartSearch, SearchSucceeds, SearchFails, WorkerAt
<1>1. PICK j : j = JobOf(w) /\ j \in Jobs
  BY <1>0, EntryIs
<1>t. /\ TypeOK /\ rec \in [Jobs -> JobRecord] /\ RetriesOf(w) \in Nat /\ EntryOf(w)
      /\ wk[w].msg \in DOMAIN log /\ LastOfJob(wk[w].msg) /\ log[wk[w].msg].job = j
      /\ log[wk[w].msg].retries = RetriesOf(w) /\ DOMAIN log \subseteq Nat
  BY <1>0, <1>1, EntryIs, EntryIsLast
     DEF DeliveryInv, RecordsBehind, ExecutionInv, TypeOK, QueueTypeOK, JobOf, RetriesOf
<1>2. PICK q : q = Current(j)
  OBVIOUS
<1>3. q \in JobRecord /\ q.retries = rec[j].retries
  BY <1>1, <1>2, <1>t DEF Current, Blank, Absent, JobRecord, Live
<1>4. ASSUME NEW i \in DOMAIN log, log[i].job = j, Waiting(i)
      PROVE  i = wk[w].msg /\ rec[j].retries <= log[i].retries
  <2>1. rec[j].retries <= log[i].retries
    BY <1>4 DEF DeliveryInv, RecordsBehind
  <2>2. wk[w].msg <= i /\ i <= wk[w].msg
    BY <1>4, <1>t DEF DeliveryInv, ExecutionInv, LastOnesRun, LastOfJob
  <2>3. QED
    BY <1>t, <2>1, <2>2
<1>5. ASSUME NEW pc, NEW r, WorkerGoes(w, pc), rec' = [rec EXCEPT ![j] = r], r.state # "ABSENT",
             \/ pc = "exec" /\ r.retries = RetriesOf(w)
             \/ pc = "trim" /\ r.retries = RetriesOf(w) + 1
             \/ pc \in {"dlq", "ack"} /\ r.state \notin Live,
             \A i \in DOMAIN log : log[i].job = j /\ Waiting(i) => r.retries <= log[i].retries
      PROVE  ExpiryBudget' /\ RecordsBehind' /\ LastIsKept'
  <2>1. wk'[w].pc = pc /\ wk'[w].msg = wk[w].msg
    BY <1>5, <1>t, WorkerGoesOn
  <2>2. JobOf(w)' = j /\ RetriesOf(w)' = RetriesOf(w) /\ LastOfJob(wk[w].msg)'
    BY <1>0, <1>1, <1>t, <2>1 DEF JobOf, RetriesOf, LastOfJob
  <2>3. rec'[j] = r
    BY <1>1, <1>5, <1>t
  <2>4. r.retries = RetriesOf(w) + 1 => r.retries <= RetriesOf(w) + 1
    BY <1>t
  <2>5. r.retries = RetriesOf(w) => r.retries <= RetriesOf(w)
    BY <1>t
  <2>6. EntryOf(w)'
    BY <1>5, <2>1, <2>2, <2>3, <2>4, <2>5 DEF EntryOf
  <2>7. wk[w].pc \notin {"idle", "backoff"} /\ r # Absent
    BY <1>0, <1>5 DEF Absent
  <2>8. /\ \A v \in Workers \ {w} : wk'[v] = wk[v]
        /\ \A k \in Jobs \ {j} : rec'[k] = rec[k]
    BY <1>1, <1>5, <1>t, WorkerGoesOn
  <2>9. /\ UNCHANGED <<log, cl, left>> /\ j = JobOf(w) /\ rec'[j] # Absent
        /\ \A i \in DOMAIN log : log[i].job = j /\ Waiting(i) => rec'[j].retries <= log[i].retries
    BY <1>0, <1>1, <1>5, <2>3, <2>7
  <2>10. QED
    BY <1>1, <2>6, <2>7, <2>8, <2>9, DeliveryUpdate
<1>6. CASE HonourCancel(w)
  <2>1. PICK r : r = [q EXCEPT !.state = "CANCELED", !.canceled = TRUE]
    OBVIOUS
  <2>2. r.state = "CANCELED" /\ r.retries = rec[j].retries
    BY <1>3, <2>1 DEF JobRecord
  <2>3. WorkerGoes(w, "ack") /\ rec' = [rec EXCEPT ![j] = r]
    BY <1>1, <1>2, <1>6, <2>1 DEF HonourCancel, MarkCanceled
  <2>4. QED
    BY <1>4, <1>5, <2>2, <2>3 DEF Live
<1>7. CASE StartSearch(w)
  <2>1. PICK r : r = [q EXCEPT !.state = "RUNNING", !.retries = RetriesOf(w)]
    OBVIOUS
  <2>2. r.state = "RUNNING" /\ r.retries = RetriesOf(w)
    BY <1>3, <2>1 DEF JobRecord
  <2>3. WorkerGoes(w, "exec") /\ rec' = [rec EXCEPT ![j] = r]
    BY <1>1, <1>2, <1>7, <2>1 DEF StartSearch, MarkRunning
  <2>4. \A i \in DOMAIN log : log[i].job = j /\ Waiting(i) => r.retries <= log[i].retries
    BY <1>t, <1>4, <2>2
  <2>5. QED
    BY <1>5, <2>2, <2>3, <2>4
<1>8. CASE SearchSucceeds(w)
  <2>1. PICK r : r = [q EXCEPT !.state = "SUCCEEDED"]
    OBVIOUS
  <2>2. r.state = "SUCCEEDED" /\ r.retries = rec[j].retries
    BY <1>3, <2>1 DEF JobRecord
  <2>3. WorkerGoes(w, "ack") /\ rec' = [rec EXCEPT ![j] = r]
    BY <1>1, <1>2, <1>8, <2>1 DEF SearchSucceeds, MarkSucceeded
  <2>4. QED
    BY <1>4, <1>5, <2>2, <2>3 DEF Live
<1>9. CASE SearchFails(w)
  <2>1. wk[w].pc \in InRun
    BY <1>9 DEF SearchFails, WorkerAt, InRun
  <2>2. \A i \in DOMAIN log : log[i].job = j => ~Waiting(i)
    BY <1>1, <2>1, RunIsLast DEF DeliveryInv, ExecutionInv
  <2>3. PICK r, s : /\ s = IF MayRetry(RetriesOf(w)) THEN "PENDING" ELSE "FAILED"
                    /\ r = [q EXCEPT !.state = s, !.retries = RetriesOf(w) + 1]
    OBVIOUS
  <2>4. r.state = s /\ r.retries = RetriesOf(w) + 1
    BY <1>3, <2>3 DEF JobRecord
  <2>5. rec' = [rec EXCEPT ![j] = r]
    BY <1>1, <1>2, <1>9, <2>3 DEF SearchFails, MarkPendingRetry, MarkFailed
  <2>6. IF MayRetry(RetriesOf(w)) THEN WorkerGoes(w, "trim") ELSE WorkerGoes(w, "dlq")
    BY <1>9 DEF SearchFails
  <2>7. \A i \in DOMAIN log : log[i].job = j /\ Waiting(i) => r.retries <= log[i].retries
    BY <2>2
  <2>8. CASE MayRetry(RetriesOf(w))
    <3>1. WorkerGoes(w, "trim") /\ r.state = "PENDING"
      BY <2>3, <2>4, <2>6, <2>8
    <3>2. QED
      BY <1>5, <2>4, <2>5, <2>7, <3>1
  <2>9. CASE ~MayRetry(RetriesOf(w))
    <3>1. WorkerGoes(w, "dlq") /\ r.state = "FAILED"
      BY <2>3, <2>4, <2>6, <2>9
    <3>2. QED
      BY <1>5, <2>5, <2>7, <3>1 DEF Live
  <2>10. QED
    BY <2>8, <2>9
<1>10. QED
  BY <1>6, <1>7, <1>8, <1>9

\* A retry is added to the last entry of its job, which is last no more.
LEMMA DeliveryRetries ==
    ASSUME DeliveryInv, NoResends, NoResends', NEW w \in Workers, EnqueueRetry(w)
    PROVE  ExpiryBudget' /\ RecordsBehind' /\ LastIsKept'
<1> USE DEF DeliveryInv
<1>0. /\ wk[w].pc = "add" /\ WorkerGoes(w, "backoff") /\ UNCHANGED <<rec, cl>>
      /\ left'["expire"] = left["expire"]
  BY DEF EnqueueRetry, WorkerAt, Spend, ExecutionInv, TypeOK, Kinds
<1>1. /\ AttemptsKept /\ \A i \in DOMAIN log : log'[i] = log[i]
      /\ DOMAIN log' # DOMAIN log
      /\ \A i \in DOMAIN log' \ DOMAIN log :
            /\ log'[i].job = JobOf(w) /\ log'[i].retries = RetriesOf(w) + 1
            /\ log'[i].status = "ready"
  BY ExecutionRetry
<1>2. TypeOK'
  BY TypeStep DEF ExecutionInv, Next, WorkerStep
<1>3. /\ Len(log) \in Nat /\ DOMAIN log = 1..Len(log) /\ Len(log') \in Nat /\ DOMAIN log' = 1..Len(log')
      /\ wk[w].msg \in DOMAIN log /\ JobOf(w) \in Jobs
      /\ \A i \in DOMAIN log : log[i].job \in Jobs
  <2>1. Len(log') \in Nat /\ DOMAIN log' = 1..Len(log')
    BY <1>2, LenProperties DEF TypeOK, QueueTypeOK
  <2>2. QED
    BY <1>0, <2>1, StreamIs, EntryIs DEF ExecutionInv
<1>4. /\ wk'[w].pc = "backoff" /\ wk'[w].msg = wk[w].msg
      /\ \A v \in Workers \ {w} : wk'[v] = wk[v]
  BY <1>0, WorkerGoesOn DEF ExecutionInv
<1>5. /\ Enqueued' = Enqueued /\ (NothingExpired' <=> NothingExpired)
      /\ \A i \in DOMAIN log : LastOfJob(i)' => LastOfJob(i)
  <2>1. JobOf(w) \in Enqueued
    BY <1>3 DEF Enqueued, JobOf
  <2>2. \A i \in DOMAIN log' : log'[i].job \in Enqueued
    BY <1>1, <2>1 DEF Enqueued
  <2>3. Enqueued' = Enqueued
    BY <1>1, <2>2 DEF Enqueued, AttemptsKept
  <2>4. QED
    BY <1>0, <1>1, <2>3 DEF NothingExpired, Spent, LastOfJob, AttemptsKept
<1>6. EntryOf(w)'
  <2>1. PICK n \in DOMAIN log' : n \notin DOMAIN log
    BY <1>1 DEF AttemptsKept
  <2>2. log'[n].job = log'[wk[w].msg].job
    BY <1>1, <1>3, <2>1 DEF JobOf
  <2>3. n > Len(log) /\ wk[w].msg <= Len(log) /\ n \in Nat /\ wk[w].msg \in Nat
    BY <1>3, <2>1
  <2>4. ~(n <= wk[w].msg)
    BY <1>3, <2>3
  <2>5. ~LastOfJob(wk[w].msg)'
    BY <1>4, <2>1, <2>2, <2>4 DEF LastOfJob
  <2>6. QED
    BY <1>4, <2>5 DEF EntryOf
<1>7. ASSUME NEW v \in Workers \ {w} PROVE EntryOf(v)'
  <2>1. wk[v].pc \notin {"idle", "backoff"} => JobOf(v) # JobOf(w)
    BY <1>0, OneAtJob
  <2>2. wk'[v] = wk[v]
    BY <1>4
  <2>3. QED
    BY <1>0, <1>1, <1>5, <2>1, <2>2, EntryStays
<1>8. RecordsBehind'
  <2>1. ASSUME NEW i \in DOMAIN log', Waiting(i)' PROVE rec'[log'[i].job].retries <= log'[i].retries
    <3>1. CASE i \in DOMAIN log
      <4>1. Waiting(i)
        BY <2>1, <1>1, <3>1 DEF AttemptsKept
      <4>2. QED
        BY <1>0, <1>1, <3>1, <4>1 DEF RecordsBehind
    <3>2. CASE i \notin DOMAIN log
      <4>1. EntryOf(w)
        BY DEF RecordsBehind
      <4>2. QED
        BY <1>0, <1>1, <3>2, <4>1 DEF EntryOf
    <3>3. QED
      BY <3>1, <3>2
  <2>2. \A v \in Workers : EntryOf(v)'
    BY <1>6, <1>7
  <2>3. QED
    BY <1>0, <1>5, <2>1, <2>2 DEF RecordsBehind
<1>9. LastIsKept'
  <2>1. ASSUME NothingExpired, NEW i \in DOMAIN log', LastOfJob(i)', rec'[log'[i].job].state \in Live
        PROVE  log'[i].status # "acked"
    BY <1>0, <1>1, <1>5, <2>1 DEF LastIsKept
  <2>2. QED
    BY <1>0, <1>5, <2>1 DEF LastIsKept
<1>10. QED
  BY <1>0, <1>8, <1>9 DEF ExpiryBudget

\* A TTL that runs out ends what is claimed of records that stay.
LEMMA DeliveryExpiry ==
    ASSUME DeliveryInv, AttemptsKept, Expiry
    PROVE  ExpiryBudget' /\ RecordsBehind' /\ LastIsKept'
<1> USE DEF DeliveryInv
<1>0. /\ UNCHANGED <<log, wk, cl>> /\ left["expire"] \in Nat /\ Budget["expire"] \in Nat
      /\ left'["expire"] = left["expire"] - 1 /\ left["expire"] > 0
  BY BudgetAssumption DEF Expiry, Spend, ExecutionInv, TypeOK, Kinds
<1>1. ~NothingExpired' /\ ExpiryBudget'
  BY <1>0 DEF NothingExpired, Spent, ExpiryBudget
<1>2. \A j \in Jobs : rec'[j].retries = rec[j].retries \/ rec'[j].retries = 0
  <2>1. rec \in [Jobs -> JobRecord]
    BY DEF ExecutionInv, TypeOK, QueueTypeOK
  <2>2. QED
    BY <2>1 DEF Expiry, ExpireRecord, Absent
<1>3. \A i \in DOMAIN log : log[i].job \in Jobs /\ log[i].retries \in Nat
  BY StreamIs DEF ExecutionInv
<1>4. \A w \in Workers : EntryOf(w)'
  <2> SUFFICES ASSUME NEW w \in Workers, wk[w].pc # "idle" PROVE EntryOf(w)'
    BY <1>0 DEF EntryOf
  <2>1. JobOf(w)' = JobOf(w) /\ RetriesOf(w)' = RetriesOf(w) /\ JobOf(w) \in Jobs /\ RetriesOf(w) \in Nat
    BY <1>0, EntryIs DEF JobOf, RetriesOf
  <2>2. LastOfJob(wk[w].msg)' <=> LastOfJob(wk[w].msg)
    BY <1>0 DEF LastOfJob
  <2>3. EntryOf(w)
    BY DEF RecordsBehind
  <2>4. rec'[JobOf(w)].retries = rec[JobOf(w)].retries \/ rec'[JobOf(w)].retries = 0
    BY <1>2, <2>1
  <2>5. QED
    BY <1>0, <1>1, <2>1, <2>2, <2>3, <2>4 DEF EntryOf
<1>5. RecordsBehind'
  <2>1. ASSUME NEW i \in DOMAIN log, Waiting(i)' PROVE rec'[log[i].job].retries <= log[i].retries
    <3>1. Waiting(i) /\ log[i].job \in Jobs /\ log[i].retries \in Nat
      BY <1>3, <2>1 DEF AttemptsKept
    <3>2. rec[log[i].job].retries <= log[i].retries
      BY <3>1 DEF RecordsBehind
    <3>3. QED
      BY <1>2, <3>1, <3>2
  <2>2. \A j \in Jobs \ Enqueued' : rec'[j].retries = 0
    BY <1>0, <1>2 DEF RecordsBehind, Enqueued
  <2>3. QED
    BY <1>0, <1>4, <2>1, <2>2 DEF RecordsBehind
<1>6. QED
  BY <1>1, <1>5 DEF LastIsKept

\* Every step keeps the invariant.
LEMMA DeliveryStep ==
    ASSUME DeliveryInv, NoResends, NoResends', [Next]_vars
    PROVE  DeliveryInv'
<1>1. ExecutionInv' /\ UnbornJobs'
  BY ExecutionStep, CancelStep DEF DeliveryInv, CancelInv, ExecutionInv
<1>2. ExpiryBudget' /\ RecordsBehind' /\ LastIsKept'
  <2>1. CASE UNCHANGED vars
    <3>1. UNCHANGED <<log, rec, dlq, cl, wk, left>>
      BY <2>1 DEF vars, queueVars, processVars
    <3>2. QED
      BY <3>1 DEF DeliveryInv, ExpiryBudget, RecordsBehind, LastIsKept, EntryOf, LastOfJob, NothingExpired, Spent,
                  JobOf, RetriesOf, Waiting, Owns, Enqueued
  <2>2. CASE Expiry
    <3>1. UNCHANGED <<log, wk>>
      BY <2>2 DEF Expiry
    <3>2. AttemptsKept
      BY <3>1 DEF AttemptsKept, Waiting, Owns
    <3>3. QED
      BY <2>2, <3>2, DeliveryExpiry
  <2>3. ASSUME NEW w \in Workers, WorkerStep(w) \/ WorkerStops(w)
        PROVE  ExpiryBudget' /\ RecordsBehind' /\ LastIsKept'
    <3>1. AttemptsKept
      BY <2>3, ExecutionWorker DEF DeliveryInv
    <3>2. QED
      BY <2>3, <3>1, DeliveryReads, DeliveryRuns, DeliveryRetries DEF WorkerStep
  <2>4. QED
    BY <2>1, <2>2, <2>3, DeliveryClient DEF Next
<1>3. QED
  BY <1>1, <1>2 DEF DeliveryInv

\* The empty queue satisfies it.
LEMMA DeliveryInit == Init => DeliveryInv
<1> SUFFICES ASSUME Init PROVE DeliveryInv
  OBVIOUS
<1>1. ExecutionInv
  BY ExecutionInit
<1>2. /\ \A c \in Clients : cl[c].pc = "idle" /\ cl[c].job = NoJob
      /\ \A w \in Workers : wk[w].pc = "idle"
      /\ log = <<>> /\ Enqueued = {} /\ \A j \in Jobs : rec[j] = Absent
  BY DEF Init, QueueInit, IdleClient, IdleWorker, Enqueued
<1>3. UnbornJobs
  BY <1>2 DEF UnbornJobs, Unborn
<1>4. RecordsBehind
  BY <1>2 DEF RecordsBehind, EntryOf, Absent
<1>5. LastIsKept
  BY <1>2 DEF LastIsKept
<1>6. ExpiryBudget
  BY BudgetAssumption DEF Init, ExpiryBudget, Kinds
<1>7. QED
  BY <1>1, <1>3, <1>4, <1>5, <1>6 DEF DeliveryInv

-----------------------------------------------------------------------------
(* At least once. *)

\* Room between the two limits for the submissions that pass the guard together.
RoomForRaces == RejectAt + Cardinality(Clients) - 1 <= MaxLen

\* A job in the stream has a last entry.
LEMMA LastEntry ==
    ASSUME TypeOK, NEW j \in Enqueued
    PROVE  \E i \in DOMAIN log : log[i].job = j /\ LastOfJob(i)
<1>1. Len(log) \in Nat /\ DOMAIN log = 1..Len(log)
  BY StreamIs
<1>2. PICK n : n = Len(log) /\ n \in Nat
  BY <1>1
<1>3. PICK D : D = {k \in 0..n : n - k \in DOMAIN log /\ log[n - k].job = j}
  OBVIOUS
<1>4. D \subseteq Nat /\ D # {}
  <2>1. PICK i \in DOMAIN log : log[i].job = j
    BY DEF Enqueued
  <2>2. n - i \in 0..n /\ n - (n - i) = i
    BY <1>1, <1>2, <2>1
  <2>3. n - i \in D
    BY <1>3, <2>1, <2>2
  <2>4. QED
    BY <1>2, <1>3, <2>3
<1> DEFINE R == {ss \in Nat \X Nat : ss[1] < ss[2]}
<1>5. IsWellFoundedOn(R, Nat)
  BY NatLessThanWellFounded DEF OpToRel
<1>6. PICK k \in D : \A m \in D : <<m, k>> \notin R
  BY <1>4, <1>5, WFMin
<1>7. \A m \in D : ~(m < k)
  BY <1>4, <1>6
<1>8. ASSUME NEW i \in DOMAIN log, log[i].job = j PROVE i <= n - k
  <2>1. n - i \in 0..n /\ n - (n - i) = i /\ k \in 0..n
    BY <1>1, <1>2, <1>3, <1>6, <1>8
  <2>2. n - i \in D
    BY <1>3, <1>8, <2>1
  <2>3. ~(n - i < k)
    BY <1>7, <2>2
  <2>4. QED
    BY <1>1, <1>2, <2>1, <2>3
<1>9. n - k \in DOMAIN log /\ log[n - k].job = j
  BY <1>3, <1>6
<1>10. QED
  BY <1>8, <1>9 DEF LastOfJob

\* As long as no XADD is applied twice, a job in the stream that is not finished
\* has an entry that is undelivered or pending, until a record expires: whatever
\* workers and clients stop, cancel, retry or trim at whatever step.
THEOREM UnfinishedKept == Spec => [](NoResends /\ RoomForRaces => UnfinishedKeepsMessage)
<1>1. Init => (NoResends => DeliveryInv)
  BY DeliveryInit
<1>2. TypeOK /\ BudgetSpent /\ (NoResends => DeliveryInv) /\ [Next]_vars => (NoResends => DeliveryInv)'
  BY DeliveryStep, NotYet DEF NoResends, Kinds
<1>3. DeliveryInv /\ NoUndeliveredTrimmed /\ RoomForRaces => UnfinishedKeepsMessage
  <2> SUFFICES ASSUME DeliveryInv, NoUndeliveredTrimmed, RoomForRaces,
                      NothingExpired, NEW j \in Enqueued, Unfinished(j)
               PROVE  HasMessage(j)
    BY DEF UnfinishedKeepsMessage, NothingExpired
  <2>1. PICK i \in DOMAIN log : log[i].job = j /\ LastOfJob(i)
    BY LastEntry DEF DeliveryInv, ExecutionInv
  <2>2. log[i].status # "acked"
    BY <2>1 DEF Unfinished, DeliveryInv, LastIsKept
  <2>3. log[i].status \in {"ready", "pending"}
    <3>1. log[i] \in Message
      BY StreamIs DEF DeliveryInv, ExecutionInv
    <3>2. QED
      BY <2>2, <3>1 DEF Message
  <2>4. log[i].status = "ready" => i > trimmed
    <3>1. i \in Nat /\ i >= 1 /\ trimmed \in Nat
      BY StreamIs DEF DeliveryInv, ExecutionInv
    <3>2. i <= trimmed => i \in 1..trimmed
      BY <3>1
    <3>3. QED
      BY <3>1, <3>2 DEF NoUndeliveredTrimmed, RoomForRaces
  <2>5. QED
    BY <2>1, <2>3, <2>4 DEF HasMessage, Ready
<1>4. QED
  BY <1>1, <1>2, <1>3, TypeCorrect, BudgetKept, UndeliveredKept, PTL DEF Spec

-----------------------------------------------------------------------------
(* While nothing fails. *)

\* No process stops, no command raises, no record expires, no XADD is applied twice.
NoFaults == \A kind \in Kinds \ {"cancel"} : Budget[kind] = 0

\* A job that is in the stream, or that its caller is about to put there.
Backed(j) == \/ j \in Enqueued
             \/ \E c \in Clients : cl[c].pc \in {"trim", "add"} /\ cl[c].job = j

\* Only such jobs have a record, and only existing records are canceled.
RecordsBacked ==
    /\ \A c \in Clients : Flagging(c) => rec[cl[c].seen] # Absent
    /\ \A j \in Jobs : rec[j] # Absent => Backed(j)

NothingSpent == \A kind \in Kinds \ {"cancel"} : left[kind] = 0

BackedInv == DeliveryInv /\ NothingSpent /\ RecordsBacked

\* Without faults only whole calls and the loop of the workers take steps.
LEMMA FaultlessStep ==
    ASSUME TypeOK, NothingSpent, [Next]_vars
    PROVE  /\ NothingSpent'
           /\ \/ \E c \in Clients : ClientStep(c) \/ SubmitSearch(c) \/ CancelJob(c)
              \/ UNCHANGED cl
           /\ \A c \in Clients : ~SubmitFails(c) /\ ~ClientStops(c)
<1>1. \A kind \in Kinds \ {"cancel"} : ~Spend(kind)
  BY DEF Spend, NothingSpent
<1>2. /\ ~Expiry /\ \A c \in Clients : ~SubmitFails(c) /\ ~ClientStops(c)
      /\ \A w \in Workers : ~WorkerStops(w)
  BY <1>1 DEF Expiry, SubmitFails, ClientStops, WorkerStops, Kinds
<1>3. UNCHANGED left \/ Spend("cancel")
  BY <1>1, <1>2
     DEF Next, ClientStep, WorkerStep, SubmitSearch, ReuseJob, NothingToReuse, RejectSubmission,
         AdmitSubmission, ClaimFingerprint, LookupAgain, RebindFingerprint, CreateJobRecord,
         TruncateBeforeAdd, EnqueueJob, CheckOwner, ReleaseFingerprint, CancelJob, FlagCancel, CancelPending,
         ReadBatch, LoadRecord, HonourCancel, StartSearch, SearchSucceeds, SearchFails, TruncateBeforeRetry,
         EnqueueRetry, DeadLetter, AckMessage, Kinds, vars, processVars
<1>4. NothingSpent'
  BY <1>3 DEF NothingSpent, Spend, TypeOK
<1>5. ASSUME NEW w \in Workers, WorkerStep(w) PROVE UNCHANGED cl
  BY <1>5 DEF WorkerStep, ReadBatch, LoadRecord, HonourCancel, StartSearch, SearchSucceeds, SearchFails,
              TruncateBeforeRetry, EnqueueRetry, DeadLetter, AckMessage
<1>6. QED
  BY <1>2, <1>4, <1>5 DEF Next, vars, processVars

\* What a client is about to put into the stream it puts there.
LEMMA BackedStays ==
    ASSUME DeliveryInv, NothingSpent, NoResends, NoResends', [Next]_vars, NEW j \in Jobs, Backed(j)
    PROVE  Backed(j)'
<1>t. TypeOK /\ cl \in [Clients -> Client]
  BY DEF DeliveryInv, ExecutionInv, TypeOK, ClientsOK
<1>1. Enqueued \subseteq Enqueued'
  <2>1. AttemptsKept
    <3>1. CASE UNCHANGED <<log, wk>>
      BY <3>1 DEF AttemptsKept, Waiting, Owns
    <3>2. QED
      BY <3>1, ExecutionClient, ExecutionWorker
         DEF DeliveryInv, Next, Expiry, vars, queueVars, processVars
  <2>2. QED
    BY <2>1 DEF AttemptsKept, Enqueued
<1>2. CASE j \in Enqueued
  BY <1>1, <1>2 DEF Backed
<1>3. ASSUME NEW d \in Clients, cl[d].pc \in {"trim", "add"}, cl[d].job = j
      PROVE  Backed(j)'
  <2>1. CASE UNCHANGED cl
    BY <1>3, <2>1 DEF Backed
  <2>2. ASSUME NEW c \in Clients, c # d, ClientStep(c) \/ SubmitSearch(c) \/ CancelJob(c)
        PROVE  cl'[d] = cl[d]
    BY <1>t, <2>2
       DEF ClientStep, SubmitSearch, ReuseJob, NothingToReuse, RejectSubmission, AdmitSubmission,
           ClaimFingerprint, LookupAgain, RebindFingerprint, CreateJobRecord, TruncateBeforeAdd, EnqueueJob,
           CheckOwner, ReleaseFingerprint, CancelJob, FlagCancel, CancelPending, Lookup, Returns, ClientGoes
  <2>3. CASE ClientStep(d) \/ SubmitSearch(d) \/ CancelJob(d)
    <3>1. TruncateBeforeAdd(d) \/ EnqueueJob(d)
      BY <1>3, <2>3
         DEF ClientStep, SubmitSearch, ReuseJob, NothingToReuse, RejectSubmission, AdmitSubmission,
             ClaimFingerprint, LookupAgain, RebindFingerprint, CreateJobRecord, CheckOwner, ReleaseFingerprint,
             CancelJob, FlagCancel, CancelPending, ClientAt
    <3>2. CASE TruncateBeforeAdd(d)
      <4>1. cl'[d].pc = "add" /\ cl'[d].job = j
        BY <1>3, <1>t, <3>2 DEF TruncateBeforeAdd, ClientGoes, Client
      <4>2. QED
        BY <4>1 DEF Backed
    <3>3. CASE EnqueueJob(d)
      <4>1. log' = Append(log, Entry(j, cl[d].fp, 0))
        BY <1>3, <3>3 DEF EnqueueJob, Spend, NothingSpent, Kinds, Enqueue
      <4>2. log \in Seq(Message) /\ Len(log) + 1 \in DOMAIN log' /\ log'[Len(log) + 1] = Entry(j, cl[d].fp, 0)
        BY <1>t, <4>1, StreamIs DEF TypeOK, QueueTypeOK
      <4>3. log'[Len(log) + 1].job = j
        BY <4>2 DEF Entry
      <4>4. j \in Enqueued'
        BY <4>2, <4>3 DEF Enqueued
      <4>5. QED
        BY <4>4 DEF Backed
    <3>4. QED
      BY <3>1, <3>2, <3>3
  <2>4. CASE cl'[d] = cl[d]
    BY <1>3, <2>4 DEF Backed
  <2>5. QED
    BY <1>t, <2>1, <2>2, <2>3, <2>4, FaultlessStep
<1>4. QED
  BY <1>2, <1>3 DEF Backed

\* Every step keeps records and stream together.
LEMMA BackedStep ==
    ASSUME BackedInv, NoResends, NoResends', [Next]_vars, Budget["expire"] = 0
    PROVE  BackedInv'
<1> USE DEF BackedInv
<1>t. TypeOK /\ NothingExpired /\ cl \in [Clients -> Client]
  BY DEF DeliveryInv, ExecutionInv, TypeOK, ClientsOK, NothingExpired, NothingSpent, Spent, Kinds
<1>1. DeliveryInv' /\ NothingSpent'
  BY <1>t, DeliveryStep, FaultlessStep
<1>2. \A j \in Jobs : Backed(j) => Backed(j)'
  BY BackedStays
<1>3. \A j \in Jobs : Backed(j)' => rec'[j] # Absent
  BY <1>1 DEF Backed, DeliveryInv, LastIsKept, NothingExpired, NothingSpent, Spent, Kinds
<1>4. \A j \in Jobs : rec[j] # Absent => rec'[j] # Absent
  BY <1>2, <1>3 DEF RecordsBacked
<1>5. ASSUME NEW j \in Jobs, rec'[j] # Absent PROVE Backed(j)'
  <2>1. CASE Backed(j)
    BY <1>2, <2>1
  <2>2. CASE ~Backed(j)
    <3>1. rec[j] = Absent /\ j \notin Enqueued /\ \A d \in Clients : ~(Flagging(d) /\ cl[d].seen = j)
      BY <2>2 DEF RecordsBacked, Backed
    <3>2. PICK c \in Clients : CreateJobRecord(c) /\ cl[c].job = j
      BY <1>5, <1>t, <3>1, RecordStep, FaultlessStep
    <3>3. cl'[c].pc = "trim" /\ cl'[c].job = j
      BY <1>t, <3>2 DEF CreateJobRecord, ClientGoes, Client
    <3>4. QED
      BY <3>3 DEF Backed
  <2>3. QED
    BY <2>1, <2>2
<1>6. ASSUME NEW d \in Clients, Flagging(d)' PROVE rec'[cl'[d].seen] # Absent
  <2>1. ASSUME Flagging(d), cl'[d].seen = cl[d].seen PROVE rec'[cl'[d].seen] # Absent
    <3>1. cl[d].seen \in Jobs
      BY <1>t, <2>1 DEF TypeOK, ClientsOK, SawJob, Flagging
    <3>2. QED
      BY <1>4, <2>1, <3>1 DEF RecordsBacked
  <2>2. CASE CancelJob(d)
    <3>1. PICK k \in accepted :
            /\ rec[k].state \in Live
            /\ cl' = [cl EXCEPT ![d] = [cl[d] EXCEPT !.seen = k,
                     !.pc = IF rec[k].state = "PENDING" THEN "flag_pending" ELSE "flag_running"]]
      BY <2>2, <1>t DEF CancelJob
    <3>2. cl'[d].seen = k /\ k \in Jobs /\ rec[k] # Absent
      BY <1>t, <3>1 DEF TypeOK, Client, Absent, Live
    <3>3. QED
      BY <1>4, <3>2
  <2>3. CASE \E c \in Clients : AdmitSubmission(c)
    <3>1. PICK c \in Clients : AdmitSubmission(c)
      BY <2>3
    <3>2. PICK k : cl' = [cl EXCEPT ![c] = [cl[c] EXCEPT !.pc = "claim", !.job = k]]
      BY <3>1, Zenon DEF AdmitSubmission
    <3>3. cl'[c].pc = "claim" /\ \A e \in Clients \ {c} : cl'[e] = cl[e]
      BY <1>t, <3>2 DEF Client
    <3>4. Flagging(d) /\ cl'[d] = cl[d]
      BY <1>6, <3>3 DEF Flagging
    <3>5. QED
      BY <2>1, <3>4
  <2>4. QED
    BY <1>6, <1>t, <2>1, <2>2, <2>3, ClientsStep
<1>7. QED
  BY <1>1, <1>5, <1>6 DEF RecordsBacked

\* While nothing fails, an id that submit_search has returned names a job that is
\* finished, has an entry in the stream or is about to get one, whoever cancels.
THEOREM AcceptedBacked == Spec => [](NoFaults /\ RoomForRaces => AcceptedIsBacked)
<1>1. Init => (NoFaults => BackedInv)
  <2> SUFFICES ASSUME Init, NoFaults PROVE BackedInv
    OBVIOUS
  <2>1. NothingSpent
    BY DEF Init, NoFaults, NothingSpent
  <2>2. RecordsBacked
    BY DEF Init, QueueInit, RecordsBacked, IdleClient, Flagging
  <2>3. QED
    BY <2>1, <2>2, DeliveryInit DEF BackedInv
<1>2. NoFaults /\ NothingSpent => NoResends /\ Budget["expire"] = 0
  BY DEF NoFaults, NothingSpent, NoResends, Spent, Kinds
<1>3. (NoFaults => BackedInv) /\ [Next]_vars => (NoFaults => BackedInv)'
  <2> SUFFICES ASSUME NoFaults, BackedInv, [Next]_vars PROVE BackedInv'
    BY DEF NoFaults
  <2>1. NothingSpent'
    BY FaultlessStep DEF BackedInv, DeliveryInv, ExecutionInv
  <2>2. NoResends'
    BY <2>1 DEF NoFaults, NothingSpent, NoResends, Spent, Kinds
  <2>3. QED
    BY <1>2, <2>2, BackedStep DEF BackedInv
<1>4. NoFaults /\ BackedInv /\ UnfinishedKeepsMessage => AcceptedIsBacked
  <2> SUFFICES ASSUME BackedInv, UnfinishedKeepsMessage, Budget["expire"] = 0,
                      NEW j \in accepted, Unfinished(j)
               PROVE  \/ HasMessage(j)
                      \/ \E c \in Clients : cl[c].job = j /\ cl[c].pc \in {"trim", "add"}
    BY <1>2 DEF AcceptedIsBacked, BackedInv
  <2>1. j \in Jobs /\ rec[j] # Absent
    BY DEF BackedInv, DeliveryInv, ExecutionInv, TypeOK, Unfinished, Absent, Live
  <2>2. Backed(j)
    BY <2>1 DEF BackedInv, RecordsBacked
  <2>3. Spent("expire") = 0
    BY DEF BackedInv, NothingSpent, Spent, Kinds
  <2>4. QED
    BY <2>2, <2>3 DEF Backed, UnfinishedKeepsMessage
<1>5. BackedInv /\ NoFaults => NoResends
  BY <1>2 DEF BackedInv
<1>6. QED
  BY <1>1, <1>3, <1>4, <1>5, UnfinishedKept, PTL DEF Spec
=============================================================================
