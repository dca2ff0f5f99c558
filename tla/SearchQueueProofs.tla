------------------------- MODULE SearchQueueProofs -------------------------
(***************************************************************************)
(* Proofs about module SearchQueue, for every number of clients, workers,  *)
(* jobs, retries and faults.                                               *)
(***************************************************************************)
EXTENDS SearchQueue, SequenceTheorems, FiniteSetTheorems, WellFoundedInduction, TLAPS

-----------------------------------------------------------------------------
(* What the operations of RedisQueue do to the types. *)

\* XADD appends one well-formed entry, sent once or twice.
LEMMA EnqueueTypes ==
    ASSUME QueueTypeOK, NEW j \in Jobs, NEW f \in Fingerprints, NEW n \in Nat
    PROVE  /\ Enqueue(j, f, n) => log' \in Seq(Message) /\ Len(log') = Len(log) + 1
           /\ EnqueueTwice(j, f, n) => log' \in Seq(Message) /\ Len(log') = Len(log) + 2
<1>1. Entry(j, f, n) \in Message
  BY DEF Entry, Message
<1>2. /\ Append(log, Entry(j, f, n)) \in Seq(Message)
      /\ Len(Append(log, Entry(j, f, n))) = Len(log) + 1
  BY <1>1 DEF QueueTypeOK
<1>3. /\ Append(Append(log, Entry(j, f, n)), Entry(j, f, n)) \in Seq(Message)
      /\ Len(Append(Append(log, Entry(j, f, n)), Entry(j, f, n))) = Len(log) + 2
  BY <1>1, <1>2, AppendProperties, LenProperties DEF QueueTypeOK
<1>4. QED
  BY <1>2, <1>3 DEF Enqueue, EnqueueTwice

\* XREADGROUP changes the status of entries and nothing else.
LEMMA DeliverTypes ==
    ASSUME QueueTypeOK, NEW a, NEW b, Deliver(a, b)
    PROVE  /\ log' \in Seq(Message)
           /\ Len(log') = Len(log)
           /\ \A i \in DOMAIN log : log'[i].job = log[i].job
<1>1. log' = [i \in 1..Len(log) |->
                IF i \in a..b THEN [log[i] EXCEPT !.status = "pending"] ELSE log[i]]
  BY DEF Deliver, QueueTypeOK
<1>2. \A i \in 1..Len(log) : log[i] \in Message
  BY DEF QueueTypeOK
<1>3. \A i \in 1..Len(log) :
         (IF i \in a..b THEN [log[i] EXCEPT !.status = "pending"] ELSE log[i]) \in Message
  BY <1>2 DEF Message
<1>4. Len(log) \in Nat
  BY DEF QueueTypeOK
<1>5. log' \in Seq(Message) /\ Len(log') = Len(log)
  BY <1>1, <1>3, <1>4
<1>6. QED
  BY <1>1, <1>2, <1>5 DEF Message, QueueTypeOK

\* XACK changes the status of one entry.
LEMMA AcknowledgeTypes ==
    ASSUME QueueTypeOK, NEW i \in DOMAIN log, Acknowledge(i)
    PROVE  /\ log' \in Seq(Message)
           /\ Len(log') = Len(log)
           /\ \A k \in DOMAIN log : log'[k].job = log[k].job
<1>0. log[i] \in Message
  BY DEF QueueTypeOK
<1>1. [log[i] EXCEPT !.status = "acked"] \in Message
  BY <1>0 DEF Message
<1>2. log' = [log EXCEPT ![i] = [log[i] EXCEPT !.status = "acked"]]
  BY DEF Acknowledge
<1>3. QED
  BY <1>1, <1>2, ExceptSeq DEF QueueTypeOK, Message

\* Every write to a job hash leaves a well-formed hash.
LEMMA RecordTypes ==
    ASSUME QueueTypeOK, NEW j \in Jobs, NEW n \in Nat,
           \/ CreateRecord(j) \/ MarkRunning(j, n) \/ MarkPendingRetry(j, n) \/ MarkFailed(j, n)
           \/ MarkSucceeded(j) \/ MarkCanceled(j) \/ MarkCancelRequested(j)
    PROVE  rec' \in [Jobs -> JobRecord]
<1>1. Current(j) \in JobRecord /\ Blank \in JobRecord
  BY DEF QueueTypeOK, Current, Blank, JobRecord, Live
<1>2. \A s \in Live \cup Terminal : /\ [Current(j) EXCEPT !.state = s] \in JobRecord
                                   /\ [Current(j) EXCEPT !.state = s, !.retries = n] \in JobRecord
                                   /\ [Current(j) EXCEPT !.state = s, !.canceled = TRUE] \in JobRecord
  BY <1>1 DEF JobRecord
<1>3. [Current(j) EXCEPT !.canceled = TRUE] \in JobRecord
  BY <1>1 DEF JobRecord
<1>4. \E r \in JobRecord : rec' = [rec EXCEPT ![j] = r]
  BY <1>1, <1>2, <1>3
     DEF CreateRecord, MarkRunning, MarkPendingRetry, MarkFailed, MarkSucceeded,
         MarkCanceled, MarkCancelRequested, Live, Terminal
<1>5. QED
  BY <1>4 DEF QueueTypeOK

\* XTRIM stays within the stream.
LEMMA TruncateTypes ==
    ASSUME QueueTypeOK, TruncateIfNeeded
    PROVE  trimmed' \in 0..Len(log)
BY LimitsAssumption DEF TruncateIfNeeded, QueueTypeOK

-----------------------------------------------------------------------------
(* Moving a client or a worker keeps their types. *)

\* A client that keeps its ids may go anywhere its ids allow.
LEMMA ClientGoesTypes ==
    ASSUME ClientsOK, NEW c \in Clients, NEW pc \in ClientPC, ClientGoes(c, pc),
           pc \in OwnsJob => cl[c].job \in Jobs,
           pc \in SawJob => cl[c].seen \in Jobs
    PROVE  ClientsOK'
<1>1. [cl[c] EXCEPT !.pc = pc] \in Client
  BY DEF ClientsOK, Client
<1>2. cl' = [cl EXCEPT ![c] = [cl[c] EXCEPT !.pc = pc]]
  BY DEF ClientGoes
<1>3. cl' \in [Clients -> Client]
  BY <1>1, <1>2 DEF ClientsOK
<1>4. QED
  BY <1>2, <1>3 DEF ClientsOK, Client

\* A call that returns leaves an idle client.
LEMMA ReturnsTypes ==
    ASSUME ClientsOK, NEW c \in Clients, Returns(c)
    PROVE  ClientsOK'
BY FingerprintsAssumption
   DEF ClientsOK, Returns, IdleClient, Client, ClientPC, OwnsJob, SawJob

\* GET of a fingerprint key yields a job id, or the place to go without one.
LEMMA LookupTypes ==
    ASSUME ClientsOK, QueueTypeOK, NEW c \in Clients, NEW f \in Fingerprints,
           NEW job \in Jobs \cup {NoJob}, NEW notFound \in ClientPC, Lookup(c, f, job, notFound),
           notFound \in OwnsJob => job \in Jobs, notFound \notin SawJob
    PROVE  ClientsOK'
<1> DEFINE r == [pc |-> IF fps[f] = NoJob THEN notFound ELSE "inspect",
                 fp |-> f, job |-> job, seen |-> fps[f]]
<1>1. r \in Client
  BY DEF QueueTypeOK, Client, ClientPC
<1>2. cl' = [cl EXCEPT ![c] = r]
  BY DEF Lookup
<1>3. r.pc \in OwnsJob => r.job \in Jobs
  BY DEF OwnsJob
<1>4. r.pc \in SawJob => r.seen \in Jobs
  BY DEF SawJob, QueueTypeOK
<1>5. QED
  BY <1>1, <1>2, <1>3, <1>4 DEF ClientsOK

\* A worker that is at a message may go anywhere with it.
LEMMA WorkerGoesTypes ==
    ASSUME WorkersOK, NEW w \in Workers, NEW pc \in WorkerPC, WorkerGoes(w, pc),
           ~WorkerAt(w, "idle"), DOMAIN log \subseteq DOMAIN log'
    PROVE  WorkersOK'
<1>1. [wk[w] EXCEPT !.pc = pc] \in Worker
  BY DEF WorkersOK, Worker
<1>2. wk' = [wk EXCEPT ![w] = [wk[w] EXCEPT !.pc = pc]]
  BY DEF WorkerGoes
<1>3. QED
  BY <1>1, <1>2 DEF WorkersOK, WorkerAt, Worker

\* The stream only grows, so the entries workers point at stay in it.
LEMMA WorkerStaysTypes ==
    ASSUME WorkersOK, UNCHANGED wk, DOMAIN log \subseteq DOMAIN log'
    PROVE  WorkersOK'
BY DEF WorkersOK

\* The message a worker is at.
LEMMA WorkerMessage ==
    ASSUME QueueTypeOK, WorkersOK, NEW w \in Workers, ~WorkerAt(w, "idle")
    PROVE  JobOf(w) \in Jobs /\ RequestOf(w) \in Fingerprints /\ RetriesOf(w) \in Nat
<1>1. log[wk[w].msg] \in Message
  BY DEF QueueTypeOK, WorkersOK, WorkerAt
<1>2. QED
  BY <1>1 DEF JobOf, RequestOf, RetriesOf, Message

-----------------------------------------------------------------------------
(* Type correctness: a step of a client. *)

\* The empty system is well formed.
LEMMA TypeInit == Init => TypeOK
<1> SUFFICES ASSUME Init PROVE TypeOK
  OBVIOUS
<1>1. QueueTypeOK
  BY DEF Init, QueueInit, QueueTypeOK, Absent, JobRecord
<1>2. ClientsOK
  BY FingerprintsAssumption
     DEF Init, ClientsOK, IdleClient, Client, ClientPC, OwnsJob, SawJob
<1>3. WorkersOK
  BY DEF Init, WorkersOK, IdleWorker, Worker, WorkerPC
<1>4. QED
  BY <1>1, <1>2, <1>3, BudgetAssumption DEF Init, TypeOK

\* Every fault, cancellation or resend takes one from the budget.
LEMMA SpendTypes ==
    ASSUME NEW kind \in Kinds, left \in [Kinds -> Nat], Spend(kind)
    PROVE  left' \in [Kinds -> Nat]
BY DEF Spend

\* submit_search keeps the types until its fingerprint is bound.
LEMMA TypeSubmit ==
    ASSUME TypeOK, NEW c \in Clients,
           \/ SubmitSearch(c) \/ ReuseJob(c) \/ NothingToReuse(c) \/ RejectSubmission(c)
           \/ AdmitSubmission(c) \/ ClaimFingerprint(c) \/ LookupAgain(c) \/ RebindFingerprint(c)
    PROVE  TypeOK'
<1> USE DEF TypeOK
<1>w. UNCHANGED <<log, wk>> => WorkersOK'
  BY WorkerStaysTypes
<1>1. CASE SubmitSearch(c)
  <2>1. PICK f \in Fingerprints : Lookup(c, f, NoJob, "guard")
    BY <1>1 DEF SubmitSearch
  <2>2. ClientsOK'
    BY <2>1, LookupTypes DEF ClientPC, OwnsJob, SawJob
  <2>3. QED
    BY <1>1, <2>2, <1>w DEF SubmitSearch, queueVars, QueueTypeOK
<1>2. CASE ReuseJob(c)
  <2>1. cl[c].seen \in Jobs
    BY <1>2 DEF ReuseJob, ClientAt, ClientsOK, SawJob
  <2>2. QED
    BY <1>2, <2>1, <1>w, ReturnsTypes DEF ReuseJob, queueVars, QueueTypeOK
<1>3. CASE NothingToReuse(c)
  <2>1. /\ [cl[c] EXCEPT !.pc = IF cl[c].job = NoJob THEN "guard" ELSE "bind", !.seen = NoJob] \in Client
        /\ cl[c].job # NoJob => cl[c].job \in Jobs
    BY DEF ClientsOK, Client, ClientPC
  <2>2. ClientsOK'
    BY <1>3, <2>1 DEF NothingToReuse, ClientsOK, OwnsJob, SawJob, Client
  <2>3. QED
    BY <1>3, <2>2, <1>w DEF NothingToReuse, queueVars, QueueTypeOK
<1>4. CASE RejectSubmission(c)
  BY <1>4, <1>w, ReturnsTypes DEF RejectSubmission, queueVars, QueueTypeOK
<1>5. CASE AdmitSubmission(c)
  <2>0. FreshJobs \subseteq Jobs
    BY DEF FreshJobs
  <2>1. PICK j \in FreshJobs : cl' = [cl EXCEPT ![c] = [cl[c] EXCEPT !.pc = "claim", !.job = j]]
    BY <1>5, Zenon DEF AdmitSubmission
  <2>2. [cl[c] EXCEPT !.pc = "claim", !.job = j] \in Client
    BY <2>0 DEF ClientsOK, Client, ClientPC
  <2>3. ClientsOK'
    BY <2>0, <2>1, <2>2 DEF ClientsOK, OwnsJob, SawJob, Client
  <2>4. QED
    BY <1>5, <2>3, <1>w DEF AdmitSubmission, queueVars, QueueTypeOK
<1>6. CASE ClaimFingerprint(c)
  <2>1. cl[c].job \in Jobs /\ cl[c].fp \in Fingerprints
    BY <1>6 DEF ClaimFingerprint, ClientAt, ClientsOK, OwnsJob, Client
  <2>2. ClientsOK'
    BY <1>6, <2>1, ClientGoesTypes DEF ClaimFingerprint, ClientPC, OwnsJob, SawJob
  <2>3. QueueTypeOK'
    BY <1>6, <2>1 DEF ClaimFingerprint, BindFingerprint, QueueTypeOK
  <2>4. QED
    BY <1>6, <2>2, <2>3, <1>w DEF ClaimFingerprint
<1>7. CASE LookupAgain(c)
  <2>1. cl[c].job \in Jobs /\ cl[c].fp \in Fingerprints
    BY <1>7 DEF LookupAgain, ClientAt, ClientsOK, OwnsJob, Client
  <2>2. ClientsOK'
    BY <1>7, <2>1, LookupTypes DEF LookupAgain, ClientPC, OwnsJob, SawJob
  <2>3. QED
    BY <1>7, <2>2, <1>w DEF LookupAgain, queueVars, QueueTypeOK
<1>8. CASE RebindFingerprint(c)
  <2>1. cl[c].job \in Jobs /\ cl[c].fp \in Fingerprints
    BY <1>8 DEF RebindFingerprint, ClientAt, ClientsOK, OwnsJob, Client
  <2>2. ClientsOK'
    BY <1>8, <2>1, ClientGoesTypes DEF RebindFingerprint, ClientPC, OwnsJob, SawJob
  <2>3. QueueTypeOK'
    BY <1>8, <2>1 DEF RebindFingerprint, BindFingerprint, QueueTypeOK
  <2>4. QED
    BY <1>8, <2>2, <2>3, <1>w DEF RebindFingerprint
<1>9. QED
  BY <1>1, <1>2, <1>3, <1>4, <1>5, <1>6, <1>7, <1>8

\* The rest of submit_search, and its except clause, keep the types.
LEMMA TypeEnqueue ==
    ASSUME TypeOK, NEW c \in Clients,
           \/ CreateJobRecord(c) \/ TruncateBeforeAdd(c) \/ EnqueueJob(c) \/ SubmitFails(c)
           \/ CheckOwner(c) \/ ReleaseFingerprint(c) \/ ClientStops(c)
    PROVE  TypeOK'
<1> USE DEF TypeOK
<1>w. UNCHANGED wk /\ DOMAIN log \subseteq DOMAIN log' => WorkersOK'
  BY WorkerStaysTypes
<1>o. cl[c].pc \in OwnsJob => cl[c].job \in Jobs /\ cl[c].fp \in Fingerprints
  BY DEF ClientsOK, Client
<1>1. CASE CreateJobRecord(c)
  <2>1. cl[c].job \in Jobs
    BY <1>1, <1>o DEF CreateJobRecord, ClientAt, OwnsJob
  <2>2. QueueTypeOK'
    BY <1>1, <2>1, RecordTypes DEF CreateJobRecord, QueueTypeOK
  <2>3. ClientsOK'
    BY <1>1, <2>1, ClientGoesTypes DEF CreateJobRecord, ClientPC, SawJob
  <2>4. QED
    BY <1>1, <2>2, <2>3, <1>w DEF CreateJobRecord
<1>2. CASE TruncateBeforeAdd(c)
  <2>1. cl[c].job \in Jobs
    BY <1>2, <1>o DEF TruncateBeforeAdd, ClientAt, OwnsJob
  <2>2. QueueTypeOK'
    BY <1>2, TruncateTypes DEF TruncateBeforeAdd, QueueTypeOK
  <2>3. ClientsOK'
    BY <1>2, <2>1, ClientGoesTypes DEF TruncateBeforeAdd, ClientPC, SawJob
  <2>4. QED
    BY <1>2, <2>2, <2>3, <1>w DEF TruncateBeforeAdd
<1>3. CASE EnqueueJob(c)
  <2>1. cl[c].job \in Jobs /\ cl[c].fp \in Fingerprints
    BY <1>3, <1>o DEF EnqueueJob, ClientAt, OwnsJob
  <2>2. log' \in Seq(Message) /\ Len(log') \in Nat /\ Len(log') >= Len(log)
    BY <1>3, <2>1, EnqueueTypes, LenProperties DEF EnqueueJob, QueueTypeOK
  <2>3. QueueTypeOK' /\ DOMAIN log \subseteq DOMAIN log'
    BY <1>3, <2>2 DEF EnqueueJob, QueueTypeOK
  <2>4. left' \in [Kinds -> Nat]
    BY <1>3, SpendTypes DEF EnqueueJob, Kinds
  <2>5. QED
    BY <1>3, <2>1, <2>3, <2>4, <1>w, ReturnsTypes DEF EnqueueJob
<1>4. CASE SubmitFails(c)
  <2>1. cl[c].job \in Jobs /\ cl[c].fp \in Fingerprints
    BY <1>4, <1>o DEF SubmitFails, OwnsJob
  <2>2. log' \in Seq(Message) /\ Len(log') \in Nat /\ Len(log') >= Len(log)
    BY <1>4, <2>1, EnqueueTypes, LenProperties DEF SubmitFails, QueueTypeOK
  <2>3. rec' \in [Jobs -> JobRecord]
    BY <1>4, <2>1, RecordTypes DEF SubmitFails, QueueTypeOK
  <2>4. QueueTypeOK' /\ DOMAIN log \subseteq DOMAIN log'
    BY <1>4, <2>2, <2>3 DEF SubmitFails, QueueTypeOK
  <2>5. ClientsOK'
    BY <1>4, <2>1, ClientGoesTypes DEF SubmitFails, ClientPC, SawJob
  <2>6. QED
    BY <1>4, <2>4, <2>5, <1>w, SpendTypes DEF SubmitFails, Kinds
<1>5. CASE CheckOwner(c)
  <2>1. cl[c].job \in Jobs
    BY <1>5, <1>o DEF CheckOwner, ClientAt, OwnsJob
  <2>2. ClientsOK'
    BY <1>5, <2>1, ClientGoesTypes, ReturnsTypes DEF CheckOwner, ClientPC, SawJob
  <2>3. QED
    BY <1>5, <2>2, <1>w DEF CheckOwner, queueVars, QueueTypeOK
<1>6. CASE ReleaseFingerprint(c)
  <2>1. QueueTypeOK'
    BY <1>6 DEF ReleaseFingerprint, DeleteFingerprint, QueueTypeOK
  <2>2. QED
    BY <1>6, <2>1, <1>w, ReturnsTypes DEF ReleaseFingerprint
<1>7. CASE ClientStops(c)
  BY <1>7, <1>w, SpendTypes, ReturnsTypes DEF ClientStops, Kinds, queueVars, QueueTypeOK
<1>8. QED
  BY <1>1, <1>2, <1>3, <1>4, <1>5, <1>6, <1>7

\* cancel_job keeps the types.
LEMMA TypeCancel ==
    ASSUME TypeOK, NEW c \in Clients, CancelJob(c) \/ FlagCancel(c) \/ CancelPending(c)
    PROVE  TypeOK'
<1> USE DEF TypeOK
<1>w. UNCHANGED <<log, wk>> => WorkersOK'
  BY WorkerStaysTypes
<1>o. cl[c].pc \in SawJob => cl[c].seen \in Jobs
  BY DEF ClientsOK
<1>1. CASE CancelJob(c)
  <2>1. PICK j \in Jobs :
          cl' = [cl EXCEPT ![c] = [cl[c] EXCEPT !.seen = j,
                   !.pc = IF rec[j].state = "PENDING" THEN "flag_pending" ELSE "flag_running"]]
    BY <1>1, ZenonT(60) DEF CancelJob
  <2>2. /\ cl' \in [Clients -> Client]
        /\ cl'[c].seen = j /\ cl'[c].pc \notin OwnsJob
        /\ \A d \in Clients \ {c} : cl'[d] = cl[d]
    BY <2>1, ZenonT(60) DEF ClientsOK, Client, ClientPC, OwnsJob
  <2>3. ClientsOK'
    BY <2>2 DEF ClientsOK
  <2>4. QED
    BY <1>1, <2>3, <1>w, SpendTypes DEF CancelJob, Kinds, queueVars, QueueTypeOK
<1>2. CASE FlagCancel(c)
  <2>1. cl[c].seen \in Jobs
    BY <1>2, <1>o DEF FlagCancel, SawJob
  <2>2. QueueTypeOK'
    BY <1>2, <2>1, RecordTypes DEF FlagCancel, QueueTypeOK
  <2>3. ClientsOK'
    BY <1>2, <2>1, ClientGoesTypes, ReturnsTypes DEF FlagCancel, ClientPC, OwnsJob
  <2>4. QED
    BY <1>2, <2>2, <2>3, <1>w DEF FlagCancel
<1>3. CASE CancelPending(c)
  <2>1. cl[c].seen \in Jobs
    BY <1>3, <1>o DEF CancelPending, ClientAt, SawJob
  <2>2. QueueTypeOK'
    BY <1>3, <2>1, RecordTypes DEF CancelPending, QueueTypeOK
  <2>3. QED
    BY <1>3, <2>2, <1>w, ReturnsTypes DEF CancelPending
<1>4. QED
  BY <1>1, <1>2, <1>3

-----------------------------------------------------------------------------
(* Type correctness: a step of a worker. *)

\* XREADGROUP gives a worker entries of the stream.
LEMMA TypeRead ==
    ASSUME TypeOK, NEW w \in Workers, ReadBatch(w)
    PROVE  TypeOK'
<1> USE DEF TypeOK
<1>1. PICK n \in 1..BatchSize :
         /\ Deliver(NextReady, LastOf(n))
         /\ wk' = [wk EXCEPT ![w] = [pc |-> "load", msg |-> NextReady, last |-> LastOf(n)]]
  BY DEF ReadBatch
<1>2. NextReady \in DOMAIN log
  <2>1. \A i \in Ready : i \in Nat
    BY DEF Ready, QueueTypeOK
  <2>2. \E i \in Ready : \A k \in Ready : i <= k
    <3>1. Ready # {} /\ Ready \subseteq Nat
      BY <2>1 DEF ReadBatch
    <3> DEFINE R == {ss \in Nat \X Nat : ss[1] < ss[2]}
    <3>2. IsWellFoundedOn(R, Nat)
      BY NatLessThanWellFounded DEF OpToRel
    <3>3. PICK i \in Ready : \A k \in Ready : <<k, i>> \notin R
      BY <3>1, <3>2, WFMin
    <3>4. \A k \in Ready : ~(k < i)
      BY <3>1, <3>3
    <3>5. QED
      BY <3>1, <3>4
  <2>3. NextReady \in Ready
    BY <2>2 DEF NextReady
  <2>4. QED
    BY <2>3 DEF Ready
<1>3. LastOf(n) \in DOMAIN log
  BY <1>2, BatchAssumption DEF LastOf, QueueTypeOK
<1>4. log' \in Seq(Message) /\ Len(log') = Len(log)
  BY <1>1, DeliverTypes
<1>5. QueueTypeOK' /\ DOMAIN log' = DOMAIN log
  BY <1>4 DEF ReadBatch, QueueTypeOK
<1>6. WorkersOK'
  BY <1>1, <1>2, <1>3, <1>5 DEF WorkersOK, Worker, WorkerPC, QueueTypeOK
<1>7. ClientsOK'
  BY DEF ReadBatch, ClientsOK
<1>8. QED
  BY <1>5, <1>6, <1>7 DEF ReadBatch

\* Every step of _process_message keeps the types.
LEMMA TypeProcess ==
    ASSUME TypeOK, NEW w \in Workers,
           \/ LoadRecord(w) \/ HonourCancel(w) \/ StartSearch(w) \/ SearchSucceeds(w)
           \/ SearchFails(w) \/ TruncateBeforeRetry(w) \/ EnqueueRetry(w) \/ DeadLetter(w)
           \/ AckMessage(w) \/ WorkerStops(w)
    PROVE  TypeOK'
<1> USE DEF TypeOK
<1>a. ~WorkerAt(w, "idle")
  BY DEF LoadRecord, HonourCancel, StartSearch, SearchSucceeds, SearchFails,
         TruncateBeforeRetry, EnqueueRetry, DeadLetter, AckMessage, WorkerStops, WorkerAt
<1>m. JobOf(w) \in Jobs /\ RequestOf(w) \in Fingerprints /\ RetriesOf(w) \in Nat
  BY <1>a, WorkerMessage
<1>n. RetriesOf(w) + 1 \in Nat
  BY <1>m
<1>c. UNCHANGED cl => ClientsOK'
  BY DEF ClientsOK
<1>w. ASSUME NEW pc \in WorkerPC, WorkerGoes(w, pc), DOMAIN log \subseteq DOMAIN log'
      PROVE  WorkersOK'
  BY <1>a, <1>w, WorkerGoesTypes
<1>1. CASE LoadRecord(w)
  <2>1. \E pc \in WorkerPC : WorkerGoes(w, pc)
    BY <1>1 DEF LoadRecord, WorkerPC
  <2>2. QED
    BY <1>1, <2>1, <1>w, <1>c DEF LoadRecord, queueVars, QueueTypeOK
<1>2. CASE HonourCancel(w)
  <2>1. QueueTypeOK'
    BY <1>2, <1>m, RecordTypes DEF HonourCancel, QueueTypeOK
  <2>2. QED
    BY <1>2, <2>1, <1>w, <1>c DEF HonourCancel, WorkerPC
<1>3. CASE StartSearch(w)
  <2>1. QueueTypeOK'
    BY <1>3, <1>m, RecordTypes DEF StartSearch, QueueTypeOK
  <2>2. runs' \in [Jobs -> Nat]
    BY <1>3, <1>m DEF StartSearch
  <2>3. QED
    BY <1>3, <2>1, <2>2, <1>w, <1>c DEF StartSearch, WorkerPC
<1>4. CASE SearchSucceeds(w)
  <2>1. QueueTypeOK'
    BY <1>4, <1>m, RecordTypes DEF SearchSucceeds, QueueTypeOK
  <2>2. QED
    BY <1>4, <2>1, <1>w, <1>c DEF SearchSucceeds, WorkerPC
<1>5. CASE SearchFails(w)
  <2>1. QueueTypeOK'
    BY <1>5, <1>m, <1>n, RecordTypes DEF SearchFails, QueueTypeOK
  <2>2. \E pc \in WorkerPC : WorkerGoes(w, pc)
    BY <1>5 DEF SearchFails, WorkerPC
  <2>3. QED
    BY <1>5, <2>1, <2>2, <1>w, <1>c DEF SearchFails
<1>6. CASE TruncateBeforeRetry(w)
  <2>1. QueueTypeOK'
    BY <1>6, TruncateTypes DEF TruncateBeforeRetry, QueueTypeOK
  <2>2. QED
    BY <1>6, <2>1, <1>w, <1>c DEF TruncateBeforeRetry, WorkerPC
<1>7. CASE EnqueueRetry(w)
  <2>1. log' \in Seq(Message) /\ Len(log') \in Nat /\ Len(log') >= Len(log)
    BY <1>7, <1>m, <1>n, EnqueueTypes, LenProperties DEF EnqueueRetry, QueueTypeOK
  <2>2. QueueTypeOK' /\ DOMAIN log \subseteq DOMAIN log'
    BY <1>7, <2>1 DEF EnqueueRetry, QueueTypeOK
  <2>3. left' \in [Kinds -> Nat]
    BY <1>7, SpendTypes DEF EnqueueRetry, Kinds
  <2>4. QED
    BY <1>7, <2>2, <2>3, <1>w, <1>c DEF EnqueueRetry, WorkerPC
<1>8. CASE DeadLetter(w)
  <2>1. QueueTypeOK'
    BY <1>8, <1>m DEF DeadLetter, MoveToDlq, QueueTypeOK
  <2>2. left' \in [Kinds -> Nat]
    BY <1>8, SpendTypes DEF DeadLetter, Kinds
  <2>3. QED
    BY <1>8, <2>1, <2>2, <1>w, <1>c DEF DeadLetter, WorkerPC
<1>9. CASE AckMessage(w)
  <2>1. wk[w].msg \in DOMAIN log /\ wk[w].last \in DOMAIN log
    BY <1>a DEF WorkersOK, WorkerAt
  <2>2. log' \in Seq(Message) /\ Len(log') = Len(log)
    BY <1>9, <2>1, AcknowledgeTypes DEF AckMessage
  <2>3. QueueTypeOK' /\ DOMAIN log' = DOMAIN log
    BY <1>9, <2>2 DEF AckMessage, QueueTypeOK
  <2>4. DOMAIN log = 1..Len(log) /\ Len(log) \in Nat
    BY DEF QueueTypeOK
  <2>5. WorkersOK'
    BY <1>9, <2>1, <2>3, <2>4 DEF AckMessage, WorkersOK, Worker, WorkerPC, IdleWorker
  <2>6. QED
    BY <1>9, <2>3, <2>5, <1>c DEF AckMessage
<1>10. CASE WorkerStops(w)
  <2>1. WorkersOK'
    BY <1>10 DEF WorkerStops, WorkersOK, Worker, WorkerPC, IdleWorker, queueVars
  <2>2. QED
    BY <1>10, <2>1, <1>c, SpendTypes DEF WorkerStops, Kinds, queueVars, QueueTypeOK
<1>11. QED
  BY <1>1, <1>2, <1>3, <1>4, <1>5, <1>6, <1>7, <1>8, <1>9, <1>10

\* A TTL that runs out keeps the types.
LEMMA TypeExpiry ==
    ASSUME TypeOK, Expiry
    PROVE  TypeOK'
<1> USE DEF TypeOK
<1>1. Absent \in JobRecord
  BY DEF Absent, JobRecord
<1>2. CASE \E j \in Jobs : ExpireRecord(j) /\ UNCHANGED fps
  <2>1. rec' \in [Jobs -> JobRecord]
    BY <1>1, <1>2 DEF ExpireRecord, QueueTypeOK
  <2>2. QED
    BY <1>2, <2>1, SpendTypes, WorkerStaysTypes DEF Expiry, Kinds, ClientsOK, QueueTypeOK
<1>3. CASE \E f \in Fingerprints : ExpireFingerprint(f) /\ UNCHANGED rec
  <2>1. fps' \in [Fingerprints -> Jobs \cup {NoJob}]
    BY <1>3 DEF ExpireFingerprint, QueueTypeOK
  <2>2. QED
    BY <1>3, <2>1, SpendTypes, WorkerStaysTypes DEF Expiry, Kinds, ClientsOK, QueueTypeOK
<1>4. QED
  BY <1>2, <1>3 DEF Expiry

\* Every step keeps the types.
LEMMA TypeStep ==
    ASSUME TypeOK, [Next]_vars
    PROVE  TypeOK'
<1>1. ASSUME NEW c \in Clients,
             ClientStep(c) \/ SubmitSearch(c) \/ CancelJob(c) \/ SubmitFails(c) \/ ClientStops(c)
      PROVE  TypeOK'
  BY <1>1, TypeSubmit, TypeEnqueue, TypeCancel DEF ClientStep
<1>2. ASSUME NEW w \in Workers, WorkerStep(w) \/ WorkerStops(w)
      PROVE  TypeOK'
  BY <1>2, TypeRead, TypeProcess DEF WorkerStep
<1>3. CASE Expiry
  BY <1>3, TypeExpiry
<1>4. CASE UNCHANGED vars
  BY <1>4 DEF vars, queueVars, processVars, TypeOK, QueueTypeOK, ClientsOK, WorkersOK
<1>5. QED
  BY <1>1, <1>2, <1>3, <1>4 DEF Next

\* Every variable keeps its type, a client that is past the guard holds a job
\* id, one that inspects a record holds the id it read, and a worker that is
\* not idle points into the stream.
THEOREM TypeCorrect == Spec => []TypeOK
BY TypeInit, TypeStep, PTL DEF Spec

-----------------------------------------------------------------------------
(***************************************************************************)
(* Why submit_search stops admitting jobs for good: XACK does not shorten  *)
(* the stream, and XTRIM leaves at least queue_max_len entries, which the  *)
(* configuration keeps at or above queue_reject_at.                        *)
(***************************************************************************)

AdmissionInv == TypeOK /\ TrimFloor /\ AdmissionBound

-----------------------------------------------------------------------------
(* The sets that are counted. *)

\* A stream holds the messages of at most as many jobs as it has entries.
LEMMA EnqueuedCount ==
    ASSUME QueueTypeOK
    PROVE  IsFiniteSet(Enqueued) /\ Cardinality(Enqueued) <= Len(log)
<1> DEFINE f == [i \in 1..Len(log) |-> log[i].job]
<1>1. Len(log) \in Nat /\ DOMAIN log = 1..Len(log)
  BY DEF QueueTypeOK
<1>2. IsFiniteSet(1..Len(log)) /\ Cardinality(1..Len(log)) = Len(log)
  <2>1. /\ IsFiniteSet(1..Len(log))
        /\ Cardinality(1..Len(log)) = IF 1 > Len(log) THEN 0 ELSE Len(log) - 1 + 1
    <3>1. 1 \in Int /\ Len(log) \in Int
      BY <1>1
    <3>2. QED
      BY <3>1, FS_Interval, Zenon
  <2>2. QED
    BY <1>1, <2>1
<1>3. f \in Surjection(1..Len(log), Enqueued)
  BY <1>1 DEF Surjection, Enqueued
<1>4. QED
  BY <1>2, <1>3, FS_Surjection

\* A client holds at most one job id.
LEMMA HeldCount == IsFiniteSet(Held) /\ Cardinality(Held) <= Cardinality(Clients)
<1> DEFINE T == {cl[c].job : c \in Clients}
           f == [c \in Clients |-> cl[c].job]
<1>1. f \in Surjection(Clients, T)
  BY DEF Surjection
<1>2. IsFiniteSet(T) /\ Cardinality(T) <= Cardinality(Clients)
  BY <1>1, ClientsAssumption, FS_Surjection
<1>3. Held \subseteq T
  BY DEF Held
<1>4. IsFiniteSet(Held) /\ Cardinality(Held) <= Cardinality(T)
  BY <1>2, <1>3, FS_Subset
<1>5. Cardinality(T) \in Nat /\ Cardinality(Held) \in Nat /\ Cardinality(Clients) \in Nat
  BY <1>2, <1>4, ClientsAssumption, FS_CardinalityType
<1>6. QED
  BY <1>2, <1>4, <1>5

\* Together they are finite, and bounded by entries and clients.
LEMMA AdmittedCount ==
    ASSUME QueueTypeOK
    PROVE  /\ IsFiniteSet(Admitted)
           /\ Cardinality(Admitted) <= Len(log) + Cardinality(Clients)
<1>1. /\ IsFiniteSet(Enqueued) /\ Cardinality(Enqueued) <= Len(log)
      /\ IsFiniteSet(Held) /\ Cardinality(Held) <= Cardinality(Clients)
  BY EnqueuedCount, HeldCount
<1>2. /\ IsFiniteSet(Enqueued \cup Held)
      /\ Cardinality(Enqueued \cup Held)
           = Cardinality(Enqueued) + Cardinality(Held) - Cardinality(Enqueued \cap Held)
  BY <1>1, FS_Union
<1>3. IsFiniteSet(Enqueued \cap Held)
  BY <1>1, FS_Intersection
<1>4. /\ Cardinality(Enqueued \cap Held) \in Nat /\ Cardinality(Enqueued) \in Nat
      /\ Cardinality(Held) \in Nat /\ Cardinality(Clients) \in Nat /\ Len(log) \in Nat
  BY <1>1, <1>3, ClientsAssumption, FS_CardinalityType DEF QueueTypeOK
<1>5. QED
  BY <1>1, <1>2, <1>4 DEF Admitted

-----------------------------------------------------------------------------
(* How steps change them. *)

\* XADD adds at most the job it names.
LEMMA EnqueueJobs ==
    ASSUME QueueTypeOK, NEW j \in Jobs, NEW f \in Fingerprints, NEW n \in Nat,
           Enqueue(j, f, n) \/ EnqueueTwice(j, f, n)
    PROVE  Enqueued' \subseteq Enqueued \cup {j}
<1>1. Entry(j, f, n) \in Message /\ Entry(j, f, n).job = j
  BY DEF Entry, Message
<1> DEFINE s == Append(log, Entry(j, f, n))
<1>2. /\ s \in Seq(Message) /\ DOMAIN s = 1..Len(s) /\ Len(s) = Len(log) + 1
      /\ \A i \in DOMAIN s : s[i].job \in Enqueued \cup {j}
  <2>1. /\ s \in Seq(Message) /\ Len(s) = Len(log) + 1 /\ s[Len(log) + 1] = Entry(j, f, n)
        /\ \A i \in 1..Len(log) : s[i] = log[i]
    BY <1>1, AppendProperties DEF QueueTypeOK
  <2>2. DOMAIN s = 1..Len(s) /\ Len(log) \in Nat /\ DOMAIN log = 1..Len(log)
    BY <2>1, LenProperties DEF QueueTypeOK
  <2>3. QED
    BY <1>1, <2>1, <2>2 DEF Enqueued
<1> HIDE DEF s
<1> DEFINE t == Append(s, Entry(j, f, n))
<1>3. \A i \in DOMAIN t : t[i].job \in Enqueued \cup {j}
  <2>1. /\ t \in Seq(Message) /\ Len(t) = Len(s) + 1 /\ t[Len(s) + 1] = Entry(j, f, n)
        /\ \A i \in 1..Len(s) : t[i] = s[i]
    BY <1>1, <1>2, AppendProperties
  <2>2. DOMAIN t = 1..Len(t) /\ Len(s) \in Nat
    BY <1>2, <2>1, LenProperties
  <2>3. QED
    BY <1>1, <1>2, <2>1, <2>2
<1>4. log' = s \/ log' = t
  BY DEF Enqueue, EnqueueTwice, s
<1>5. QED
  BY <1>2, <1>3, <1>4 DEF Enqueued

\* Delivery and acknowledgement keep every entry's job.
LEMMA StatusJobs ==
    ASSUME QueueTypeOK, log' \in Seq(Message), Len(log') = Len(log),
           \A i \in DOMAIN log : log'[i].job = log[i].job
    PROVE  Enqueued' = Enqueued
<1>1. DOMAIN log' = DOMAIN log
  BY LenProperties DEF QueueTypeOK
<1>2. QED
  BY <1>1 DEF Enqueued

\* A client that keeps or drops its id adds none.
LEMMA HeldShrinks ==
    ASSUME \A c \in Clients : cl'[c].job \in {cl[c].job, NoJob}
    PROVE  Held' \subseteq Held
BY DEF Held

\* Every step but AdmitSubmission leaves no new job among the admitted ones.
LEMMA NoNewJobClient ==
    ASSUME TypeOK, NEW c \in Clients,
           (ClientStep(c) /\ ~AdmitSubmission(c)) \/ SubmitSearch(c) \/ CancelJob(c)
             \/ SubmitFails(c) \/ ClientStops(c)
    PROVE  Admitted' \subseteq Admitted
<1> USE DEF TypeOK
<1>s. UNCHANGED log => Enqueued' = Enqueued
  BY DEF Enqueued
<1>d. \A e \in Clients : cl[e] \in Client
  BY DEF ClientsOK
<1>r. ASSUME Returns(c) PROVE Held' \subseteq Held
  BY <1>r, HeldShrinks DEF Returns, IdleClient, ClientsOK
<1>g. ASSUME NEW pc \in ClientPC, ClientGoes(c, pc) PROVE Held' \subseteq Held
  BY <1>g, <1>d, HeldShrinks DEF ClientGoes, ClientsOK, Client
<1>l. ASSUME NEW f, NEW j \in {cl[c].job, NoJob}, NEW pc, Lookup(c, f, j, pc) PROVE Held' \subseteq Held
  BY <1>l, HeldShrinks DEF Lookup, ClientsOK
<1>h. cl[c].pc \in OwnsJob => cl[c].job \in Jobs /\ cl[c].job \in Held /\ cl[c].fp \in Fingerprints
  BY NoJobAssumption, <1>d DEF ClientsOK, Held, Client
<1>1. CASE SubmitSearch(c) \/ LookupAgain(c)
  BY <1>1, <1>l, <1>s DEF SubmitSearch, LookupAgain, queueVars, Admitted
<1>2. CASE ReuseJob(c) \/ RejectSubmission(c) \/ ReleaseFingerprint(c) \/ ClientStops(c) \/ CancelPending(c)
  BY <1>2, <1>r, <1>s
     DEF ReuseJob, RejectSubmission, ReleaseFingerprint, ClientStops, CancelPending, queueVars, Admitted
<1>3. CASE NothingToReuse(c)
  <2>1. \A e \in Clients : cl'[e].job = cl[e].job
    BY <1>3, <1>d DEF NothingToReuse, ClientsOK, Client
  <2>2. QED
    BY <1>3, <2>1, <1>s, HeldShrinks DEF NothingToReuse, queueVars, Admitted
<1>4. CASE CancelJob(c)
  <2>1. \A e \in Clients : cl'[e].job = cl[e].job
    <3>1. PICK j \in Jobs :
            cl' = [cl EXCEPT ![c] = [cl[c] EXCEPT !.seen = j,
                     !.pc = IF rec[j].state = "PENDING" THEN "flag_pending" ELSE "flag_running"]]
      BY <1>4, ZenonT(60) DEF CancelJob
    <3>2. QED
      BY <3>1, <1>d DEF ClientsOK, Client
  <2>2. QED
    BY <1>4, <2>1, <1>s, HeldShrinks DEF CancelJob, queueVars, Admitted
<1>5. CASE \/ ClaimFingerprint(c) \/ RebindFingerprint(c) \/ CreateJobRecord(c)
           \/ TruncateBeforeAdd(c) \/ CheckOwner(c) \/ FlagCancel(c)
  <2>1. Held' \subseteq Held
    BY <1>5, <1>g, <1>r
       DEF ClaimFingerprint, RebindFingerprint, CreateJobRecord, TruncateBeforeAdd, CheckOwner,
           FlagCancel, ClientPC
  <2>2. QED
    BY <1>5, <2>1, <1>s
       DEF ClaimFingerprint, RebindFingerprint, CreateJobRecord, TruncateBeforeAdd, CheckOwner,
           FlagCancel, queueVars, Admitted
<1>6. CASE EnqueueJob(c) \/ SubmitFails(c)
  <2>1. cl[c].job \in Jobs /\ cl[c].job \in Held /\ cl[c].fp \in Fingerprints
    BY <1>6, <1>h DEF EnqueueJob, SubmitFails, ClientAt, OwnsJob
  <2>2. Enqueued' \subseteq Enqueued \cup {cl[c].job}
    BY <1>6, <2>1, <1>s, EnqueueJobs DEF EnqueueJob, SubmitFails
  <2>3. Held' \subseteq Held
    BY <1>6, <1>g, <1>r DEF EnqueueJob, SubmitFails, ClientPC
  <2>4. QED
    BY <2>1, <2>2, <2>3 DEF Admitted
<1>7. QED
  BY <1>1, <1>2, <1>3, <1>4, <1>5, <1>6 DEF ClientStep

\* A step of a worker brings no new job id.
LEMMA NoNewJobWorker ==
    ASSUME TypeOK, NEW w \in Workers, WorkerStep(w) \/ WorkerStops(w)
    PROVE  Admitted' \subseteq Admitted
<1> USE DEF TypeOK
<1>h. Held' = Held
  BY DEF WorkerStep, WorkerStops, ReadBatch, LoadRecord, HonourCancel, StartSearch, SearchSucceeds,
         SearchFails, TruncateBeforeRetry, EnqueueRetry, DeadLetter, AckMessage, Held
<1>1. CASE ReadBatch(w)
  BY <1>1, <1>h, DeliverTypes, StatusJobs DEF ReadBatch, Admitted
<1>2. CASE AckMessage(w)
  <2>1. wk[w].msg \in DOMAIN log
    BY <1>2 DEF AckMessage, WorkersOK
  <2>2. QED
    BY <1>2, <2>1, <1>h, AcknowledgeTypes, StatusJobs DEF AckMessage, Admitted
<1>3. CASE EnqueueRetry(w)
  <2>1. JobOf(w) \in Jobs /\ RequestOf(w) \in Fingerprints /\ RetriesOf(w) + 1 \in Nat
    BY <1>3, WorkerMessage DEF EnqueueRetry, WorkerAt
  <2>2. JobOf(w) \in Enqueued
    BY <1>3 DEF EnqueueRetry, WorkerAt, WorkersOK, JobOf, Enqueued
  <2>3. Enqueued' \subseteq Enqueued \cup {JobOf(w)}
    BY <1>3, <2>1, EnqueueJobs DEF EnqueueRetry
  <2>4. QED
    BY <2>2, <2>3, <1>h DEF Admitted
<1>4. CASE UNCHANGED log
  BY <1>4, <1>h DEF Enqueued, Admitted
<1>5. QED
  BY <1>1, <1>2, <1>3, <1>4
     DEF WorkerStep, WorkerStops, LoadRecord, HonourCancel, StartSearch, SearchSucceeds, SearchFails,
         TruncateBeforeRetry, DeadLetter, queueVars

\* An admission finds a stream that has never been trimmed and is shorter than
\* queue_reject_at, so it can count all the jobs there ever were.
LEMMA AdmitCount ==
    ASSUME TypeOK', TypeOK, TrimFloor, RejectAt <= MaxLen, NEW c \in Clients, AdmitSubmission(c)
    PROVE  Cardinality(Admitted') <= RejectAt - 1 + Cardinality(Clients)
<1>1. trimmed = 0 /\ Len(log) <= RejectAt - 1
  BY LimitsAssumption DEF AdmitSubmission, TrimFloor, Overloaded, Depth, TypeOK, QueueTypeOK
<1>2. log' = log
  BY DEF AdmitSubmission, queueVars
<1>3. (IsFiniteSet(Admitted) /\ Cardinality(Admitted) <= Len(log) + Cardinality(Clients))'
  <2>1. QueueTypeOK'
    BY DEF TypeOK
  <2>2. QED
    BY <2>1, AdmittedCount, PTL
<1>4. Cardinality(Admitted') \in Nat /\ Cardinality(Clients) \in Nat /\ Len(log) \in Nat
  BY <1>3, ClientsAssumption, FS_CardinalityType DEF TypeOK, QueueTypeOK
<1>5. QED
  BY <1>1, <1>2, <1>3, <1>4, LimitsAssumption

-----------------------------------------------------------------------------
(* The length of the stream. *)

\* A step appends to the stream or trims it, down to queue_max_len at most.
LEMMA StreamStep ==
    ASSUME TypeOK, [Next]_vars
    PROVE  /\ Len(log) \in Nat /\ Len(log') \in Nat /\ Len(log') >= Len(log)
           /\ trimmed' = trimmed \/ (trimmed' >= trimmed /\ Len(log') - trimmed' >= MaxLen)
           /\ trimmed \in Nat /\ trimmed' \in Nat
<1> USE DEF TypeOK
<1>0. TypeOK' /\ Len(log) \in Nat /\ Len(log') \in Nat /\ trimmed \in Nat /\ trimmed' \in Nat
  BY TypeStep, LenProperties DEF QueueTypeOK
<1>e. ASSUME NEW j \in Jobs, NEW f \in Fingerprints, NEW n \in Nat, Enqueue(j, f, n) \/ EnqueueTwice(j, f, n)
      PROVE  Len(log') >= Len(log)
  BY <1>0, <1>e, EnqueueTypes
<1>t. ASSUME TruncateIfNeeded, UNCHANGED log
      PROVE  trimmed' = trimmed \/ (trimmed' >= trimmed /\ Len(log') - trimmed' >= MaxLen)
  BY <1>0, <1>t, LimitsAssumption DEF TruncateIfNeeded
<1>1. CASE UNCHANGED <<log, trimmed>>
  BY <1>0, <1>1
<1>2. ASSUME NEW c \in Clients, EnqueueJob(c) \/ SubmitFails(c)
      PROVE  Len(log') >= Len(log) /\ trimmed' = trimmed
  <2>1. cl[c].job \in Jobs /\ cl[c].fp \in Fingerprints
    BY <1>2 DEF EnqueueJob, SubmitFails, ClientAt, OwnsJob, ClientsOK, Client
  <2>2. QED
    BY <1>0, <1>2, <2>1, <1>e DEF EnqueueJob, SubmitFails
<1>3. ASSUME NEW w \in Workers, EnqueueRetry(w)
      PROVE  Len(log') >= Len(log) /\ trimmed' = trimmed
  <2>1. JobOf(w) \in Jobs /\ RequestOf(w) \in Fingerprints /\ RetriesOf(w) + 1 \in Nat
    BY <1>3, WorkerMessage DEF EnqueueRetry, WorkerAt
  <2>2. QED
    BY <1>3, <2>1, <1>e DEF EnqueueRetry
<1>4. ASSUME NEW w \in Workers, ReadBatch(w) \/ AckMessage(w)
      PROVE  Len(log') >= Len(log) /\ trimmed' = trimmed
  <2>1. AckMessage(w) => wk[w].msg \in DOMAIN log
    BY DEF AckMessage, WorkersOK
  <2>2. Len(log') = Len(log)
    BY <1>4, <2>1, DeliverTypes, AcknowledgeTypes DEF ReadBatch, AckMessage
  <2>3. QED
    BY <1>0, <1>4, <2>2 DEF ReadBatch, AckMessage
<1>5. ASSUME TruncateIfNeeded /\ UNCHANGED log
      PROVE  /\ Len(log') >= Len(log)
             /\ trimmed' = trimmed \/ (trimmed' >= trimmed /\ Len(log') - trimmed' >= MaxLen)
  BY <1>0, <1>5, <1>t
<1>6. ASSUME NEW c \in Clients,
             ClientStep(c) \/ SubmitSearch(c) \/ CancelJob(c) \/ SubmitFails(c) \/ ClientStops(c)
      PROVE  \/ UNCHANGED <<log, trimmed>> \/ EnqueueJob(c) \/ SubmitFails(c)
             \/ TruncateIfNeeded /\ UNCHANGED log
  BY <1>6 DEF ClientStep, SubmitSearch, ReuseJob, NothingToReuse, RejectSubmission, AdmitSubmission,
       ClaimFingerprint, LookupAgain, RebindFingerprint, CreateJobRecord, TruncateBeforeAdd,
       CheckOwner, ReleaseFingerprint, ClientStops, CancelJob, FlagCancel, CancelPending, queueVars
<1>7. ASSUME NEW w \in Workers, WorkerStep(w) \/ WorkerStops(w)
      PROVE  \/ UNCHANGED <<log, trimmed>> \/ EnqueueRetry(w) \/ ReadBatch(w) \/ AckMessage(w)
             \/ TruncateIfNeeded /\ UNCHANGED log
  BY <1>7 DEF WorkerStep, WorkerStops, LoadRecord, HonourCancel, StartSearch, SearchSucceeds,
       SearchFails, TruncateBeforeRetry, DeadLetter, queueVars
<1>8. QED
  BY <1>0, <1>1, <1>2, <1>3, <1>4, <1>5, <1>6, <1>7 DEF Next, Expiry, vars, queueVars

-----------------------------------------------------------------------------
(* The theorems. *)

\* Every step keeps the admission invariant.
LEMMA AdmissionStep ==
    ASSUME AdmissionInv, [Next]_vars
    PROVE  AdmissionInv'
<1> USE DEF AdmissionInv
<1>1. TypeOK'
  BY TypeStep
<1>2. TrimFloor'
  BY StreamStep, LimitsAssumption DEF TrimFloor, Depth
<1>3. ASSUME RejectAt <= MaxLen PROVE Cardinality(Admitted') <= RejectAt - 1 + Cardinality(Clients)
  <2>1. CASE \E c \in Clients : AdmitSubmission(c)
    BY <1>1, <1>3, <2>1, AdmitCount
  <2>2. CASE ~\E c \in Clients : AdmitSubmission(c)
    <3>1. Admitted' \subseteq Admitted
      BY <2>2, NoNewJobClient, NoNewJobWorker
         DEF Next, Expiry, vars, queueVars, processVars, Admitted, Enqueued, Held
    <3>2. IsFiniteSet(Admitted)
      BY AdmittedCount DEF TypeOK
    <3>3. /\ IsFiniteSet(Admitted') /\ Cardinality(Admitted') <= Cardinality(Admitted)
      BY <3>1, <3>2, FS_Subset
    <3>4. /\ Cardinality(Admitted') \in Nat /\ Cardinality(Admitted) \in Nat
          /\ Cardinality(Clients) \in Nat
      BY <3>2, <3>3, ClientsAssumption, FS_CardinalityType
    <3>5. QED
      BY <1>3, <3>3, <3>4, LimitsAssumption DEF AdmissionBound
  <2>3. QED
    BY <2>1, <2>2
<1>4. QED
  BY <1>1, <1>2, <1>3 DEF AdmissionBound

\* The empty system satisfies the admission invariant.
LEMMA AdmissionInit == Init => AdmissionInv
<1> SUFFICES ASSUME Init PROVE AdmissionInv
  OBVIOUS
<1>1. TypeOK
  BY TypeInit
<1>2. TrimFloor
  BY DEF Init, QueueInit, TrimFloor
<1>3. Admitted = {}
  BY DEF Init, QueueInit, Admitted, Enqueued, Held, IdleClient
<1>4. QED
  BY <1>1, <1>2, <1>3, FS_EmptySet, ClientsAssumption, FS_CardinalityType, LimitsAssumption
     DEF AdmissionInv, AdmissionBound

\* Over the whole life of a stream at most queue_reject_at - 1 jobs, and one
\* more for each concurrent submitter, are ever admitted, however many of them
\* have been processed: guard_capacity counts acknowledged entries.
THEOREM AdmissionBounded == Spec => []AdmissionBound
<1>1. Init => AdmissionInv
  BY AdmissionInit
<1>2. AdmissionInv /\ [Next]_vars => AdmissionInv'
  BY AdmissionStep
<1>3. AdmissionInv => AdmissionBound
  BY DEF AdmissionInv
<1>4. QED
  BY <1>1, <1>2, <1>3, PTL DEF Spec

\* Once the stream has reached queue_reject_at it never falls below it again.
THEOREM OverloadStays == Spec => OverloadIsForever
<1>1. ASSUME TypeOK, [Next]_vars
      PROVE  [RejectAt <= MaxLen /\ Depth >= RejectAt => Depth' >= RejectAt]_vars
  BY <1>1, StreamStep, LimitsAssumption DEF Depth
<1>2. QED
  BY <1>1, TypeCorrect, PTL DEF Spec, OverloadIsForever
=============================================================================
