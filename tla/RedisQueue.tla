----------------------------- MODULE RedisQueue -----------------------------
(***************************************************************************)
(* The Redis side of the search queue: RedisSearchQueue of                 *)
(* src_py/vtree_search/queue/redis_streams.py.  Each operator is one Redis *)
(* command (or one HSET with its EXPIRE), so it is atomic; the callers in  *)
(* module SearchQueue put other processes' steps between two of them.      *)
(*                                                                         *)
(* The stream is an append-only sequence.  Entry i has been XADDed as the  *)
(* i-th one; the first "trimmed" entries are gone.  An entry is "ready"    *)
(* until the consumer group delivers it, "pending" while it is in the      *)
(* group's pending list, and "acked" after XACK, which leaves the entry in *)
(* the stream.                                                             *)
(***************************************************************************)
EXTENDS Integers, Sequences, FiniteSets

CONSTANTS
    Jobs,          \* job ids (uuid4) that may be drawn
    Fingerprints,  \* SHA-256 fingerprints of distinct requests
    NoJob,         \* a missing fingerprint key, or no job id
    RejectAt,      \* queue_reject_at
    MaxLen         \* queue_max_len

ASSUME NoJobAssumption == NoJob \notin Jobs
ASSUME LimitsAssumption == RejectAt \in Nat \ {0} /\ MaxLen \in Nat \ {0}

VARIABLES
    log,      \* stream_search: every entry ever added
    trimmed,  \* number of entries XTRIM has removed
    rec,      \* job:{id} hashes
    fps,      \* job:fp:{fingerprint} keys
    dlq       \* number of entries of each job in stream_search_dlq

queueVars == <<log, trimmed, rec, fps, dlq>>

Terminal == {"SUCCEEDED", "FAILED", "CANCELED"}
Live     == {"PENDING", "RUNNING"}

\* A hash as its readers see it.  "ABSENT" stands for a missing key.
JobRecord == [state : {"ABSENT"} \cup Live \cup Terminal, retries : Nat, canceled : BOOLEAN]
Message   == [job : Jobs, req : Fingerprints, retries : Nat, status : {"ready", "pending", "acked"}]

\* "req" stands for payload_json: the request the search is made for.

Absent == [state |-> "ABSENT", retries |-> 0, canceled |-> FALSE]

\* Fields a partial hash lacks are read with these defaults.
Blank == [state |-> "PENDING", retries |-> 0, canceled |-> FALSE]

QueueTypeOK ==
    /\ log \in Seq(Message)
    /\ trimmed \in 0..Len(log)
    /\ rec \in [Jobs -> JobRecord]
    /\ fps \in [Fingerprints -> Jobs \cup {NoJob}]
    /\ dlq \in [Jobs -> Nat]

QueueInit ==
    /\ log = <<>>
    /\ trimmed = 0
    /\ rec = [j \in Jobs |-> Absent]
    /\ fps = [f \in Fingerprints |-> NoJob]
    /\ dlq = [j \in Jobs |-> 0]

-----------------------------------------------------------------------------
(* The stream. *)

\* XLEN counts every entry that has not been trimmed, acknowledged or not.
Depth == Len(log) - trimmed

\* Mutant: the group is read from "0", so pending entries come again.
ReadyOrPending == {i \in DOMAIN log : i > trimmed /\ log[i].status # "acked"}

\* What ">" reads: added, not trimmed, not yet delivered.
Ready == {i \in DOMAIN log : i > trimmed /\ log[i].status = "ready"}

Entry(j, f, n) == [job |-> j, req |-> f, retries |-> n, status |-> "ready"]

Enqueue(j, f, n) == log' = Append(log, Entry(j, f, n))

\* XADD whose reply is lost and which the client library sends again.
EnqueueTwice(j, f, n) == log' = Append(Append(log, Entry(j, f, n)), Entry(j, f, n))

\* guard_capacity. Mutant: one entry too many.
OverloadedLate == Depth > RejectAt
Overloaded == Depth >= RejectAt

\* Mutant: trims to half of the configured length.
TruncateToHalf ==
    trimmed' \in IF Depth > MaxLen THEN trimmed .. (Len(log) - (MaxLen \div 2)) ELSE {trimmed}

\* XTRIM MAXLEN ~ removes whole internal nodes only: any number of the
\* oldest entries, never going below MaxLen.
TruncateIfNeeded == trimmed' \in {trimmed} \cup (trimmed .. (Len(log) - MaxLen))

\* XREADGROUP ">" COUNT n: the next n entries after the last delivered one.
NextReady == CHOOSE i \in Ready : \A k \in Ready : i <= k

\* Mutant: a batch that runs past the end of the stream.
LastOfUncapped(count) == NextReady + count - 1
LastOf(count) == IF NextReady + count - 1 <= Len(log) THEN NextReady + count - 1 ELSE Len(log)

\* Mutant: XREADGROUP NOACK.
DeliverNoAck(first, last) ==
    log' = [i \in DOMAIN log |->
              IF i \in first..last THEN [log[i] EXCEPT !.status = "acked"] ELSE log[i]]

Deliver(first, last) ==
    log' = [i \in DOMAIN log |->
              IF i \in first..last THEN [log[i] EXCEPT !.status = "pending"] ELSE log[i]]

Acknowledge(i) == log' = [log EXCEPT ![i].status = "acked"]

\* XADD to the dead-letter stream; n = 2 when the client library sends it again.
MoveToDlq(j, n) == dlq' = [dlq EXCEPT ![j] = @ + n]

-----------------------------------------------------------------------------
(* The job hashes. *)

\* HSET creates a missing key: an update after the TTL leaves a partial hash.
Current(j) == IF rec[j] = Absent THEN Blank ELSE rec[j]

\* Mutants: forgets the state; rewrites the whole hash; forgets the counter.
MarkRetryStillRunning(j, n) == rec' = [rec EXCEPT ![j] = [Current(j) EXCEPT !.retries = n]]
MarkRetryAnew(j, n)         == rec' = [rec EXCEPT ![j] = [Blank EXCEPT !.retries = n]]
MarkFailedUncounted(j, n)   == rec' = [rec EXCEPT ![j] = [Current(j) EXCEPT !.state = "FAILED"]]

CreateRecord(j)        == rec' = [rec EXCEPT ![j] = Blank]
MarkRunning(j, n)      == rec' = [rec EXCEPT ![j] = [Current(j) EXCEPT !.state = "RUNNING", !.retries = n]]
MarkPendingRetry(j, n) == rec' = [rec EXCEPT ![j] = [Current(j) EXCEPT !.state = "PENDING", !.retries = n]]
MarkFailed(j, n)       == rec' = [rec EXCEPT ![j] = [Current(j) EXCEPT !.state = "FAILED", !.retries = n]]
MarkSucceeded(j)       == rec' = [rec EXCEPT ![j] = [Current(j) EXCEPT !.state = "SUCCEEDED"]]
MarkCanceled(j)        == rec' = [rec EXCEPT ![j] = [Current(j) EXCEPT !.state = "CANCELED", !.canceled = TRUE]]
MarkCancelRequested(j) == rec' = [rec EXCEPT ![j] = [Current(j) EXCEPT !.canceled = TRUE]]

\* The TTL of a hash or of a fingerprint key runs out.
ExpireRecord(j)      == rec[j] # Absent /\ rec' = [rec EXCEPT ![j] = Absent]
ExpireFingerprint(f) == fps[f] # NoJob /\ fps' = [fps EXCEPT ![f] = NoJob]

-----------------------------------------------------------------------------
(* The fingerprint keys. *)

BindFingerprint(f, j)  == fps' = [fps EXCEPT ![f] = j]
DeleteFingerprint(f)   == fps' = [fps EXCEPT ![f] = NoJob]
=============================================================================
