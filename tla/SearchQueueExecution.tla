------------------------ MODULE SearchQueueExecution ------------------------
(***************************************************************************)
(* Why a job is never run by two workers at once, nor more often than      *)
(* max_retries allows, as long as no XADD is applied twice: of all the     *)
(* entries of a job only the last one is still to be run, and the number   *)
(* in it counts the runs so far.                                           *)
(***************************************************************************)
EXTENDS SearchQueueProofs

\* No XADD has been applied twice so far.
NoResends == Spent("resend") = 0

\* The budget is only ever spent.
BudgetSpent == \A kind \in Kinds : left[kind] <= Budget[kind]

-----------------------------------------------------------------------------
(* The inductive invariant. *)

\* A client whose job id has not reached the stream.
Drawn(c) == \/ cl[c].pc \in {"claim", "relookup", "bind", "create", "trim", "add"}
            \/ cl[c].pc = "inspect" /\ cl[c].job # NoJob

DrawnAreNew ==
    /\ \A c \in Clients : Drawn(c) => cl[c].job \notin Enqueued
    /\ \A c, d \in Clients : c # d /\ Drawn(c) /\ Drawn(d) => cl[c].job # cl[d].job

\* What is still to be delivered is the end of the stream.
ReadyIsSuffix ==
    \A i, k \in DOMAIN log : i > trimmed /\ i <= k /\ log[i].status = "ready" => log[k].status = "ready"

\* A worker's batch is pending, and in no other worker's batch.
Owns(w, i) == wk[w].pc # "idle" /\ wk[w].msg <= i /\ i <= wk[w].last

BatchesApart ==
    /\ \A w \in Workers : \A i \in DOMAIN log : Owns(w, i) => log[i].status = "pending"
    /\ \A w \in Workers : wk[w].pc # "idle" => wk[w].msg <= wk[w].last
    /\ \A v, w \in Workers : \A i \in DOMAIN log : v # w /\ Owns(v, i) => ~Owns(w, i)

BeforeRun == {"load", "cancel", "start"}
InRun     == {"exec", "trim", "add"}

Waiting(i) ==
    \/ log[i].status = "ready"
    \/ \E w \in Workers : Owns(w, i) /\ (wk[w].msg < i \/ wk[w].pc \in BeforeRun)
Working(i) == \E w \in Workers : wk[w].msg = i /\ wk[w].pc \in InRun

LastOnesRun ==
    \A i, k \in DOMAIN log : (Waiting(i) \/ Working(i)) /\ log[k].job = log[i].job => k <= i

RunsCounted ==
    /\ \A i \in DOMAIN log :
          /\ log[i].retries <= MaxRetries
          /\ Waiting(i) => runs[log[i].job] <= log[i].retries
          /\ Working(i) => runs[log[i].job] <= log[i].retries + 1
    /\ \A w \in Workers : wk[w].pc \in {"trim", "add"} => log[wk[w].msg].retries < MaxRetries
    /\ \A j \in Jobs : runs[j] <= MaxRetries + 1 /\ (j \notin Enqueued => runs[j] = 0)

ExecutionInv ==
    /\ TypeOK
    /\ DrawnAreNew /\ ReadyIsSuffix /\ BatchesApart /\ LastOnesRun /\ RunsCounted

\* A step after which every entry is the attempt that it was, and none that has
\* been begun is still to be begun.
AttemptsKept ==
    /\ DOMAIN log \subseteq DOMAIN log'
    /\ \A i \in DOMAIN log : /\ log'[i].job = log[i].job /\ log'[i].retries = log[i].retries
                             /\ Waiting(i)' => Waiting(i)

-----------------------------------------------------------------------------
(* Steps that leave the stream's entries, the workers and the runs alone. *)

\* The stream as it is read: numbered entries, each a message.
LEMMA StreamIs ==
    ASSUME TypeOK
    PROVE  /\ Len(log) \in Nat /\ DOMAIN log = 1..Len(log) /\ DOMAIN log \subseteq Nat /\ trimmed \in Nat
           /\ \A i \in DOMAIN log : log[i] \in Message /\ log[i].job \in Jobs /\ log[i].retries \in Nat
           /\ runs \in [Jobs -> Nat]
           /\ MaxRetries \in Nat
<1>1. log \in Seq(Message) /\ Len(log) \in Nat /\ DOMAIN log = 1..Len(log) /\ trimmed \in Nat
  BY LenProperties DEF TypeOK, QueueTypeOK
<1>2. \A i \in DOMAIN log : log[i] \in Message
  BY <1>1
<1>3. \A m \in Message : m.job \in Jobs /\ m.retries \in Nat
  BY DEF Message
<1>4. QED
  BY <1>1, <1>2, <1>3, RetriesAssumption DEF TypeOK

\* A worker that is not idle points into the stream.
LEMMA WorkerIs ==
    ASSUME TypeOK, NEW w \in Workers
    PROVE  /\ wk[w].msg \in Nat /\ wk[w].last \in Nat
           /\ wk[w].pc # "idle" => wk[w].msg \in DOMAIN log /\ wk[w].last \in DOMAIN log
<1>1. wk[w] \in Worker
  BY DEF TypeOK, WorkersOK
<1>2. QED
  BY <1>1 DEF TypeOK, WorkersOK, Worker

\* What a worker does to its own place, and to nobody else's.
LEMMA WorkerGoesOn ==
    ASSUME TypeOK, NEW w \in Workers, NEW pc, WorkerGoes(w, pc)
    PROVE  /\ wk'[w].pc = pc /\ wk'[w].msg = wk[w].msg /\ wk'[w].last = wk[w].last
           /\ \A v \in Workers \ {w} : wk'[v] = wk[v]
<1>1. wk \in [Workers -> Worker]
  BY DEF TypeOK, WorkersOK
<1>2. QED
  BY <1>1 DEF WorkerGoes, Worker

\* Trimming more than before makes no difference to what is still to be run.
LEMMA StreamSame ==
    ASSUME TypeOK, ReadyIsSuffix, BatchesApart, LastOnesRun, RunsCounted,
           UNCHANGED <<log, wk, runs>>, trimmed' \in Nat, trimmed' >= trimmed
    PROVE  ReadyIsSuffix' /\ BatchesApart' /\ LastOnesRun' /\ RunsCounted' /\ AttemptsKept
<1>0. trimmed \in Nat /\ DOMAIN log \subseteq Nat
  BY StreamIs
<1>1. /\ \A w, i : Owns(w, i)' <=> Owns(w, i)
      /\ \A i : (Waiting(i)' <=> Waiting(i)) /\ (Working(i)' <=> Working(i))
      /\ Enqueued' = Enqueued
  BY DEF Owns, Waiting, Working, Enqueued
<1>2. ReadyIsSuffix'
  BY <1>0 DEF ReadyIsSuffix
<1>3. BatchesApart'
  BY <1>1 DEF BatchesApart
<1>4. LastOnesRun'
  BY <1>1 DEF LastOnesRun
<1>5. RunsCounted'
  BY <1>1 DEF RunsCounted
<1>6. QED
  BY <1>1, <1>2, <1>3, <1>4, <1>5 DEF AttemptsKept

\* A worker that goes on with its entry, or drops its batch, makes no entry one
\* that is still to be run.
LEMMA WorkerMoves ==
    ASSUME TypeOK, ReadyIsSuffix, BatchesApart, LastOnesRun, RunsCounted,
           UNCHANGED <<log, runs>>, trimmed' \in Nat, trimmed' >= trimmed,
           NEW w \in Workers, wk[w].pc # "idle",
           \A v \in Workers \ {w} : wk'[v] = wk[v],
           wk'[w].pc # "idle" => wk'[w].msg = wk[w].msg /\ wk'[w].last = wk[w].last,
           wk'[w].pc \in BeforeRun => wk[w].pc \in BeforeRun,
           wk'[w].pc \in InRun => wk[w].pc \in InRun,
           wk'[w].pc \in {"trim", "add"} => log[wk[w].msg].retries < MaxRetries
    PROVE  ReadyIsSuffix' /\ BatchesApart' /\ LastOnesRun' /\ RunsCounted' /\ AttemptsKept
<1>0. trimmed \in Nat /\ DOMAIN log \subseteq Nat
  BY StreamIs
<1>1. \A v \in Workers, i \in DOMAIN log : Owns(v, i)' => Owns(v, i)
  BY DEF Owns
<1>2. \A i \in DOMAIN log : Waiting(i)' => Waiting(i)
  <2> SUFFICES ASSUME NEW i \in DOMAIN log, log[i].status # "ready",
                      NEW v \in Workers, Owns(v, i)', (wk[v].msg < i \/ wk[v].pc \in BeforeRun)'
               PROVE  Owns(v, i) /\ (wk[v].msg < i \/ wk[v].pc \in BeforeRun)
    BY DEF Waiting
  <2>1. CASE v = w
    BY <2>1, <1>1 DEF Owns
  <2>2. CASE v # w
    BY <2>2, <1>1
  <2>3. QED
    BY <2>1, <2>2
<1>3. \A i \in DOMAIN log : Working(i)' => Working(i)
  <2> SUFFICES ASSUME NEW i \in DOMAIN log, NEW v \in Workers, wk'[v].msg = i, wk'[v].pc \in InRun
               PROVE  wk[v].msg = i /\ wk[v].pc \in InRun
    BY DEF Working
  <2>1. wk'[v].pc # "idle"
    BY DEF InRun
  <2>2. QED
    BY <2>1
<1>4. Enqueued' = Enqueued
  BY DEF Enqueued
<1>5. ReadyIsSuffix'
  BY <1>0 DEF ReadyIsSuffix
<1>6. BatchesApart'
  BY <1>1 DEF BatchesApart
<1>7. LastOnesRun'
  BY <1>2, <1>3 DEF LastOnesRun
<1>8. RunsCounted'
  <2>1. \A v \in Workers : wk'[v].pc \in {"trim", "add"} => log[wk'[v].msg].retries < MaxRetries
    BY DEF RunsCounted
  <2>2. QED
    BY <1>2, <1>3, <1>4, <2>1 DEF RunsCounted
<1>9. QED
  BY <1>2, <1>5, <1>6, <1>7, <1>8 DEF AttemptsKept

-----------------------------------------------------------------------------
(* Steps that change the stream. *)

\* The group's next entry is the first one that waits for delivery.
LEMMA NextReadyIs ==
    ASSUME TypeOK, Ready # {}
    PROVE  NextReady \in Ready /\ \A k \in Ready : NextReady <= k
<1>1. Ready \subseteq Nat
  BY StreamIs DEF Ready
<1> DEFINE R == {ss \in Nat \X Nat : ss[1] < ss[2]}
<1>2. IsWellFoundedOn(R, Nat)
  BY NatLessThanWellFounded DEF OpToRel
<1>3. PICK i \in Ready : \A k \in Ready : <<k, i>> \notin R
  BY <1>1, <1>2, WFMin
<1>4. \A k \in Ready : i <= k
  <2>1. \A k \in Ready : ~(k < i)
    BY <1>1, <1>3
  <2>2. QED
    BY <1>1, <2>1
<1>5. QED
  BY <1>4 DEF NextReady

\* XREADGROUP takes the first undelivered entries; nobody else has them.
LEMMA ReadKeeps ==
    ASSUME TypeOK, ReadyIsSuffix, BatchesApart, LastOnesRun, RunsCounted, NEW w \in Workers, ReadBatch(w)
    PROVE  /\ ReadyIsSuffix' /\ BatchesApart' /\ LastOnesRun' /\ RunsCounted'
           /\ Enqueued' = Enqueued /\ DOMAIN log' = DOMAIN log /\ AttemptsKept
<1>0. PICK n \in 1..BatchSize :
         /\ Deliver(NextReady, LastOf(n))
         /\ wk' = [wk EXCEPT ![w] = [pc |-> "load", msg |-> NextReady, last |-> LastOf(n)]]
  BY DEF ReadBatch
<1>a. PICK a, b : a = NextReady /\ b = LastOf(n)
  OBVIOUS
<1>1. /\ a \in DOMAIN log /\ a > trimmed /\ log[a].status = "ready"
      /\ \A k \in DOMAIN log : k > trimmed /\ log[k].status = "ready" => a <= k
  BY <1>a, NextReadyIs DEF ReadBatch, Ready
<1>2. /\ Len(log) \in Nat /\ DOMAIN log = 1..Len(log) /\ trimmed \in Nat /\ a \in Nat
  BY <1>1, StreamIs
<1>3. b \in Nat /\ a <= b /\ b <= Len(log)
  <2>1. b = IF a + n - 1 <= Len(log) THEN a + n - 1 ELSE Len(log)
    BY <1>a DEF LastOf
  <2>2. n \in Nat /\ n >= 1
    BY BatchAssumption
  <2>3. a <= Len(log)
    BY <1>1, <1>2
  <2>4. CASE a + n - 1 <= Len(log)
    BY <1>2, <2>1, <2>2, <2>4
  <2>5. CASE ~(a + n - 1 <= Len(log))
    BY <1>2, <2>1, <2>2, <2>3, <2>5
  <2>6. QED
    BY <2>4, <2>5
<1>4. \A i \in DOMAIN log : a <= i => log[i].status = "ready"
  BY <1>1 DEF ReadyIsSuffix
<1>5. /\ DOMAIN log' = DOMAIN log
      /\ \A i \in DOMAIN log : log'[i].job = log[i].job /\ log'[i].retries = log[i].retries
      /\ \A i \in DOMAIN log : log'[i].status = IF a <= i /\ i <= b THEN "pending" ELSE log[i].status
  <2>1. log' = [i \in DOMAIN log |-> IF i \in a..b THEN [log[i] EXCEPT !.status = "pending"] ELSE log[i]]
    BY <1>0, <1>a DEF Deliver
  <2>2. \A i \in DOMAIN log : i \in a..b <=> (a <= i /\ i <= b)
    BY <1>2, <1>3
  <2>3. \A i \in DOMAIN log : log[i] \in Message
    BY StreamIs
  <2>4. \A m \in Message : /\ [m EXCEPT !.status = "pending"].status = "pending"
                           /\ [m EXCEPT !.status = "pending"].job = m.job
                           /\ [m EXCEPT !.status = "pending"].retries = m.retries
    BY DEF Message
  <2>5. QED
    BY <2>1, <2>2, <2>3, <2>4
<1>6. /\ wk'[w].pc = "load" /\ wk'[w].msg = a /\ wk'[w].last = b
      /\ \A v \in Workers \ {w} : wk'[v] = wk[v]
      /\ wk[w].pc = "idle" /\ UNCHANGED <<trimmed, runs>>
  BY <1>0, <1>a, StreamIs DEF ReadBatch, WorkerAt, TypeOK, WorkersOK
<1>7. /\ \A i \in DOMAIN log : Owns(w, i)' <=> (a <= i /\ i <= b)
      /\ \A v \in Workers \ {w}, i \in DOMAIN log : /\ Owns(v, i)' <=> Owns(v, i)
                                                    /\ Owns(v, i) => ~(a <= i /\ i <= b)
  BY <1>4, <1>6 DEF Owns, BatchesApart
<1>8. \A i \in DOMAIN log : Waiting(i)' => Waiting(i)
  <2> SUFFICES ASSUME NEW i \in DOMAIN log, Waiting(i)' PROVE Waiting(i)
    OBVIOUS
  <2>1. CASE a <= i /\ i <= b
    BY <2>1, <1>4 DEF Waiting
  <2>2. CASE ~(a <= i /\ i <= b)
    <3>1. CASE log'[i].status = "ready"
      BY <3>1, <2>2, <1>5 DEF Waiting
    <3>2. CASE \E v \in Workers : Owns(v, i)' /\ (wk'[v].msg < i \/ wk'[v].pc \in BeforeRun)
      BY <3>2, <2>2, <1>6, <1>7 DEF Waiting
    <3>3. QED
      BY <3>1, <3>2 DEF Waiting
  <2>3. QED
    BY <2>1, <2>2
<1>9. \A i \in DOMAIN log : Working(i)' => Working(i)
  BY <1>6 DEF Working, InRun
<1>10. Enqueued' = Enqueued
  BY <1>5 DEF Enqueued
<1>11. ReadyIsSuffix'
  <2> SUFFICES ASSUME NEW i \in DOMAIN log, NEW k \in DOMAIN log, i > trimmed, i <= k,
                      log'[i].status = "ready"
               PROVE  log'[k].status = "ready"
    BY <1>5, <1>6 DEF ReadyIsSuffix
  <2>1. ~(a <= i /\ i <= b) /\ log[i].status = "ready"
    BY <1>5
  <2>2. i > b /\ k > b
    BY <2>1, <1>1, <1>2, <1>3
  <2>3. log[k].status = "ready"
    BY <2>1 DEF ReadyIsSuffix
  <2>4. QED
    BY <2>2, <2>3, <1>2, <1>3, <1>5
<1>12. BatchesApart'
  <2>1. \A v \in Workers, i \in DOMAIN log' : Owns(v, i)' => log'[i].status = "pending"
    BY <1>5, <1>7 DEF BatchesApart
  <2>2. \A v \in Workers : wk'[v].pc # "idle" => wk'[v].msg <= wk'[v].last
    BY <1>3, <1>6 DEF BatchesApart
  <2>3. \A u, v \in Workers : \A i \in DOMAIN log' : u # v /\ Owns(u, i)' => ~Owns(v, i)'
    BY <1>5, <1>7 DEF BatchesApart
  <2>4. QED
    BY <2>1, <2>2, <2>3 DEF BatchesApart
<1>13. LastOnesRun'
  BY <1>5, <1>8, <1>9 DEF LastOnesRun
<1>14. RunsCounted'
  <2>1. \A v \in Workers : wk'[v].pc \in {"trim", "add"} => log'[wk'[v].msg].retries < MaxRetries
    <3> SUFFICES ASSUME NEW v \in Workers, wk'[v].pc \in {"trim", "add"}
                 PROVE  log'[wk'[v].msg].retries < MaxRetries
      OBVIOUS
    <3>1. wk'[v] = wk[v]
      BY <1>6
    <3>2. wk[v].msg \in DOMAIN log
      BY <3>1, WorkerIs
    <3>3. QED
      BY <3>1, <3>2, <1>5 DEF RunsCounted
  <2>2. \A i \in DOMAIN log' : /\ log'[i].retries <= MaxRetries
                               /\ Waiting(i)' => runs'[log'[i].job] <= log'[i].retries
                               /\ Working(i)' => runs'[log'[i].job] <= log'[i].retries + 1
    BY <1>5, <1>6, <1>8, <1>9 DEF RunsCounted
  <2>3. QED
    BY <1>6, <1>10, <2>1, <2>2 DEF RunsCounted
<1>15. QED
  BY <1>5, <1>8, <1>10, <1>11, <1>12, <1>13, <1>14 DEF AttemptsKept

\* XADD of an entry that is the only one of its job still to be run, and whose
\* number counts the runs so far.
LEMMA AddKeeps ==
    ASSUME TypeOK, ReadyIsSuffix, BatchesApart, LastOnesRun, RunsCounted,
           NEW j \in Jobs, NEW f \in Fingerprints, NEW n \in Nat, Enqueue(j, f, n), UNCHANGED <<trimmed, runs>>,
           \A w \in Workers : \/ wk'[w] = wk[w]
                              \/ /\ wk[w].pc = "add" /\ wk'[w].pc = "backoff"
                                 /\ wk'[w].msg = wk[w].msg /\ wk'[w].last = wk[w].last,
           n <= MaxRetries, runs[j] <= n,
           \A i \in DOMAIN log : log[i].job = j => ~Waiting(i) /\ ~Working(i)'
    PROVE  /\ ReadyIsSuffix' /\ BatchesApart' /\ LastOnesRun' /\ RunsCounted'
           /\ Enqueued' = Enqueued \cup {j} /\ AttemptsKept
           /\ \A i \in DOMAIN log : log'[i] = log[i]
           /\ DOMAIN log' # DOMAIN log
           /\ \A i \in DOMAIN log' \ DOMAIN log :
                 log'[i].job = j /\ log'[i].retries = n /\ log'[i].status = "ready"
<1>1. /\ Len(log) \in Nat /\ DOMAIN log = 1..Len(log) /\ trimmed \in Nat
      /\ \A w \in Workers : /\ wk[w].msg \in Nat /\ wk[w].last \in Nat
                            /\ wk[w].pc # "idle" => wk[w].msg \in DOMAIN log /\ wk[w].last \in DOMAIN log
  BY StreamIs, WorkerIs
<1>2. PICK N : N = Len(log) + 1
  OBVIOUS
<1>3. /\ DOMAIN log' = 1..N /\ N \in Nat /\ N \notin DOMAIN log /\ DOMAIN log' = DOMAIN log \cup {N}
      /\ \A i \in DOMAIN log : log'[i] = log[i]
      /\ log'[N].job = j /\ log'[N].retries = n /\ log'[N].status = "ready"
  <2>1. Entry(j, f, n) \in Message /\ log \in Seq(Message)
    BY DEF Entry, Message, TypeOK, QueueTypeOK
  <2>2. /\ log' \in Seq(Message) /\ Len(log') = N /\ log'[N] = Entry(j, f, n)
        /\ \A i \in 1..Len(log) : log'[i] = log[i]
    BY <1>2, <2>1, AppendProperties DEF Enqueue
  <2>3. DOMAIN log' = 1..N
    BY <2>2, LenProperties
  <2>4. QED
    BY <1>1, <1>2, <2>2, <2>3 DEF Entry
<1>4. \A w \in Workers : /\ \A i \in DOMAIN log : Owns(w, i)' <=> Owns(w, i)
                         /\ ~Owns(w, N)'
                         /\ wk'[w].pc \in BeforeRun => wk'[w] = wk[w]
                         /\ wk'[w].pc \in InRun => wk'[w] = wk[w]
                         /\ wk'[w].pc \in {"trim", "add"} => wk'[w] = wk[w]
  <2> SUFFICES ASSUME NEW w \in Workers
               PROVE  /\ \A i \in DOMAIN log : Owns(w, i)' <=> Owns(w, i)
                      /\ ~Owns(w, N)'
                      /\ wk'[w].pc \in BeforeRun => wk'[w] = wk[w]
                      /\ wk'[w].pc \in InRun => wk'[w] = wk[w]
                      /\ wk'[w].pc \in {"trim", "add"} => wk'[w] = wk[w]
    OBVIOUS
  <2>1. /\ \A i \in DOMAIN log' : Owns(w, i)' <=> Owns(w, i)
        /\ wk'[w].pc \in BeforeRun \cup InRun \cup {"trim", "add"} => wk'[w] = wk[w]
    BY DEF Owns, BeforeRun, InRun
  <2>2. ~Owns(w, N)
    BY <1>1, <1>2 DEF Owns
  <2>3. QED
    BY <1>3, <2>1, <2>2
<1>5. \A i \in DOMAIN log : Waiting(i)' => Waiting(i)
  <2> SUFFICES ASSUME NEW i \in DOMAIN log, Waiting(i)' PROVE Waiting(i)
    OBVIOUS
  <2>1. CASE log'[i].status = "ready"
    BY <2>1, <1>3 DEF Waiting
  <2>2. CASE \E v \in Workers : Owns(v, i)' /\ (wk'[v].msg < i \/ wk'[v].pc \in BeforeRun)
    <3>1. PICK v \in Workers : Owns(v, i)' /\ (wk'[v].msg < i \/ wk'[v].pc \in BeforeRun)
      BY <2>2
    <3>2. Owns(v, i) /\ wk'[v].msg = wk[v].msg
      BY <3>1, <1>4
    <3>3. wk[v].msg < i \/ wk[v].pc \in BeforeRun
      BY <3>1, <3>2, <1>4
    <3>4. QED
      BY <3>2, <3>3 DEF Waiting
  <2>3. QED
    BY <2>1, <2>2 DEF Waiting
<1>6. \A i \in DOMAIN log : Working(i)' => Working(i)
  BY <1>4 DEF Working
<1>7. ~Working(N)'
  <2> SUFFICES ASSUME NEW v \in Workers, wk'[v].msg = N, wk'[v].pc \in InRun PROVE FALSE
    BY DEF Working
  <2>1. wk[v].msg = N /\ wk[v].pc # "idle"
    BY <1>4 DEF InRun
  <2>2. QED
    BY <2>1, <1>1, <1>3
<1>8. Enqueued' = Enqueued \cup {j}
  <2>1. \A i \in DOMAIN log' : log'[i].job \in Enqueued \cup {j}
    BY <1>3 DEF Enqueued
  <2>2. \A i \in DOMAIN log : log[i].job \in Enqueued'
    BY <1>3 DEF Enqueued
  <2>3. j \in Enqueued'
    BY <1>3 DEF Enqueued
  <2>4. QED
    BY <2>1, <2>2, <2>3 DEF Enqueued
<1>9. ReadyIsSuffix'
  <2> SUFFICES ASSUME NEW i \in DOMAIN log', NEW k \in DOMAIN log', i > trimmed, i <= k,
                      log'[i].status = "ready"
               PROVE  log'[k].status = "ready"
    BY DEF ReadyIsSuffix
  <2>1. CASE k = N
    BY <2>1, <1>3
  <2>2. CASE k \in DOMAIN log
    <3>1. i \in DOMAIN log
      BY <2>2, <1>1, <1>3
    <3>2. QED
      BY <2>2, <3>1, <1>3 DEF ReadyIsSuffix
  <2>3. QED
    BY <1>3, <2>1, <2>2
<1>10. BatchesApart'
  <2>1. ASSUME NEW v \in Workers, NEW i \in DOMAIN log', Owns(v, i)' PROVE log'[i].status = "pending"
    <3>1. i \in DOMAIN log /\ Owns(v, i)
      BY <1>3, <1>4, <2>1
    <3>2. QED
      BY <3>1, <1>3 DEF BatchesApart
  <2>2. \A v \in Workers : wk'[v].pc # "idle" => wk'[v].msg <= wk'[v].last
    BY DEF BatchesApart
  <2>3. \A u, v \in Workers : \A i \in DOMAIN log' : u # v /\ Owns(u, i)' => ~Owns(v, i)'
    BY <1>3, <1>4 DEF BatchesApart
  <2>4. QED
    BY <2>1, <2>2, <2>3 DEF BatchesApart
<1>11. LastOnesRun'
  <2> SUFFICES ASSUME NEW i \in DOMAIN log', NEW k \in DOMAIN log',
                      Waiting(i)' \/ Working(i)', log'[k].job = log'[i].job
               PROVE  k <= i
    BY DEF LastOnesRun
  <2>1. CASE i = N
    BY <2>1, <1>3
  <2>2. CASE i \in DOMAIN log
    <3>1. log'[i].job # j /\ (Waiting(i) \/ Working(i))
      BY <2>2, <1>3, <1>5, <1>6
    <3>2. k \in DOMAIN log
      BY <3>1, <1>3
    <3>3. QED
      BY <2>2, <3>1, <3>2, <1>3 DEF LastOnesRun
  <2>3. QED
    BY <1>3, <2>1, <2>2
<1>12. RunsCounted'
  <2>1. \A v \in Workers : wk'[v].pc \in {"trim", "add"} => log'[wk'[v].msg].retries < MaxRetries
    <3> SUFFICES ASSUME NEW v \in Workers, wk'[v].pc \in {"trim", "add"}
                 PROVE  log'[wk'[v].msg].retries < MaxRetries
      OBVIOUS
    <3>1. wk'[v] = wk[v]
      BY <1>4
    <3>2. wk[v].msg \in DOMAIN log
      BY <3>1, <1>1
    <3>3. QED
      BY <3>1, <3>2, <1>3 DEF RunsCounted
  <2>2. \A i \in DOMAIN log' : /\ log'[i].retries <= MaxRetries
                               /\ Waiting(i)' => runs'[log'[i].job] <= log'[i].retries
                               /\ Working(i)' => runs'[log'[i].job] <= log'[i].retries + 1
    BY <1>3, <1>5, <1>6, <1>7 DEF RunsCounted
  <2>3. QED
    BY <1>8, <2>1, <2>2 DEF RunsCounted
<1>13. QED
  BY <1>3, <1>5, <1>8, <1>9, <1>10, <1>11, <1>12 DEF AttemptsKept

\* The entry a worker runs is the last one of its job, and only that worker is at it.
LEMMA RunIsLast ==
    ASSUME TypeOK, BatchesApart, LastOnesRun, NEW w \in Workers, wk[w].pc \in InRun,
           NEW i \in DOMAIN log, log[i].job = JobOf(w)
    PROVE  /\ ~Waiting(i)
           /\ \A v \in Workers : wk[v].msg = i /\ wk[v].pc \in InRun => v = w
<1> DEFINE m == wk[w].msg
<1>1. m \in DOMAIN log /\ wk[w].pc # "idle" /\ DOMAIN log \subseteq Nat
  BY StreamIs, WorkerIs DEF InRun
<1>2. Owns(w, m) /\ Working(m) /\ log[m].status = "pending"
  BY <1>1 DEF BatchesApart, Owns, Working
<1>3. i <= m
  BY <1>1, <1>2 DEF LastOnesRun, JobOf
<1>4. ASSUME Waiting(i) \/ Working(i) PROVE i = m
  <2>1. m <= i
    BY <1>1, <1>4 DEF LastOnesRun, JobOf
  <2>2. QED
    BY <1>1, <1>3, <2>1
<1>5. ~Waiting(m)
  <2> SUFFICES ASSUME NEW v \in Workers, Owns(v, m), wk[v].msg < m \/ wk[v].pc \in BeforeRun PROVE FALSE
    BY <1>2 DEF Waiting
  <2>1. v = w
    BY <1>1, <1>2 DEF BatchesApart
  <2>2. QED
    BY <1>1, <2>1 DEF BeforeRun, InRun
<1>6. ASSUME NEW v \in Workers, wk[v].msg = i, wk[v].pc \in InRun PROVE v = w
  <2>1. Working(i)
    BY <1>6 DEF Working
  <2>2. wk[v].msg = m
    BY <2>1, <1>4, <1>6
  <2>3. Owns(v, m)
    BY <1>1, <1>6, <2>2 DEF Owns, InRun, BatchesApart
  <2>4. QED
    BY <1>1, <1>2, <2>3 DEF BatchesApart
<1>7. QED
  BY <1>4, <1>5, <1>6

\* mark_running: the entry is counted when its run begins.
LEMMA StartKeeps ==
    ASSUME TypeOK, ReadyIsSuffix, BatchesApart, LastOnesRun, RunsCounted, NEW w \in Workers, StartSearch(w)
    PROVE  /\ ReadyIsSuffix' /\ BatchesApart' /\ LastOnesRun' /\ RunsCounted'
           /\ AttemptsKept /\ ~Waiting(wk[w].msg)'
<1>0. /\ trimmed \in Nat /\ DOMAIN log \subseteq Nat /\ runs \in [Jobs -> Nat] /\ MaxRetries \in Nat
      /\ \A i \in DOMAIN log : log[i].job \in Jobs /\ log[i].retries \in Nat
  BY StreamIs
<1>1. PICK m : m = wk[w].msg
  OBVIOUS
<1>2. /\ wk[w].pc = "start" /\ m \in DOMAIN log
      /\ wk'[w].pc = "exec" /\ wk'[w].msg = m /\ wk'[w].last = wk[w].last
      /\ \A v \in Workers \ {w} : wk'[v] = wk[v]
      /\ UNCHANGED <<log, trimmed>>
  <2>1. wk \in [Workers -> Worker]
    BY DEF TypeOK, WorkersOK
  <2>2. wk[w].pc = "start" /\ m \in DOMAIN log
    BY <1>1, WorkerIs DEF StartSearch, WorkerAt
  <2>3. wk' = [wk EXCEPT ![w].pc = "exec"]
    BY DEF StartSearch, WorkerGoes
  <2>4. QED
    BY <1>1, <2>1, <2>2, <2>3 DEF StartSearch, Worker
<1>3. PICK j : j = log[m].job
  OBVIOUS
<1>4. j \in Jobs /\ runs' = [runs EXCEPT ![j] = @ + 1]
  BY <1>0, <1>1, <1>2, <1>3 DEF StartSearch, JobOf
<1>5. Owns(w, m) /\ Waiting(m)
  BY <1>0, <1>1, <1>2 DEF Owns, Waiting, BatchesApart, BeforeRun
<1>6. \A v \in Workers, i \in DOMAIN log : Owns(v, i)' <=> Owns(v, i)
  BY <1>1, <1>2 DEF Owns
<1>7. \A i \in DOMAIN log : Waiting(i)' => Waiting(i) /\ i # m
  <2> SUFFICES ASSUME NEW i \in DOMAIN log, Waiting(i)' PROVE Waiting(i) /\ i # m
    OBVIOUS
  <2>1. CASE log[i].status = "ready"
    BY <2>1, <1>5 DEF Waiting, BatchesApart
  <2>2. CASE \E v \in Workers : Owns(v, i)' /\ (wk'[v].msg < i \/ wk'[v].pc \in BeforeRun)
    <3>1. PICK v \in Workers : Owns(v, i)' /\ (wk'[v].msg < i \/ wk'[v].pc \in BeforeRun)
      BY <2>2
    <3>2. CASE v = w
      BY <3>1, <3>2, <1>0, <1>1, <1>2, <1>6 DEF Waiting, BeforeRun
    <3>3. CASE v # w
      <4>1. Owns(v, i) /\ (wk[v].msg < i \/ wk[v].pc \in BeforeRun)
        BY <3>1, <3>3, <1>2, <1>6
      <4>2. i # m
        BY <3>3, <4>1, <1>5 DEF BatchesApart
      <4>3. QED
        BY <4>1, <4>2 DEF Waiting
    <3>4. QED
      BY <3>2, <3>3
  <2>3. QED
    BY <2>1, <2>2, <1>2 DEF Waiting
<1>8. \A i \in DOMAIN log : Working(i)' => i = m \/ Working(i)
  BY <1>2 DEF Working
<1>9. \A i \in DOMAIN log : (Waiting(i) \/ Working(i)) /\ log[i].job = j => i = m
  <2> SUFFICES ASSUME NEW i \in DOMAIN log, Waiting(i) \/ Working(i), log[i].job = j PROVE i = m
    OBVIOUS
  <2>1. i <= m /\ m <= i
    BY <1>2, <1>3, <1>5 DEF LastOnesRun
  <2>2. QED
    BY <1>0, <1>2, <2>1
<1>10. ReadyIsSuffix' /\ BatchesApart'
  <2>1. ReadyIsSuffix'
    BY <1>2 DEF ReadyIsSuffix
  <2>2. \A v \in Workers : wk'[v].pc # "idle" => wk'[v].msg <= wk'[v].last
    BY <1>1, <1>2 DEF BatchesApart
  <2>3. BatchesApart'
    BY <1>2, <1>6, <2>2 DEF BatchesApart
  <2>4. QED
    BY <2>1, <2>3
<1>11. LastOnesRun'
  BY <1>2, <1>5, <1>7, <1>8 DEF LastOnesRun
<1>12. runs[j] <= log[m].retries /\ log[m].retries <= MaxRetries
  BY <1>2, <1>3, <1>5 DEF RunsCounted
<1>13. RunsCounted'
  <2>1. \A v \in Workers : wk'[v].pc \in {"trim", "add"} => log'[wk'[v].msg].retries < MaxRetries
    BY <1>2 DEF RunsCounted
  <2>2. ASSUME NEW i \in DOMAIN log
        PROVE  /\ log[i].retries <= MaxRetries
               /\ Waiting(i)' => runs'[log[i].job] <= log[i].retries
               /\ Working(i)' => runs'[log[i].job] <= log[i].retries + 1
    <3>1. log[i].retries <= MaxRetries
      BY DEF RunsCounted
    <3>2. CASE i = m
      <4>1. runs'[log[i].job] = runs[j] + 1
        BY <3>2, <1>0, <1>3, <1>4
      <4>2. runs[j] \in Nat /\ log[m].retries \in Nat
        BY <1>0, <1>2, <1>4
      <4>3. QED
        BY <3>1, <3>2, <4>1, <4>2, <1>7, <1>12
    <3>3. CASE i # m /\ (Waiting(i) \/ Working(i))
      <4>1. log[i].job # j /\ runs'[log[i].job] = runs[log[i].job]
        BY <3>3, <1>0, <1>4, <1>9
      <4>2. QED
        BY <3>1, <3>3, <4>1, <1>7, <1>8 DEF RunsCounted
    <3>4. QED
      BY <3>1, <3>2, <3>3, <1>7, <1>8
  <2>3. ASSUME NEW k \in Jobs PROVE runs'[k] <= MaxRetries + 1 /\ (k \notin Enqueued' => runs'[k] = 0)
    <3>1. CASE k = j
      <4>1. runs'[k] = runs[j] + 1 /\ runs[j] \in Nat /\ log[m].retries \in Nat
        BY <3>1, <1>0, <1>2, <1>4
      <4>2. k \in Enqueued'
        BY <3>1, <1>2, <1>3 DEF Enqueued
      <4>3. QED
        BY <4>1, <4>2, <1>0, <1>12
    <3>2. CASE k # j
      BY <3>2, <1>0, <1>2, <1>4 DEF RunsCounted, Enqueued
    <3>3. QED
      BY <3>1, <3>2
  <2>4. QED
    BY <2>1, <2>2, <2>3, <1>2 DEF RunsCounted
<1>14. QED
  BY <1>1, <1>2, <1>7, <1>10, <1>11, <1>13 DEF AttemptsKept

\* XACK, and the worker goes on to the next entry of its batch.
LEMMA AckKeeps ==
    ASSUME TypeOK, ReadyIsSuffix, BatchesApart, LastOnesRun, RunsCounted, NEW w \in Workers, AckMessage(w)
    PROVE  /\ ReadyIsSuffix' /\ BatchesApart' /\ LastOnesRun' /\ RunsCounted'
           /\ Enqueued' = Enqueued /\ DOMAIN log' = DOMAIN log /\ AttemptsKept
<1>0. /\ trimmed \in Nat /\ DOMAIN log \subseteq Nat
      /\ \A v \in Workers : wk[v].msg \in Nat /\ wk[v].last \in Nat
  BY StreamIs, WorkerIs
<1>1. PICK m : m = wk[w].msg
  OBVIOUS
<1>2. wk[w].pc \in {"ack", "backoff"} /\ m \in DOMAIN log /\ m \in Nat
  BY <1>1, WorkerIs DEF AckMessage
<1>3. /\ DOMAIN log' = DOMAIN log
      /\ \A i \in DOMAIN log : log'[i].job = log[i].job /\ log'[i].retries = log[i].retries
      /\ \A i \in DOMAIN log : log'[i].status = IF i = m THEN "acked" ELSE log[i].status
  <2>1. log' = [log EXCEPT ![m] = [log[m] EXCEPT !.status = "acked"]]
    BY <1>1 DEF AckMessage, Acknowledge
  <2>2. \A i \in DOMAIN log : log[i] \in Message
    BY StreamIs
  <2>3. \A x \in Message : /\ [x EXCEPT !.status = "acked"].status = "acked"
                           /\ [x EXCEPT !.status = "acked"].job = x.job
                           /\ [x EXCEPT !.status = "acked"].retries = x.retries
    BY DEF Message
  <2>4. QED
    BY <1>2, <2>1, <2>2, <2>3
<1>4. /\ \A v \in Workers \ {w} : wk'[v] = wk[v]
      /\ \/ m < wk[w].last /\ wk'[w].pc = "load" /\ wk'[w].msg = m + 1 /\ wk'[w].last = wk[w].last
         \/ wk'[w].pc = "idle"
      /\ UNCHANGED <<trimmed, runs>>
  BY <1>1 DEF AckMessage, TypeOK, WorkersOK, IdleWorker
<1>5. Owns(w, m)
  BY <1>0, <1>1, <1>2 DEF Owns, BatchesApart
<1>6. /\ \A i \in DOMAIN log : Owns(w, i)' => Owns(w, i) /\ m < i
      /\ \A v \in Workers \ {w}, i \in DOMAIN log : (Owns(v, i)' <=> Owns(v, i)) /\ (Owns(v, i) => i # m)
  <2>1. \A i \in DOMAIN log : Owns(w, i)' => Owns(w, i) /\ m < i
    BY <1>0, <1>1, <1>2, <1>4 DEF Owns
  <2>2. \A v \in Workers \ {w}, i \in DOMAIN log : Owns(v, i)' <=> Owns(v, i)
    BY <1>4 DEF Owns
  <2>3. \A v \in Workers \ {w}, i \in DOMAIN log : Owns(v, i) => i # m
    BY <1>2, <1>5 DEF BatchesApart
  <2>4. QED
    BY <2>1, <2>2, <2>3
<1>7. \A i \in DOMAIN log : Waiting(i)' => Waiting(i)
  <2> SUFFICES ASSUME NEW i \in DOMAIN log, Waiting(i)' PROVE Waiting(i)
    OBVIOUS
  <2>1. CASE log'[i].status = "ready"
    BY <2>1, <1>3 DEF Waiting
  <2>2. CASE \E v \in Workers : Owns(v, i)' /\ (wk'[v].msg < i \/ wk'[v].pc \in BeforeRun)
    <3>1. PICK v \in Workers : Owns(v, i)' /\ (wk'[v].msg < i \/ wk'[v].pc \in BeforeRun)
      BY <2>2
    <3>2. CASE v = w
      BY <3>1, <3>2, <1>1, <1>6 DEF Waiting
    <3>3. CASE v # w
      BY <3>1, <3>3, <1>4, <1>6 DEF Waiting
    <3>4. QED
      BY <3>2, <3>3
  <2>3. QED
    BY <2>1, <2>2 DEF Waiting
<1>8. \A i \in DOMAIN log : Working(i)' => Working(i)
  BY <1>4 DEF Working, InRun
<1>9. Enqueued' = Enqueued
  BY <1>3 DEF Enqueued
<1>10. ReadyIsSuffix'
  BY <1>3, <1>4, <1>5 DEF ReadyIsSuffix, BatchesApart
<1>11. BatchesApart'
  <2>1. \A v \in Workers, i \in DOMAIN log' : Owns(v, i)' => log'[i].status = "pending"
    BY <1>0, <1>2, <1>3, <1>6 DEF BatchesApart
  <2>2. \A v \in Workers : wk'[v].pc # "idle" => wk'[v].msg <= wk'[v].last
    <3> SUFFICES ASSUME NEW v \in Workers, wk'[v].pc # "idle" PROVE wk'[v].msg <= wk'[v].last
      OBVIOUS
    <3>1. CASE v = w
      BY <3>1, <1>0, <1>2, <1>4
    <3>2. CASE v # w
      BY <3>2, <1>4 DEF BatchesApart
    <3>3. QED
      BY <3>1, <3>2
  <2>3. \A u, v \in Workers : \A i \in DOMAIN log' : u # v /\ Owns(u, i)' => ~Owns(v, i)'
    BY <1>3, <1>6 DEF BatchesApart
  <2>4. QED
    BY <2>1, <2>2, <2>3 DEF BatchesApart
<1>12. LastOnesRun'
  BY <1>3, <1>7, <1>8 DEF LastOnesRun
<1>13. RunsCounted'
  <2>1. \A v \in Workers : wk'[v].pc \in {"trim", "add"} => log'[wk'[v].msg].retries < MaxRetries
    <3> SUFFICES ASSUME NEW v \in Workers, wk'[v].pc \in {"trim", "add"}
                 PROVE  log'[wk'[v].msg].retries < MaxRetries
      OBVIOUS
    <3>1. wk'[v] = wk[v]
      BY <1>4
    <3>2. wk[v].msg \in DOMAIN log
      BY <3>1, WorkerIs
    <3>3. QED
      BY <3>1, <3>2, <1>3 DEF RunsCounted
  <2>2. \A i \in DOMAIN log' : /\ log'[i].retries <= MaxRetries
                               /\ Waiting(i)' => runs'[log'[i].job] <= log'[i].retries
                               /\ Working(i)' => runs'[log'[i].job] <= log'[i].retries + 1
    BY <1>3, <1>4, <1>7, <1>8 DEF RunsCounted
  <2>3. QED
    BY <1>4, <1>9, <2>1, <2>2 DEF RunsCounted
<1>14. QED
  BY <1>3, <1>7, <1>9, <1>10, <1>11, <1>12, <1>13 DEF AttemptsKept

-----------------------------------------------------------------------------
(* Drawn job ids. *)

\* Every step of submit_search but the draw itself keeps or drops a drawn id,
\* and only its owner brings it into the stream.
LEMMA DrawnStep ==
    ASSUME TypeOK, DrawnAreNew, [Next]_vars
    PROVE  DrawnAreNew'
<1>t. TypeOK /\ ClientsOK /\ cl \in [Clients -> Client] /\ QueueTypeOK
  BY DEF TypeOK, ClientsOK
<1>d. \A c \in Clients : cl[c].job \in Jobs \cup {NoJob}
  BY <1>t DEF Client
<1>k. ASSUME \A d \in Clients : Drawn(d)' => Drawn(d) /\ cl'[d].job = cl[d].job, Enqueued' = Enqueued
      PROVE  DrawnAreNew'
  BY <1>k DEF DrawnAreNew
<1>e. UNCHANGED log => Enqueued' = Enqueued
  BY DEF Enqueued
<1>1. ASSUME NEW c \in Clients, AdmitSubmission(c) PROVE DrawnAreNew'
  <2>1. PICK j \in FreshJobs : cl' = [cl EXCEPT ![c] = [cl[c] EXCEPT !.pc = "claim", !.job = j]]
    BY <1>1, Zenon DEF AdmitSubmission
  <2>2. j \notin Enqueued /\ \A d \in Clients : cl[d].job # j
    BY DEF FreshJobs, Enqueued
  <2>3. Enqueued' = Enqueued
    BY <1>1, <1>e DEF AdmitSubmission, queueVars
  <2>4. cl'[c].job = j /\ \A d \in Clients \ {c} : cl'[d] = cl[d]
    BY <2>1, <1>t DEF Client
  <2>5. \A d \in Clients \ {c} : Drawn(d)' => Drawn(d)
    BY <2>4 DEF Drawn
  <2>6. QED
    BY <2>2, <2>3, <2>4, <2>5 DEF DrawnAreNew
<1>2. ASSUME NEW c \in Clients, EnqueueJob(c) \/ SubmitFails(c) PROVE DrawnAreNew'
  <2>1. cl[c].job \in Jobs /\ cl[c].fp \in Fingerprints /\ Drawn(c)
    BY <1>2, <1>t DEF EnqueueJob, SubmitFails, ClientAt, OwnsJob, ClientsOK, Client, Drawn
  <2>2. Enqueued' \subseteq Enqueued \cup {cl[c].job}
    BY <1>2, <2>1, <1>t, <1>e, EnqueueJobs DEF EnqueueJob, SubmitFails
  <2>3. ~Drawn(c)' /\ \A d \in Clients \ {c} : cl'[d] = cl[d]
    BY <1>2, <1>t DEF EnqueueJob, SubmitFails, ClientGoes, Returns, IdleClient, Drawn, Client
  <2>4. \A d \in Clients : Drawn(d)' => Drawn(d) /\ cl'[d].job = cl[d].job /\ d # c
    BY <2>3 DEF Drawn
  <2>5. QED
    BY <2>1, <2>2, <2>4 DEF DrawnAreNew
<1>3. ASSUME NEW c \in Clients, ClientStep(c) \/ SubmitSearch(c) \/ CancelJob(c) \/ ClientStops(c),
             ~AdmitSubmission(c), ~EnqueueJob(c)
      PROVE  DrawnAreNew'
  <2>0. UNCHANGED log /\ \A d \in Clients \ {c} : cl'[d] = cl[d]
    BY <1>3, <1>t
       DEF ClientStep, SubmitSearch, ReuseJob, NothingToReuse, RejectSubmission, ClaimFingerprint,
           LookupAgain, RebindFingerprint, CreateJobRecord, TruncateBeforeAdd, CheckOwner, ReleaseFingerprint,
           ClientStops, CancelJob, FlagCancel, CancelPending, queueVars, Lookup, Returns, ClientGoes
  <2>1. \A d \in Clients \ {c} : Drawn(d)' => Drawn(d) /\ cl'[d].job = cl[d].job
    BY <2>0 DEF Drawn
  <2>2. Drawn(c)' => Drawn(c) /\ cl'[c].job = cl[c].job
    <3>1. CASE SubmitSearch(c)
      BY <3>1, <1>t DEF SubmitSearch, Lookup, Drawn
    <3>2. CASE \/ ReuseJob(c) \/ RejectSubmission(c) \/ ReleaseFingerprint(c) \/ ClientStops(c) \/ CancelPending(c)
      BY <3>2, <1>t DEF ReuseJob, RejectSubmission, ReleaseFingerprint, ClientStops, CancelPending, Returns,
                        IdleClient, Drawn
    <3>3. CASE NothingToReuse(c)
      <4>1. /\ cl'[c].job = cl[c].job /\ cl[c].pc = "inspect"
            /\ cl'[c].pc = IF cl[c].job = NoJob THEN "guard" ELSE "bind"
        BY <3>3, <1>t DEF NothingToReuse, ClientAt, Client
      <4>2. QED
        BY <4>1 DEF Drawn
    <3>4. CASE LookupAgain(c)
      BY <3>4, <1>t DEF LookupAgain, Lookup, ClientAt, Drawn
    <3>5. ASSUME NEW pc, ClientGoes(c, pc) PROVE cl'[c].pc = pc /\ cl'[c].job = cl[c].job
      BY <3>5, <1>t DEF ClientGoes, Client
    <3>6. CASE ClaimFingerprint(c) \/ RebindFingerprint(c) \/ CreateJobRecord(c) \/ TruncateBeforeAdd(c)
      <4>1. Drawn(c) /\ cl'[c].job = cl[c].job
        BY <3>5, <3>6 DEF ClaimFingerprint, RebindFingerprint, CreateJobRecord, TruncateBeforeAdd, ClientAt, Drawn
      <4>2. QED
        BY <4>1
    <3>7. CASE CheckOwner(c) \/ FlagCancel(c)
      <4>1. Returns(c) \/ \E pc \in {"delete", "cancel"} : ClientGoes(c, pc)
        BY <3>7 DEF CheckOwner, FlagCancel
      <4>2. cl'[c].pc \in {"idle", "delete", "cancel"}
        BY <4>1, <3>5, <1>t DEF Returns, IdleClient
      <4>3. QED
        BY <4>2 DEF Drawn
    <3>8. CASE CancelJob(c)
      <4>1. cl'[c].pc \in {"flag_pending", "flag_running"}
        <5>1. PICK j \in Jobs :
                cl' = [cl EXCEPT ![c] = [cl[c] EXCEPT !.seen = j,
                         !.pc = IF rec[j].state = "PENDING" THEN "flag_pending" ELSE "flag_running"]]
          BY <3>8, <1>t DEF CancelJob, TypeOK
        <5>2. QED
          BY <5>1, <1>t DEF Client
      <4>2. QED
        BY <4>1 DEF Drawn
    <3>9. QED
      BY <1>3, <3>1, <3>2, <3>3, <3>4, <3>6, <3>7, <3>8 DEF ClientStep
  <2>3. QED
    BY <1>e, <1>k, <2>0, <2>1, <2>2
<1>4. ASSUME NEW w \in Workers, WorkerStep(w) \/ WorkerStops(w) PROVE DrawnAreNew'
  <2>1. Enqueued' \subseteq Enqueued
    <3>1. CASE ReadBatch(w)
      BY <3>1, <1>t, DeliverTypes, StatusJobs DEF ReadBatch
    <3>2. CASE AckMessage(w)
      <4>1. wk[w].msg \in DOMAIN log
        BY <3>2, WorkerIs DEF AckMessage
      <4>2. QED
        BY <3>2, <4>1, <1>t, AcknowledgeTypes, StatusJobs DEF AckMessage
    <3>3. CASE EnqueueRetry(w)
      <4>1. JobOf(w) \in Jobs /\ RequestOf(w) \in Fingerprints /\ RetriesOf(w) + 1 \in Nat
        BY <3>3, <1>t, WorkerMessage DEF EnqueueRetry, WorkerAt, TypeOK
      <4>2. JobOf(w) \in Enqueued
        BY <3>3, WorkerIs DEF EnqueueRetry, WorkerAt, JobOf, Enqueued
      <4>3. Enqueued' \subseteq Enqueued \cup {JobOf(w)}
        BY <3>3, <4>1, <1>t, EnqueueJobs DEF EnqueueRetry
      <4>4. QED
        BY <4>2, <4>3
    <3>4. CASE UNCHANGED log
      BY <3>4, <1>e
    <3>5. QED
      BY <1>4, <3>1, <3>2, <3>3, <3>4
         DEF WorkerStep, WorkerStops, LoadRecord, HonourCancel, StartSearch, SearchSucceeds, SearchFails,
             TruncateBeforeRetry, DeadLetter, queueVars
  <2>2. UNCHANGED cl
    BY <1>4 DEF WorkerStep, WorkerStops, ReadBatch, LoadRecord, HonourCancel, StartSearch, SearchSucceeds,
                SearchFails, TruncateBeforeRetry, EnqueueRetry, DeadLetter, AckMessage
  <2>3. QED
    BY <2>1, <2>2 DEF DrawnAreNew, Drawn
<1>5. CASE Expiry \/ UNCHANGED vars
  BY <1>5, <1>e DEF Expiry, vars, queueVars, processVars, DrawnAreNew, Drawn
<1>6. QED
  BY <1>1, <1>2, <1>3, <1>4, <1>5 DEF Next, ClientStep

-----------------------------------------------------------------------------
(* The invariant, step by step. *)

\* What is left of the budget never grows, and an XADD that is applied twice
\* takes from it.
LEMMA BudgetStep ==
    ASSUME TypeOK, [Next]_vars
    PROVE  \A kind \in Kinds : left'[kind] <= left[kind]
<1>1. left \in [Kinds -> Nat]
  BY DEF TypeOK, Kinds
<1>2. UNCHANGED left \/ \E kind \in Kinds : Spend(kind)
  BY DEF Next, ClientStep, WorkerStep, SubmitSearch, CancelJob, SubmitFails, ClientStops, WorkerStops, Expiry,
         ReuseJob, NothingToReuse, RejectSubmission, AdmitSubmission, ClaimFingerprint, LookupAgain,
         RebindFingerprint, CreateJobRecord, TruncateBeforeAdd, EnqueueJob, CheckOwner, ReleaseFingerprint,
         FlagCancel, CancelPending, ReadBatch, LoadRecord, HonourCancel, StartSearch, SearchSucceeds,
         SearchFails, TruncateBeforeRetry, EnqueueRetry, DeadLetter, AckMessage, Kinds, vars, processVars
<1>3. QED
  BY <1>1, <1>2 DEF Spend

\* So a fault that has not happened by the end of a step had not happened before
\* it, and did not happen in it.
LEMMA NotYet ==
    ASSUME TypeOK, BudgetSpent, [Next]_vars, NEW kind \in Kinds, Spent(kind)' = 0
    PROVE  Spent(kind) = 0 /\ ~Spend(kind)
<1>1. left[kind] \in Nat /\ Budget[kind] \in Nat /\ left \in [Kinds -> Nat]
  BY BudgetAssumption DEF TypeOK, Kinds
<1>2. left'[kind] <= left[kind] /\ left[kind] <= Budget[kind] /\ Budget[kind] - left'[kind] = 0
  BY BudgetStep DEF BudgetSpent, Spent
<1>3. left'[kind] \in Nat
  BY TypeStep DEF TypeOK
<1>4. left'[kind] = left[kind] /\ left[kind] = Budget[kind]
  BY <1>1, <1>2, <1>3
<1>5. QED
  BY <1>1, <1>4 DEF Spend, Spent

\* No step adds to the budget.
THEOREM BudgetKept == Spec => []BudgetSpent
<1>1. Init => BudgetSpent
  BY BudgetAssumption DEF Init, BudgetSpent
<1>2. TypeOK /\ BudgetSpent /\ [Next]_vars => BudgetSpent'
  <2> SUFFICES ASSUME TypeOK, BudgetSpent, [Next]_vars, NEW kind \in Kinds
               PROVE  left'[kind] <= Budget[kind]
    BY DEF BudgetSpent
  <2>1. left[kind] \in Nat /\ Budget[kind] \in Nat /\ left'[kind] \in Nat
    BY TypeStep, BudgetAssumption DEF TypeOK
  <2>2. left'[kind] <= left[kind] /\ left[kind] <= Budget[kind]
    BY BudgetStep DEF BudgetSpent
  <2>3. QED
    BY <2>1, <2>2
<1>3. QED
  BY <1>1, <1>2, TypeCorrect, PTL DEF Spec

\* An XADD that is applied twice is one resend more.
LEMMA ResendSpends ==
    ASSUME TypeOK, NoResends, NoResends'
    PROVE  ~Spend("resend")
<1>1. left["resend"] \in Nat /\ Budget["resend"] \in Nat /\ left \in [Kinds -> Nat]
  BY BudgetAssumption DEF TypeOK, Kinds
<1>2. Budget["resend"] - left["resend"] = 0 /\ Budget["resend"] - left'["resend"] = 0
  BY DEF NoResends, Spent
<1>3. Spend("resend") => left'["resend"] = left["resend"] - 1
  BY <1>1 DEF Spend, Kinds
<1>4. QED
  BY <1>1, <1>2, <1>3

\* A client's step puts at most its own drawn job into the stream.
LEMMA ExecutionClient ==
    ASSUME ExecutionInv, NoResends, NoResends', NEW c \in Clients,
           ClientStep(c) \/ SubmitSearch(c) \/ CancelJob(c) \/ SubmitFails(c) \/ ClientStops(c)
    PROVE  /\ ReadyIsSuffix' /\ BatchesApart' /\ LastOnesRun' /\ RunsCounted' /\ AttemptsKept
           /\ \A i \in DOMAIN log : log'[i] = log[i]
           /\ \A i \in DOMAIN log' \ DOMAIN log :
                 /\ cl[c].pc = "add" /\ log'[i].status = "ready"
                 /\ log'[i].job = cl[c].job /\ log'[i].retries = 0
           /\ log' # log => EnqueueJob(c) \/ SubmitFails(c)
<1> USE DEF ExecutionInv
<1>0. UNCHANGED <<wk, runs>> /\ trimmed \in Nat /\ Len(log) \in Nat
  BY StreamIs DEF ClientStep, SubmitSearch, CancelJob, SubmitFails, ClientStops,
         ReuseJob, NothingToReuse, RejectSubmission, AdmitSubmission, ClaimFingerprint, LookupAgain,
         RebindFingerprint, CreateJobRecord, TruncateBeforeAdd, EnqueueJob, CheckOwner, ReleaseFingerprint,
         FlagCancel, CancelPending, TypeOK, Kinds
<1>1. CASE UNCHANGED log
  <2>1. trimmed' \in Nat /\ trimmed' >= trimmed
    <3>1. TruncateIfNeeded \/ UNCHANGED trimmed
      BY DEF ClientStep, SubmitSearch, CancelJob, SubmitFails, ClientStops,
         ReuseJob, NothingToReuse, RejectSubmission, AdmitSubmission, ClaimFingerprint, LookupAgain,
         RebindFingerprint, CreateJobRecord, TruncateBeforeAdd, EnqueueJob, CheckOwner, ReleaseFingerprint,
         FlagCancel, CancelPending, queueVars
    <3>2. QED
      BY <3>1, <1>0, LimitsAssumption DEF TruncateIfNeeded
  <2>2. QED
    BY <1>0, <1>1, <2>1, StreamSame
<1>2. CASE ~UNCHANGED log
  <2>1. EnqueueJob(c) \/ SubmitFails(c)
    BY <1>2 DEF ClientStep, SubmitSearch, CancelJob, ClientStops,
         ReuseJob, NothingToReuse, RejectSubmission, AdmitSubmission, ClaimFingerprint, LookupAgain,
         RebindFingerprint, CreateJobRecord, TruncateBeforeAdd, CheckOwner, ReleaseFingerprint,
         FlagCancel, CancelPending, queueVars
  <2>2. /\ cl[c].job \in Jobs /\ cl[c].fp \in Fingerprints /\ Drawn(c)
    BY <2>1 DEF EnqueueJob, SubmitFails, ClientAt, OwnsJob, TypeOK, ClientsOK, Client, Drawn
  <2>3. ~Spend("resend")
    BY ResendSpends
  <2>4. Enqueue(cl[c].job, cl[c].fp, 0) /\ UNCHANGED trimmed
    BY <1>2, <2>1, <2>3 DEF EnqueueJob, SubmitFails
  <2>5. cl[c].job \notin Enqueued
    BY <2>2 DEF DrawnAreNew
  <2>6. runs[cl[c].job] = 0
    BY <2>2, <2>5 DEF RunsCounted
  <2>7. \A i \in DOMAIN log : log[i].job # cl[c].job
    BY <2>5 DEF Enqueued
  <2>8. 0 <= MaxRetries
    BY RetriesAssumption
  <2>10. cl[c].pc = "add"
    BY <1>2, <2>1 DEF EnqueueJob, SubmitFails, ClientAt
  <2>11. QED
    BY <1>0, <2>1, <2>2, <2>4, <2>6, <2>7, <2>8, <2>10, AddKeeps
<1>3. QED
  BY <1>1, <1>2

\* A retry is added by the worker that has just run the job's last entry.
LEMMA ExecutionRetry ==
    ASSUME ExecutionInv, NoResends, NoResends', NEW w \in Workers, EnqueueRetry(w)
    PROVE  /\ ReadyIsSuffix' /\ BatchesApart' /\ LastOnesRun' /\ RunsCounted' /\ AttemptsKept
           /\ \A i \in DOMAIN log : log'[i] = log[i]
           /\ DOMAIN log' # DOMAIN log
           /\ \A i \in DOMAIN log' \ DOMAIN log :
                 /\ log'[i].job = JobOf(w) /\ log'[i].retries = RetriesOf(w) + 1
                 /\ log'[i].status = "ready"
<1> USE DEF ExecutionInv
<1>1. wk[w].pc = "add" /\ wk[w].msg \in DOMAIN log
  BY WorkerIs DEF EnqueueRetry, WorkerAt
<1>2. JobOf(w) \in Jobs /\ RequestOf(w) \in Fingerprints /\ RetriesOf(w) \in Nat
  BY <1>1, WorkerMessage DEF TypeOK, WorkerAt
<1>3. ~Spend("resend")
  BY ResendSpends
<1>4. Enqueue(JobOf(w), RequestOf(w), RetriesOf(w) + 1) /\ UNCHANGED <<trimmed, runs>>
  BY <1>3 DEF EnqueueRetry
<1>5. /\ wk'[w].pc = "backoff" /\ wk'[w].msg = wk[w].msg /\ wk'[w].last = wk[w].last
      /\ \A v \in Workers \ {w} : wk'[v] = wk[v]
  BY DEF EnqueueRetry, WorkerGoes, TypeOK, WorkersOK, Worker
<1>6. RetriesOf(w) + 1 <= MaxRetries
  BY <1>1, <1>2, RetriesAssumption DEF RunsCounted, RetriesOf
<1>7. runs[JobOf(w)] <= RetriesOf(w) + 1
  <2>1. Working(wk[w].msg)
    BY <1>1 DEF Working, InRun
  <2>2. QED
    BY <1>1, <2>1 DEF RunsCounted, JobOf, RetriesOf
<1>8. ASSUME NEW i \in DOMAIN log, log[i].job = JobOf(w) PROVE ~Waiting(i) /\ ~Working(i)'
  <2>1. wk[w].pc \in InRun
    BY <1>1 DEF InRun
  <2>2. ~Waiting(i) /\ \A v \in Workers : wk[v].msg = i /\ wk[v].pc \in InRun => v = w
    BY <1>8, <2>1, RunIsLast
  <2>3. ~Working(i)'
    BY <1>5, <2>2 DEF Working, InRun
  <2>4. QED
    BY <2>2, <2>3
<1>9. \A v \in Workers : \/ wk'[v] = wk[v]
                         \/ /\ wk[v].pc = "add" /\ wk'[v].pc = "backoff"
                            /\ wk'[v].msg = wk[v].msg /\ wk'[v].last = wk[v].last
  BY <1>1, <1>5
<1>10. RetriesOf(w) + 1 \in Nat
  BY <1>2
<1>11. QED
  BY <1>2, <1>4, <1>6, <1>7, <1>8, <1>9, <1>10, AddKeeps

\* A worker's step keeps the batches apart and the runs counted.
LEMMA ExecutionWorker ==
    ASSUME ExecutionInv, NoResends, NoResends', NEW w \in Workers, WorkerStep(w) \/ WorkerStops(w)
    PROVE  ReadyIsSuffix' /\ BatchesApart' /\ LastOnesRun' /\ RunsCounted' /\ AttemptsKept
<1> USE DEF ExecutionInv
<1>1. CASE ReadBatch(w)
  BY <1>1, ReadKeeps
<1>2. CASE StartSearch(w)
  BY <1>2, StartKeeps
<1>3. CASE EnqueueRetry(w)
  BY <1>3, ExecutionRetry
<1>4. CASE AckMessage(w)
  BY <1>4, AckKeeps
<1>5. CASE \/ LoadRecord(w) \/ HonourCancel(w) \/ SearchSucceeds(w) \/ SearchFails(w)
           \/ TruncateBeforeRetry(w) \/ DeadLetter(w) \/ WorkerStops(w)
  <2>0. trimmed \in Nat /\ Len(log) \in Nat /\ \A v \in Workers : wk[v] \in Worker
    BY StreamIs DEF TypeOK, WorkersOK
  <2>1. UNCHANGED <<log, runs>> /\ trimmed' \in Nat /\ trimmed' >= trimmed
    BY <1>5, <2>0, LimitsAssumption
       DEF LoadRecord, HonourCancel, SearchSucceeds, SearchFails, TruncateBeforeRetry, DeadLetter, WorkerStops,
           queueVars, TruncateIfNeeded
  <2>2. wk[w].pc # "idle" /\ \A v \in Workers \ {w} : wk'[v] = wk[v]
    BY <1>5 DEF LoadRecord, HonourCancel, SearchSucceeds, SearchFails, TruncateBeforeRetry, DeadLetter,
                WorkerStops, WorkerAt, WorkerGoes, TypeOK, WorkersOK
  <2>3. ASSUME NEW pc, WorkerGoes(w, pc) PROVE wk'[w].pc = pc /\ wk'[w].msg = wk[w].msg /\ wk'[w].last = wk[w].last
    BY <2>0, <2>3 DEF WorkerGoes, Worker, TypeOK, WorkersOK
  <2>4. /\ wk'[w].pc # "idle" => wk'[w].msg = wk[w].msg /\ wk'[w].last = wk[w].last
        /\ wk'[w].pc \in BeforeRun => wk[w].pc \in BeforeRun
        /\ wk'[w].pc \in InRun => wk[w].pc \in InRun
        /\ wk'[w].pc \in {"trim", "add"} => log[wk[w].msg].retries < MaxRetries
    <3>1. CASE LoadRecord(w)
      <4>1. wk[w].pc = "load" /\ \E pc \in {"ack", "cancel", "start"} : WorkerGoes(w, pc)
        BY <3>1 DEF LoadRecord, WorkerAt
      <4>2. QED
        BY <4>1, <2>3 DEF BeforeRun, InRun
    <3>2. CASE HonourCancel(w) \/ SearchSucceeds(w) \/ DeadLetter(w)
      BY <3>2, <2>3 DEF HonourCancel, SearchSucceeds, DeadLetter, BeforeRun, InRun
    <3>3. CASE SearchFails(w)
      <4>1. /\ wk[w].pc = "exec"
            /\ (WorkerGoes(w, "trim") /\ MayRetry(RetriesOf(w))) \/ WorkerGoes(w, "dlq")
        BY <3>3 DEF SearchFails, WorkerAt
      <4>2. MayRetry(RetriesOf(w)) => log[wk[w].msg].retries < MaxRetries
        BY <2>2, WorkerIs, StreamIs DEF MayRetry, RetriesOf
      <4>3. QED
        BY <4>1, <4>2, <2>3 DEF BeforeRun, InRun
    <3>4. CASE TruncateBeforeRetry(w)
      <4>1. wk[w].pc = "trim" /\ WorkerGoes(w, "add")
        BY <3>4 DEF TruncateBeforeRetry, WorkerAt
      <4>2. QED
        BY <4>1, <2>3 DEF BeforeRun, InRun, RunsCounted
    <3>5. CASE WorkerStops(w)
      BY <3>5 DEF WorkerStops, IdleWorker, TypeOK, WorkersOK, BeforeRun, InRun
    <3>6. QED
      BY <1>5, <3>1, <3>2, <3>3, <3>4, <3>5
  <2>5. QED
    BY <2>1, <2>2, <2>4, WorkerMoves
<1>6. QED
  BY <1>1, <1>2, <1>3, <1>4, <1>5 DEF WorkerStep

\* Every step keeps the invariant.
LEMMA ExecutionStep ==
    ASSUME ExecutionInv, NoResends, NoResends', [Next]_vars
    PROVE  ExecutionInv'
<1>1. TypeOK' /\ DrawnAreNew'
  BY TypeStep, DrawnStep DEF ExecutionInv
<1>2. ReadyIsSuffix' /\ BatchesApart' /\ LastOnesRun' /\ RunsCounted'
  <2>1. CASE Expiry \/ UNCHANGED vars
    <3>1. UNCHANGED <<log, wk, runs, trimmed>> /\ trimmed \in Nat
      BY <2>1, StreamIs DEF Expiry, vars, queueVars, processVars, ExecutionInv
    <3>2. QED
      BY <3>1, StreamSame DEF ExecutionInv
  <2>2. QED
    BY <2>1, ExecutionClient, ExecutionWorker DEF Next
<1>3. QED
  BY <1>1, <1>2 DEF ExecutionInv

\* The empty stream satisfies it.
LEMMA ExecutionInit == Init => ExecutionInv
<1> SUFFICES ASSUME Init PROVE ExecutionInv
  OBVIOUS
<1>1. TypeOK
  BY TypeInit
<1>2. log = <<>> /\ DOMAIN log = {} /\ Enqueued = {} /\ \A w \in Workers : wk[w].pc = "idle"
  BY DEF Init, QueueInit, IdleWorker, Enqueued
<1>3. DrawnAreNew
  BY DEF Init, IdleClient, DrawnAreNew, Drawn
<1>4. ReadyIsSuffix /\ BatchesApart /\ LastOnesRun
  BY <1>2 DEF ReadyIsSuffix, BatchesApart, LastOnesRun, Owns
<1>5. RunsCounted
  BY <1>2, RetriesAssumption DEF Init, RunsCounted
<1>6. QED
  BY <1>1, <1>3, <1>4, <1>5 DEF ExecutionInv

\* As long as no XADD is applied twice, only the last entry of a job is still
\* to be run, by one worker, and its number counts the runs so far.
THEOREM ExecutionInvariant == Spec => [](NoResends => ExecutionInv)
<1>1. Init => (NoResends => ExecutionInv)
  BY ExecutionInit
<1>2. TypeOK /\ BudgetSpent /\ (NoResends => ExecutionInv) /\ [Next]_vars => (NoResends => ExecutionInv)'
  BY ExecutionStep, NotYet DEF NoResends, Kinds
<1>3. QED
  BY <1>1, <1>2, TypeCorrect, BudgetKept, PTL DEF Spec

\* Two workers never run the same job at the same time, whoever crashes,
\* cancels or expires, as long as no XADD is applied twice.
THEOREM SingleRun == Spec => [](NoResends => SingleExecution)
<1>1. ExecutionInv => SingleExecution
  <2> SUFFICES ASSUME ExecutionInv, NEW v \in Workers, NEW w \in Workers,
                      WorkerAt(v, "exec"), WorkerAt(w, "exec"), JobOf(v) = JobOf(w)
               PROVE  v = w
    BY DEF SingleExecution
  <2>1. wk[v].pc \in InRun /\ wk[w].pc \in InRun /\ wk[v].msg \in DOMAIN log
    BY WorkerIs DEF WorkerAt, InRun, ExecutionInv
  <2>2. QED
    BY <2>1, RunIsLast DEF ExecutionInv, JobOf
<1>2. QED
  BY <1>1, ExecutionInvariant, PTL

\* A job's search is started at most max_retries + 1 times.
THEOREM RunsBounded == Spec => [](NoResends => AttemptsBounded)
<1>1. ExecutionInv => AttemptsBounded
  BY DEF ExecutionInv, RunsCounted, AttemptsBounded
<1>2. QED
  BY <1>1, ExecutionInvariant, PTL

-----------------------------------------------------------------------------
(* Undelivered entries. *)

TrimInv ==
    /\ ExecutionInv /\ AdmissionInv
    /\ Clients = {} => log = <<>>
    /\ NoUndeliveredTrimmed

\* A step trims or writes entries, never both, and no entry becomes undelivered again.
LEMMA EntriesStep ==
    ASSUME TypeOK, [Next]_vars
    PROVE  /\ (TruncateIfNeeded /\ UNCHANGED log) \/ UNCHANGED trimmed
           /\ \A i \in DOMAIN log : log'[i].status = "ready" => log[i].status = "ready"
           /\ Clients = {} /\ log = <<>> => log' = <<>>
<1>t. QueueTypeOK
  BY DEF TypeOK
<1>a. ASSUME NEW j \in Jobs, NEW f \in Fingerprints, NEW n \in Nat, Enqueue(j, f, n) \/ EnqueueTwice(j, f, n)
      PROVE  \A i \in DOMAIN log : log'[i] = log[i]
  <2>1. Entry(j, f, n) \in Message /\ log \in Seq(Message) /\ Len(log) \in Nat /\ DOMAIN log = 1..Len(log)
    BY <1>t, StreamIs DEF Entry, Message, QueueTypeOK
  <2> DEFINE s == Append(log, Entry(j, f, n))
  <2>2. s \in Seq(Message) /\ Len(s) = Len(log) + 1 /\ \A i \in 1..Len(log) : s[i] = log[i]
    BY <2>1, AppendProperties
  <2> HIDE DEF s
  <2>3. \A i \in 1..Len(s) : Append(s, Entry(j, f, n))[i] = s[i]
    BY <2>1, <2>2, AppendProperties
  <2>4. log' = s \/ log' = Append(s, Entry(j, f, n))
    BY <1>a DEF Enqueue, EnqueueTwice, s
  <2>5. QED
    BY <2>1, <2>2, <2>3, <2>4
<1>1. CASE UNCHANGED <<log, trimmed>>
  BY <1>1
<1>2. ASSUME NEW c \in Clients, EnqueueJob(c) \/ SubmitFails(c)
      PROVE  UNCHANGED trimmed /\ \A i \in DOMAIN log : log'[i] = log[i]
  <2>1. cl[c].job \in Jobs /\ cl[c].fp \in Fingerprints
    BY <1>2 DEF EnqueueJob, SubmitFails, ClientAt, OwnsJob, TypeOK, ClientsOK, Client
  <2>2. QED
    BY <1>2, <2>1, <1>a DEF EnqueueJob, SubmitFails
<1>3. ASSUME NEW w \in Workers, EnqueueRetry(w)
      PROVE  UNCHANGED trimmed /\ log # <<>> /\ \A i \in DOMAIN log : log'[i] = log[i]
  <2>1. JobOf(w) \in Jobs /\ RequestOf(w) \in Fingerprints /\ RetriesOf(w) + 1 \in Nat
    BY <1>3, <1>t, WorkerMessage DEF EnqueueRetry, WorkerAt, TypeOK
  <2>2. wk[w].msg \in DOMAIN log
    BY <1>3, WorkerIs DEF EnqueueRetry, WorkerAt
  <2>3. QED
    BY <1>3, <2>1, <2>2, <1>a DEF EnqueueRetry
<1>4. ASSUME NEW w \in Workers, ReadBatch(w) \/ AckMessage(w)
      PROVE  /\ UNCHANGED trimmed /\ log # <<>>
             /\ \A i \in DOMAIN log : log'[i].status = "ready" => log[i].status = "ready"
  <2>1. \A i \in DOMAIN log : log[i] \in Message
    BY StreamIs
  <2>2. \A m \in Message : /\ [m EXCEPT !.status = "pending"].status = "pending"
                           /\ [m EXCEPT !.status = "acked"].status = "acked"
    BY DEF Message
  <2>3. CASE ReadBatch(w)
    <3>1. PICK n : Deliver(NextReady, LastOf(n))
      BY <2>3 DEF ReadBatch
    <3>2. \A i \in DOMAIN log : log'[i] = log[i] \/ log'[i] = [log[i] EXCEPT !.status = "pending"]
      BY <3>1 DEF Deliver
    <3>3. log # <<>>
      BY <2>3 DEF ReadBatch, Ready
    <3>4. ASSUME NEW i \in DOMAIN log, log'[i].status = "ready" PROVE log[i].status = "ready"
      BY <2>1, <2>2, <3>2, <3>4
    <3>5. QED
      BY <2>3, <3>3, <3>4 DEF ReadBatch
  <2>4. CASE AckMessage(w)
    <3>1. PICK m : m = wk[w].msg /\ m \in DOMAIN log
      BY <2>4, WorkerIs DEF AckMessage
    <3>2. log' = [log EXCEPT ![m] = [log[m] EXCEPT !.status = "acked"]]
      BY <2>4, <3>1 DEF AckMessage, Acknowledge
    <3>3. \A i \in DOMAIN log : log'[i] = log[i] \/ log'[i] = [log[i] EXCEPT !.status = "acked"]
      BY <3>1, <3>2
    <3>4. ASSUME NEW i \in DOMAIN log, log'[i].status = "ready" PROVE log[i].status = "ready"
      BY <2>1, <2>2, <3>3, <3>4
    <3>5. QED
      BY <2>4, <3>1, <3>4 DEF AckMessage
  <2>5. QED
    BY <1>4, <2>3, <2>4
<1>5. ASSUME NEW c \in Clients,
             ClientStep(c) \/ SubmitSearch(c) \/ CancelJob(c) \/ SubmitFails(c) \/ ClientStops(c)
      PROVE  \/ UNCHANGED <<log, trimmed>> \/ EnqueueJob(c) \/ SubmitFails(c)
             \/ TruncateIfNeeded /\ UNCHANGED log
  BY <1>5 DEF ClientStep, SubmitSearch, ReuseJob, NothingToReuse, RejectSubmission, AdmitSubmission,
       ClaimFingerprint, LookupAgain, RebindFingerprint, CreateJobRecord, TruncateBeforeAdd,
       CheckOwner, ReleaseFingerprint, ClientStops, CancelJob, FlagCancel, CancelPending, queueVars
<1>6. ASSUME NEW w \in Workers, WorkerStep(w) \/ WorkerStops(w)
      PROVE  \/ UNCHANGED <<log, trimmed>> \/ EnqueueRetry(w) \/ ReadBatch(w) \/ AckMessage(w)
             \/ TruncateIfNeeded /\ UNCHANGED log
  BY <1>6 DEF WorkerStep, WorkerStops, LoadRecord, HonourCancel, StartSearch, SearchSucceeds,
       SearchFails, TruncateBeforeRetry, DeadLetter, queueVars
<1>7. QED
  BY <1>1, <1>2, <1>3, <1>4, <1>5, <1>6 DEF Next, Expiry, vars, queueVars

\* The undelivered entries belong to different jobs, and there are no more of
\* those than the guard admits.
LEMMA UndeliveredFit ==
    ASSUME TrimInv, RejectAt + Cardinality(Clients) - 1 <= MaxLen,
           NEW i \in DOMAIN log, i > trimmed, log[i].status = "ready"
    PROVE  i > Len(log) - MaxLen
<1>0. /\ Len(log) \in Nat /\ DOMAIN log = 1..Len(log) /\ i \in Nat /\ i <= Len(log)
      /\ RejectAt \in Nat /\ MaxLen \in Nat
  BY StreamIs, LimitsAssumption DEF TrimInv, ExecutionInv
<1>1. IsFiniteSet(Clients) /\ Cardinality(Clients) \in Nat /\ Cardinality(Clients) # 0
  <2>1. IsFiniteSet(Clients) /\ Cardinality(Clients) \in Nat
    BY ClientsAssumption, FS_CardinalityType
  <2>2. Clients # {}
    BY <1>0 DEF TrimInv
  <2>3. QED
    BY <2>1, <2>2, FS_EmptySet
<1>2. RejectAt <= MaxLen
  BY <1>0, <1>1
<1>3. IsFiniteSet(Admitted) /\ Cardinality(Admitted) <= MaxLen /\ Cardinality(Admitted) \in Nat
  <2>1. IsFiniteSet(Admitted) /\ Cardinality(Admitted) \in Nat
    BY AdmittedCount, FS_CardinalityType DEF TrimInv, AdmissionInv, TypeOK
  <2>2. Cardinality(Admitted) <= RejectAt - 1 + Cardinality(Clients)
    BY <1>2 DEF TrimInv, AdmissionInv, AdmissionBound
  <2>3. QED
    BY <1>0, <1>1, <2>1, <2>2
<1>4. \A k \in i..Len(log) : k \in DOMAIN log /\ log[k].status = "ready"
  <2> SUFFICES ASSUME NEW k \in i..Len(log) PROVE k \in DOMAIN log /\ log[k].status = "ready"
    OBVIOUS
  <2>1. k \in DOMAIN log /\ i <= k
    BY <1>0
  <2>2. QED
    BY <2>1 DEF TrimInv, ExecutionInv, ReadyIsSuffix
<1>5. \A k, m \in i..Len(log) : log[k].job = log[m].job => k = m
  <2> SUFFICES ASSUME NEW k \in i..Len(log), NEW m \in i..Len(log), log[k].job = log[m].job PROVE k = m
    OBVIOUS
  <2>1. k \in DOMAIN log /\ m \in DOMAIN log /\ Waiting(k) /\ Waiting(m)
    BY <1>4 DEF Waiting
  <2>2. k <= m /\ m <= k
    BY <2>1 DEF TrimInv, ExecutionInv, LastOnesRun
  <2>3. QED
    BY <1>0, <2>1, <2>2
<1> DEFINE S == i..Len(log)
           f == [k \in S |-> log[k].job]
<1>6. f \in Injection(S, Admitted)
  <2>1. \A k \in S : f[k] \in Admitted
    BY <1>4 DEF Admitted, Enqueued
  <2>2. f \in [S -> Admitted]
    BY <2>1
  <2>3. \A k, m \in S : f[k] = f[m] => k = m
    BY <1>5
  <2> HIDE DEF f, S
  <2>4. QED
    BY <2>2, <2>3 DEF Injection, IsInjective
<1>7. IsFiniteSet(S) /\ Cardinality(S) = Len(log) - i + 1
  <2>1. i \in Int /\ Len(log) \in Int /\ i <= Len(log)
    BY <1>0
  <2>2. IsFiniteSet(S) /\ Cardinality(S) = IF i > Len(log) THEN 0 ELSE Len(log) - i + 1
    BY <2>1, FS_Interval, Zenon
  <2>3. QED
    BY <2>1, <2>2
<1>8. Cardinality(S) <= Cardinality(Admitted)
  <2> HIDE DEF f, S
  <2>1. QED
    BY <1>3, <1>6, <1>7, FS_Injection
<1>9. QED
  BY <1>0, <1>3, <1>7, <1>8

\* Every step keeps undelivered entries out of the trimmed part.
LEMMA TrimStep ==
    ASSUME TrimInv, NoResends, NoResends', [Next]_vars
    PROVE  TrimInv'
<1>t. TypeOK /\ Len(log) \in Nat /\ DOMAIN log = 1..Len(log) /\ trimmed \in 0..Len(log) /\ MaxLen \in Nat
  BY StreamIs, LimitsAssumption DEF TrimInv, ExecutionInv, TypeOK, QueueTypeOK
<1>1. ExecutionInv' /\ AdmissionInv'
  BY ExecutionStep, AdmissionStep DEF TrimInv
<1>2. Clients = {} => log' = <<>>
  BY <1>t, EntriesStep DEF TrimInv
<1>3. NoUndeliveredTrimmed'
  <2> SUFFICES ASSUME RejectAt + Cardinality(Clients) - 1 <= MaxLen, NEW i \in 1..trimmed', log'[i].status = "ready"
               PROVE  FALSE
    BY DEF NoUndeliveredTrimmed
  <2>0. ~(\E k \in 1..trimmed : log[k].status = "ready")
    BY DEF TrimInv, NoUndeliveredTrimmed
  <2>1. CASE UNCHANGED trimmed
    <3>1. i \in 1..trimmed /\ i \in DOMAIN log
      BY <1>t, <2>1
    <3>2. QED
      BY <1>t, <2>0, <3>1, EntriesStep
  <2>2. CASE TruncateIfNeeded /\ UNCHANGED log /\ trimmed' # trimmed
    <3>1. trimmed' \in trimmed .. (Len(log) - MaxLen)
      BY <2>2 DEF TruncateIfNeeded
    <3>2. i \in DOMAIN log /\ i <= Len(log) - MaxLen /\ log[i].status = "ready"
      BY <1>t, <2>2, <3>1
    <3>3. i > trimmed
      BY <1>t, <2>0, <3>2
    <3>4. i > Len(log) - MaxLen
      BY <3>2, <3>3, UndeliveredFit
    <3>5. QED
      BY <1>t, <3>2, <3>4
  <2>3. QED
    BY <1>t, <2>1, <2>2, EntriesStep
<1>4. QED
  BY <1>1, <1>2, <1>3 DEF TrimInv

\* With room between the two limits for the submissions that pass the guard
\* together, XTRIM removes no entry that has not been delivered, as long as no
\* XADD is applied twice: retries never make the backlog longer.
THEOREM UndeliveredKept == Spec => [](NoResends => NoUndeliveredTrimmed)
<1>1. Init => TrimInv
  <2> SUFFICES ASSUME Init PROVE TrimInv
    OBVIOUS
  <2>1. ExecutionInv
    BY ExecutionInit
  <2>2. log = <<>> /\ trimmed = 0
    BY DEF Init, QueueInit
  <2>3. AdmissionInv
    BY AdmissionInit
  <2>4. NoUndeliveredTrimmed
    BY <2>2 DEF NoUndeliveredTrimmed
  <2>5. QED
    BY <2>1, <2>2, <2>3, <2>4 DEF TrimInv
<1>2. TypeOK /\ BudgetSpent /\ (NoResends => TrimInv) /\ [Next]_vars => (NoResends => TrimInv)'
  BY TrimStep, NotYet DEF NoResends, Kinds
<1>3. TrimInv => NoUndeliveredTrimmed
  BY DEF TrimInv
<1>4. QED
  BY <1>1, <1>2, <1>3, TypeCorrect, BudgetKept, PTL DEF Spec

-----------------------------------------------------------------------------
(***************************************************************************)
(* Why a cancellation that has been written stays: the only writer that    *)
(* would drop it is the one that creates the record, and nobody can name   *)
(* a job before its record exists.                                         *)
(***************************************************************************)

\* A client whose job has no record yet, and one that is about to cancel a job.
Unborn(c) == \/ cl[c].pc \in {"claim", "relookup", "bind", "create"}
             \/ cl[c].pc = "inspect" /\ cl[c].job # NoJob
Flagging(c) == cl[c].pc \in {"flag_pending", "flag_running", "cancel"}

\* Nobody can know the id of a job before its record exists, so the record is
\* never created over one that somebody has flagged.
UnbornJobs ==
    \A c \in Clients : Unborn(c) =>
        /\ rec[cl[c].job] = Absent
        /\ cl[c].job \notin accepted
        /\ \A d \in Clients : Flagging(d) => cl[d].seen # cl[c].job

CancelInv == TypeOK /\ DrawnAreNew /\ UnbornJobs

\* An update of a hash touches one job and keeps its flag.
LEMMA UpdateKeepsFlag ==
    ASSUME QueueTypeOK, NEW k \in Jobs, NEW n \in Nat,
           \/ MarkRunning(k, n) \/ MarkPendingRetry(k, n) \/ MarkFailed(k, n)
           \/ MarkSucceeded(k) \/ MarkCanceled(k) \/ MarkCancelRequested(k),
           NEW j \in Jobs
    PROVE  rec'[j] = rec[j] \/ (j = k /\ (rec[j].canceled => rec'[j].canceled))
<1>1. Current(k) \in JobRecord /\ (rec[k].canceled => Current(k).canceled)
  BY DEF QueueTypeOK, Current, Blank, Absent, JobRecord, Live
<1>2. \A s \in Live \cup Terminal : /\ [Current(k) EXCEPT !.state = s].canceled = Current(k).canceled
                                   /\ [Current(k) EXCEPT !.state = s, !.retries = n].canceled = Current(k).canceled
                                   /\ [Current(k) EXCEPT !.state = s, !.canceled = TRUE].canceled = TRUE
  BY <1>1 DEF JobRecord
<1>3. [Current(k) EXCEPT !.canceled = TRUE].canceled = TRUE
  BY <1>1 DEF JobRecord
<1>4. PICK r : rec' = [rec EXCEPT ![k] = r] /\ (rec[k].canceled => r.canceled)
  BY <1>1, <1>2, <1>3, ZenonT(60)
     DEF MarkRunning, MarkPendingRetry, MarkFailed, MarkSucceeded, MarkCanceled, MarkCancelRequested,
         Live, Terminal
<1>5. QED
  BY <1>4 DEF QueueTypeOK

\* Who writes a record, and what becomes of the flag.
LEMMA RecordStep ==
    ASSUME TypeOK, [Next]_vars, NEW j \in Jobs
    PROVE  \/ rec'[j] = rec[j]
           \/ rec'[j] = Absent
           \/ \E c \in Clients : /\ CreateJobRecord(c) \/ SubmitFails(c)
                               /\ cl[c].pc = "create" /\ cl[c].job = j /\ ~Unborn(c)'
           \/ /\ rec[j].canceled => rec'[j].canceled
              /\ j \in Enqueued \/ \E d \in Clients : Flagging(d) /\ cl[d].seen = j
<1>t. QueueTypeOK /\ ClientsOK /\ cl \in [Clients -> Client]
  BY DEF TypeOK, ClientsOK
<1>1. ASSUME NEW c \in Clients, CreateJobRecord(c) \/ SubmitFails(c), rec'[j] # rec[j]
      PROVE  cl[c].pc = "create" /\ cl[c].job = j /\ ~Unborn(c)'
  <2>1. cl[c].pc = "create" /\ CreateRecord(cl[c].job)
    BY <1>1 DEF CreateJobRecord, SubmitFails, ClientAt
  <2>2. cl[c].job = j
    BY <1>1, <1>t, <2>1 DEF CreateRecord, QueueTypeOK
  <2>3. cl'[c].pc \in {"trim", "release"}
    BY <1>1, <1>t DEF CreateJobRecord, SubmitFails, ClientGoes, Client
  <2>4. QED
    BY <2>1, <2>2, <2>3 DEF Unborn
<1>2. ASSUME NEW c \in Clients, FlagCancel(c) \/ CancelPending(c), rec'[j] # rec[j]
      PROVE  (rec[j].canceled => rec'[j].canceled) /\ Flagging(c) /\ cl[c].seen = j
  <2>1. cl[c].seen \in Jobs /\ Flagging(c)
    BY <1>2, <1>t DEF FlagCancel, CancelPending, ClientAt, ClientsOK, SawJob, Flagging
  <2>2. MarkCancelRequested(cl[c].seen) \/ MarkCanceled(cl[c].seen)
    BY <1>2 DEF FlagCancel, CancelPending
  <2>3. 0 \in Nat
    OBVIOUS
  <2>4. QED
    BY <1>2, <1>t, <2>1, <2>2, <2>3, UpdateKeepsFlag
<1>3. ASSUME NEW w \in Workers,
             HonourCancel(w) \/ StartSearch(w) \/ SearchSucceeds(w) \/ SearchFails(w), rec'[j] # rec[j]
      PROVE  (rec[j].canceled => rec'[j].canceled) /\ j \in Enqueued
  <2>1. ~WorkerAt(w, "idle") /\ wk[w].msg \in DOMAIN log
    BY <1>3, WorkerIs DEF HonourCancel, StartSearch, SearchSucceeds, SearchFails, WorkerAt
  <2>2. JobOf(w) \in Jobs /\ RetriesOf(w) \in Nat /\ JobOf(w) \in Enqueued
    BY <2>1, WorkerMessage DEF TypeOK, JobOf, Enqueued
  <2>3. RetriesOf(w) + 1 \in Nat
    BY <2>2
  <2>4. \E n \in Nat : \/ MarkRunning(JobOf(w), n) \/ MarkPendingRetry(JobOf(w), n) \/ MarkFailed(JobOf(w), n)
                       \/ MarkSucceeded(JobOf(w)) \/ MarkCanceled(JobOf(w))
    BY <1>3, <2>2, <2>3 DEF HonourCancel, StartSearch, SearchSucceeds, SearchFails
  <2>5. QED
    BY <1>3, <1>t, <2>2, <2>4, UpdateKeepsFlag
<1>4. CASE Expiry
  BY <1>4, <1>t DEF Expiry, ExpireRecord, QueueTypeOK
<1>5. ASSUME NEW c \in Clients,
             ClientStep(c) \/ SubmitSearch(c) \/ CancelJob(c) \/ SubmitFails(c) \/ ClientStops(c)
      PROVE  UNCHANGED rec \/ CreateJobRecord(c) \/ SubmitFails(c) \/ FlagCancel(c) \/ CancelPending(c)
  BY <1>5 DEF ClientStep, SubmitSearch, CancelJob, ClientStops, ReuseJob, NothingToReuse, RejectSubmission,
       AdmitSubmission, ClaimFingerprint, LookupAgain, RebindFingerprint, TruncateBeforeAdd, EnqueueJob,
       CheckOwner, ReleaseFingerprint, queueVars
<1>6. ASSUME NEW w \in Workers, WorkerStep(w) \/ WorkerStops(w)
      PROVE  UNCHANGED rec \/ HonourCancel(w) \/ StartSearch(w) \/ SearchSucceeds(w) \/ SearchFails(w)
  BY <1>6 DEF WorkerStep, WorkerStops, ReadBatch, LoadRecord, TruncateBeforeRetry, EnqueueRetry, DeadLetter,
       AckMessage, queueVars
<1>7. CASE rec'[j] = rec[j]
  BY <1>7
<1>8. CASE rec'[j] # rec[j]
  BY <1>1, <1>2, <1>3, <1>4, <1>5, <1>6, <1>8 DEF Next, vars, queueVars
<1>9. QED
  BY <1>7, <1>8

\* How clients come to hold an unborn job or to flag one, and whose job a call returns.
LEMMA ClientsStep ==
    ASSUME TypeOK, [Next]_vars
    PROVE  \/ \E c \in Clients : AdmitSubmission(c)
           \/ /\ \A d \in Clients : Unborn(d)' => Unborn(d) /\ cl'[d].job = cl[d].job
              /\ \A d \in Clients : Flagging(d)' => \/ Flagging(d) /\ cl'[d].seen = cl[d].seen
                                                    \/ CancelJob(d) /\ cl'[d].seen \in accepted
              /\ \A k \in accepted' : \/ k \in accepted
                                      \/ rec[k] # Absent
                                      \/ \E d \in Clients : cl[d].pc = "add" /\ cl[d].job = k
<1>t. cl \in [Clients -> Client] /\ rec \in [Jobs -> JobRecord] /\ accepted \subseteq Jobs
  BY DEF TypeOK, ClientsOK, QueueTypeOK
<1>1. CASE UNCHANGED <<cl, accepted>>
  BY <1>1 DEF Unborn, Flagging
<1>2. ASSUME NEW c \in Clients, ~AdmitSubmission(c),
             ClientStep(c) \/ SubmitSearch(c) \/ CancelJob(c) \/ SubmitFails(c) \/ ClientStops(c)
      PROVE  /\ \A d \in Clients : Unborn(d)' => Unborn(d) /\ cl'[d].job = cl[d].job
             /\ \A d \in Clients : Flagging(d)' => \/ Flagging(d) /\ cl'[d].seen = cl[d].seen
                                                   \/ CancelJob(d) /\ cl'[d].seen \in accepted
             /\ \A k \in accepted' : \/ k \in accepted
                                     \/ rec[k] # Absent
                                     \/ \E d \in Clients : cl[d].pc = "add" /\ cl[d].job = k
  <2>0. \A d \in Clients \ {c} : cl'[d] = cl[d]
    BY <1>2, <1>t
       DEF ClientStep, SubmitSearch, ReuseJob, NothingToReuse, RejectSubmission, ClaimFingerprint,
           LookupAgain, RebindFingerprint, CreateJobRecord, TruncateBeforeAdd, EnqueueJob, CheckOwner,
           ReleaseFingerprint, SubmitFails, ClientStops, CancelJob, FlagCancel, CancelPending, Lookup,
           Returns, ClientGoes
  <2>g. ASSUME NEW pc, ClientGoes(c, pc)
        PROVE  cl'[c].pc = pc /\ cl'[c].job = cl[c].job /\ cl'[c].seen = cl[c].seen
    BY <2>g, <1>t DEF ClientGoes, Client
  <2>r. ASSUME Returns(c) PROVE ~Unborn(c)' /\ ~Flagging(c)'
    BY <2>r, <1>t DEF Returns, IdleClient, Unborn, Flagging
  <2>1. CASE SubmitSearch(c)
    <3>1. ~Unborn(c)' /\ ~Flagging(c)' /\ accepted' = accepted
      BY <2>1, <1>t DEF SubmitSearch, Lookup, Unborn, Flagging
    <3>2. QED
      BY <3>1, <2>0 DEF Unborn, Flagging
  <2>2. CASE RejectSubmission(c) \/ ReleaseFingerprint(c) \/ ClientStops(c) \/ CancelPending(c)
    <3>1. Returns(c) /\ accepted' = accepted
      BY <2>2 DEF RejectSubmission, ReleaseFingerprint, ClientStops, CancelPending
    <3>2. QED
      BY <3>1, <2>0, <2>r DEF Unborn, Flagging
  <2>3. CASE ReuseJob(c)
    <3>1. Returns(c) /\ accepted' = accepted \cup {cl[c].seen} /\ rec[cl[c].seen] # Absent
      BY <2>3 DEF ReuseJob, Reusable, Absent
    <3>2. QED
      BY <3>1, <2>0, <2>r DEF Unborn, Flagging
  <2>4. CASE EnqueueJob(c)
    <3>1. Returns(c) /\ accepted' = accepted \cup {cl[c].job} /\ cl[c].pc = "add"
      BY <2>4 DEF EnqueueJob, ClientAt
    <3>2. QED
      BY <3>1, <2>0, <2>r DEF Unborn, Flagging
  <2>5. CASE NothingToReuse(c)
    <3>1. /\ cl[c].pc = "inspect" /\ cl'[c].job = cl[c].job
          /\ cl'[c].pc = IF cl[c].job = NoJob THEN "guard" ELSE "bind"
          /\ accepted' = accepted
      BY <2>5, <1>t DEF NothingToReuse, ClientAt, Client
    <3>2. (Unborn(c)' => Unborn(c)) /\ ~Flagging(c)'
      BY <3>1 DEF Unborn, Flagging
    <3>3. QED
      BY <3>1, <3>2, <2>0 DEF Unborn, Flagging
  <2>6. CASE LookupAgain(c)
    <3>1. Unborn(c) /\ cl'[c].job = cl[c].job /\ ~Flagging(c)' /\ accepted' = accepted
      BY <2>6, <1>t DEF LookupAgain, Lookup, ClientAt, Unborn, Flagging
    <3>2. QED
      BY <3>1, <2>0 DEF Unborn, Flagging
  <2>7. CASE ClaimFingerprint(c) \/ RebindFingerprint(c)
    <3>1. /\ Unborn(c) /\ accepted' = accepted
          /\ \E pc \in {"create", "relookup"} : ClientGoes(c, pc)
      BY <2>7 DEF ClaimFingerprint, RebindFingerprint, ClientAt, Unborn
    <3>2. cl'[c].job = cl[c].job /\ ~Flagging(c)'
      BY <3>1, <2>g DEF Flagging
    <3>3. QED
      BY <3>1, <3>2, <2>0 DEF Unborn, Flagging
  <2>8. CASE CreateJobRecord(c) \/ TruncateBeforeAdd(c) \/ SubmitFails(c) \/ CheckOwner(c)
    <3>1. /\ accepted' = accepted
          /\ Returns(c) \/ \E pc \in {"trim", "add", "release", "delete"} : ClientGoes(c, pc)
      BY <2>8 DEF CreateJobRecord, TruncateBeforeAdd, SubmitFails, CheckOwner
    <3>2. ~Unborn(c)' /\ ~Flagging(c)'
      BY <3>1, <2>g, <2>r DEF Unborn, Flagging
    <3>3. QED
      BY <3>1, <3>2, <2>0 DEF Unborn, Flagging
  <2>9. CASE FlagCancel(c)
    <3>1. Flagging(c) /\ accepted' = accepted /\ (Returns(c) \/ ClientGoes(c, "cancel"))
      BY <2>9 DEF FlagCancel, Flagging
    <3>2. ~Unborn(c)' /\ (Flagging(c)' => cl'[c].seen = cl[c].seen)
      BY <3>1, <2>g, <2>r DEF Unborn, Flagging
    <3>3. QED
      BY <3>1, <3>2, <2>0 DEF Unborn, Flagging
  <2>10. CASE CancelJob(c)
    <3>1. PICK j \in accepted :
            cl' = [cl EXCEPT ![c] = [cl[c] EXCEPT !.seen = j,
                     !.pc = IF rec[j].state = "PENDING" THEN "flag_pending" ELSE "flag_running"]]
      BY <2>10, <1>t DEF CancelJob
    <3>2. cl'[c].seen \in accepted /\ cl'[c].pc \in {"flag_pending", "flag_running"} /\ accepted' = accepted
      BY <2>10, <3>1, <1>t DEF Client, CancelJob
    <3>3. ~Unborn(c)'
      BY <3>2 DEF Unborn
    <3>4. QED
      BY <2>10, <3>2, <3>3, <2>0 DEF Unborn, Flagging
  <2>11. QED
    BY <1>2, <2>1, <2>2, <2>3, <2>4, <2>5, <2>6, <2>7, <2>8, <2>9, <2>10 DEF ClientStep
<1>3. ASSUME NEW w \in Workers, WorkerStep(w) \/ WorkerStops(w) PROVE UNCHANGED <<cl, accepted>>
  BY <1>3 DEF WorkerStep, WorkerStops, ReadBatch, LoadRecord, HonourCancel, StartSearch, SearchSucceeds,
              SearchFails, TruncateBeforeRetry, EnqueueRetry, DeadLetter, AckMessage
<1>4. QED
  BY <1>1, <1>2, <1>3 DEF Next, Expiry, vars, processVars

\* Every step keeps the jobs that have no record unknown to the others.
LEMMA CancelStep ==
    ASSUME CancelInv, [Next]_vars
    PROVE  CancelInv'
<1> USE DEF CancelInv
<1>1. TypeOK' /\ DrawnAreNew'
  BY TypeStep, DrawnStep
<1>2. CASE \E c \in Clients : AdmitSubmission(c)
  <2>1. PICK c \in Clients : AdmitSubmission(c)
    BY <1>2
  <2>2. PICK j \in FreshJobs : cl' = [cl EXCEPT ![c] = [cl[c] EXCEPT !.pc = "claim", !.job = j]]
    BY <2>1, Zenon DEF AdmitSubmission
  <2>3. /\ cl'[c].job = j /\ cl'[c].pc = "claim" /\ \A d \in Clients \ {c} : cl'[d] = cl[d]
        /\ UNCHANGED <<rec, accepted>>
    BY <2>1, <2>2 DEF AdmitSubmission, queueVars, TypeOK, ClientsOK, Client
  <2>4. rec[j] = Absent /\ j \notin accepted /\ \A d \in Clients : cl[d].seen # j
    BY DEF FreshJobs
  <2>5. /\ \A d \in Clients : Flagging(d)' => d # c /\ Flagging(d)
        /\ \A d \in Clients \ {c} : Unborn(d)' => Unborn(d)
    BY <2>3 DEF Flagging, Unborn
  <2>6. QED
    BY <1>1, <2>3, <2>4, <2>5 DEF UnbornJobs
<1>3. CASE ~\E c \in Clients : AdmitSubmission(c)
  <2> SUFFICES ASSUME NEW c \in Clients, Unborn(c)'
               PROVE  /\ rec'[cl'[c].job] = Absent
                      /\ cl'[c].job \notin accepted'
                      /\ \A d \in Clients : Flagging(d)' => cl'[d].seen # cl'[c].job
    BY <1>1 DEF UnbornJobs
  <2>1. Unborn(c) /\ cl'[c].job = cl[c].job
    BY <1>3, ClientsStep
  <2>2. PICK k : k = cl[c].job
    OBVIOUS
  <2>3. k \in Jobs /\ Drawn(c) /\ rec[k] = Absent /\ k \notin accepted /\ k \notin Enqueued
    <3>1. Drawn(c)
      BY <2>1 DEF Unborn, Drawn
    <3>2. k \in Jobs
      BY <2>1, <2>2 DEF Unborn, TypeOK, ClientsOK, OwnsJob, Client
    <3>3. QED
      BY <2>1, <2>2, <3>1, <3>2 DEF UnbornJobs, DrawnAreNew
  <2>4. \A d \in Clients : Flagging(d) => cl[d].seen # k
    BY <2>1, <2>2 DEF UnbornJobs
  <2>5. \A d \in Clients : Drawn(d) /\ cl[d].job = k => d = c
    BY <2>2, <2>3 DEF DrawnAreNew
  <2>6. rec'[k] = Absent
    <3>1. ~\E d \in Clients : cl[d].pc = "create" /\ cl[d].job = k /\ ~Unborn(d)'
      BY <2>5 DEF Drawn
    <3>2. QED
      BY <2>3, <2>4, <3>1, RecordStep
  <2>7. k \notin accepted'
    <3>1. ~\E d \in Clients : cl[d].pc = "add" /\ cl[d].job = k
      BY <2>1, <2>5 DEF Drawn, Unborn
    <3>2. QED
      BY <1>3, <2>3, <3>1, ClientsStep
  <2>8. \A d \in Clients : Flagging(d)' => cl'[d].seen # k
    BY <1>3, <2>3, <2>4, ClientsStep
  <2>9. QED
    BY <2>1, <2>2, <2>6, <2>7, <2>8
<1>4. QED
  BY <1>2, <1>3

\* A client that is about to add an entry has created the record of its job.
LEMMA RecordCreated ==
    ASSUME TypeOK, NEW c \in Clients,
           ClientStep(c) \/ SubmitSearch(c) \/ CancelJob(c) \/ SubmitFails(c) \/ ClientStops(c),
           NEW d \in Clients, cl'[d].pc \in {"trim", "add"}
    PROVE  \/ cl[d].pc \in {"trim", "add"} /\ cl'[d].job = cl[d].job
           \/ d = c /\ CreateJobRecord(c) /\ cl'[c].job = cl[c].job
<1>t. cl \in [Clients -> Client]
  BY DEF TypeOK, ClientsOK
<1>0. \A e \in Clients \ {c} : cl'[e] = cl[e]
  BY <1>t
     DEF ClientStep, SubmitSearch, ReuseJob, NothingToReuse, RejectSubmission, AdmitSubmission,
         ClaimFingerprint, LookupAgain, RebindFingerprint, CreateJobRecord, TruncateBeforeAdd, EnqueueJob,
         CheckOwner, ReleaseFingerprint, SubmitFails, ClientStops, CancelJob, FlagCancel, CancelPending,
         Lookup, Returns, ClientGoes
<1>g. ASSUME NEW pc, ClientGoes(c, pc) PROVE cl'[c].pc = pc /\ cl'[c].job = cl[c].job
  BY <1>g, <1>t DEF ClientGoes, Client
<1>r. Returns(c) => cl'[c].pc = "idle"
  BY <1>t DEF Returns, IdleClient
<1>1. CASE CreateJobRecord(c)
  BY <1>0, <1>1, <1>g DEF CreateJobRecord
<1>2. CASE TruncateBeforeAdd(c)
  BY <1>0, <1>2, <1>g DEF TruncateBeforeAdd, ClientAt
<1>3. CASE \/ ReuseJob(c) \/ RejectSubmission(c) \/ ReleaseFingerprint(c) \/ ClientStops(c) \/ EnqueueJob(c)
  BY <1>0, <1>3, <1>r DEF ReuseJob, RejectSubmission, ReleaseFingerprint, ClientStops, EnqueueJob
<1>4. CASE ClaimFingerprint(c) \/ RebindFingerprint(c) \/ CheckOwner(c) \/ SubmitFails(c)
  <2>1. Returns(c) \/ \E pc \in {"create", "relookup", "delete", "release"} : ClientGoes(c, pc)
    BY <1>4 DEF ClaimFingerprint, RebindFingerprint, CheckOwner, SubmitFails
  <2>2. cl'[c].pc \notin {"trim", "add"}
    BY <2>1, <1>g, <1>r
  <2>3. QED
    BY <1>0, <2>2
<1>5. CASE SubmitSearch(c) \/ LookupAgain(c)
  <2>1. cl'[c].pc \notin {"trim", "add"}
    BY <1>t, <1>5 DEF SubmitSearch, LookupAgain, Lookup
  <2>2. QED
    BY <1>0, <2>1
<1>6. CASE NothingToReuse(c)
  <2>1. cl'[c].pc \notin {"trim", "add"}
    BY <1>t, <1>6 DEF NothingToReuse, Client
  <2>2. QED
    BY <1>0, <2>1
<1>7. CASE AdmitSubmission(c)
  <2>1. PICK j : cl' = [cl EXCEPT ![c] = [cl[c] EXCEPT !.pc = "claim", !.job = j]]
    BY <1>7, Zenon DEF AdmitSubmission
  <2>2. cl'[c].pc = "claim"
    BY <1>t, <2>1 DEF Client
  <2>3. QED
    BY <1>0, <2>2
<1>8. CASE FlagCancel(c) \/ CancelPending(c) \/ CancelJob(c)
  <2>1. Returns(c) \/ ClientGoes(c, "cancel") \/ cl'[c].pc \in {"flag_pending", "flag_running"}
    BY <1>8, <1>t DEF FlagCancel, CancelPending, CancelJob, Client
  <2>2. cl'[c].pc \notin {"trim", "add"}
    BY <2>1, <1>g, <1>r
  <2>3. QED
    BY <1>0, <2>2
<1>9. QED
  BY <1>1, <1>2, <1>3, <1>4, <1>5, <1>6, <1>7, <1>8 DEF ClientStep

\* A cancellation that has been written is lost by no worker, canceller or
\* submission; only the record's TTL removes it.
THEOREM CancelSticks == Spec => CancelFlagSticks
<1>1. Init => CancelInv
  <2> SUFFICES ASSUME Init PROVE CancelInv
    OBVIOUS
  <2>1. TypeOK /\ \A c \in Clients : ~Unborn(c) /\ ~Drawn(c)
    BY TypeInit DEF Init, IdleClient, Unborn, Drawn
  <2>2. QED
    BY <2>1 DEF CancelInv, UnbornJobs, DrawnAreNew
<1>2. CancelInv /\ [Next]_vars => CancelInv'
  BY CancelStep
<1>3. CancelInv /\ [Next]_vars =>
        [\A j \in Jobs : rec[j].canceled => rec'[j].canceled \/ rec'[j] = Absent]_vars
  <2> SUFFICES ASSUME CancelInv, [Next]_vars, NEW j \in Jobs, rec[j].canceled
               PROVE  rec'[j].canceled \/ rec'[j] = Absent
    OBVIOUS
  <2>1. ~\E c \in Clients : cl[c].pc = "create" /\ cl[c].job = j /\ ~Unborn(c)'
    BY DEF CancelInv, UnbornJobs, Unborn, Absent
  <2>2. QED
    BY <2>1, RecordStep DEF CancelInv
<1>4. QED
  BY <1>1, <1>2, <1>3, PTL DEF Spec, CancelFlagSticks
=============================================================================
