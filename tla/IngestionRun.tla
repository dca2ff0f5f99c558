---------------------------- MODULE IngestionRun ----------------------------
(***************************************************************************)
(* The writing operations of VtreeIngestor (src_py/vtree_search/ingestion/ *)
(* ingestor.py): concurrent calls that write the rows of one document.     *)
(*                                                                         *)
(*   tracked   upsert_document_from_path with a summary_state store        *)
(*   plain     upsert_document_from_path without one                       *)
(*   document  upsert_document                                             *)
(*   pages     upsert_pages                                                *)
(*   rebuild   rebuild_summary_embeddings                                  *)
(*                                                                         *)
(* Each Redis method and the Rust job run in a thread (asyncio.to_thread)  *)
(* that the coroutine awaits.  A coroutine that is cancelled goes to its   *)
(* finally clause at once; the thread it awaited carries on to the end of  *)
(* its call.                                                               *)
(***************************************************************************)
EXTENDS SummaryState

CONSTANTS
    Mixes,  \* the operation and the document version of each call
    Budget  \* how often each kind of fault may happen

\* "crash"  the process dies            "cancel" the coroutine is cancelled
\* "error"  a call raises               "lapse"  the lock's TTL runs out under a
\*                                               run that is still working
Kinds == {"crash", "error", "cancel", "lapse"}

Operations == {"tracked", "plain", "document", "pages", "rebuild"}

ASSUME MixesAssumption == Mixes \subseteq [Runs -> [op : Operations, version : Versions]]
ASSUME BudgetAssumption == Budget \in [Kinds -> Nat]

VARIABLES
    co,    \* each run's coroutine
    late,  \* the call a cancelled coroutine has left behind in its thread
    last,  \* history: the run that took each version's lock last
    left   \* what is left of the budget

vars == <<storeVars, co, late, last, left>>

\* Mutant: the run is completed before its rows are in the tables.
OrderCommitFirst(op) ==
    CASE op = "tracked" -> <<"parse", "init", "sadd", "page_meta", "subch_meta", "subch", "ch_meta",
                             "ch", "doc_meta", "draft", "final", "succeed", "summary", "page">>
      [] op = "plain" -> <<"parse", "page", "summary">>
      [] op = "document" -> <<"page", "summary">>
      [] op = "pages" -> <<"page">>
      [] op = "rebuild" -> <<"touch">>

\* What an operation does, in its order; a call of several steps by its steps.
Order(op) ==
    CASE op = "tracked" -> <<"parse", "init", "sadd", "page_meta", "subch_meta", "subch", "ch_meta",
                             "ch", "doc_meta", "draft", "summary", "page", "final", "succeed">>
      [] op = "plain" -> <<"parse", "summary", "page">>
      [] op = "document" -> <<"summary", "page">>
      [] op = "pages" -> <<"page">>
      [] op = "rebuild" -> <<"touch">>

Calls  == {"init", "sadd", "page_meta", "subch_meta", "subch", "ch_meta", "ch", "doc_meta",
           "draft", "summary", "page", "final", "succeed", "fail", "touch"}
Inside == Calls \cup {"parse", "release"}
Ended  == {"refused", "done", "unreleased", "abandoned", "dead"}

\* How often a call is made, or how many rows it writes.
Items(at) == CASE at = "subch" -> NumSubch
               [] at \in {"ch", "summary"} -> NumSummary
               [] at = "page" -> NumPages
               [] OTHER -> 1

\* initialized: state_initialized; out: what the caller sees.
Coroutine == [op : Operations, version : Versions,
              at : {"idle"} \cup Inside \cup Ended, item : Nat, initialized : BOOLEAN,
              out : {"pending", "returned", "raised", "cancelled"}]

LateCalls == [at : Calls \cup {"none"}, item : Nat]
NoCall == [at |-> "none", item |-> 0]

TypeOK ==
    /\ StoreTypeOK
    /\ co \in [Runs -> Coroutine]
    /\ \A r \in Runs : co[r].at \in Calls => co[r].item \in 1..Items(co[r].at)
    /\ late \in [Runs -> LateCalls]
    /\ \A r \in Runs : late[r].at \in Calls => late[r].item \in 1..Items(late[r].at)
    /\ last \in [Versions -> Runs \cup {NoRun}]
    /\ left \in [Kinds -> Nat]

Init ==
    /\ StoreInit
    /\ \E mix \in Mixes :
          co = [r \in Runs |-> [op |-> mix[r].op, version |-> mix[r].version, at |-> "idle", item |-> 1,
                                initialized |-> FALSE, out |-> "pending"]]
    /\ late = [r \in Runs |-> NoCall]
    /\ last = [v \in Versions |-> NoRun]
    /\ left = Budget

Spend(kind) == left[kind] > 0 /\ left' = [left EXCEPT ![kind] = @ - 1]

At(r, at) == co[r].at = at
Tracked(r) == co[r].op = "tracked"
HoldsLock(r) == lock[co[r].version] = r
Goes(r, at) == co' = [co EXCEPT ![r].at = at, ![r].item = 1]
Leaves(r, at, out) == co' = [co EXCEPT ![r].at = at, ![r].item = 1, ![r].out = out]

-----------------------------------------------------------------------------
(* What one call, or one row of the Rust job, writes. *)

MetaCall(r, at) ==
    \/ at = "init" /\ InitializeRun(r)
    \/ at = "page_meta" /\ CountPages(r)
    \/ at = "subch_meta" /\ EnterSubch(r)
    \/ at = "ch_meta" /\ EnterCh(r)
    \/ at = "doc_meta" /\ EnterDoc(r)
    \/ at = "succeed" /\ MarkSucceeded(r)
    \/ at = "fail" /\ MarkFailed(r)

StateCall(r, at, i) ==
    \/ at = "sadd" /\ AddPageDone(r)
    \/ at = "subch" /\ UpsertSubch(r, i)
    \/ at = "ch" /\ UpsertCh(r, i)
    \/ at = "draft" /\ UpsertDoc(r, 1)
    \/ at = "final" /\ UpsertDoc(r, 2)

Call(r, at, i) ==
    \/ (MetaCall(r, at) \/ StateCall(r, at, i)) /\ UNCHANGED <<summary, pages>>
    \/ at = "summary" /\ UpsertSummaryNode(r, i) /\ UNCHANGED <<state, pages>>
    \/ at = "page" /\ UpsertPageNode(r, i) /\ UNCHANGED <<state, summary>>
    \/ at = "touch" /\ UNCHANGED <<state, summary, pages>>   \* updated_at only

-----------------------------------------------------------------------------
(* What comes next. *)

\* Loops over no items are passed over.
Later(op, at) == {k \in DOMAIN Order(op) :
                    /\ at = "idle" \/ \E p \in 1..(k - 1) : Order(op)[p] = at
                    /\ Items(Order(op)[k]) > 0}

\* Without a store there is nothing to release.
Finish(op) == IF op = "tracked" THEN "release" ELSE "done"

Successor(op, at) ==
    IF at = "fail" \/ Later(op, at) = {} THEN Finish(op)
    ELSE Order(op)[CHOOSE k \in Later(op, at) : \A p \in Later(op, at) : k <= p]

\* Mutant: one item past the end.
FollowingPast(op, c) == IF c.item <= Items(c.at) THEN [c EXCEPT !.item = @ + 1]
                        ELSE [c EXCEPT !.at = Successor(op, c.at), !.item = 1]
Following(op, c) == IF c.item < Items(c.at) THEN [c EXCEPT !.item = @ + 1]
                    ELSE [c EXCEPT !.at = Successor(op, c.at), !.item = 1]

-----------------------------------------------------------------------------
(* The coroutine. *)

AcquireWriterLock(r) ==
    /\ At(r, "idle") /\ Tracked(r)
    /\ AcquireLock(r, co[r].version)
    /\ last' = [last EXCEPT ![co[r].version] = r]
    /\ Goes(r, "parse")
    /\ UNCHANGED <<state, summary, pages, late, left>>

\* The SET NX EX is applied, but its caller does not learn it: it raises before its
\* try block, so that nothing releases the lock.
AcquiredInVain(r, out) ==
    /\ AcquireLock(r, co[r].version)
    /\ last' = [last EXCEPT ![co[r].version] = r]
    /\ Leaves(r, "abandoned", out)

\* The SET fails, applied (its reply was lost; resent, it meets the run's own lock
\* and returns None) or not.
AcquireRaises(r) ==
    /\ At(r, "idle") /\ Tracked(r)
    /\ Spend("error")
    /\ \/ AcquiredInVain(r, "raised")
       \/ Leaves(r, "refused", "raised") /\ UNCHANGED <<lock, last>>
    /\ UNCHANGED <<state, summary, pages, late>>

LockNotAcquired(r) ==
    /\ At(r, "idle") /\ Tracked(r)
    /\ lock[co[r].version] # NoRun
    /\ Leaves(r, "refused", "raised")
    /\ UNCHANGED <<storeVars, late, last, left>>

StartWithoutLock(r) ==
    /\ At(r, "idle") /\ ~Tracked(r)
    /\ Goes(r, Successor(co[r].op, "idle"))
    /\ UNCHANGED <<storeVars, late, last, left>>

\* build_page_nodes_from_path and _build_summary_snapshot.
ParseSource(r) ==
    /\ At(r, "parse")
    /\ Goes(r, Successor(co[r].op, "parse"))
    /\ UNCHANGED <<storeVars, late, last, left>>

\* Mutant: parsing stands before the try block.
ParseFailsOutside(r) == At(r, "parse") /\ Leaves(r, "done", "raised")
ParseFails(r)        == At(r, "parse") /\ Leaves(r, Finish(co[r].op), "raised")

SourceRejected(r) ==
    /\ ParseFails(r)
    /\ UNCHANGED <<storeVars, late, last, left>>

\* What else the coroutine knows after the call has returned.
Learns(c) == [c EXCEPT !.initialized = @ \/ c.at = "init",
                       !.out = IF c.at = "succeed" \/ Following(c.op, c).at = "done"
                               THEN "returned" ELSE @]

CallReturns(r) ==
    /\ co[r].at \in Calls
    /\ Call(r, co[r].at, co[r].item)
    /\ co' = [co EXCEPT ![r] = Following(@.op, Learns(@))]
    /\ UNCHANGED <<lock, late, last, left>>

\* Mutants: a failed Rust job is not recorded; a run is marked that was not initialized.
AfterErrorQuiet(r)  == IF co[r].initialized /\ co[r].at \notin {"fail", "summary", "page"}
                       THEN "fail" ELSE Finish(co[r].op)
AfterErrorAlways(r) == IF Tracked(r) /\ ~At(r, "fail") THEN "fail" ELSE Finish(co[r].op)

\* except: mark_failed once the run is initialized; finally: release.
AfterError(r) == IF co[r].initialized /\ ~At(r, "fail") THEN "fail" ELSE Finish(co[r].op)

\* A call raises with its write done (a later EXPIRE failed, a reply was lost) or not.
CallRaises(r) ==
    /\ co[r].at \in Calls
    /\ Spend("error")
    /\ Call(r, co[r].at, co[r].item) \/ UNCHANGED <<state, summary, pages>>
    /\ Leaves(r, AfterError(r), "raised")
    /\ UNCHANGED <<lock, late, last>>

ReleaseWriterLock(r) ==
    /\ At(r, "release")
    /\ ReleaseLock(r, co[r].version)
    /\ Goes(r, "done")
    /\ UNCHANGED <<state, summary, pages, late, last, left>>

ReleaseRaises(r) ==
    /\ At(r, "release")
    /\ Spend("error")
    /\ Leaves(r, "unreleased", "raised")
    /\ UNCHANGED <<storeVars, late, last>>

-----------------------------------------------------------------------------
(* Cancellation, crashes, and the lock's TTL. *)

\* CancelledError is no Exception: the run is not marked, the lock is released.
Cancelled(r) ==
    /\ co[r].at \in Calls \cup {"parse"}
    /\ Spend("cancel")
    /\ late' = [late EXCEPT ![r] = IF At(r, "parse") THEN NoCall
                                   ELSE [at |-> co[r].at, item |-> co[r].item]]
    /\ Leaves(r, Finish(co[r].op), "cancelled")
    /\ UNCHANGED <<storeVars, last>>

\* The thread takes the lock for a coroutine that has not entered its try block.
CancelledWhileAcquiring(r) ==
    /\ At(r, "idle") /\ Tracked(r)
    /\ Spend("cancel")
    /\ AcquiredInVain(r, "cancelled")
    /\ UNCHANGED <<state, summary, pages, late>>

\* The thread's DEL may come later still: LockExpires.
CancelledWhileReleasing(r) ==
    /\ At(r, "release")
    /\ Spend("cancel")
    /\ Leaves(r, "unreleased", "cancelled")
    /\ UNCHANGED <<storeVars, late, last>>

\* The thread's call has more to write.
Continues(op, c) == /\ c.at \in {"sadd", "summary", "page"}
                    /\ Following(op, c).at \in {"page_meta", "summary", "page"}

LateCall(r) ==
    /\ late[r].at \in Calls
    /\ Call(r, late[r].at, late[r].item)
    /\ late' = [late EXCEPT ![r] = IF Continues(co[r].op, @) THEN Following(co[r].op, @) ELSE NoCall]
    /\ UNCHANGED <<lock, co, last, left>>

Crash(r) ==
    /\ co[r].at \in Inside \/ late[r] # NoCall
    /\ Spend("crash")
    /\ co' = [co EXCEPT ![r].at = "dead", ![r].item = 1]
    /\ late' = [late EXCEPT ![r] = NoCall]
    /\ UNCHANGED <<storeVars, last>>

\* Nothing refreshes the TTL, so it may run out under its owner ...
LockLapses(r) ==
    /\ HoldsLock(r) /\ co[r].at \in Inside
    /\ Spend("lapse")
    /\ lock' = [lock EXCEPT ![co[r].version] = NoRun]
    /\ UNCHANGED <<state, summary, pages, co, late, last>>

\* ... and it does run out when the owner is gone, if its thread does not free it.
LockExpires(r) ==
    /\ HoldsLock(r) /\ co[r].at \in Ended
    /\ lock' = [lock EXCEPT ![co[r].version] = NoRun]
    /\ UNCHANGED <<state, summary, pages, co, late, last, left>>

Step(r) ==
    \/ AcquireWriterLock(r) \/ AcquireRaises(r) \/ LockNotAcquired(r) \/ StartWithoutLock(r)
    \/ ParseSource(r) \/ SourceRejected(r)
    \/ CallReturns(r) \/ CallRaises(r) \/ ReleaseWriterLock(r) \/ ReleaseRaises(r)
    \/ Cancelled(r) \/ CancelledWhileAcquiring(r) \/ CancelledWhileReleasing(r) \/ LateCall(r)
    \/ Crash(r) \/ LockLapses(r) \/ LockExpires(r)

Next == \E r \in Runs : Step(r)

Spec == Init /\ [][Next]_vars

-----------------------------------------------------------------------------
(* Properties *)

Spent(kind) == Budget[kind] - left[kind]

Upserting(r) == co[r].at \in {"summary", "page"} \/ late[r].at \in {"summary", "page"}

\* Two calls that take the same lock.
Rivals(r, s) == Tracked(r) /\ Tracked(s) /\ co[r].version = co[s].version

\* The writer lock: two runs never upsert the rows of one document version at
\* the same time.
WriterExclusive == \A r, s \in Runs : Rivals(r, s) /\ Upserting(r) /\ Upserting(s) => r = s

\* They do so only after a lock ran out under a working run, or a coroutine was
\* cancelled: crashes, expiry of dead owners' locks and failing calls do not do it.
OneWriterUnlessOverrun ==
    Spent("lapse") = 0 /\ Spent("cancel") = 0 =>
        \A r, s \in Runs : Rivals(r, s) /\ co[r].at \in Inside /\ co[s].at \in Inside => r = s

\* A run whose status is SUCCEEDED has everything in place: page set, sub-chapter
\* and chapter states, the FINAL document state, and its rows in both tables.
SucceededIsComplete ==
    \A r \in Runs : state[r].status = "SUCCEEDED" =>
        /\ state[r].page_done = 1..NumPages
        /\ \A i \in 1..NumSubch : state[r].subch[i] > 0
        /\ \A i \in 1..NumSummary : state[r].ch[i] > 0 /\ summary[i] # NoRun
        /\ state[r].doc = 2
        /\ {r} \X (1..NumPages) \subseteq pages

\* When the run that took a version's lock last has succeeded, no summary row is
\* left of an earlier run under that lock: only calls that do not take it (another
\* version, no store) can have written over the run's rows.  A lapse or a late
\* call could have left rows of an earlier run over it.
LastWriterWins ==
    Spent("lapse") = 0 /\ Spent("cancel") = 0 =>
        \A v \in Versions, r \in Runs : last[v] = r /\ state[r].status = "SUCCEEDED" =>
            \A i \in 1..NumSummary : summary[i] # r => ~Rivals(r, summary[i])

\* A lock is taken away only from a run that is releasing it, that has ended, or
\* under which it lapsed: a run whose own lock is gone does not free another's.
ReleaseKeepsOthersLock ==
    [][\A v \in Versions, r \in Runs : lock[v] = r /\ lock'[v] # r =>
          /\ lock'[v] = NoRun
          /\ At(r, "release") \/ co[r].at \in Ended \/ left'["lapse"] < left["lapse"]]_vars

\* Every way out of the call releases the lock, except where the owner died, the
\* release itself failed or was cancelled ("unreleased"), or the acquiring call
\* failed or was cancelled with its SET applied ("abandoned").
LockLeaksOnlyByFault ==
    \A v \in Versions, r \in Runs :
        lock[v] = r => co[r].at \in Inside \cup {"dead", "unreleased", "abandoned"}

\* What the caller sees agrees with what is stored.  A call that returned has its
\* rows in the tables and, with a store, is SUCCEEDED.  One that raised is FAILED, or
\* has left no trace if it was not initialized; only initialize_run failing after
\* its HSET, or mark_failed failing like the call before it, leaves it otherwise.
RowsWritten(r) ==
    /\ co[r].op # "rebuild" => {r} \X (1..NumPages) \subseteq pages
    /\ co[r].op \notin {"rebuild", "pages"} => \A i \in 1..NumSummary : summary[i] # NoRun
OutcomeMatchesStatus ==
    \A r \in Runs : At(r, "done") =>
        /\ co[r].out = "returned" => RowsWritten(r) /\ (Tracked(r) => state[r].status = "SUCCEEDED")
        /\ co[r].out = "raised" =>
              \/ state[r].status = IF co[r].initialized THEN "FAILED" ELSE "NONE"
              \/ Spent("error") >= IF co[r].initialized THEN 2 ELSE 1

\* mark_succeeded has raised with SUCCEEDED written, and mark_failed is to come.
Undecided(r) == state[r].status = "SUCCEEDED" /\ (At(r, "fail") \/ late[r].at = "fail")

\* A tracked run lives as the documentation draws it, once its outcome is settled: a
\* success is one only when no mark_failed is under way that takes it back.
Settled(r) == IF Undecided(r) THEN <<"RUNNING", "DOC">> ELSE <<state[r].status, state[r].stage>>
Lifecycle == INSTANCE IngestionLifecycle WITH life <- [r \in Runs |-> Settled(r)]
LifecycleSpec == Lifecycle!Spec
=============================================================================
