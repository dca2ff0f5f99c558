------------------------ MODULE IngestionRunProofs ------------------------
(***************************************************************************)
(* Proofs about module IngestionRun, for every number of runs, of rows and *)
(* of faults.                                                              *)
(***************************************************************************)
EXTENDS IngestionRun, FiniteSetTheorems, WellFoundedInduction, TLAPS

-----------------------------------------------------------------------------
(* The order of the calls. *)

\* A call is made, or writes rows, a natural number of times.
LEMMA ItemsTypes ==
    /\ \A at : Items(at) \in Nat
    /\ \A at : at \notin {"subch", "ch", "summary", "page"} => Items(at) = 1
BY SizesAssumption DEF Items

\* The places of an order are numbered from 1, and all but parsing are calls.
LEMMA OrderTypes ==
    ASSUME NEW op \in Operations
    PROVE  /\ DOMAIN Order(op) \subseteq Nat
           /\ \A k \in DOMAIN Order(op) : Order(op)[k] \in Calls \cup {"parse"}
           /\ \A k \in DOMAIN Order(op) : Order(op)[k] = "parse" => k = 1
<1>1. CASE op = "tracked"
  <2>1. Order(op) = <<"parse", "init", "sadd", "page_meta", "subch_meta", "subch", "ch_meta",
                      "ch", "doc_meta", "draft", "summary", "page", "final", "succeed">>
    BY <1>1 DEF Order
  <2>2. DOMAIN Order(op) = 1..14
    BY <2>1
  <2>3. \A k \in 1..14 : k \in {1, 2, 3, 4, 5, 6, 7, 8, 9, 10, 11, 12, 13, 14}
    OBVIOUS
  <2>4. QED
    BY <2>1, <2>2, <2>3 DEF Calls
<1>2. CASE op \in {"plain", "document", "pages", "rebuild"}
  BY <1>2 DEF Order, Calls
<1>3. QED
  BY <1>1, <1>2 DEF Operations

\* What comes next is the first place in the order that has something to do.
LEMMA SuccessorPlace ==
    ASSUME NEW op \in Operations, NEW at, at # "fail", Later(op, at) # {}
    PROVE  \E k \in Later(op, at) : /\ Successor(op, at) = Order(op)[k]
                                    /\ \A p \in Later(op, at) : k <= p
<1>1. Later(op, at) \subseteq Nat
  BY OrderTypes DEF Later
<1>2. PICK m \in Later(op, at) : \A p \in Later(op, at) : m <= p
  <2> DEFINE R == {ss \in Nat \X Nat : ss[1] < ss[2]}
  <2>1. IsWellFoundedOn(R, Nat)
    BY NatLessThanWellFounded DEF OpToRel
  <2>2. PICK i \in Later(op, at) : \A k \in Later(op, at) : <<k, i>> \notin R
    BY <1>1, <2>1, WFMin
  <2>3. \A k \in Later(op, at) : ~(k < i)
    BY <1>1, <2>2
  <2>4. QED
    BY <1>1, <2>3
<1>3. QED
  BY <1>2 DEF Successor

\* What follows a call is a call with something to do, or the end of the operation;
\* so is what an operation without a lock starts with, except for parsing.
LEMMA SuccessorTypes ==
    ASSUME NEW op \in Operations, NEW at
    PROVE  /\ Successor(op, at) \in Calls \cup {"parse", "release", "done"}
           /\ at # "idle" => Successor(op, at) \in Calls \cup {"release", "done"}
           /\ Items(Successor(op, at)) > 0
<1>0. Items("release") = 1 /\ Items("done") = 1
  BY ItemsTypes
<1>1. CASE at = "fail" \/ Later(op, at) = {}
  BY <1>1, <1>0 DEF Successor, Finish
<1>2. CASE ~(at = "fail" \/ Later(op, at) = {})
  <2>1. PICK k \in Later(op, at) : Successor(op, at) = Order(op)[k]
    BY <1>2, SuccessorPlace
  <2>2. /\ k \in DOMAIN Order(op) /\ k \in Nat
        /\ Items(Order(op)[k]) > 0 /\ Order(op)[k] \in Calls \cup {"parse"}
    BY OrderTypes DEF Later
  <2>3. ASSUME at # "idle", Order(op)[k] = "parse" PROVE FALSE
    <3>1. PICK p \in 1..(k - 1) : Order(op)[p] = at
      BY <2>3 DEF Later
    <3>2. k = 1
      BY <2>2, <2>3, OrderTypes
    <3>3. QED
      BY <3>1, <3>2
  <2>4. QED
    BY <2>1, <2>2, <2>3
<1>3. QED
  BY <1>1, <1>2

\* The next item of a call, or the first one of what follows, exists.
LEMMA FollowingTypes ==
    ASSUME NEW op \in Operations, NEW c, c.at \in Calls, c.item \in 1..Items(c.at),
           c \in Coroutine \/ c \in LateCalls
    PROVE  /\ Following(op, c).at \in Calls \cup {"release", "done"}
           /\ Following(op, c).item \in Nat
           /\ Following(op, c).item \in 1..Items(Following(op, c).at)
           /\ c \in Coroutine => Following(op, c) \in Coroutine
           /\ c \in LateCalls =>
                 Following(op, c) \in [at : Calls \cup {"none", "release", "done"}, item : Nat]
<1>r. "idle" \notin Calls
  BY DEF Calls
<1>1. CASE c.item < Items(c.at)
  <2>1. c.item \in Nat /\ c.item + 1 \in 1..Items(c.at)
    BY <1>1, ItemsTypes
  <2>2. Following(op, c) = [c EXCEPT !.item = c.item + 1]
    BY <1>1 DEF Following
  <2>3. Following(op, c).at = c.at /\ Following(op, c).item = c.item + 1
    BY <2>2 DEF Coroutine, LateCalls
  <2>4. QED
    BY <2>1, <2>2, <2>3 DEF Coroutine, LateCalls
<1>2. CASE ~(c.item < Items(c.at))
  <2> DEFINE next == Successor(op, c.at)
  <2>1. Following(op, c) = [c EXCEPT !.at = next, !.item = 1]
    BY <1>2 DEF Following
  <2>2. Following(op, c).at = next /\ Following(op, c).item = 1
    BY <2>1 DEF Coroutine, LateCalls
  <2>3. next \in Calls \cup {"release", "done"} /\ Items(next) > 0 /\ Items(next) \in Nat
    BY SuccessorTypes, ItemsTypes, <1>r
  <2>4. 1 \in 1..Items(next)
    BY <2>3
  <2>5. next \in Inside \cup Ended
    BY <2>3 DEF Inside, Ended
  <2>6. ASSUME c \in Coroutine PROVE Following(op, c) \in Coroutine
    <3>1. ASSUME NEW x \in Inside \cup Ended PROVE [c EXCEPT !.at = x, !.item = 1] \in Coroutine
      BY <2>6 DEF Coroutine
    <3>2. QED
      BY <2>1, <2>5, <3>1
  <2>7. ASSUME c \in LateCalls
        PROVE  Following(op, c) \in [at : Calls \cup {"none", "release", "done"}, item : Nat]
    <3>1. ASSUME NEW x \in Calls \cup {"release", "done"}
          PROVE  [c EXCEPT !.at = x, !.item = 1]
                    \in [at : Calls \cup {"none", "release", "done"}, item : Nat]
      BY <2>7 DEF LateCalls
    <3>2. QED
      BY <2>1, <2>3, <3>1
  <2>8. QED
    BY <2>2, <2>3, <2>4, <2>6, <2>7
<1>3. QED
  BY <1>1, <1>2

-----------------------------------------------------------------------------
(* Types of the store. *)

\* Replacing one run's hashes.
LEMMA WriteTypes ==
    ASSUME StoreTypeOK, NEW r \in Runs, NEW v \in RunState, Write(r, v)
    PROVE  state' \in [Runs -> RunState]
BY DEF Write, StoreTypeOK

\* Each call leaves the run's hashes and the tables well-formed.
LEMMA CallTypes ==
    ASSUME StoreTypeOK, NEW r \in Runs, NEW at \in Calls, NEW i \in 1..Items(at), Call(r, at, i)
    PROVE  /\ state' \in [Runs -> RunState]
           /\ summary' \in [1..NumSummary -> Runs \cup {NoRun}]
           /\ pages' \subseteq Runs \X (1..NumPages)
<1> USE DEF StoreTypeOK
<1>s. state[r] \in RunState
  OBVIOUS
<1>m. \A stage \in Stages, status \in Statuses : Meta(r, stage, status) \in RunState
  BY <1>s DEF Meta, RunState
<1>n. NumSummary \in 0..NumSummary /\ NumSubch \in 0..NumSubch
  BY SizesAssumption
<1>1. CASE MetaCall(r, at)
  <2>1. InitializeRun(r) => state' \in [Runs -> RunState]
    <3>1. [state[r] EXCEPT !.status = "RUNNING", !.stage = "PAGE",
             !.done_pages = 0, !.done_subch = 0, !.done_ch = 0] \in RunState
      <4>1. "RUNNING" \in Statuses /\ "PAGE" \in Stages
        BY DEF Statuses, Stages
      <4>2. 0 \in 0..NumPages /\ 0 \in 0..NumSubch /\ 0 \in 0..NumSummary
        BY SizesAssumption
      <4>3. QED
        BY <1>s, <4>1, <4>2 DEF RunState
    <3>2. QED
      BY <3>1, WriteTypes DEF InitializeRun
  <2>2. CountPages(r) => state' \in [Runs -> RunState]
    <3>1. Cardinality(state[r].page_done) \in 0..NumPages
      <4>1. state[r].page_done \subseteq 1..NumPages
        BY <1>s DEF RunState
      <4>2. IsFiniteSet(1..NumPages) /\ Cardinality(1..NumPages) = NumPages
        BY SizesAssumption, FS_Interval
      <4>3. QED
        BY <4>1, <4>2, FS_Subset, FS_CardinalityType
    <3>2. [Meta(r, "PAGE", "RUNNING") EXCEPT !.done_pages = Cardinality(state[r].page_done)]
            \in RunState
      BY <1>m, <3>1, ZenonT(60) DEF RunState, Stages, Statuses
    <3>3. QED
      BY <3>2, WriteTypes DEF CountPages
  <2>3. EnterSubch(r) => state' \in [Runs -> RunState]
    BY <1>m, WriteTypes DEF EnterSubch, Stages, Statuses
  <2>4. EnterCh(r) => state' \in [Runs -> RunState]
    <3>1. [Meta(r, "CH", "RUNNING") EXCEPT !.done_subch = NumSubch] \in RunState
      BY <1>m, <1>n, ZenonT(60) DEF RunState, Stages, Statuses
    <3>2. QED
      BY <3>1, WriteTypes DEF EnterCh
  <2>5. EnterDoc(r) => state' \in [Runs -> RunState]
    <3>1. [Meta(r, "DOC", "RUNNING") EXCEPT !.done_subch = NumSubch,
                                           !.done_ch = NumSummary] \in RunState
      BY <1>m, <1>n, ZenonT(60) DEF RunState, Stages, Statuses
    <3>2. QED
      BY <3>1, WriteTypes DEF EnterDoc
  <2>6. MarkSucceeded(r) \/ MarkFailed(r) => state' \in [Runs -> RunState]
    BY <1>m, WriteTypes DEF MarkSucceeded, MarkFailed, Stages, Statuses
  <2>7. UNCHANGED <<summary, pages>>
    BY <1>1 DEF MetaCall, Call, Calls
  <2>8. QED
    BY <1>1, <2>1, <2>2, <2>3, <2>4, <2>5, <2>6, <2>7 DEF MetaCall
<1>2. CASE StateCall(r, at, i)
  <2>1. AddPageDone(r) => state' \in [Runs -> RunState]
    <3>1. [state[r] EXCEPT !.page_done = 1..NumPages] \in RunState
      BY <1>s DEF RunState
    <3>2. QED
      BY <3>1, WriteTypes DEF AddPageDone
  <2>2. at = "subch" /\ UpsertSubch(r, i) => state' \in [Runs -> RunState]
    <3> SUFFICES ASSUME at = "subch", UpsertSubch(r, i) PROVE state' \in [Runs -> RunState]
      OBVIOUS
    <3>1. i \in 1..NumSubch
      BY DEF Items
    <3>2. [state[r].subch EXCEPT ![i] = i] \in [1..NumSubch -> 0..NumSubch]
      BY <3>1, <1>s, SizesAssumption DEF RunState
    <3>3. [state[r] EXCEPT !.subch[i] = i] \in RunState
      BY <1>s, <3>2 DEF RunState
    <3>4. QED
      BY <1>s, <3>3, WriteTypes DEF UpsertSubch
  <2>3. at = "ch" /\ UpsertCh(r, i) => state' \in [Runs -> RunState]
    <3> SUFFICES ASSUME at = "ch", UpsertCh(r, i) PROVE state' \in [Runs -> RunState]
      OBVIOUS
    <3>1. i \in 1..NumSummary
      BY DEF Items
    <3>2. [state[r].ch EXCEPT ![i] = i] \in [1..NumSummary -> 0..NumSummary]
      BY <3>1, <1>s, SizesAssumption DEF RunState
    <3>3. [state[r] EXCEPT !.ch[i] = i] \in RunState
      BY <1>s, <3>2 DEF RunState
    <3>4. QED
      BY <1>s, <3>3, WriteTypes DEF UpsertCh
  <2>4. \A n \in {1, 2} : UpsertDoc(r, n) => state' \in [Runs -> RunState]
    <3> SUFFICES ASSUME NEW n \in {1, 2}, UpsertDoc(r, n) PROVE state' \in [Runs -> RunState]
      OBVIOUS
    <3>0. n \in 0..2
      OBVIOUS
    <3>1. [state[r] EXCEPT !.doc = n] \in RunState
      BY <1>s, <3>0 DEF RunState
    <3>2. QED
      BY <1>s, <3>1, WriteTypes DEF UpsertDoc
  <2>5. UNCHANGED <<summary, pages>>
    BY <1>2  DEF StateCall, Call, Calls
  <2>6. QED
    BY <1>2, <2>1, <2>2, <2>3, <2>4, <2>5 DEF StateCall
<1>3. CASE at = "summary" /\ UpsertSummaryNode(r, i) /\ UNCHANGED <<state, pages>>
  <2>1. i \in 1..NumSummary
    BY <1>3 DEF Items
  <2>2. QED
    BY <1>3, <2>1 DEF UpsertSummaryNode
<1>4. CASE at = "page" /\ UpsertPageNode(r, i) /\ UNCHANGED <<state, summary>>
  <2>1. i \in 1..NumPages
    BY <1>4 DEF Items
  <2>2. QED
    BY <1>4, <2>1 DEF UpsertPageNode
<1>5. QED
  BY <1>1, <1>2, <1>3, <1>4 DEF Call

-----------------------------------------------------------------------------
(* Type correctness. *)

\* Spending a unit of the budget.
LEMMA SpendTypes ==
    ASSUME left \in [Kinds -> Nat], NEW kind \in Kinds, Spend(kind)
    PROVE  left' \in [Kinds -> Nat] /\ left[kind] > 0 /\ left' = [left EXCEPT ![kind] = left[kind] - 1]
BY DEF Spend

\* The coroutine goes to a place that is not a call, or that is a call with an item.
LEMMA GoesTypes ==
    ASSUME TypeOK, NEW r \in Runs, NEW at \in Inside \cup Ended, at \notin Calls \/ Items(at) > 0
    PROVE  /\ Goes(r, at) => /\ co' \in [Runs -> Coroutine]
                             /\ \A s \in Runs : co'[s].at \in Calls => co'[s].item \in 1..Items(co'[s].at)
           /\ \A out \in {"pending", "returned", "raised", "cancelled"} :
                 Leaves(r, at, out) =>
                     /\ co' \in [Runs -> Coroutine]
                     /\ \A s \in Runs : co'[s].at \in Calls => co'[s].item \in 1..Items(co'[s].at)
<1>1. at \in {"idle"} \cup Inside \cup Ended
  OBVIOUS
<1>i. at \in Calls => 1 \in 1..Items(at)
  BY ItemsTypes
<1>2. ASSUME Goes(r, at)
      PROVE  /\ co' \in [Runs -> Coroutine]
             /\ \A s \in Runs : co'[s].at \in Calls => co'[s].item \in 1..Items(co'[s].at)
  <2>1. co' = [co EXCEPT ![r] = [[co[r] EXCEPT !.at = at] EXCEPT !.item = 1]]
    BY <1>2 DEF Goes, TypeOK
  <2>2. [[co[r] EXCEPT !.at = at] EXCEPT !.item = 1] \in Coroutine
    BY <1>1 DEF TypeOK, Coroutine
  <2>3. co'[r].at = at /\ co'[r].item = 1 /\ \A s \in Runs \ {r} : co'[s] = co[s]
    BY <2>1 DEF TypeOK, Coroutine
  <2>4. QED
    BY <1>i, <2>1, <2>2, <2>3 DEF TypeOK
<1>3. ASSUME NEW out \in {"pending", "returned", "raised", "cancelled"}, Leaves(r, at, out)
      PROVE  /\ co' \in [Runs -> Coroutine]
             /\ \A s \in Runs : co'[s].at \in Calls => co'[s].item \in 1..Items(co'[s].at)
  <2>1. co' = [co EXCEPT ![r] = [[[co[r] EXCEPT !.at = at] EXCEPT !.item = 1] EXCEPT !.out = out]]
    BY <1>3 DEF Leaves, TypeOK
  <2>2. [[[co[r] EXCEPT !.at = at] EXCEPT !.item = 1] EXCEPT !.out = out] \in Coroutine
    BY <1>1 DEF TypeOK, Coroutine
  <2>3. co'[r].at = at /\ co'[r].item = 1 /\ \A s \in Runs \ {r} : co'[s] = co[s]
    BY <2>1 DEF TypeOK, Coroutine
  <2>4. QED
    BY <1>i, <2>1, <2>2, <2>3 DEF TypeOK
<1>4. QED
  BY <1>2, <1>3

\* Taking and giving back the lock, and what stands around the calls.
LEMMA TypeOutside ==
    ASSUME TypeOK, NEW r \in Runs,
           \/ AcquireWriterLock(r) \/ LockNotAcquired(r) \/ StartWithoutLock(r)
           \/ ParseSource(r) \/ SourceRejected(r)
           \/ ReleaseWriterLock(r) \/ ReleaseRaises(r) \/ CancelledWhileReleasing(r)
           \/ AcquireRaises(r) \/ CancelledWhileAcquiring(r) \/ LockLapses(r) \/ LockExpires(r)
    PROVE  TypeOK'
<1> USE DEF TypeOK, StoreTypeOK
<1>n. /\ {"parse", "init", "release"} \subseteq Inside
      /\ {"refused", "done", "unreleased", "abandoned"} \subseteq Ended
      /\ {"parse", "release", "refused", "done", "unreleased", "abandoned"} \cap Calls = {}
      /\ Calls \subseteq Inside
  BY DEF Inside, Ended, Calls
<1>v. co[r].version \in Versions /\ co[r].op \in Operations
  BY DEF Coroutine
<1>s. \A at : /\ Successor(co[r].op, at) \in Inside \cup Ended
              /\ Items(Successor(co[r].op, at)) > 0
  BY <1>n, <1>v, SuccessorTypes
<1>f. Finish(co[r].op) \in {"release", "done"}
  BY DEF Finish
<1>1. CASE AcquireWriterLock(r)
  BY <1>1, <1>n, <1>v, GoesTypes DEF AcquireWriterLock, AcquireLock
<1>2. CASE LockNotAcquired(r)
  BY <1>2, <1>n, GoesTypes DEF LockNotAcquired, storeVars
<1>3. CASE ParseSource(r) \/ StartWithoutLock(r)
  BY <1>3, <1>s, GoesTypes DEF ParseSource, StartWithoutLock, storeVars
<1>4. CASE SourceRejected(r)
  BY <1>4, <1>n, <1>f, GoesTypes DEF SourceRejected, ParseFails, storeVars
<1>5. CASE ReleaseWriterLock(r)
  BY <1>5, <1>n, <1>v, GoesTypes DEF ReleaseWriterLock, ReleaseLock
<1>6. CASE ReleaseRaises(r) \/ CancelledWhileReleasing(r)
  BY <1>6, <1>n, GoesTypes, SpendTypes DEF ReleaseRaises, CancelledWhileReleasing, storeVars, Kinds
<1>7. CASE AcquireRaises(r) \/ CancelledWhileAcquiring(r)
  BY <1>7, <1>n, <1>v, GoesTypes, SpendTypes
     DEF AcquireRaises, CancelledWhileAcquiring, AcquiredInVain, AcquireLock, Kinds
<1>8. CASE LockLapses(r)
  BY <1>8, SpendTypes DEF LockLapses, Kinds
<1>9. CASE LockExpires(r)
  BY <1>9 DEF LockExpires
<1>10. QED
  BY <1>1, <1>2, <1>3, <1>4, <1>5, <1>6, <1>7, <1>8, <1>9

\* A call of the try block, of a coroutine or of a thread left behind.
LEMMA TypeCalls ==
    ASSUME TypeOK, NEW r \in Runs, CallReturns(r) \/ CallRaises(r) \/ LateCall(r)
    PROVE  TypeOK'
<1> USE DEF TypeOK
<1>n. /\ Calls \subseteq Inside /\ {"release", "fail"} \subseteq Inside /\ "done" \in Ended
      /\ Items("fail") = 1 /\ {"release", "done", "none"} \cap Calls = {}
  BY ItemsTypes DEF Inside, Ended, Calls
<1>o. co[r].op \in Operations
  BY DEF Coroutine
<1>1. CASE CallReturns(r)
  <2>1. StoreTypeOK'
    BY <1>1, CallTypes DEF CallReturns, StoreTypeOK
  <2>2. /\ Learns(co[r]) \in Coroutine
        /\ Learns(co[r]).at = co[r].at /\ Learns(co[r]).item = co[r].item
    BY ZenonT(60) DEF Learns, Coroutine
  <2>3. /\ Following(co[r].op, Learns(co[r])) \in Coroutine
        /\ Following(co[r].op, Learns(co[r])).item \in 1..Items(Following(co[r].op, Learns(co[r])).at)
    BY <1>1, <1>o, <2>2, FollowingTypes DEF CallReturns
  <2>4. co' = [co EXCEPT ![r] = Following(co[r].op, Learns(co[r]))]
    BY <1>1 DEF CallReturns
  <2>5. /\ co' \in [Runs -> Coroutine]
        /\ \A s \in Runs : co'[s].at \in Calls => co'[s].item \in 1..Items(co'[s].at)
    BY <2>3, <2>4
  <2>6. QED
    BY <1>1, <2>1, <2>5 DEF CallReturns
<1>2. CASE CallRaises(r)
  <2>1. StoreTypeOK'
    BY <1>2, CallTypes DEF CallRaises, StoreTypeOK
  <2>2. /\ AfterError(r) \in Inside \cup Ended
        /\ AfterError(r) \notin Calls \/ Items(AfterError(r)) > 0
    BY <1>n DEF AfterError, Finish
  <2>3. /\ co' \in [Runs -> Coroutine]
        /\ \A s \in Runs : co'[s].at \in Calls => co'[s].item \in 1..Items(co'[s].at)
    BY <1>2, <2>2, GoesTypes DEF CallRaises
  <2>4. QED
    BY <1>2, <2>1, <2>3, SpendTypes DEF CallRaises, Kinds
<1>3. CASE LateCall(r)
  <2>1. StoreTypeOK'
    BY <1>3, CallTypes DEF LateCall, StoreTypeOK
  <2> DEFINE next == IF Continues(co[r].op, late[r]) THEN Following(co[r].op, late[r]) ELSE NoCall
  <2>2. late' = [late EXCEPT ![r] = next]
    BY <1>3 DEF LateCall
  <2>3. /\ next \in LateCalls
        /\ next.at \in Calls => next.item \in 1..Items(next.at)
    <3>1. CASE Continues(co[r].op, late[r])
      <4>1. Following(co[r].op, late[r]).at \in Calls
        BY <3>1 DEF Continues, Calls
      <4>2. /\ Following(co[r].op, late[r])
                  \in [at : Calls \cup {"none", "release", "done"}, item : Nat]
            /\ Following(co[r].op, late[r]).item \in 1..Items(Following(co[r].op, late[r]).at)
        BY <1>3, <1>o, FollowingTypes DEF LateCall
      <4>3. QED
        BY <3>1, <4>1, <4>2 DEF LateCalls
    <3>2. CASE ~Continues(co[r].op, late[r])
      BY <3>2, <1>n DEF NoCall, LateCalls
    <3>3. QED
      BY <3>1, <3>2
  <2>4. /\ late' \in [Runs -> LateCalls]
        /\ \A s \in Runs : late'[s].at \in Calls => late'[s].item \in 1..Items(late'[s].at)
    <3> HIDE DEF next
    <3>1. QED
      BY <2>2, <2>3
  <2>5. QED
    BY <1>3, <2>1, <2>4 DEF LateCall
<1>4. QED
  BY <1>1, <1>2, <1>3

\* A cancelled coroutine, a dead process.
LEMMA TypeFaults ==
    ASSUME TypeOK, NEW r \in Runs, Cancelled(r) \/ Crash(r)
    PROVE  TypeOK'
<1> USE DEF TypeOK
<1>n. /\ Finish(co[r].op) \in Inside \cup Ended /\ "dead" \in Ended /\ "parse" \notin Calls
      /\ {Finish(co[r].op), "dead", "none"} \cap Calls = {}
  BY DEF Inside, Ended, Calls, Finish
<1>1. CASE Cancelled(r)
  <2>1. StoreTypeOK'
    BY <1>1 DEF Cancelled, storeVars, StoreTypeOK
  <2> DEFINE call == IF At(r, "parse") THEN NoCall ELSE [at |-> co[r].at, item |-> co[r].item]
  <2>2. late' = [late EXCEPT ![r] = call]
    BY <1>1 DEF Cancelled
  <2>3. /\ call \in LateCalls
        /\ call.at \in Calls => call.item \in 1..Items(call.at)
    <3>1. CASE At(r, "parse")
      BY <3>1, <1>n DEF NoCall, LateCalls
    <3>2. CASE ~At(r, "parse")
      <4>1. co[r].at \in Calls /\ co[r].item \in Nat /\ co[r].item \in 1..Items(co[r].at)
        BY <1>1, <3>2 DEF Cancelled, At, Coroutine
      <4>2. QED
        BY <3>2, <4>1 DEF LateCalls
    <3>3. QED
      BY <3>1, <3>2
  <2>4. /\ late' \in [Runs -> LateCalls]
        /\ \A s \in Runs : late'[s].at \in Calls => late'[s].item \in 1..Items(late'[s].at)
    <3> HIDE DEF call
    <3>1. QED
      BY <2>2, <2>3
  <2>5. /\ co' \in [Runs -> Coroutine]
        /\ \A s \in Runs : co'[s].at \in Calls => co'[s].item \in 1..Items(co'[s].at)
    BY <1>1, <1>n, GoesTypes DEF Cancelled
  <2>6. QED
    BY <1>1, <2>1, <2>4, <2>5, SpendTypes DEF Cancelled, Kinds
<1>2. CASE Crash(r)
  <2>1. StoreTypeOK'
    BY <1>2 DEF Crash, storeVars, StoreTypeOK
  <2>2. /\ co' \in [Runs -> Coroutine]
        /\ \A s \in Runs : co'[s].at \in Calls => co'[s].item \in 1..Items(co'[s].at)
    BY <1>2, <1>n, GoesTypes DEF Crash, Goes
  <2>3. /\ late' \in [Runs -> LateCalls]
        /\ \A s \in Runs : late'[s].at \in Calls => late'[s].item \in 1..Items(late'[s].at)
    BY <1>2, <1>n DEF Crash, NoCall, LateCalls
  <2>4. QED
    BY <1>2, <2>1, <2>2, <2>3, SpendTypes DEF Crash, Kinds
<1>3. QED
  BY <1>1, <1>2

\* Every step of every run keeps the types.
LEMMA TypeStep == TypeOK /\ [Next]_vars => TypeOK'
<1> SUFFICES ASSUME TypeOK, [Next]_vars PROVE TypeOK'
  OBVIOUS
<1>1. CASE UNCHANGED vars
  BY <1>1 DEF vars, storeVars, TypeOK, StoreTypeOK
<1>2. ASSUME NEW r \in Runs, Step(r) PROVE TypeOK'
  BY <1>2, TypeOutside, TypeCalls, TypeFaults DEF Step
<1>3. QED
  BY <1>1, <1>2 DEF Next

\* The first state is well-formed.
LEMMA TypeInit == Init => TypeOK
<1> SUFFICES ASSUME Init PROVE TypeOK
  OBVIOUS
<1>1. NoState \in RunState
  BY SizesAssumption DEF NoState, RunState, Statuses, Stages
<1>2. StoreTypeOK
  BY <1>1 DEF Init, StoreInit, StoreTypeOK
<1>3. "idle" \notin Calls /\ "none" \notin Calls
  BY DEF Calls
<1>4. co \in [Runs -> Coroutine] /\ \A r \in Runs : co[r].at = "idle"
  BY MixesAssumption DEF Init, Coroutine
<1>5. QED
  BY <1>2, <1>3, <1>4, BudgetAssumption DEF Init, TypeOK, LateCalls, NoCall

\* The type invariant of ingestion runs: in particular no call goes past its
\* last row or past the last call of the try block.
THEOREM TypeCorrect == Spec => []TypeOK
BY TypeInit, TypeStep, PTL DEF Spec

-----------------------------------------------------------------------------
(* The writer lock. *)

\* A budget is only spent.
BudgetFalls == \A kind \in Kinds : left[kind] <= Budget[kind]

\* A run that is between its acquisition and its release holds its version's lock,
\* unless a lock lapsed under its owner or a coroutine was cancelled.
HolderInside ==
    Spent("lapse") = 0 /\ Spent("cancel") = 0 =>
        \A r \in Runs : Tracked(r) /\ co[r].at \in Inside => HoldsLock(r)

WriterInv == TypeOK /\ BudgetFalls /\ HolderInside

\* No step refunds the budget.
LEMMA BudgetStep == TypeOK /\ BudgetFalls /\ [Next]_vars => BudgetFalls'
<1> SUFFICES ASSUME TypeOK, BudgetFalls, [Next]_vars PROVE BudgetFalls'
  OBVIOUS
<1>1. left' = left \/ \E kind \in Kinds : Spend(kind)
  BY DEF Next, vars, Step, AcquireWriterLock, LockNotAcquired, ParseSource, SourceRejected,
         StartWithoutLock, CallReturns, CallRaises, ReleaseWriterLock, ReleaseRaises, Cancelled,
         CancelledWhileAcquiring, CancelledWhileReleasing, AcquireRaises, LateCall, Crash, LockLapses,
         LockExpires, Kinds
<1>2. CASE left' = left
  BY <1>2 DEF BudgetFalls
<1>3. ASSUME NEW kind \in Kinds, Spend(kind) PROVE BudgetFalls'
  BY <1>3, SpendTypes, BudgetAssumption DEF BudgetFalls, TypeOK
<1>4. QED
  BY <1>1, <1>2, <1>3

\* A cancellation or a lapse is visible in the budget from then on.
LEMMA OverrunSpends ==
    ASSUME TypeOK, BudgetFalls, Spend("cancel") \/ Spend("lapse")
    PROVE  ~(Spent("lapse") = 0 /\ Spent("cancel") = 0)'
<1>1. "cancel" \in Kinds /\ "lapse" \in Kinds /\ left \in [Kinds -> Nat]
  BY DEF Kinds, TypeOK
<1>2. QED
  BY <1>1, SpendTypes, BudgetAssumption DEF BudgetFalls, Spent

\* Spending another kind changes neither of the two.
LEMMA OtherSpends ==
    ASSUME TypeOK, left' = left \/ Spend("error") \/ Spend("crash")
    PROVE  Spent("lapse")' = Spent("lapse") /\ Spent("cancel")' = Spent("cancel")
<1>1. {"error", "crash", "lapse", "cancel"} \subseteq Kinds /\ left \in [Kinds -> Nat]
  BY DEF Kinds, TypeOK
<1>2. QED
  BY <1>1, SpendTypes DEF Spent

\* No step changes which operation a call is, or for which version.
LEMMA CallStays ==
    ASSUME TypeOK, [Next]_vars, NEW r \in Runs
    PROVE  co'[r].op = co[r].op /\ co'[r].version = co[r].version
<1> DEFINE Same(c, d) == c.op = d.op /\ c.version = d.version
<1>1. co[r] \in Coroutine /\ co \in [Runs -> Coroutine]
  BY DEF TypeOK
<1>2. CASE UNCHANGED vars
  BY <1>2 DEF vars
<1>3. ASSUME NEW s \in Runs, Step(s) PROVE Same(co'[r], co[r])
  <2>1. co[s] \in Coroutine
    BY DEF TypeOK
  <2>2. ASSUME NEW at, Goes(s, at) PROVE Same(co'[r], co[r])
    BY <2>2, <1>1, <2>1 DEF Goes, Coroutine
  <2>3. ASSUME NEW at, NEW out, Leaves(s, at, out) PROVE Same(co'[r], co[r])
    BY <2>3, <1>1, <2>1 DEF Leaves, Coroutine
  <2>4. CASE CallReturns(s)
    <3>1. /\ Learns(co[s]).op = co[s].op /\ Learns(co[s]).version = co[s].version
          /\ DOMAIN Learns(co[s]) = DOMAIN co[s]
      BY <2>1 DEF Learns, Coroutine
    <3>2. Same(Following(co[s].op, Learns(co[s])), Learns(co[s]))
      BY <2>1, <3>1 DEF Following, Coroutine
    <3>3. co' = [co EXCEPT ![s] = Following(co[s].op, Learns(co[s]))]
      BY <2>4 DEF CallReturns
    <3>4. QED
      BY <1>1, <3>1, <3>2, <3>3
  <2>5. CASE co' = co
    BY <2>5
  <2>6. CASE Crash(s)
    BY <2>6, <2>2 DEF Crash, Goes
  <2>7. QED
    BY <1>3, <2>2, <2>3, <2>4, <2>5, <2>6
       DEF Step, AcquireWriterLock, LockNotAcquired, StartWithoutLock, ParseSource, SourceRejected,
           ParseFails, CallRaises, ReleaseWriterLock, ReleaseRaises, Cancelled,
           CancelledWhileAcquiring, CancelledWhileReleasing, AcquireRaises, AcquiredInVain,
           LateCall, LockLapses, LockExpires
<1>4. QED
  BY <1>2, <1>3 DEF Next

\* The holder keeps the lock while it is inside, and nobody else comes in.
LEMMA HolderStep == WriterInv /\ [Next]_vars => HolderInside'
<1> SUFFICES ASSUME WriterInv, [Next]_vars, (Spent("lapse") = 0 /\ Spent("cancel") = 0)',
                    NEW s \in Runs, co[s].op = "tracked", co'[s].at \in Inside
             PROVE  lock'[co[s].version] = s
  BY CallStays DEF HolderInside, Tracked, HoldsLock, WriterInv
<1> USE DEF WriterInv, Tracked, HoldsLock
<1>t. /\ co \in [Runs -> Coroutine] /\ lock \in [Versions -> Runs \cup {NoRun}]
      /\ \A r \in Runs :
            /\ co[r] = [op |-> co[r].op, version |-> co[r].version, at |-> co[r].at,
                        item |-> co[r].item, initialized |-> co[r].initialized, out |-> co[r].out]
            /\ co[r].version \in Versions /\ co[r].op \in Operations
  BY DEF TypeOK, StoreTypeOK, Coroutine
<1>n. /\ Inside \cap Ended = {} /\ "idle" \notin Inside /\ Calls \subseteq Inside
      /\ {"refused", "done", "unreleased", "abandoned", "dead"} = Ended
      /\ {"parse", "release"} \subseteq Inside
  BY DEF Inside, Ended, Calls
<1>h. ASSUME left' = left \/ Spend("error") \/ Spend("crash")
      PROVE  \A r \in Runs : co[r].op = "tracked" /\ co[r].at \in Inside => lock[co[r].version] = r
  BY <1>h, OtherSpends DEF HolderInside
<1>1. CASE UNCHANGED vars
  BY <1>1, <1>h DEF vars, storeVars
<1>2. ASSUME NEW r \in Runs, AcquireWriterLock(r) PROVE lock'[co[s].version] = s
  <2>1. /\ lock[co[r].version] = NoRun /\ lock' = [lock EXCEPT ![co[r].version] = r]
        /\ \A q \in Runs \ {r} : co'[q] = co[q]
    BY <1>2, <1>t DEF AcquireWriterLock, AcquireLock, Goes
  <2>2. CASE s = r
    BY <2>1, <2>2, <1>t
  <2>3. CASE s # r
    <3>1. lock[co[s].version] = s /\ co[s].version # co[r].version
      BY <1>2, <1>h, <2>1, <2>3, NoRunAssumption DEF AcquireWriterLock
    <3>2. QED
      BY <2>1, <3>1, <1>t
  <2>4. QED
    BY <2>2, <2>3
<1>3. ASSUME NEW r \in Runs, LockNotAcquired(r) PROVE lock'[co[s].version] = s
  <2>1. co'[r].at = "refused" /\ lock' = lock /\ \A q \in Runs \ {r} : co'[q] = co[q]
    BY <1>3, <1>t DEF LockNotAcquired, Leaves, storeVars
  <2>2. QED
    BY <1>3, <1>h, <2>1, <1>n DEF LockNotAcquired
<1>4. ASSUME NEW r \in Runs, ParseSource(r) \/ SourceRejected(r) \/ CallReturns(r) \/ CallRaises(r)
      PROVE  lock'[co[s].version] = s
  <2>1. co[r].at \in Inside /\ lock' = lock /\ \A q \in Runs \ {r} : co'[q] = co[q]
    BY <1>4, <1>t, <1>n DEF ParseSource, SourceRejected, ParseFails, CallReturns, CallRaises,
                            At, Goes, Leaves, storeVars
  <2>2. left' = left \/ Spend("error")
    BY <1>4 DEF ParseSource, SourceRejected, CallReturns, CallRaises
  <2>3. QED
    BY <1>h, <2>1, <2>2
<1>5. ASSUME NEW r \in Runs, ReleaseWriterLock(r) PROVE lock'[co[s].version] = s
  <2>1. /\ co[r].at = "release" /\ co'[r].at = "done" /\ \A q \in Runs \ {r} : co'[q] = co[q]
        /\ lock' = IF lock[co[r].version] = r THEN [lock EXCEPT ![co[r].version] = NoRun] ELSE lock
    BY <1>5, <1>t DEF ReleaseWriterLock, ReleaseLock, At, Goes
  <2>2. s # r /\ lock[co[s].version] = s
    BY <1>5, <1>h, <2>1, <1>n DEF ReleaseWriterLock
  <2>3. QED
    BY <2>1, <2>2, <1>t
<1>6. ASSUME NEW r \in Runs, ReleaseRaises(r) \/ Crash(r) PROVE lock'[co[s].version] = s
  <2>1. co'[r].at \in Ended /\ lock' = lock /\ \A q \in Runs \ {r} : co'[q] = co[q]
    BY <1>6, <1>t, <1>n DEF ReleaseRaises, Crash, Leaves, storeVars
  <2>2. left' = left \/ Spend("error") \/ Spend("crash")
    BY <1>6 DEF ReleaseRaises, Crash
  <2>3. QED
    BY <1>h, <2>1, <2>2, <1>n
<1>7. ASSUME NEW r \in Runs, \/ Cancelled(r) \/ CancelledWhileAcquiring(r)
                             \/ CancelledWhileReleasing(r) \/ LockLapses(r)
      PROVE  lock'[co[s].version] = s
  BY <1>7, OverrunSpends
     DEF Cancelled, CancelledWhileAcquiring, CancelledWhileReleasing, LockLapses
<1>8. ASSUME NEW r \in Runs, LateCall(r) PROVE lock'[co[s].version] = s
  BY <1>8, <1>h DEF LateCall
<1>9. ASSUME NEW r \in Runs, LockExpires(r) PROVE lock'[co[s].version] = s
  <2>1. /\ lock[co[r].version] = r /\ co[r].at \in Ended /\ co' = co
        /\ lock' = [lock EXCEPT ![co[r].version] = NoRun]
    BY <1>9 DEF LockExpires
  <2>2. lock[co[s].version] = s /\ s # r
    BY <1>9, <1>h, <1>n, <2>1 DEF LockExpires
  <2>3. QED
    BY <2>1, <2>2, <1>t
<1>10. ASSUME NEW r \in Runs, StartWithoutLock(r) PROVE lock'[co[s].version] = s
  <2>1. r # s /\ lock' = lock /\ left' = left /\ \A q \in Runs \ {r} : co'[q] = co[q]
    BY <1>10, <1>t DEF StartWithoutLock, Goes, storeVars
  <2>2. QED
    BY <1>h, <2>1
<1>11. ASSUME NEW r \in Runs, AcquireRaises(r) PROVE lock'[co[s].version] = s
  <2>1. /\ co'[r].at \in Ended /\ co[r].at = "idle" /\ \A q \in Runs \ {r} : co'[q] = co[q]
        /\ \/ lock' = lock
           \/ lock[co[r].version] = NoRun /\ lock' = [lock EXCEPT ![co[r].version] = r]
    BY <1>11, <1>t, <1>n DEF AcquireRaises, AcquiredInVain, AcquireLock, At, Leaves
  <2>2. s # r /\ lock[co[s].version] = s
    BY <1>11, <1>h, <2>1, <1>n DEF AcquireRaises
  <2>3. QED
    BY <2>1, <2>2, <1>t, NoRunAssumption
<1>12. QED
  BY <1>1, <1>2, <1>3, <1>4, <1>5, <1>6, <1>7, <1>8, <1>9, <1>10, <1>11 DEF Next, Step

\* The three hold in every state.
LEMMA WriterAlways == Spec => []WriterInv
<1>1. Init => WriterInv
  <2> SUFFICES ASSUME Init PROVE WriterInv
    OBVIOUS
  <2>1. BudgetFalls
    BY BudgetAssumption DEF Init, BudgetFalls
  <2>2. HolderInside
    BY MixesAssumption DEF Init, HolderInside, Inside, Calls
  <2>3. QED
    BY <2>1, <2>2, TypeInit DEF WriterInv
<1>2. WriterInv /\ [Next]_vars => WriterInv'
  BY TypeStep, BudgetStep, HolderStep DEF WriterInv
<1>3. QED
  BY <1>1, <1>2, PTL DEF Spec

\* The writer lock does its work as long as it does not lapse under its owner
\* and no coroutine is cancelled: crashes of owners, the expiry of their locks,
\* failing calls and failing releases never let two runs in.
THEOREM OneWriter == Spec => []OneWriterUnlessOverrun
<1>1. WriterInv => OneWriterUnlessOverrun
  BY DEF WriterInv, HolderInside, OneWriterUnlessOverrun, Rivals, Tracked, HoldsLock
<1>2. QED
  BY <1>1, WriterAlways, PTL

\* Releasing compares the token: no step of a run takes the lock away from
\* another run.
THEOREM ReleaseSafe == Spec => ReleaseKeepsOthersLock
<1> DEFINE Freed(v, r) ==
        /\ lock'[v] = NoRun
        /\ At(r, "release") \/ co[r].at \in Ended \/ left'["lapse"] < left["lapse"]
<1>1. ASSUME TypeOK, Next, NEW v \in Versions, NEW r \in Runs, lock[v] = r, lock'[v] # r
      PROVE  Freed(v, r)
  <2> USE NoRunAssumption
  <2>l. lock \in [Versions -> Runs \cup {NoRun}] /\ \A s \in Runs : co[s].version \in Versions
    BY <1>1 DEF TypeOK, StoreTypeOK, Coroutine
  <2>1. PICK s \in Runs : Step(s)
    BY <1>1 DEF Next
  <2>2. CASE ReleaseWriterLock(s)
    BY <1>1, <2>2, <2>l DEF ReleaseWriterLock, ReleaseLock
  <2>3. CASE LockLapses(s)
    <3>1. "lapse" \in Kinds
      BY DEF Kinds
    <3>2. left'["lapse"] < left["lapse"]
      BY <1>1, <2>3, <3>1, SpendTypes DEF LockLapses, TypeOK
    <3>3. QED
      BY <1>1, <2>3, <2>l, <3>2 DEF LockLapses, HoldsLock
  <2>4. CASE LockExpires(s)
    BY <1>1, <2>4, <2>l DEF LockExpires, HoldsLock
  <2>5. CASE AcquireLock(s, co[s].version)
    <3>1. lock[co[s].version] = NoRun /\ lock' = [lock EXCEPT ![co[s].version] = s]
      BY <2>5 DEF AcquireLock
    <3>2. v # co[s].version
      BY <1>1, <3>1
    <3>3. QED
      BY <1>1, <2>l, <3>1, <3>2
  <2>6. CASE lock' = lock
    BY <1>1, <2>6
  <2>7. QED
    BY <2>1, <2>2, <2>3, <2>4, <2>5, <2>6
       DEF Step, AcquireWriterLock, AcquireRaises, CancelledWhileAcquiring, AcquiredInVain,
           LockNotAcquired, StartWithoutLock, ParseSource, SourceRejected, CallReturns, CallRaises,
           ReleaseRaises, CancelledWhileReleasing, Cancelled, LateCall, Crash, storeVars
<1>2. ASSUME TypeOK, [Next]_vars
      PROVE  [\A v \in Versions, r \in Runs : lock[v] = r /\ lock'[v] # r => Freed(v, r)]_vars
  BY <1>1, <1>2
<1>3. QED
  BY <1>2, TypeCorrect, PTL DEF Spec, ReleaseKeepsOthersLock

-----------------------------------------------------------------------------
(* What becomes of a lock. *)

\* The owner of a lock took it for its own version, and is at work or has ended
\* without releasing it.
OwnersAre ==
    \A v \in Versions, r \in Runs : lock[v] = r =>
        /\ Tracked(r) /\ co[r].version = v
        /\ co[r].at \in Inside \cup {"dead", "unreleased", "abandoned"}

\* A run with a store does not end before its release.
LEMMA TrackedGoesOn ==
    ASSUME NEW c \in Coroutine, c.op = "tracked", c.at \in Calls, c.item \in 1..Items(c.at)
    PROVE  Following(c.op, c).at \in Inside
<1>1. Following(c.op, c).at \in Calls \cup {"release", "done"}
  BY FollowingTypes DEF Coroutine
<1>2. Following(c.op, c).at # "done"
  <2>1. CASE c.item < Items(c.at)
    BY <2>1 DEF Following, Coroutine, Calls
  <2>2. CASE ~(c.item < Items(c.at))
    <3>1. Following(c.op, c).at = Successor(c.op, c.at)
      BY <2>2 DEF Following, Coroutine
    <3>2. CASE c.at = "fail" \/ Later(c.op, c.at) = {}
      BY <3>1, <3>2 DEF Successor, Finish
    <3>3. CASE ~(c.at = "fail" \/ Later(c.op, c.at) = {})
      <4>1. PICK k \in Later(c.op, c.at) : Successor(c.op, c.at) = Order(c.op)[k]
        BY <3>3, SuccessorPlace DEF Coroutine
      <4>2. Order(c.op)[k] \in Calls \cup {"parse"}
        BY OrderTypes DEF Later, Coroutine
      <4>3. QED
        BY <3>1, <4>1, <4>2 DEF Calls
    <3>4. QED
      BY <3>2, <3>3
  <2>3. QED
    BY <2>1, <2>2
<1>3. QED
  BY <1>1, <1>2 DEF Inside

\* Every step leaves each lock with such an owner.
LEMMA OwnersStep == TypeOK /\ OwnersAre /\ [Next]_vars => OwnersAre'
<1> DEFINE Kept == Inside \cup {"dead", "unreleased", "abandoned"}
<1> SUFFICES ASSUME TypeOK, OwnersAre, [Next]_vars,
                    NEW v \in Versions, NEW s \in Runs, lock'[v] = s
             PROVE  co[s].op = "tracked" /\ co[s].version = v /\ co'[s].at \in Kept
  BY CallStays DEF OwnersAre, Tracked
<1> USE NoRunAssumption
<1>t. /\ co \in [Runs -> Coroutine] /\ lock \in [Versions -> Runs \cup {NoRun}]
      /\ \A r \in Runs : /\ co[r] \in Coroutine /\ co[r].version \in Versions /\ co[r].op \in Operations
                         /\ DOMAIN co[r] = {"op", "version", "at", "item", "initialized", "out"}
  BY DEF TypeOK, StoreTypeOK, Coroutine
<1>h. lock[v] = s => co[s].op = "tracked" /\ co[s].version = v /\ co[s].at \in Kept
  BY DEF OwnersAre, Tracked
<1>n. /\ "idle" \notin Kept /\ Calls \subseteq Inside
      /\ {"parse", "release"} \subseteq Inside
  BY DEF Inside, Calls
<1>o. ASSUME NEW r \in Runs, r # s, \A q \in Runs \ {r} : co'[q] = co[q], lock[v] = s
      PROVE  co[s].op = "tracked" /\ co[s].version = v /\ co'[s].at \in Kept
  BY <1>o, <1>h
<1>1. CASE UNCHANGED <<lock, co>>
  BY <1>1, <1>h
<1>2. ASSUME NEW r \in Runs, At(r, "idle"), Tracked(r), AcquireLock(r, co[r].version),
             \/ Goes(r, "parse") \/ AcquiredInVain(r, "raised") \/ AcquiredInVain(r, "cancelled")
      PROVE  co[s].op = "tracked" /\ co[s].version = v /\ co'[s].at \in Kept
  <2>1. /\ co[r].op = "tracked" /\ co'[r].at \in {"parse", "abandoned"}
        /\ lock[co[r].version] = NoRun /\ lock' = [lock EXCEPT ![co[r].version] = r]
        /\ \A q \in Runs \ {r} : co'[q] = co[q]
    BY <1>2, <1>t DEF AcquiredInVain, AcquireLock, Goes, Leaves, Tracked
  <2>2. CASE v = co[r].version
    BY <2>1, <2>2, <1>t, <1>n
  <2>3. CASE v # co[r].version
    <3>1. lock[v] = s /\ co[r].at = "idle"
      BY <1>2, <2>1, <2>3, <1>t DEF At
    <3>2. r # s
      BY <1>h, <1>n, <3>1
    <3>3. QED
      BY <1>o, <2>1, <3>1, <3>2
  <2>4. QED
    BY <2>2, <2>3
<1>3. ASSUME NEW r \in Runs, At(r, "idle"), lock' = lock,
             Leaves(r, "refused", "raised") \/ Goes(r, Successor(co[r].op, "idle"))
      PROVE  co[s].op = "tracked" /\ co[s].version = v /\ co'[s].at \in Kept
  <2>1. co[r].at = "idle" /\ lock' = lock /\ \A q \in Runs \ {r} : co'[q] = co[q]
    BY <1>3, <1>t DEF At, Goes, Leaves
  <2>2. QED
    BY <1>h, <1>n, <1>o, <2>1
<1>4. ASSUME NEW r \in Runs, NEW at, Goes(r, at) \/ \E out : Leaves(r, at, out),
             co[r].op = "tracked" => at \in Kept, lock' = lock
      PROVE  co[s].op = "tracked" /\ co[s].version = v /\ co'[s].at \in Kept
  <2>1. co'[r].at = at /\ \A q \in Runs \ {r} : co'[q] = co[q]
    BY <1>4, <1>t DEF Goes, Leaves
  <2>2. QED
    BY <1>4, <1>h, <1>o, <2>1
<1>5. ASSUME NEW r \in Runs, ParseSource(r)
      PROVE  co[s].op = "tracked" /\ co[s].version = v /\ co'[s].at \in Kept
  <2>1. lock' = lock /\ \A q \in Runs \ {r} : co'[q] = co[q]
    BY <1>5, <1>t DEF ParseSource, Goes, storeVars
  <2>2. CASE s = r
    <3>1. co'[r].at = Successor(co[r].op, "parse") /\ co[r].op = "tracked"
      BY <1>5, <1>t, <1>h, <2>1, <2>2 DEF ParseSource, Goes
    <3>2. PICK m : m = 2 /\ m \in Later("tracked", "parse")
      <4>1. /\ 2 \in DOMAIN Order("tracked") /\ Order("tracked")[2] = "init"
            /\ 1 \in 1..(2 - 1) /\ Order("tracked")[1] = "parse"
        BY DEF Order
      <4>2. Items("init") > 0
        BY DEF Items
      <4>3. QED
        BY <4>1, <4>2 DEF Later
    <3>3. PICK k \in Later("tracked", "parse") : Successor("tracked", "parse") = Order("tracked")[k]
      BY <3>2, SuccessorPlace DEF Operations
    <3>4. Order("tracked")[k] \in Calls \cup {"parse"}
      BY OrderTypes DEF Later, Operations
    <3>5. QED
      BY <1>h, <1>n, <2>1, <2>2, <3>1, <3>3, <3>4
  <2>3. CASE s # r
    BY <1>o, <2>1, <2>3
  <2>4. QED
    BY <2>2, <2>3
<1>6. ASSUME NEW r \in Runs, \/ SourceRejected(r) \/ CallRaises(r) \/ Cancelled(r)
                             \/ ReleaseRaises(r) \/ CancelledWhileReleasing(r)
      PROVE  co[s].op = "tracked" /\ co[s].version = v /\ co'[s].at \in Kept
  <2>1. \A op \in Operations : op = "tracked" => Finish(op) = "release"
    BY DEF Finish
  <2>2. "fail" \in Calls
    BY DEF Calls
  <2>3. CASE SourceRejected(r) \/ Cancelled(r)
    BY <1>4, <1>t, <1>n, <2>1, <2>3 DEF SourceRejected, ParseFails, Cancelled, storeVars
  <2>4. CASE CallRaises(r)
    BY <1>4, <1>t, <1>n, <2>1, <2>2, <2>4 DEF CallRaises, AfterError
  <2>5. CASE ReleaseRaises(r) \/ CancelledWhileReleasing(r)
    BY <1>4, <2>5 DEF ReleaseRaises, CancelledWhileReleasing, storeVars
  <2>6. QED
    BY <1>6, <2>3, <2>4, <2>5
<1>7. ASSUME NEW r \in Runs, CallReturns(r)
      PROVE  co[s].op = "tracked" /\ co[s].version = v /\ co'[s].at \in Kept
  <2>1. lock' = lock /\ co' = [co EXCEPT ![r] = Following(co[r].op, Learns(co[r]))] /\ co[r].at \in Calls
    BY <1>7 DEF CallReturns
  <2>2. CASE s = r
    <3>1. PICK c : c = Learns(co[r])
      OBVIOUS
    <3>2. /\ c \in Coroutine /\ c.op = co[r].op /\ c.at = co[r].at /\ c.item = co[r].item
      BY <3>1, <1>t DEF Learns, Coroutine
    <3>3. co[r].item \in 1..Items(co[r].at) /\ co[r].op = "tracked"
      BY <1>h, <2>1, <2>2 DEF TypeOK
    <3>4. Following(c.op, c).at \in Inside
      BY <2>1, <3>2, <3>3, TrackedGoesOn
    <3>5. QED
      BY <1>h, <1>t, <2>1, <2>2, <3>1, <3>2, <3>4
  <2>3. CASE s # r
    <3>1. \A q \in Runs \ {r} : co'[q] = co[q]
      BY <1>t, <2>1
    <3>2. QED
      BY <1>o, <2>1, <2>3, <3>1
  <2>4. QED
    BY <2>2, <2>3
<1>8. ASSUME NEW r \in Runs, ReleaseWriterLock(r)
      PROVE  co[s].op = "tracked" /\ co[s].version = v /\ co'[s].at \in Kept
  <2>1. /\ \A q \in Runs \ {r} : co'[q] = co[q]
        /\ lock' = IF lock[co[r].version] = r THEN [lock EXCEPT ![co[r].version] = NoRun] ELSE lock
    BY <1>8, <1>t DEF ReleaseWriterLock, ReleaseLock, Goes
  <2>2. lock[v] = s
    BY <2>1, <1>t
  <2>3. s # r
    BY <1>h, <1>t, <2>1, <2>2
  <2>4. QED
    BY <1>o, <2>1, <2>2, <2>3
<1>9. ASSUME NEW r \in Runs, Crash(r)
      PROVE  co[s].op = "tracked" /\ co[s].version = v /\ co'[s].at \in Kept
  BY <1>9, <1>4 DEF Crash, Goes, storeVars
<1>10. ASSUME NEW r \in Runs, LockLapses(r) \/ LockExpires(r)
       PROVE  co[s].op = "tracked" /\ co[s].version = v /\ co'[s].at \in Kept
  <2>1. co' = co /\ lock' = [lock EXCEPT ![co[r].version] = NoRun]
    BY <1>10 DEF LockLapses, LockExpires
  <2>2. lock[v] = s
    BY <2>1, <1>t
  <2>3. QED
    BY <1>h, <2>1, <2>2
<1>11. ASSUME NEW r \in Runs, \/ AcquireWriterLock(r) \/ AcquireRaises(r) \/ CancelledWhileAcquiring(r)
                              \/ LockNotAcquired(r) \/ StartWithoutLock(r)
       PROVE  co[s].op = "tracked" /\ co[s].version = v /\ co'[s].at \in Kept
  BY <1>11, <1>2, <1>3 DEF AcquireWriterLock, AcquireRaises, CancelledWhileAcquiring, AcquiredInVain,
                           LockNotAcquired, StartWithoutLock, storeVars
<1>12. QED
  BY <1>1, <1>5, <1>6, <1>7, <1>8, <1>9, <1>10, <1>11
     DEF Next, Step, LateCall, vars, storeVars

\* Every way out of a call gives its lock back, except the death of its owner, a
\* release that fails or is cancelled, and an acquiring call that fails or is
\* cancelled although its SET was applied.
THEOREM LocksAreReleased == Spec => []LockLeaksOnlyByFault
<1>1. Init => OwnersAre
  BY NoRunAssumption DEF Init, StoreInit, OwnersAre
<1>2. OwnersAre => LockLeaksOnlyByFault
  BY DEF OwnersAre, LockLeaksOnlyByFault
<1>3. QED
  BY <1>1, <1>2, OwnersStep, TypeCorrect, PTL DEF Spec
=============================================================================
