------------------------ MODULE IngestionRunOutcome ------------------------
(***************************************************************************)
(* What a run's status and its caller's outcome mean: proofs, for every    *)
(* number of runs, versions, rows and faults, that a SUCCEEDED run is      *)
(* complete, that module IngestionRun implements IngestionLifecycle, that  *)
(* the last run under a lock has its rows in the summary table, and that   *)
(* the outcome a caller sees agrees with what is stored.                   *)
(*                                                                         *)
(* All rest on OutcomeInv: what the store holds of a run is determined by  *)
(* the call its coroutine, or the thread it has left behind, is about to   *)
(* make.                                                                   *)
(***************************************************************************)
EXTENDS IngestionRunProofs

Shown(r) == <<state[r].status, state[r].stage>>

\* What the meta hash shows when a call is about to be made ...
ShownBefore(at) ==
    CASE at \in {"idle", "parse", "init"} -> <<"NONE", "NONE">>
      [] at \in {"sadd", "page_meta", "subch_meta"} -> <<"RUNNING", "PAGE">>
      [] at \in {"subch", "ch_meta"} -> <<"RUNNING", "SUBCH">>
      [] at \in {"ch", "doc_meta"} -> <<"RUNNING", "CH">>
      [] OTHER -> <<"RUNNING", "DOC">>

\* ... and the rows and fields that the first n items of a call leave.
Wrote(r, at, n) ==
    /\ at = "sadd" /\ n > 0 => state[r].page_done = 1..NumPages
    /\ at = "subch" => \A i \in 1..n : state[r].subch[i] > 0
    /\ at = "ch" => \A i \in 1..n : state[r].ch[i] > 0
    /\ at = "summary" => \A i \in 1..n : summary[i] # NoRun
    /\ at = "page" => \A i \in 1..n : <<r, i>> \in pages
    /\ at = "final" /\ n > 0 => state[r].doc = 2

Writing == {"sadd", "subch", "ch", "summary", "page", "final"}

\* The writing calls that are over when a call is about to be made.
Behind(at) ==
    CASE at \in {"page_meta", "subch_meta", "subch"} -> {"sadd"}
      [] at \in {"ch_meta", "ch"} -> {"sadd", "subch"}
      [] at \in {"doc_meta", "draft", "summary"} -> {"sadd", "subch", "ch"}
      [] at = "page" -> {"sadd", "subch", "ch", "summary"}
      [] at = "final" -> {"sadd", "subch", "ch", "summary", "page"}
      [] at = "succeed" -> Writing
      [] OTHER -> {}

Complete(r) == \A c \in Writing : Wrote(r, c, Items(c))

\* What it shows while a run is going on.
Open == {"RUNNING"} \X {"PAGE", "SUBCH", "CH", "DOC"}

InTry == {"idle", "parse", "init", "sadd", "page_meta", "subch_meta", "subch", "ch_meta", "ch",
          "doc_meta", "draft", "summary", "page", "final", "succeed"}

\* A tracked run that is about to make item i of a call.
About(r, at, i) ==
    /\ at \in InTry => /\ Shown(r) = ShownBefore(at)
                       /\ \A c \in Behind(at) : Wrote(r, c, Items(c))
                       /\ Wrote(r, at, i - 1)
    /\ at = "fail" => Shown(r) \in Open \cup {<<"SUCCEEDED", "COMMIT">>}
    /\ at # "touch"

OnlyRows == {"summary", "page", "touch"}

RunInv(r) ==
    /\ Tracked(r) => /\ About(r, co[r].at, co[r].item)
                     /\ About(r, late[r].at, late[r].item)
    /\ ~Tracked(r) => /\ co[r].at \in Calls => co[r].at \in OnlyRows
                      /\ late[r].at \in Calls => late[r].at \in OnlyRows
                      /\ ~co[r].initialized
    /\ co[r].at \in {"idle", "parse", "init"} => ~co[r].initialized
    /\ late[r].at \in Calls => co[r].at \notin Calls \cup {"idle", "parse"}
    /\ state[r].status = "SUCCEEDED" => Complete(r)

OutcomeInv == \A r \in Runs : RunInv(r)

-----------------------------------------------------------------------------
(* The order of a tracked run's calls. *)

Place == Order("tracked")

\* The fourteen places.
LEMMA Places ==
    /\ DOMAIN Place = 1..14
    /\ Place[1] = "parse" /\ Place[2] = "init" /\ Place[3] = "sadd" /\ Place[4] = "page_meta"
    /\ Place[5] = "subch_meta" /\ Place[6] = "subch" /\ Place[7] = "ch_meta" /\ Place[8] = "ch"
    /\ Place[9] = "doc_meta" /\ Place[10] = "draft" /\ Place[11] = "summary"
    /\ Place[12] = "page" /\ Place[13] = "final" /\ Place[14] = "succeed"
BY DEF Place, Order

\* No call stands at two places.
LEMMA PlacesDiffer == \A i, k \in 1..14 : Place[i] = Place[k] => i = k
<1>1. \A i \in 1..14 : i \in {1, 2, 3, 4, 5, 6, 7, 8, 9, 10, 11, 12, 13, 14}
  OBVIOUS
<1>2. QED
  BY <1>1, Places

\* The next place, when the places between have nothing to do.
LEMMA NextPlace ==
    ASSUME NEW k \in 1..14, NEW m \in 1..14, k < m, Items(Place[m]) > 0,
           \A j \in 1..14 : k < j /\ j < m => ~(Items(Place[j]) > 0)
    PROVE  Successor("tracked", Place[k]) = Place[m]
<1> DEFINE at == Place[k]
<1>1. at # "fail" /\ at # "idle"
  <2>1. k \in {1, 2, 3, 4, 5, 6, 7, 8, 9, 10, 11, 12, 13, 14}
    OBVIOUS
  <2>2. QED
    BY <2>1, Places
<1>2. Later("tracked", at) = {j \in 1..14 : k < j /\ Items(Place[j]) > 0}
  <2>1. \A j \in 1..14 : (\E p \in 1..(j - 1) : Place[p] = at) <=> k < j
    <3>1. ASSUME NEW j \in 1..14, NEW p \in 1..(j - 1), Place[p] = at PROVE k < j
      <4>1. p \in 1..14
        OBVIOUS
      <4>2. p = k
        BY <3>1, <4>1, PlacesDiffer
      <4>3. QED
        BY <4>2
    <3>2. QED
      BY <3>1
  <2>2. QED
    BY <1>1, <2>1, Places DEF Later, Place
<1>3. m \in Later("tracked", at) /\ "tracked" \in Operations
  BY <1>2 DEF Operations
<1>4. PICK j \in Later("tracked", at) : /\ Successor("tracked", at) = Place[j]
                                        /\ \A p \in Later("tracked", at) : j <= p
  BY <1>1, <1>3, SuccessorPlace DEF Place
<1>5. j \in 1..14 /\ k < j /\ Items(Place[j]) > 0 /\ j <= m
  BY <1>2, <1>3, <1>4
<1>6. j = m
  BY <1>5
<1>7. QED
  BY <1>4, <1>6

\* What a tracked run does next.
LEMMA TrackedSuccessor ==
    /\ Successor("tracked", "parse") = "init"
    /\ Successor("tracked", "init") = "sadd"
    /\ Successor("tracked", "sadd") = "page_meta"
    /\ Successor("tracked", "page_meta") = "subch_meta"
    /\ Successor("tracked", "subch_meta") = IF NumSubch > 0 THEN "subch" ELSE "ch_meta"
    /\ Successor("tracked", "subch") = "ch_meta"
    /\ Successor("tracked", "ch_meta") = "ch"
    /\ Successor("tracked", "ch") = "doc_meta"
    /\ Successor("tracked", "doc_meta") = "draft"
    /\ Successor("tracked", "draft") = "summary"
    /\ Successor("tracked", "summary") = IF NumPages > 0 THEN "page" ELSE "final"
    /\ Successor("tracked", "page") = "final"
    /\ Successor("tracked", "final") = "succeed"
    /\ Successor("tracked", "succeed") = "release"
    /\ Successor("tracked", "fail") = "release"
<1> DEFINE One(k) == Items(Place[k + 1]) > 0 => Successor("tracked", Place[k]) = Place[k + 1]
<1>1. \A k \in 1..13 : One(k)
  BY NextPlace
<1>2. /\ One(1) /\ One(2) /\ One(3) /\ One(4) /\ One(5) /\ One(6) /\ One(7) /\ One(8)
      /\ One(9) /\ One(10) /\ One(11) /\ One(12) /\ One(13)
  BY <1>1
<1>3. /\ Items("subch") = NumSubch /\ Items("page") = NumPages
      /\ Items("ch") > 0 /\ Items("summary") > 0
      /\ \A at \in InTry \ {"subch", "ch", "summary", "page"} : Items(at) = 1
  BY SizesAssumption DEF Items, InTry
<1>4. ~(NumSubch > 0) => Successor("tracked", "subch_meta") = "ch_meta"
  <2> SUFFICES ASSUME ~(NumSubch > 0) PROVE Successor("tracked", Place[5]) = Place[7]
    BY Places
  <2>1. \A j \in 1..14 : 5 < j /\ j < 7 => j = 6
    OBVIOUS
  <2>2. QED
    BY <1>3, <2>1, NextPlace, Places DEF InTry
<1>5. ~(NumPages > 0) => Successor("tracked", "summary") = "final"
  <2> SUFFICES ASSUME ~(NumPages > 0) PROVE Successor("tracked", Place[11]) = Place[13]
    BY Places
  <2>1. \A j \in 1..14 : 11 < j /\ j < 13 => j = 12
    OBVIOUS
  <2>2. QED
    BY <1>3, <2>1, NextPlace, Places DEF InTry
<1>6. Successor("tracked", "succeed") = "release" /\ Successor("tracked", "fail") = "release"
  <2>1. Later("tracked", Place[14]) = {}
    <3>1. ASSUME NEW j \in 1..14, NEW p \in 1..(j - 1), Place[p] = Place[14] PROVE FALSE
      <4>1. p \in 1..14 /\ p # 14
        OBVIOUS
      <4>2. QED
        BY <3>1, <4>1, PlacesDiffer
    <3>2. QED
      BY <3>1, Places DEF Later, Place
  <2>2. QED
    BY <2>1, Places DEF Successor, Finish
<1>7. QED
  BY <1>2, <1>3, <1>4, <1>5, <1>6, Places DEF InTry

\* What an operation without a lock does next.
LEMMA PlainSuccessor ==
    ASSUME NEW op \in Operations \ {"tracked"}, NEW at
    PROVE  /\ Successor(op, at) \in OnlyRows \cup {"parse", "done"}
           /\ Successor(op, at) # "release"
<1>1. CASE at = "fail" \/ Later(op, at) = {}
  BY <1>1 DEF Successor, Finish
<1>2. CASE ~(at = "fail" \/ Later(op, at) = {})
  <2>1. PICK k \in Later(op, at) : Successor(op, at) = Order(op)[k]
    BY <1>2, SuccessorPlace
  <2>2. \A j \in DOMAIN Order(op) : Order(op)[j] \in OnlyRows \cup {"parse"}
    BY DEF Order, Operations, OnlyRows
  <2>3. QED
    BY <2>1, <2>2 DEF Later, OnlyRows
<1>3. QED
  BY <1>1, <1>2

-----------------------------------------------------------------------------
(* What a call does to the store. *)

\* The status and the stage that a call leaves.
LEMMA CallShows ==
    ASSUME TypeOK, NEW r \in Runs, NEW at \in Calls, NEW i \in 1..Items(at), Call(r, at, i)
    PROVE  /\ \A s \in Runs \ {r} : state'[s] = state[s]
           /\ at \in {"init", "page_meta"} => Shown(r)' = <<"RUNNING", "PAGE">>
           /\ at = "subch_meta" => Shown(r)' = <<"RUNNING", "SUBCH">>
           /\ at = "ch_meta" => Shown(r)' = <<"RUNNING", "CH">>
           /\ at = "doc_meta" => Shown(r)' = <<"RUNNING", "DOC">>
           /\ at = "succeed" => Shown(r)' = <<"SUCCEEDED", "COMMIT">>
           /\ at = "fail" => Shown(r)' = <<"FAILED", "COMMIT">>
           /\ at \in {"sadd", "subch", "ch", "draft", "final", "summary", "page", "touch"} =>
                 Shown(r)' = Shown(r)
<1>s. state[r] \in RunState /\ state \in [Runs -> RunState]
  BY DEF TypeOK, StoreTypeOK
<1>m. \A stage, status : /\ Meta(r, stage, status).stage = stage
                         /\ Meta(r, stage, status).status = status
                         /\ DOMAIN Meta(r, stage, status) = DOMAIN state[r]
  BY <1>s DEF Meta, RunState
<1>d. {"status", "stage", "done_pages", "done_subch", "done_ch"} \subseteq DOMAIN state[r]
  BY <1>s DEF RunState
<1>w. ASSUME NEW v, Write(r, v)
      PROVE  state'[r] = v /\ \A s \in Runs \ {r} : state'[s] = state[s]
  BY <1>w, <1>s DEF Write
<1>1. CASE MetaCall(r, at)
  <2>1. CASE at = "init" /\ InitializeRun(r)
    <3> DEFINE v == [state[r] EXCEPT !.status = "RUNNING", !.stage = "PAGE",
                                     !.done_pages = 0, !.done_subch = 0, !.done_ch = 0]
    <3>1. v.status = "RUNNING" /\ v.stage = "PAGE"
      BY <1>d
    <3>2. state'[r] = v
      BY <2>1, <1>w DEF InitializeRun
    <3>3. Shown(r)' = <<"RUNNING", "PAGE">>
      BY <3>1, <3>2 DEF Shown
    <3>4. QED
      BY <2>1, <3>2, <3>3, <1>w DEF InitializeRun
  <2>2. CASE at = "page_meta" /\ CountPages(r)
    BY <2>2, <1>s, <1>w, <1>m DEF CountPages, Shown, RunState
  <2>3. CASE at = "subch_meta" /\ EnterSubch(r)
    BY <2>3, <1>w, <1>m DEF EnterSubch, Shown
  <2>4. CASE at = "ch_meta" /\ EnterCh(r)
    BY <2>4, <1>s, <1>w, <1>m DEF EnterCh, Shown, RunState
  <2>5. CASE at = "doc_meta" /\ EnterDoc(r)
    <3> DEFINE v == [Meta(r, "DOC", "RUNNING") EXCEPT !.done_subch = NumSubch,
                                                      !.done_ch = NumSummary]
    <3>1. v.status = "RUNNING" /\ v.stage = "DOC"
      BY <1>d, <1>m
    <3>2. Write(r, v)
      BY <2>5 DEF EnterDoc
    <3>3. Shown(r)' = <<"RUNNING", "DOC">>
      BY <3>1, <3>2, <1>w DEF Shown
    <3>4. QED
      BY <2>5, <3>2, <3>3, <1>w
  <2>6. CASE at = "succeed" /\ MarkSucceeded(r)
    BY <2>6, <1>w, <1>m DEF MarkSucceeded, Shown
  <2>7. CASE at = "fail" /\ MarkFailed(r)
    BY <2>7, <1>w, <1>m DEF MarkFailed, Shown
  <2>8. QED
    BY <1>1, <2>1, <2>2, <2>3, <2>4, <2>5, <2>6, <2>7 DEF MetaCall
<1>2. CASE StateCall(r, at, i)
  BY <1>2, <1>s DEF StateCall, AddPageDone, UpsertSubch, UpsertCh, UpsertDoc, Write, Shown, RunState
<1>3. CASE state' = state /\ at \in {"summary", "page", "touch"}
  BY <1>3 DEF Shown
<1>4. QED
  BY <1>1, <1>2, <1>3 DEF Call

\* A call writes its item ...
LEMMA CallWrites ==
    ASSUME TypeOK, NEW r \in Runs, NEW at \in Calls, NEW i \in 1..Items(at), Call(r, at, i),
           Wrote(r, at, i - 1)
    PROVE  Wrote(r, at, i)'
<1> USE DEF Wrote
<1>s. state[r] \in RunState /\ state \in [Runs -> RunState]
  BY DEF TypeOK, StoreTypeOK
<1>i. i \in Nat /\ i > 0 /\ \A j \in 1..i : j = i \/ j \in 1..(i - 1)
  BY ItemsTypes
<1>1. CASE at = "sadd"
  BY <1>1, <1>s DEF Call, MetaCall, StateCall, AddPageDone, Write, RunState
<1>2. CASE at = "subch"
  <2>1. i \in 1..NumSubch /\ UpsertSubch(r, i)
    BY <1>2 DEF Call, MetaCall, StateCall, Items
  <2>2. state[r].subch \in [1..NumSubch -> 0..NumSubch]
    BY <1>s DEF RunState
  <2>3. CASE state[r].subch[i] >= i
    <3>1. state'[r] = state[r]
      BY <2>1, <2>3, <1>s DEF UpsertSubch, Write
    <3>2. state[r].subch[i] > 0
      BY <2>1, <2>2, <2>3, SizesAssumption
    <3>3. QED
      BY <1>2, <1>i, <3>1, <3>2
  <2>4. CASE ~(state[r].subch[i] >= i)
    <3>1. state'[r].subch = [state[r].subch EXCEPT ![i] = i]
      BY <2>1, <2>4, <1>s DEF UpsertSubch, Write, RunState
    <3>2. \A j \in 1..(i - 1) : state'[r].subch[j] = state[r].subch[j]
      BY <2>1, <2>2, <3>1
    <3>3. state'[r].subch[i] = i
      BY <2>1, <2>2, <3>1
    <3>4. QED
      BY <1>2, <1>i, <3>2, <3>3
  <2>5. QED
    BY <2>3, <2>4
<1>3. CASE at = "ch"
  <2>1. i \in 1..NumSummary /\ UpsertCh(r, i)
    BY <1>3 DEF Call, MetaCall, StateCall, Items
  <2>2. state[r].ch \in [1..NumSummary -> 0..NumSummary]
    BY <1>s DEF RunState
  <2>3. CASE state[r].ch[i] >= i
    <3>1. state'[r] = state[r]
      BY <2>1, <2>3, <1>s DEF UpsertCh, Write
    <3>2. state[r].ch[i] > 0
      BY <2>1, <2>2, <2>3, SizesAssumption
    <3>3. QED
      BY <1>3, <1>i, <3>1, <3>2
  <2>4. CASE ~(state[r].ch[i] >= i)
    <3>1. state'[r].ch = [state[r].ch EXCEPT ![i] = i]
      BY <2>1, <2>4, <1>s DEF UpsertCh, Write, RunState
    <3>2. \A j \in 1..(i - 1) : state'[r].ch[j] = state[r].ch[j]
      BY <2>1, <2>2, <3>1
    <3>3. state'[r].ch[i] = i
      BY <2>1, <2>2, <3>1
    <3>4. QED
      BY <1>3, <1>i, <3>2, <3>3
  <2>5. QED
    BY <2>3, <2>4
<1>4. CASE at = "summary"
  <2>1. summary' = [summary EXCEPT ![i] = r] /\ i \in 1..NumSummary
    BY <1>4 DEF Call, MetaCall, StateCall, UpsertSummaryNode, Items
  <2>2. QED
    BY <1>4, <1>i, <2>1, NoRunAssumption DEF TypeOK, StoreTypeOK
<1>5. CASE at = "page"
  <2>1. pages' = pages \cup {<<r, i>>}
    BY <1>5 DEF Call, MetaCall, StateCall, UpsertPageNode
  <2>2. QED
    BY <1>5, <1>i, <2>1
<1>6. CASE at = "final"
  <2>1. UpsertDoc(r, 2) /\ state[r].doc \in 0..2
    BY <1>6, <1>s DEF Call, MetaCall, StateCall, RunState
  <2>2. state'[r].doc = 2
    BY <2>1, <1>s DEF UpsertDoc, Write, RunState
  <2>3. QED
    BY <1>6, <2>2
<1>7. CASE at \notin Writing
  BY <1>7 DEF Writing
<1>8. QED
  BY <1>1, <1>2, <1>3, <1>4, <1>5, <1>6, <1>7 DEF Writing

\* ... and undoes nothing that a run has written.
LEMMA CallKeeps ==
    ASSUME TypeOK, NEW r \in Runs, NEW at \in Calls, NEW i \in 1..Items(at), Call(r, at, i),
           NEW s \in Runs, NEW c, NEW n \in Nat, n <= Items(c), Wrote(s, c, n)
    PROVE  Wrote(s, c, n)'
<1>s. state[r] \in RunState /\ state[s] \in RunState /\ state \in [Runs -> RunState]
  BY DEF TypeOK, StoreTypeOK
<1>t. summary \in [1..NumSummary -> Runs \cup {NoRun}] /\ pages \subseteq pages'
  BY DEF TypeOK, StoreTypeOK, Call, UpsertPageNode
<1>1. /\ state[s].page_done = 1..NumPages => state'[s].page_done = 1..NumPages
      /\ state[s].doc = 2 => state'[s].doc = 2
      /\ \A j \in 1..NumSubch : state[s].subch[j] > 0 => state'[s].subch[j] > 0
      /\ \A j \in 1..NumSummary : state[s].ch[j] > 0 => state'[s].ch[j] > 0
  <2>1. CASE s # r \/ at \in {"summary", "page", "touch"}
    <3>1. state'[s] = state[s]
      BY <2>1, CallShows DEF Call, MetaCall, StateCall
    <3>2. QED
      BY <3>1
  <2>2. CASE s = r /\ MetaCall(r, at)
    <3>1. \A stage, status : /\ Meta(r, stage, status).page_done = state[r].page_done
                             /\ Meta(r, stage, status).doc = state[r].doc
                             /\ Meta(r, stage, status).subch = state[r].subch
                             /\ Meta(r, stage, status).ch = state[r].ch
      BY <1>s DEF Meta, RunState
    <3>2. /\ state'[r].page_done = state[r].page_done /\ state'[r].doc = state[r].doc
          /\ state'[r].subch = state[r].subch /\ state'[r].ch = state[r].ch
      <4>m. \A stage, status : DOMAIN Meta(r, stage, status) = DOMAIN state[r]
        BY <1>s DEF Meta, RunState
      <4>d. {"page_done", "doc", "subch", "ch"} \subseteq DOMAIN state[r]
        BY <1>s DEF RunState
      <4>w. ASSUME NEW v, Write(r, v) PROVE state'[r] = v
        BY <4>w, <1>s DEF Write
      <4>1. CASE InitializeRun(r)
        BY <4>1, <1>s, <4>w DEF InitializeRun, RunState
      <4>2. CASE CountPages(r)
        BY <4>2, <1>s, <4>w, <4>m, <3>1 DEF CountPages, RunState
      <4>3. CASE EnterSubch(r) \/ MarkSucceeded(r) \/ MarkFailed(r)
        BY <4>3, <4>w, <3>1 DEF EnterSubch, MarkSucceeded, MarkFailed
      <4>4. CASE EnterCh(r)
        BY <4>4, <1>s, <4>w, <4>m, <3>1 DEF EnterCh, RunState
      <4>5. CASE EnterDoc(r)
        <5> DEFINE v == [Meta(r, "DOC", "RUNNING") EXCEPT !.done_subch = NumSubch,
                                                          !.done_ch = NumSummary]
        <5>1. /\ v.page_done = state[r].page_done /\ v.doc = state[r].doc
              /\ v.subch = state[r].subch /\ v.ch = state[r].ch
          BY <3>1, <4>d, <4>m
        <5>2. state'[r] = v
          BY <4>5, <4>w DEF EnterDoc
        <5>3. QED
          BY <5>1, <5>2
      <4>6. QED
        BY <2>2, <4>1, <4>2, <4>3, <4>4, <4>5 DEF MetaCall
    <3>3. QED
      BY <2>2, <3>2
  <2>3. CASE s = r /\ at \in {"sadd", "draft", "final"} /\ StateCall(r, at, i)
    <3>1. state'[r].subch = state[r].subch /\ state'[r].ch = state[r].ch
      BY <2>3, <1>s DEF StateCall, AddPageDone, UpsertDoc, Write, RunState
    <3>2. state[r].page_done = 1..NumPages => state'[r].page_done = 1..NumPages
      BY <2>3, <1>s DEF StateCall, AddPageDone, UpsertDoc, Write, RunState
    <3>3. state[r].doc = 2 => state'[r].doc = 2
      BY <2>3, <1>s DEF StateCall, AddPageDone, UpsertDoc, Write, RunState
    <3>4. QED
      BY <2>3, <3>1, <3>2, <3>3
  <2>4. CASE s = r /\ at = "subch" /\ UpsertSubch(r, i)
    <3>1. /\ state'[r].page_done = state[r].page_done /\ state'[r].doc = state[r].doc
          /\ state'[r].ch = state[r].ch
          /\ state'[r].subch = state[r].subch \/ state'[r].subch = [state[r].subch EXCEPT ![i] = i]
      BY <2>4, <1>s DEF UpsertSubch, Write, RunState
    <3>2. i > 0 /\ state[r].subch \in [1..NumSubch -> 0..NumSubch]
      BY <1>s DEF RunState
    <3>3. QED
      BY <2>4, <3>1, <3>2
  <2>5. CASE s = r /\ at = "ch" /\ UpsertCh(r, i)
    <3>1. /\ state'[r].page_done = state[r].page_done /\ state'[r].doc = state[r].doc
          /\ state'[r].subch = state[r].subch
          /\ state'[r].ch = state[r].ch \/ state'[r].ch = [state[r].ch EXCEPT ![i] = i]
      BY <2>5, <1>s DEF UpsertCh, Write, RunState
    <3>2. i > 0 /\ state[r].ch \in [1..NumSummary -> 0..NumSummary]
      BY <1>s DEF RunState
    <3>3. QED
      BY <2>5, <3>1, <3>2
  <2>6. QED
    BY <2>1, <2>2, <2>3, <2>4, <2>5 DEF Call, StateCall
<1>2. \A j \in 1..NumSummary : summary[j] # NoRun => summary'[j] # NoRun
  BY <1>t, NoRunAssumption DEF Call, UpsertSummaryNode
<1>3. c \in {"subch", "ch", "summary"} => 1..n \subseteq 1..Items(c)
  BY ItemsTypes
<1>4. QED
  BY <1>1, <1>2, <1>3, <1>t DEF Wrote, Items

-----------------------------------------------------------------------------
(* From one call to the next. *)

InCalls == InTry \ {"idle", "parse"}

\* The call after one of the try block: what must be over by then is over.
LEMMA NextCall ==
    ASSUME NEW at \in InCalls, at # "succeed"
    PROVE  /\ Successor("tracked", at) \in InCalls
           /\ \A b \in Behind(Successor("tracked", at)) : b \in Behind(at) \/ b = at \/ Items(b) = 0
           /\ ShownBefore(Successor("tracked", at)) =
                 CASE at \in {"init", "page_meta"} -> <<"RUNNING", "PAGE">>
                   [] at = "subch_meta" -> <<"RUNNING", "SUBCH">>
                   [] at = "ch_meta" -> <<"RUNNING", "CH">>
                   [] at = "doc_meta" -> <<"RUNNING", "DOC">>
                   [] OTHER -> ShownBefore(at)
<1> USE TrackedSuccessor DEF InCalls, InTry, Behind, Writing, ShownBefore
<1>0. NumSubch \in Nat /\ NumPages \in Nat /\ Items("subch") = NumSubch /\ Items("page") = NumPages
  BY SizesAssumption DEF Items
<1>1. CASE at \in {"init", "sadd", "page_meta"}
  BY <1>1
<1>2. CASE at = "subch_meta"
  BY <1>2, <1>0
<1>3. CASE at \in {"subch", "ch_meta", "ch", "doc_meta", "draft"}
  BY <1>3
<1>4. CASE at = "summary"
  BY <1>4, <1>0
<1>5. CASE at \in {"page", "final"}
  BY <1>5
<1>6. QED
  BY <1>1, <1>2, <1>3, <1>4, <1>5

\* Nothing has to be written for no items.
LEMMA WroteNothing == \A r, at : Wrote(r, at, 0) /\ Wrote(r, at, 0)'
BY DEF Wrote

\* A tracked run's call leaves what the run's next call expects.
LEMMA NextAbout ==
    ASSUME TypeOK, NEW r \in Runs, NEW at \in Calls, NEW i \in 1..Items(at), Call(r, at, i),
           About(r, at, i), NEW c, c \in Coroutine \/ c \in LateCalls, c.at = at, c.item = i,
           NEW n, n = Following("tracked", c).at, NEW j, j = Following("tracked", c).item
    PROVE  About(r, n, j)'
<1>1. at \in InCalls \/ at = "fail"
  BY DEF About, InCalls, InTry, Calls
<1>2. \A b \in Behind(at) : at \in InCalls => Wrote(r, b, Items(b))'
  <2> SUFFICES ASSUME NEW b \in Behind(at), at \in InCalls PROVE Wrote(r, b, Items(b))'
    OBVIOUS
  <2>1. Wrote(r, b, Items(b)) /\ Items(b) \in Nat
    BY ItemsTypes DEF About, InCalls
  <2>2. PICK k \in Nat : k = Items(b)
    BY <2>1
  <2>3. Wrote(r, b, k)'
    BY <2>1, <2>2, CallKeeps
  <2>4. QED
    BY <2>2, <2>3 DEF Wrote, Items
<1>3. at \in InCalls => Wrote(r, at, i)'
  BY CallWrites DEF About, InCalls
<1>4. CASE i < Items(at)
  <2>1. n = at /\ j = i + 1
    BY <1>4 DEF Following, Coroutine, LateCalls
  <2>2. at \in {"subch", "ch", "summary", "page"}
    BY <1>4, ItemsTypes
  <2>3. Shown(r)' = ShownBefore(at)
    BY <2>2, CallShows DEF About, InTry
  <2>4. j - 1 = i
    BY <2>1, ItemsTypes
  <2>5. Wrote(r, n, j - 1)'
    BY <1>3, <2>1, <2>2, <2>4 DEF InCalls, InTry
  <2>6. QED
    BY <1>2, <2>1, <2>2, <2>3, <2>5 DEF About, InCalls, InTry
<1>5. CASE ~(i < Items(at)) /\ at \notin {"succeed", "fail"}
  <2>1. n = Successor("tracked", at) /\ j = 1
    BY <1>5 DEF Following, Coroutine, LateCalls
  <2>2. i = Items(at) /\ at \in InCalls
    BY <1>1, <1>5, ItemsTypes
  <2>3. \A b \in Behind(n) : Wrote(r, b, Items(b))'
    <3> SUFFICES ASSUME NEW b \in Behind(n) PROVE Wrote(r, b, Items(b))'
      OBVIOUS
    <3>1. b \in Behind(at) \/ b = at \/ Items(b) = 0
      BY <1>5, <2>1, <2>2, NextCall
    <3>2. CASE b = at
      BY <1>3, <2>2, <3>2 DEF Wrote, Items
    <3>3. CASE Items(b) = 0
      BY <3>3, WroteNothing DEF Wrote, Items
    <3>4. QED
      BY <1>2, <2>2, <3>1, <3>2, <3>3
  <2>4. Shown(r)' = ShownBefore(n)
    <3>1. Shown(r) = ShownBefore(at)
      BY <2>2 DEF About, InCalls
    <3>2. QED
      BY <1>5, <2>1, <2>2, <3>1, NextCall, CallShows DEF InCalls, InTry
  <2>5. n \in InCalls
    BY <1>5, <2>1, <2>2, NextCall
  <2>6. Wrote(r, n, j - 1)'
    BY <2>1, WroteNothing
  <2>7. QED
    BY <2>3, <2>4, <2>5, <2>6 DEF About, InCalls, InTry
<1>6. CASE at \in {"succeed", "fail"}
  <2>1. n = "release"
    BY <1>6, TrackedSuccessor, ItemsTypes DEF Following, Coroutine, LateCalls
  <2>2. QED
    BY <2>1 DEF About, InTry
<1>7. QED
  BY <1>4, <1>5, <1>6

-----------------------------------------------------------------------------
(* Every step keeps the invariant. *)

Kept(s) == \A c : \A n \in 0..Items(c) : Wrote(s, c, n) => Wrote(s, c, n)'

\* A step of one run undoes nothing, and leaves the other runs' keys alone.
LEMMA StepKeeps ==
    ASSUME TypeOK, NEW r \in Runs, Step(r)
    PROVE  \A s \in Runs : Kept(s) /\ (s # r => state'[s] = state[s])
<1>1. ASSUME NEW at \in Calls, NEW i \in 1..Items(at), Call(r, at, i), NEW s \in Runs
      PROVE  Kept(s) /\ (s # r => state'[s] = state[s])
  <2>1. ASSUME NEW c, NEW n \in 0..Items(c), Wrote(s, c, n) PROVE Wrote(s, c, n)'
    BY <1>1, <2>1, ItemsTypes, CallKeeps
  <2>2. QED
    BY <1>1, <2>1, CallShows DEF Kept
<1>2. CASE UNCHANGED <<state, summary, pages>>
  BY <1>2 DEF Kept, Wrote
<1>3. CASE CallReturns(r) \/ CallRaises(r)
  BY <1>1, <1>2, <1>3 DEF CallReturns, CallRaises, TypeOK
<1>4. CASE LateCall(r)
  BY <1>1, <1>4 DEF LateCall, TypeOK
<1>5. QED
  BY <1>2, <1>3, <1>4
     DEF Step, AcquireWriterLock, AcquireRaises, LockNotAcquired, StartWithoutLock, ParseSource,
         SourceRejected, ReleaseWriterLock, ReleaseRaises, Cancelled, CancelledWhileAcquiring,
         CancelledWhileReleasing, Crash, LockLapses, LockExpires, storeVars

\* A complete run stays complete.
LEMMA CompleteKept == ASSUME NEW r \in Runs, Kept(r), Complete(r) PROVE Complete(r)'
<1>1. \A c : Items(c) \in 0..Items(c)
  BY ItemsTypes
<1>2. \A c \in Writing : Wrote(r, c, Items(c))'
  <2> SUFFICES ASSUME NEW c \in Writing PROVE Wrote(r, c, Items(c))'
    OBVIOUS
  <2>1. PICK n \in 0..Items(c) : n = Items(c)
    BY <1>1
  <2>2. Wrote(r, c, n)'
    BY <2>1 DEF Complete, Kept
  <2>3. QED
    BY <2>1, <2>2 DEF Wrote, Items
<1>3. QED
  BY <1>2 DEF Complete, Items

\* What a run is about to do stays sound while it does nothing.
LEMMA AboutKept ==
    ASSUME NEW s \in Runs, NEW at, NEW i, at \in Calls => i \in 1..Items(at),
           Kept(s), state'[s] = state[s], About(s, at, i)
    PROVE  About(s, at, i)'
<1>1. Shown(s)' = Shown(s) /\ state'[s].status = state[s].status
  BY DEF Shown
<1>2. \A c \in Behind(at) : at \in InTry => Wrote(s, c, Items(c))'
  <2> SUFFICES ASSUME NEW c \in Behind(at), at \in InTry PROVE Wrote(s, c, Items(c))'
    OBVIOUS
  <2>1. PICK n \in 0..Items(c) : n = Items(c)
    BY ItemsTypes
  <2>2. Wrote(s, c, n)'
    BY <2>1 DEF About, Kept
  <2>3. QED
    BY <2>1, <2>2 DEF Wrote, Items
<1>3. at \in InTry => Wrote(s, at, i - 1)'
  <2>1. CASE at \in Calls
    <3>1. i - 1 \in 0..Items(at)
      BY <2>1, ItemsTypes
    <3>2. PICK n \in 0..Items(at) : n = i - 1
      BY <3>1
    <3>3. at \in InTry => Wrote(s, at, n)'
      BY <3>2 DEF About, Kept
    <3>4. QED
      BY <3>2, <3>3
  <2>2. CASE at \notin Calls
    BY <2>2 DEF Wrote, Calls
  <2>3. QED
    BY <2>1, <2>2
<1>4. QED
  BY <1>1, <1>2, <1>3 DEF About

\* A step of one run moves no other.
LEMMA OthersWait ==
    ASSUME TypeOK, NEW r \in Runs, Step(r), NEW s \in Runs \ {r}
    PROVE  co'[s] = co[s] /\ late'[s] = late[s]
BY DEF TypeOK, Step, AcquireWriterLock, LockNotAcquired, StartWithoutLock, ParseSource,
       SourceRejected, ParseFails, CallReturns, CallRaises, ReleaseWriterLock, ReleaseRaises,
       Cancelled, CancelledWhileAcquiring, CancelledWhileReleasing, AcquireRaises, AcquiredInVain,
       LateCall, Crash, LockLapses, LockExpires, storeVars, Goes, Leaves

\* The other runs.
LEMMA OtherRuns ==
    ASSUME TypeOK, NEW s \in Runs, RunInv(s), Kept(s),
           co'[s] = co[s], late'[s] = late[s], state'[s] = state[s]
    PROVE  RunInv(s)'
<1>1. PICK at, i : at = co[s].at /\ i = co[s].item
  OBVIOUS
<1>2. PICK lat, li : lat = late[s].at /\ li = late[s].item
  OBVIOUS
<1>3. Tracked(s) => About(s, at, i)' /\ About(s, lat, li)'
  BY <1>1, <1>2, AboutKept DEF RunInv, TypeOK
<1>4. state'[s].status = "SUCCEEDED" => Complete(s)'
  BY CompleteKept DEF RunInv
<1>5. QED
  BY <1>1, <1>2, <1>3, <1>4 DEF RunInv, Tracked, About

\* A run that ends, or is about to release the lock, expects nothing of the store.
LEMMA OutOfTry ==
    ASSUME TypeOK, NEW r \in Runs, RunInv(r), Kept(r), state'[r] = state[r],
           co'[r].op = co[r].op, co'[r].initialized = co[r].initialized,
           co'[r].at \in {"release"} \cup Ended,
           \/ late'[r] \in {late[r], NoCall}
           \/ /\ co[r].at \in Calls
              /\ late'[r].at = co[r].at /\ late'[r].item = co[r].item
    PROVE  RunInv(r)'
<1>o. \A at \in {"release"} \cup Ended :
         at \notin Calls \cup {"idle", "parse", "init", "fail", "touch"} \cup InTry
  BY DEF Ended, Calls, InTry
<1>1. PICK at, i : at = co'[r].at /\ i = co'[r].item
  OBVIOUS
<1>2. PICK lat, li : lat = late'[r].at /\ li = late'[r].item
  OBVIOUS
<1>3. Tracked(r) => About(r, at, i)'
  BY <1>o, <1>1 DEF About
<1>4. Tracked(r) => About(r, lat, li)'
  <2>1. CASE late'[r] = NoCall
    BY <1>2, <2>1 DEF About, NoCall, InTry
  <2>2. CASE late'[r] = late[r]
    <3>1. /\ lat \in Calls => li \in 1..Items(lat)
          /\ Tracked(r) => About(r, lat, li)
      BY <1>2, <2>2 DEF RunInv, TypeOK
    <3>2. QED
      BY <3>1, AboutKept
  <2>3. CASE co[r].at \in Calls /\ late'[r].at = co[r].at /\ late'[r].item = co[r].item
    <3>1. /\ lat \in Calls => li \in 1..Items(lat)
          /\ Tracked(r) => About(r, lat, li)
      BY <1>2, <2>3 DEF RunInv, TypeOK
    <3>2. QED
      BY <3>1, AboutKept
  <2>4. QED
    BY <2>1, <2>2, <2>3
<1>5. state'[r].status = "SUCCEEDED" => Complete(r)'
  BY CompleteKept DEF RunInv
<1>6. late'[r].at \in Calls /\ ~Tracked(r) => late'[r].at \in OnlyRows
  BY DEF RunInv, NoCall, Calls
<1>7. QED
  BY <1>o, <1>1, <1>2, <1>3, <1>4, <1>5, <1>6 DEF RunInv, Tracked, About

\* The coroutine's steps that write nothing.
LEMMA QuietSteps ==
    ASSUME TypeOK, NEW r \in Runs, RunInv(r), Kept(r),
           \/ AcquireWriterLock(r) \/ LockNotAcquired(r) \/ StartWithoutLock(r)
           \/ ParseSource(r) \/ SourceRejected(r)
           \/ ReleaseWriterLock(r) \/ ReleaseRaises(r) \/ CancelledWhileReleasing(r)
           \/ AcquireRaises(r) \/ CancelledWhileAcquiring(r)
           \/ Cancelled(r) \/ Crash(r) \/ LockLapses(r) \/ LockExpires(r)
    PROVE  RunInv(r)'
<1>t. co \in [Runs -> Coroutine] /\ co[r] \in Coroutine /\ late \in [Runs -> LateCalls]
  BY DEF TypeOK
<1>g. ASSUME NEW at, Goes(r, at) \/ \E out : Leaves(r, at, out)
      PROVE  /\ co'[r].at = at /\ co'[r].item = 1 /\ co'[r].op = co[r].op
             /\ co'[r].initialized = co[r].initialized
  BY <1>g, <1>t DEF Goes, Leaves, Coroutine
<1>f. Finish(co[r].op) \in {"release", "done"} /\ {"refused", "done", "unreleased", "abandoned", "dead"} = Ended
  BY DEF Finish, Ended
<1>1. CASE LockLapses(r) \/ LockExpires(r)
  BY <1>1, OtherRuns DEF LockLapses, LockExpires
<1>2. CASE LockNotAcquired(r) \/ SourceRejected(r) \/ ReleaseWriterLock(r) \/ ReleaseRaises(r)
           \/ CancelledWhileReleasing(r) \/ AcquireRaises(r) \/ CancelledWhileAcquiring(r)
  <2>1. /\ \/ Leaves(r, "refused", "raised") \/ Leaves(r, Finish(co[r].op), "raised")
           \/ Goes(r, "done") \/ \E out : Leaves(r, "unreleased", out)
           \/ \E out : Leaves(r, "abandoned", out)
        /\ late' = late /\ state' = state
    BY <1>2 DEF LockNotAcquired, SourceRejected, ParseFails, ReleaseWriterLock, ReleaseRaises,
                CancelledWhileReleasing, AcquireRaises, CancelledWhileAcquiring, AcquiredInVain,
                storeVars
  <2>2. /\ co'[r].op = co[r].op /\ co'[r].initialized = co[r].initialized
        /\ co'[r].at \in {"release"} \cup Ended
    BY <1>g, <1>f, <2>1
  <2>3. QED
    BY <2>1, <2>2, OutOfTry
<1>3. CASE Crash(r)
  <2>1. /\ co'[r].op = co[r].op /\ co'[r].initialized = co[r].initialized
        /\ co'[r].at = "dead" /\ late'[r] = NoCall /\ state' = state
    BY <1>3, <1>t DEF Crash, Coroutine, storeVars
  <2>2. QED
    BY <1>f, <2>1, OutOfTry
<1>4. CASE Cancelled(r)
  <2>1. Leaves(r, Finish(co[r].op), "cancelled") /\ state' = state
    BY <1>4 DEF Cancelled, storeVars
  <2>2. /\ co'[r].op = co[r].op /\ co'[r].initialized = co[r].initialized
        /\ co'[r].at \in {"release"} \cup Ended
    BY <1>g, <1>f, <2>1
  <2>3. \/ late'[r] = NoCall
        \/ co[r].at \in Calls /\ late'[r] = [at |-> co[r].at, item |-> co[r].item]
    BY <1>4, <1>t DEF Cancelled, At
  <2>4. QED
    BY <2>1, <2>2, <2>3, OutOfTry
<1>5. CASE AcquireWriterLock(r)
  <2>1. /\ co[r].at = "idle" /\ Tracked(r) /\ Goes(r, "parse")
        /\ late' = late /\ state' = state
    BY <1>5 DEF AcquireWriterLock, At
  <2>2. /\ co'[r].at = "parse" /\ co'[r].item = 1 /\ co'[r].op = co[r].op
        /\ co'[r].initialized = FALSE
    BY <1>g, <2>1 DEF RunInv, Coroutine
  <2>3. About(r, "parse", 1)'
    BY <2>1 DEF RunInv, About, InTry, ShownBefore, Behind, Shown, Wrote
  <2>4. late'[r].at \notin Calls
    BY <2>1 DEF RunInv
  <2>5. QED
    BY <2>1, <2>2, <2>3, <2>4, CompleteKept, <1>t
       DEF RunInv, Tracked, About, Calls, LateCalls, InTry
<1>6. CASE StartWithoutLock(r) \/ ParseSource(r)
  <2>1. /\ co[r].at \in {"idle", "parse"} /\ late' = late /\ state' = state
        /\ StartWithoutLock(r) => ~Tracked(r)
    BY <1>6 DEF StartWithoutLock, ParseSource, At, storeVars
  <2>2. Goes(r, Successor(co[r].op, co[r].at))
    BY <1>6 DEF StartWithoutLock, ParseSource, At
  <2>3. late'[r].at \notin Calls /\ late'[r].at = "none"
    BY <1>t, <2>1 DEF RunInv, LateCalls
  <2>4. CASE Tracked(r)
    <3>1. co[r].at = "parse" /\ Successor(co[r].op, co[r].at) = "init"
      BY <1>6, <2>1, <2>4, TrackedSuccessor DEF Tracked, ParseSource, At
    <3>2. /\ co'[r].at = "init" /\ co'[r].item = 1 /\ co'[r].op = co[r].op
          /\ co'[r].initialized = FALSE
      BY <1>g, <2>2, <3>1 DEF RunInv, Coroutine
    <3>3. About(r, "init", 1)'
      BY <2>1, <2>4, <3>1 DEF RunInv, About, InTry, ShownBefore, Behind, Shown, Wrote
    <3>4. QED
      BY <2>1, <2>3, <2>4, <3>2, <3>3, CompleteKept DEF RunInv, Tracked, About, Calls, InTry
  <2>5. CASE ~Tracked(r)
    <3>1. /\ co'[r].at \in OnlyRows \cup {"parse", "done"} /\ co'[r].op = co[r].op
          /\ co'[r].initialized = FALSE
      BY <1>g, <1>t, <2>2, <2>5, PlainSuccessor DEF RunInv, Tracked, Coroutine
    <3>2. QED
      BY <2>1, <2>3, <2>5, <3>1, CompleteKept DEF RunInv, Tracked, Calls, OnlyRows
  <2>6. QED
    BY <2>4, <2>5
<1>7. QED
  BY <1>1, <1>2, <1>3, <1>4, <1>5, <1>6

\* A call that leaves SUCCEEDED leaves, or finds, everything written.
LEMMA CallCompletes ==
    ASSUME TypeOK, NEW r \in Runs, RunInv(r), Kept(r),
           NEW at \in Calls, NEW i \in 1..Items(at), Call(r, at, i),
           About(r, at, i) \/ at \in OnlyRows, state'[r].status = "SUCCEEDED"
    PROVE  Complete(r)'
<1>1. CASE state[r].status = "SUCCEEDED"
  BY <1>1, CompleteKept DEF RunInv
<1>2. CASE state[r].status # "SUCCEEDED"
  <2>1. at = "succeed"
    BY <1>2, CallShows DEF Shown, Calls
  <2>2. Complete(r)
    BY <2>1 DEF About, Complete, Behind, InTry, OnlyRows
  <2>3. QED
    BY <2>2, CompleteKept
<1>3. QED
  BY <1>1, <1>2

\* The status that a call of an initialized run leaves.
LEMMA CallLeavesRunning ==
    ASSUME TypeOK, NEW r \in Runs, NEW at \in InCalls \ {"init"}, NEW i \in 1..Items(at),
           About(r, at, i), Call(r, at, i) \/ state' = state
    PROVE  Shown(r)' \in Open \cup {<<"SUCCEEDED", "COMMIT">>}
<1>1. Shown(r) \in Open
  BY DEF About, InCalls, InTry, ShownBefore, Open
<1>2. CASE state' = state
  BY <1>1, <1>2 DEF Shown
<1>3. CASE Call(r, at, i)
  <2>1. at \in Calls
    BY DEF InCalls, InTry, Calls
  <2>2. QED
    BY <1>1, <1>3, <2>1, CallShows DEF Open, InCalls, InTry
<1>4. QED
  BY <1>2, <1>3

\* A call returns.
LEMMA ReturnStep ==
    ASSUME TypeOK, NEW r \in Runs, RunInv(r), Kept(r), CallReturns(r)
    PROVE  RunInv(r)'
<1> DEFINE c == Learns(co[r])
<1>t. co \in [Runs -> Coroutine] /\ co[r] \in Coroutine /\ late[r] \in LateCalls
      /\ co[r].op \in Operations
  BY DEF TypeOK, Coroutine
<1>1. PICK at, i : at = co[r].at /\ i = co[r].item
  OBVIOUS
<1>2. at \in Calls /\ i \in 1..Items(at) /\ Call(r, at, i)
  BY <1>1 DEF CallReturns, TypeOK
<1>3. /\ c \in Coroutine /\ c.at = at /\ c.item = i /\ c.op = co[r].op
      /\ c.initialized = (co[r].initialized \/ at = "init")
  BY <1>1, <1>t DEF Learns, Coroutine
<1>4. PICK n, j : n = Following(co[r].op, c).at /\ j = Following(co[r].op, c).item
  OBVIOUS
<1> HIDE DEF c
<1>5. co'[r] = Following(co[r].op, c) /\ late' = late
  BY <1>t DEF CallReturns, c
<1>6. /\ co'[r].at = n /\ co'[r].item = j /\ co'[r].op = co[r].op
      /\ co'[r].initialized = c.initialized
  BY <1>3, <1>4, <1>5 DEF Following, Coroutine
<1>7. late'[r].at = "none"
  BY <1>1, <1>2, <1>5, <1>t DEF RunInv, LateCalls
<1>8. (n = at /\ Items(at) # 1) \/ n = Successor(co[r].op, at)
  BY <1>2, <1>3, <1>4, ItemsTypes DEF Following, Coroutine
<1>9. CASE Tracked(r)
  <2>1. About(r, at, i)
    BY <1>1, <1>9 DEF RunInv
  <2>2. About(r, n, j)'
    BY <1>2, <1>3, <1>4, <1>9, <2>1, NextAbout DEF Tracked
  <2>3. state'[r].status = "SUCCEEDED" => Complete(r)'
    BY <1>2, <2>1, CallCompletes
  <2>4. n \notin {"idle", "parse", "init"}
    <3>1. at \in InCalls \ {"touch"} \/ at = "fail"
      BY <1>2, <2>1 DEF About, InCalls, InTry, Calls
    <3>2. Successor("tracked", at) \notin {"idle", "parse", "init"}
      BY <3>1, TrackedSuccessor DEF InCalls, InTry
    <3>3. QED
      BY <1>8, <1>9, <3>1, <3>2, ItemsTypes DEF Tracked, InCalls, InTry
  <2>5. QED
    BY <1>6, <1>7, <1>9, <2>2, <2>3, <2>4 DEF RunInv, Tracked, About, Calls, InTry
<1>10. CASE ~Tracked(r)
  <2>1. at \in OnlyRows /\ ~co[r].initialized
    BY <1>1, <1>2, <1>10 DEF RunInv
  <2>2. state'[r].status = "SUCCEEDED" => Complete(r)'
    BY <1>2, <2>1, CallCompletes
  <2>3. n \in OnlyRows \cup {"release", "done"} /\ n # "release" /\ n \notin {"idle", "parse", "init"}
    BY <1>8, <1>10, <1>t, <2>1, PlainSuccessor, SuccessorTypes DEF Tracked, OnlyRows, Calls
  <2>4. co'[r].initialized = FALSE
    BY <1>3, <1>6, <2>1 DEF OnlyRows
  <2>5. QED
    BY <1>6, <1>7, <1>10, <2>2, <2>3, <2>4 DEF RunInv, Tracked, Calls, OnlyRows
<1>11. QED
  BY <1>9, <1>10

\* A call raises, its write done or not.
LEMMA RaiseStep ==
    ASSUME TypeOK, NEW r \in Runs, RunInv(r), Kept(r), CallRaises(r)
    PROVE  RunInv(r)'
<1>t. co \in [Runs -> Coroutine] /\ co[r] \in Coroutine /\ late[r] \in LateCalls
  BY DEF TypeOK
<1>1. PICK at, i : at = co[r].at /\ i = co[r].item
  OBVIOUS
<1>2. at \in Calls /\ i \in 1..Items(at) /\ (Call(r, at, i) \/ state' = state) /\ late' = late
  BY <1>1 DEF CallRaises, TypeOK
<1>3. /\ co'[r].at = AfterError(r) /\ co'[r].item = 1 /\ co'[r].op = co[r].op
      /\ co'[r].initialized = co[r].initialized
  BY <1>t DEF CallRaises, Leaves, Coroutine
<1>4. late'[r].at = "none"
  BY <1>1, <1>2, <1>t DEF RunInv, LateCalls
<1>5. state'[r].status = "SUCCEEDED" => Complete(r)'
  <2>1. About(r, at, i) \/ at \in OnlyRows
    BY <1>1, <1>2 DEF RunInv
  <2>2. CASE Call(r, at, i)
    BY <1>2, <2>1, <2>2, CallCompletes
  <2>3. CASE state' = state
    BY <2>3, CompleteKept DEF RunInv
  <2>4. QED
    BY <1>2, <2>2, <2>3
<1>6. CASE AfterError(r) = "fail"
  <2>1. co[r].initialized /\ at # "fail" /\ Tracked(r)
    BY <1>1, <1>6 DEF AfterError, Finish, At, RunInv
  <2>2. About(r, at, i) /\ at # "init"
    BY <1>1, <2>1 DEF RunInv
  <2>3. at \in InCalls \ {"init"}
    BY <1>2, <2>1, <2>2 DEF About, InCalls, InTry, Calls
  <2>4. Shown(r)' \in Open \cup {<<"SUCCEEDED", "COMMIT">>}
    BY <1>2, <2>2, <2>3, CallLeavesRunning
  <2>5. About(r, "fail", 1)'
    BY <2>4 DEF About, InTry
  <2>6. QED
    BY <1>3, <1>4, <1>5, <1>6, <2>1, <2>5 DEF RunInv, Tracked, About, Calls, InTry
<1>7. CASE AfterError(r) # "fail"
  <2>1. co'[r].at \in {"release", "done"}
    BY <1>3, <1>7 DEF AfterError, Finish
  <2>2. QED
    BY <1>3, <1>4, <1>5, <2>1 DEF RunInv, Tracked, About, Calls, InTry
<1>8. QED
  BY <1>6, <1>7

\* A thread left behind makes a call.
LEMMA LateStep ==
    ASSUME TypeOK, NEW r \in Runs, RunInv(r), Kept(r), LateCall(r)
    PROVE  RunInv(r)'
<1>t. late \in [Runs -> LateCalls] /\ late[r] \in LateCalls /\ co[r] \in Coroutine
      /\ co[r].op \in Operations /\ co' = co
  BY DEF TypeOK, Coroutine, LateCall
<1>1. PICK at, i : at = late[r].at /\ i = late[r].item
  OBVIOUS
<1>2. at \in Calls /\ i \in 1..Items(at) /\ Call(r, at, i)
  BY <1>1 DEF LateCall, TypeOK
<1>3. /\ co[r].at \notin Calls \cup {"idle", "parse"}
      /\ co[r].at \notin InTry \cup {"fail", "touch"}
  BY <1>1, <1>2 DEF RunInv, Calls, InTry
<1>4. About(r, at, i) \/ at \in OnlyRows
  BY <1>1, <1>2 DEF RunInv
<1>5. state'[r].status = "SUCCEEDED" => Complete(r)'
  BY <1>2, <1>4, CallCompletes
<1>6. PICK n, j : n = Following(co[r].op, late[r]).at /\ j = Following(co[r].op, late[r]).item
  OBVIOUS
<1>7. \/ late'[r] = NoCall
      \/ Continues(co[r].op, late[r]) /\ late'[r].at = n /\ late'[r].item = j
  BY <1>6, <1>t DEF LateCall
<1>8. Tracked(r) => About(r, n, j)'
  BY <1>1, <1>2, <1>6, <1>t, NextAbout DEF RunInv, Tracked
<1>9. (~Tracked(r) /\ Continues(co[r].op, late[r])) => n \in OnlyRows
  <2>1. Following(co[r].op, late[r]).at \in {at, Successor(co[r].op, at)}
    BY <1>1, <1>t DEF Following, LateCalls
  <2>2. QED
    <3>1. ~Tracked(r) => at \in OnlyRows /\ Successor(co[r].op, at) \in OnlyRows \cup {"parse", "done"}
      BY <1>1, <1>2, <1>t, PlainSuccessor DEF Tracked, RunInv
    <3>2. Continues(co[r].op, late[r]) => n \notin {"parse", "done"}
      BY <1>6 DEF Continues
    <3>3. QED
      BY <1>6, <2>1, <3>1, <3>2
<1>10. PICK cat, ci : cat = co[r].at /\ ci = co[r].item
  OBVIOUS
<1>11. About(r, cat, ci)'
  BY <1>3, <1>10 DEF About
<1>12. CASE late'[r] = NoCall
  BY <1>t, <1>3, <1>5, <1>10, <1>11, <1>12 DEF RunInv, Tracked, About, NoCall, Calls, InTry
<1>13. CASE late'[r] # NoCall
  BY <1>t, <1>3, <1>5, <1>7, <1>8, <1>9, <1>10, <1>11, <1>13 DEF RunInv, Tracked, About
<1>14. QED
  BY <1>12, <1>13

\* Every step leaves the store as the coroutines and threads expect it.
LEMMA OutcomeStep == TypeOK /\ OutcomeInv /\ [Next]_vars => OutcomeInv'
<1> SUFFICES ASSUME TypeOK, OutcomeInv, [Next]_vars, NEW s \in Runs PROVE RunInv(s)'
  BY DEF OutcomeInv
<1>1. CASE UNCHANGED vars
  BY <1>1, OtherRuns DEF vars, storeVars, OutcomeInv, Kept, Wrote
<1>2. ASSUME NEW r \in Runs, Step(r) PROVE RunInv(s)'
  <2>1. RunInv(s) /\ Kept(s) /\ (s # r => state'[s] = state[s])
    BY <1>2, StepKeeps DEF OutcomeInv
  <2>2. CASE s = r
    BY <1>2, <2>1, <2>2, QuietSteps, ReturnStep, RaiseStep, LateStep DEF Step
  <2>3. CASE s # r
    <3>1. co'[s] = co[s] /\ late'[s] = late[s]
      BY <1>2, <2>3, OthersWait
    <3>2. QED
      BY <2>1, <2>3, <3>1, OtherRuns
  <2>4. QED
    BY <2>2, <2>3
<1>3. QED
  BY <1>1, <1>2 DEF Next

\* At the start no run has done anything.
LEMMA OutcomeInit == Init => OutcomeInv
<1> SUFFICES ASSUME Init, NEW r \in Runs PROVE RunInv(r)
  BY DEF OutcomeInv
<1>1. /\ co[r].at = "idle" /\ ~co[r].initialized /\ late[r].at = "none"
      /\ state[r].status = "NONE" /\ state[r].stage = "NONE"
  BY DEF Init, NoCall, StoreInit, NoState
<1>2. QED
  BY <1>1 DEF RunInv, About, InTry, Behind, Shown, ShownBefore, Wrote, Calls

\* The invariant says what SUCCEEDED means.
LEMMA CompleteIs == OutcomeInv => SucceededIsComplete
<1> SUFFICES ASSUME OutcomeInv, NEW r \in Runs, state[r].status = "SUCCEEDED"
             PROVE  /\ state[r].page_done = 1..NumPages
                    /\ \A i \in 1..NumSubch : state[r].subch[i] > 0
                    /\ \A i \in 1..NumSummary : state[r].ch[i] > 0 /\ summary[i] # NoRun
                    /\ state[r].doc = 2
                    /\ {r} \X (1..NumPages) \subseteq pages
  BY DEF SucceededIsComplete
<1>1. \A c \in Writing : Wrote(r, c, Items(c))
  BY DEF OutcomeInv, RunInv, Complete
<1>2. /\ Items("sadd") = 1 /\ Items("subch") = NumSubch /\ Items("ch") = NumSummary
      /\ Items("summary") = NumSummary /\ Items("page") = NumPages /\ Items("final") = 1
  BY DEF Items
<1>3. QED
  BY <1>1, <1>2 DEF Wrote, Writing

\* The invariant holds in every state.
LEMMA OutcomeAlways == Spec => []OutcomeInv
BY OutcomeInit, OutcomeStep, TypeCorrect, PTL DEF Spec

\* A run whose status is SUCCEEDED has all its states and rows in place, under every
\* interleaving of calls, failing calls, cancellations, crashes and lost locks.
THEOREM SucceededComplete == Spec => []SucceededIsComplete
BY OutcomeAlways, CompleteIs, PTL

-----------------------------------------------------------------------------
(* The rows of the run that took the lock last. *)

Calm == Spent("lapse") = 0 /\ Spent("cancel") = 0

\* Summary row i of a run has been written ...
Past(r, i) ==
    \/ co[r].at = "summary" /\ i < co[r].item
    \/ co[r].at \in {"page", "final", "succeed"}
    \/ state[r].status = "SUCCEEDED"

\* ... and no earlier run under its lock has written over it.
Mine(r, i) == summary[i] \in Runs /\ (summary[i] # r => ~Rivals(r, summary[i]))

\* Every holder of a lock is the last that took it; without a cancellation no thread
\* is left behind; and the rows of the last taker are its own.
LastInv ==
    /\ \A v \in Versions, r \in Runs : lock[v] = r => last[v] = r
    /\ \A v \in Versions, r \in Runs : last[v] = r => Tracked(r) /\ co[r].version = v
    /\ Calm => /\ \A r \in Runs : late[r].at \notin Calls
               /\ \A r \in Runs, i \in 1..NumSummary :
                     Tracked(r) /\ last[co[r].version] = r /\ Past(r, i) => Mine(r, i)

\* A call that is not the last of the try block leaves no SUCCEEDED behind.
LEMMA CallSucceeds ==
    ASSUME TypeOK, NEW r \in Runs, NEW at \in Calls, NEW i \in 1..Items(at), Call(r, at, i),
           state'[r].status = "SUCCEEDED"
    PROVE  at = "succeed" \/ state[r].status = "SUCCEEDED"
BY CallShows DEF Shown, Calls

\* Rows come to be past only by being written.
LEMMA PastGrows ==
    ASSUME TypeOK, OutcomeInv, NEW r \in Runs, Tracked(r), NEW q \in Runs, Step(q),
           late[r].at \notin Calls, NEW i \in 1..NumSummary, Past(r, i)'
    PROVE  \/ Past(r, i)
           \/ q = r /\ co[r].at = "summary" /\ co[r].item = i /\ CallReturns(r)
<1>t. co \in [Runs -> Coroutine] /\ co[r] \in Coroutine /\ NumSummary \in Nat
  BY SizesAssumption DEF TypeOK
<1>g. ASSUME NEW at, Goes(r, at) \/ \E out : Leaves(r, at, out) PROVE co'[r].at = at
  BY <1>g, <1>t DEF Goes, Leaves, Coroutine
<1>1. CASE q # r
  <2>1. co'[r] = co[r] /\ state'[r] = state[r]
    BY <1>1, OthersWait, StepKeeps
  <2>2. QED
    BY <2>1 DEF Past
<1>2. CASE q = r /\ (LockLapses(r) \/ LockExpires(r))
  BY <1>2 DEF LockLapses, LockExpires, Past
<1>3. CASE q = r /\ (AcquireWriterLock(r) \/ LockNotAcquired(r) \/ SourceRejected(r)
                     \/ ReleaseWriterLock(r) \/ ReleaseRaises(r) \/ CancelledWhileReleasing(r)
                     \/ AcquireRaises(r) \/ CancelledWhileAcquiring(r)
                     \/ Cancelled(r) \/ Crash(r) \/ ParseSource(r))
  <2>1. \/ Goes(r, "parse") \/ Leaves(r, "refused", "raised") \/ Leaves(r, "release", "raised")
        \/ Goes(r, "done") \/ Goes(r, "dead") \/ Goes(r, "init")
        \/ \E at \in {"unreleased", "abandoned", "release"}, out \in {"raised", "cancelled"} : Leaves(r, at, out)
    BY <1>3, TrackedSuccessor
       DEF AcquireWriterLock, LockNotAcquired, SourceRejected, ParseFails, ReleaseWriterLock,
           ReleaseRaises, CancelledWhileReleasing, AcquireRaises, CancelledWhileAcquiring,
           AcquiredInVain, Cancelled, Crash, ParseSource, Finish, Tracked, Goes
  <2>2. co'[r].at \notin {"summary", "page", "final", "succeed"}
    BY <1>g, <2>1
  <2>3. state' = state
    BY <1>3 DEF AcquireWriterLock, LockNotAcquired, SourceRejected, ReleaseWriterLock,
           ReleaseRaises, CancelledWhileReleasing, AcquireRaises, CancelledWhileAcquiring, Cancelled,
           Crash, ParseSource, storeVars
  <2>4. QED
    BY <2>2, <2>3 DEF Past
<1>4. CASE q = r /\ CallRaises(r)
  <2>1. co'[r].at \in {"fail", "release"}
    BY <1>4, <1>g DEF CallRaises, AfterError, Finish, Tracked
  <2>2. state'[r].status = "SUCCEEDED"
    BY <2>1 DEF Past
  <2>3. PICK at, j : at = co[r].at /\ j = co[r].item
    OBVIOUS
  <2>4. at \in Calls /\ j \in 1..Items(at) /\ (Call(r, at, j) \/ state' = state)
    BY <1>4, <2>3 DEF CallRaises, TypeOK
  <2>5. QED
    BY <2>2, <2>3, <2>4, CallSucceeds DEF Past
<1>5. CASE q = r /\ CallReturns(r)
  <2>1. PICK at, j : at = co[r].at /\ j = co[r].item
    OBVIOUS
  <2>2. at \in Calls /\ j \in 1..Items(at) /\ Call(r, at, j)
    BY <1>5, <2>1 DEF CallReturns, TypeOK
  <2>3. state'[r].status = "SUCCEEDED" => Past(r, i)
    BY <2>1, <2>2, CallSucceeds DEF Past
  <2>4. PICK c : c = Learns(co[r])
    OBVIOUS
  <2>5. /\ c \in Coroutine /\ c.at = at /\ c.item = j
        /\ co'[r] = Following("tracked", c)
    BY <1>5, <1>t, <2>1, <2>4 DEF CallReturns, Learns, Coroutine, Tracked
  <2>6. j \in Nat /\ Items(at) \in Nat /\ j <= Items(at)
    BY <2>2, ItemsTypes
  <2>7. CASE j < Items(at)
    <3>1. co'[r].at = at /\ co'[r].item = j + 1
      BY <2>5, <2>7 DEF Following, Coroutine
    <3>2. QED
      BY <1>5, <1>t, <2>1, <2>3, <2>6, <3>1 DEF Past
  <2>8. CASE ~(j < Items(at))
    <3>1. co'[r].at = Successor("tracked", at) /\ co'[r].item = 1 /\ j = Items(at)
      BY <2>5, <2>6, <2>8 DEF Following, Coroutine
    <3>2. at \in InCalls \cup {"fail"}
      BY <2>1, <2>2 DEF OutcomeInv, RunInv, About, InCalls, InTry, Calls
    <3>3. \/ Successor("tracked", at) \notin {"page", "final", "succeed"}
          \/ at \in {"summary", "page", "final"}
      BY <3>2, TrackedSuccessor DEF InCalls, InTry
    <3>4. at = "summary" => j = NumSummary
      BY <3>1 DEF Items
    <3>5. QED
      BY <1>5, <1>t, <2>1, <2>3, <3>1, <3>3, <3>4 DEF Past
  <2>9. QED
    BY <2>7, <2>8
<1>6. CASE q = r /\ (StartWithoutLock(r) \/ LateCall(r))
  BY <1>6 DEF StartWithoutLock, LateCall
<1>7. QED
  BY <1>1, <1>2, <1>3, <1>4, <1>5, <1>6 DEF Step

\* Who is last, and who has taken which lock.
LEMMA LastHolder ==
    ASSUME TypeOK, LastInv, [Next]_vars
    PROVE  /\ \A v \in Versions, r \in Runs : lock'[v] = r => last'[v] = r
           /\ \A v \in Versions, r \in Runs : last'[v] = r => Tracked(r)' /\ co'[r].version = v
<1> USE NoRunAssumption
<1>t. /\ co \in [Runs -> Coroutine] /\ lock \in [Versions -> Runs \cup {NoRun}]
      /\ last \in [Versions -> Runs \cup {NoRun}] /\ \A r \in Runs : co[r].version \in Versions
  BY DEF TypeOK, StoreTypeOK, Coroutine
<1>1. \/ \E q \in Runs : /\ co[q].op = "tracked"
                         /\ lock' = [lock EXCEPT ![co[q].version] = q]
                         /\ last' = [last EXCEPT ![co[q].version] = q]
      \/ last' = last /\ \A v \in Versions : lock'[v] \in {lock[v], NoRun}
  <2>1. CASE UNCHANGED vars
    BY <2>1 DEF vars, storeVars
  <2>2. ASSUME NEW q \in Runs, Tracked(q), AcquireLock(q, co[q].version),
               last' = [last EXCEPT ![co[q].version] = q]
        PROVE  /\ co[q].op = "tracked"
               /\ lock' = [lock EXCEPT ![co[q].version] = q]
               /\ last' = [last EXCEPT ![co[q].version] = q]
    BY <2>2 DEF AcquireLock, Tracked
  <2>3. ASSUME NEW q \in Runs, LockLapses(q) \/ LockExpires(q) \/ ReleaseWriterLock(q)
        PROVE  last' = last /\ \A v \in Versions : lock'[v] \in {lock[v], NoRun}
    BY <2>3, <1>t DEF LockLapses, LockExpires, ReleaseWriterLock, ReleaseLock
  <2>4. ASSUME NEW q \in Runs, Step(q)
        PROVE  \/ /\ Tracked(q) /\ AcquireLock(q, co[q].version)
                  /\ last' = [last EXCEPT ![co[q].version] = q]
               \/ LockLapses(q) \/ LockExpires(q) \/ ReleaseWriterLock(q)
               \/ last' = last /\ lock' = lock
    BY <2>4 DEF Step, AcquireWriterLock, AcquireRaises, CancelledWhileAcquiring, AcquiredInVain,
           LockNotAcquired, StartWithoutLock, ParseSource, SourceRejected, CallReturns, CallRaises,
           ReleaseRaises, CancelledWhileReleasing, Cancelled, LateCall, Crash, storeVars
  <2>5. QED
    BY <2>1, <2>2, <2>3, <2>4 DEF Next
<1>2. CASE \E q \in Runs : /\ co[q].op = "tracked"
                           /\ lock' = [lock EXCEPT ![co[q].version] = q]
                           /\ last' = [last EXCEPT ![co[q].version] = q]
  BY <1>2, <1>t, CallStays DEF LastInv, Tracked
<1>3. CASE last' = last /\ \A v \in Versions : lock'[v] \in {lock[v], NoRun}
  BY <1>3, <1>t, CallStays DEF LastInv, Tracked
<1>4. QED
  BY <1>1, <1>2, <1>3

\* A calm state was calm before.
LEMMA CalmBefore ==
    ASSUME TypeOK, BudgetFalls, NEW q \in Runs, Step(q), Calm'
    PROVE  /\ Calm
           /\ ~Cancelled(q) /\ ~CancelledWhileAcquiring(q) /\ ~CancelledWhileReleasing(q)
           /\ ~LockLapses(q)
<1>1. ~Spend("cancel") /\ ~Spend("lapse")
  BY OverrunSpends DEF Calm
<1>2. /\ ~Cancelled(q) /\ ~CancelledWhileAcquiring(q) /\ ~CancelledWhileReleasing(q)
      /\ ~LockLapses(q)
  BY <1>1 DEF Cancelled, CancelledWhileAcquiring, CancelledWhileReleasing, LockLapses
<1>3. left' = left \/ Spend("error") \/ Spend("crash")
  BY <1>2 DEF Step, AcquireWriterLock, AcquireRaises, LockNotAcquired, StartWithoutLock,
       ParseSource, SourceRejected, CallReturns, CallRaises, ReleaseWriterLock, ReleaseRaises,
       LateCall, Crash, LockExpires
<1>4. QED
  BY <1>2, <1>3, OtherSpends DEF Calm

\* The rows of the last taker stay its own.
LEMMA MineKept ==
    ASSUME WriterInv, OutcomeInv, LastInv, Calm, Calm', NEW q \in Runs, Step(q), [Next]_vars,
           NEW r \in Runs, NEW i \in 1..NumSummary, Tracked(r), last'[co[r].version] = r,
           Past(r, i)'
    PROVE  Mine(r, i)'
<1> USE DEF WriterInv
<1>t. /\ co \in [Runs -> Coroutine] /\ last \in [Versions -> Runs \cup {NoRun}]
      /\ summary \in [1..NumSummary -> Runs \cup {NoRun}]
      /\ \A s \in Runs : co[s].version \in Versions
  BY DEF TypeOK, StoreTypeOK, Coroutine
<1>r. \A s \in Runs : Rivals(r, s)' = Rivals(r, s)
  BY CallStays DEF Rivals, Tracked
<1>1. CASE last[co[r].version] # r
  <2>1. AcquireWriterLock(q) \/ AcquireRaises(q)
    BY <1>1, CalmBefore DEF Step, LockNotAcquired, StartWithoutLock, ParseSource, SourceRejected,
           CallReturns, CallRaises, ReleaseWriterLock, ReleaseRaises, LateCall, Crash, LockExpires
  <2>2. q = r
    BY <1>1, <1>t, <2>1 DEF AcquireWriterLock, AcquireRaises, AcquiredInVain
  <2>3. co'[r].at \in {"parse", "abandoned", "refused"} /\ state' = state /\ co[r].at = "idle"
    BY <1>t, <2>1, <2>2
       DEF AcquireWriterLock, AcquireRaises, AcquiredInVain, Goes, Leaves, Coroutine, At
  <2>4. state[r].status = "NONE"
    BY <2>3 DEF OutcomeInv, RunInv, About, InTry, Shown, ShownBefore
  <2>5. QED
    BY <2>3, <2>4 DEF Past
<1>2. CASE last[co[r].version] = r
  <2>1. \/ Past(r, i)
        \/ q = r /\ co[r].at = "summary" /\ co[r].item = i /\ CallReturns(r)
    BY PastGrows DEF LastInv
  <2>2. CASE q = r /\ co[r].at = "summary" /\ co[r].item = i /\ CallReturns(r)
    <3>1. summary' = [summary EXCEPT ![i] = r]
      BY <2>2 DEF CallReturns, Call, MetaCall, StateCall, UpsertSummaryNode
    <3>2. QED
      BY <1>t, <3>1 DEF Mine
  <2>3. CASE Past(r, i)
    <3>1. Mine(r, i)
      BY <1>2, <2>3 DEF LastInv
    <3>2. CASE summary' = summary
      BY <1>r, <3>1, <3>2 DEF Mine
    <3>3. CASE summary' # summary
      <4>1. /\ co[q].at = "summary"
            /\ co[q].item \in 1..NumSummary
            /\ summary' = [summary EXCEPT ![co[q].item] = q]
        <5>1. CallReturns(q) \/ CallRaises(q)
          BY <3>3, CalmBefore
             DEF Step, AcquireWriterLock, AcquireRaises, LockNotAcquired, StartWithoutLock,
                 ParseSource, SourceRejected, ReleaseWriterLock, ReleaseRaises, LateCall, Crash, LockExpires,
                 storeVars, LastInv
        <5>2. co[q].at \in Calls /\ Call(q, co[q].at, co[q].item)
          BY <3>3, <5>1 DEF CallReturns, CallRaises
        <5>3. co[q].at = "summary" /\ UpsertSummaryNode(q, co[q].item)
          BY <3>3, <5>2 DEF Call
        <5>4. QED
          BY <5>2, <5>3 DEF UpsertSummaryNode, TypeOK, Items
      <4>2. q # r => ~Rivals(r, q)
        <5> SUFFICES ASSUME q # r, Rivals(r, q) PROVE FALSE
          OBVIOUS
        <5>1. lock[co[q].version] = q
          BY <4>1 DEF HolderInside, Calm, Rivals, HoldsLock, Inside, Calls
        <5>2. last[co[q].version] = q
          BY <1>t, <5>1 DEF LastInv
        <5>3. QED
          BY <1>2, <5>2 DEF Rivals
      <4>3. summary'[i] = summary[i] \/ summary'[i] = q
        BY <1>t, <4>1
      <4>4. CASE summary'[i] = summary[i]
        BY <1>r, <3>1, <4>4 DEF Mine
      <4>5. CASE summary'[i] = q
        BY <1>r, <4>2, <4>5 DEF Mine
      <4>6. QED
        BY <4>3, <4>4, <4>5
    <3>4. QED
      BY <3>2, <3>3
  <2>4. QED
    BY <2>1, <2>2, <2>3
<1>3. QED
  BY <1>1, <1>2

\* Every step keeps it so.
LEMMA LastStep == WriterInv /\ OutcomeInv /\ LastInv /\ [Next]_vars => LastInv'
<1> SUFFICES ASSUME WriterInv, OutcomeInv, LastInv, [Next]_vars PROVE LastInv'
  OBVIOUS
<1>1. CASE UNCHANGED vars
  BY <1>1 DEF vars, storeVars, LastInv, Calm, Spent, Past, Mine, Rivals, Tracked
<1>2. ASSUME NEW q \in Runs, Step(q), Calm'
      PROVE  /\ \A r \in Runs : late'[r].at \notin Calls
             /\ \A r \in Runs, i \in 1..NumSummary :
                   Tracked(r)' /\ last'[co'[r].version] = r /\ Past(r, i)' => Mine(r, i)'
  <2>1. Calm /\ ~Cancelled(q)
    BY <1>2, CalmBefore DEF WriterInv
  <2>2. \A r \in Runs : late'[r].at \notin Calls
    <3>1. late' = late \/ Crash(q)
      BY <1>2, <2>1, CalmBefore
         DEF Step, AcquireWriterLock, AcquireRaises, LockNotAcquired, StartWithoutLock, ParseSource,
             SourceRejected, CallReturns, CallRaises, ReleaseWriterLock, ReleaseRaises, LateCall,
             LockExpires, LastInv, WriterInv, LockLapses, CancelledWhileAcquiring,
             CancelledWhileReleasing
    <3>2. QED
      BY <2>1, <3>1 DEF Crash, LastInv, NoCall, Calls, WriterInv, TypeOK
  <2>3. ASSUME NEW r \in Runs, NEW i \in 1..NumSummary,
               Tracked(r)', last'[co'[r].version] = r, Past(r, i)'
        PROVE  Mine(r, i)'
    <3>1. Tracked(r) /\ last'[co[r].version] = r
      BY <2>3, CallStays DEF Tracked, WriterInv
    <3>2. QED
      BY <1>2, <2>1, <2>3, <3>1, MineKept
  <2>4. QED
    BY <2>2, <2>3
<1>3. QED
  BY <1>1, <1>2, LastHolder DEF LastInv, Next, WriterInv

\* As long as no lock lapses under a working run and no coroutine is cancelled, the
\* run that took a version's lock last and succeeded has its rows in the summary
\* table: of no earlier run under that lock is one left.
THEOREM LastWriter == Spec => []LastWriterWins
<1>1. Init => LastInv
  <2> SUFFICES ASSUME Init PROVE LastInv
    OBVIOUS
  <2>1. \A r \in Runs : late[r].at = "none" /\ co[r].at = "idle" /\ state[r].status = "NONE"
    BY DEF Init, NoCall, StoreInit, NoState
  <2>2. QED
    BY <2>1, NoRunAssumption DEF Init, StoreInit, LastInv, Past, Calls
<1>2. LastInv => LastWriterWins
  BY DEF LastInv, LastWriterWins, Calm, Past, Mine
<1>3. QED
  BY <1>1, <1>2, LastStep, WriterAlways, OutcomeAlways, PTL DEF Spec

-----------------------------------------------------------------------------
(* What the caller of an operation sees. *)

\* Where an operation without a store can be, and the rows it has then written.
PlainProgress(r) ==
    /\ co[r].at = "parse" => co[r].op = "plain"
    /\ co[r].at = "summary" => co[r].op \in {"plain", "document"}
    /\ co[r].at = "page" => co[r].op \in {"plain", "document", "pages"}
    /\ co[r].at = "touch" => co[r].op = "rebuild"
    /\ co[r].at \in {"summary", "page"} => Wrote(r, co[r].at, co[r].item - 1)
    /\ co[r].at = "page" /\ co[r].op # "pages" => Wrote(r, "summary", NumSummary)

\* The outcome is decided by the last call or by the first exception; "fail" is
\* entered by a failing call, so a second one has kept it from being written.
Told(r) ==
    /\ co[r].at \in {"idle", "parse"} => state[r].status = "NONE"
    /\ co[r].at \in (Calls \ {"fail"}) \cup {"idle", "parse"} => co[r].out = "pending"
    /\ co[r].at = "fail" => co[r].out = "raised" /\ Tracked(r) /\ Spent("error") > 0
    /\ late[r].at \in Calls => \/ co[r].out = "cancelled"
                               \/ co[r].out = "raised" /\ co[r].at = "unreleased"
    /\ co[r].out = "returned" => RowsWritten(r) /\ (Tracked(r) => state[r].status = "SUCCEEDED")
    /\ co[r].at \in {"release", "done"} /\ co[r].out = "raised" /\ co[r].initialized =>
          Spent("error") > 1 \/ state[r].status = "FAILED"
    /\ co[r].at \in {"release", "done"} /\ co[r].out = "raised" /\ ~co[r].initialized =>
          Spent("error") > 0 \/ state[r].status = "NONE"

ToldInv == \A r \in Runs : Told(r) /\ (~Tracked(r) => PlainProgress(r))

\* The successor is the first place that is later and has something to do.
LEMMA FirstLater ==
    ASSUME NEW op \in Operations, NEW at, at # "fail", NEW m \in Later(op, at),
           \A p \in Later(op, at) : m <= p
    PROVE  Successor(op, at) = Order(op)[m]
<1>1. PICK k \in Later(op, at) : /\ Successor(op, at) = Order(op)[k]
                                 /\ \A p \in Later(op, at) : k <= p
  BY SuccessorPlace
<1>2. m \in Nat /\ k \in Nat
  BY OrderTypes DEF Later
<1>3. QED
  BY <1>1, <1>2

\* What the operations without a store do next.
LEMMA PlainNext ==
    /\ Successor("plain", "idle") = "parse" /\ Successor("plain", "parse") = "summary"
    /\ Successor("document", "idle") = "summary"
    /\ \A op \in {"plain", "document"} :
          /\ Successor(op, "summary") = IF NumPages > 0 THEN "page" ELSE "done"
          /\ Successor(op, "page") = "done"
    /\ Successor("pages", "idle") = IF NumPages > 0 THEN "page" ELSE "done"
    /\ Successor("pages", "page") = "done"
    /\ Successor("rebuild", "idle") = "touch" /\ Successor("rebuild", "touch") = "done"
<1>i. /\ Items("parse") > 0 /\ Items("summary") > 0 /\ Items("touch") > 0 /\ Items("page") = NumPages
      /\ NumPages \in Nat
  BY SizesAssumption DEF Items
<1>o. {"plain", "document", "pages", "rebuild"} \subseteq Operations
  BY DEF Operations
<1>1. /\ Successor("plain", "idle") = "parse" /\ Successor("plain", "parse") = "summary"
      /\ Successor("plain", "summary") = IF NumPages > 0 THEN "page" ELSE "done"
      /\ Successor("plain", "page") = "done"
  <2> DEFINE order == Order("plain")
  <2>1. DOMAIN order = 1..3 /\ order[1] = "parse" /\ order[2] = "summary" /\ order[3] = "page"
    BY DEF Order
  <2>2. \A at : Later("plain", at) = {k \in DOMAIN order : /\ at = "idle" \/ \E p \in 1..(k - 1) : order[p] = at
                                                           /\ Items(order[k]) > 0}
    BY DEF Later
  <2> HIDE DEF order
  <2>3. 1 \in Later("plain", "idle") /\ \A p \in Later("plain", "idle") : 1 <= p
    BY <2>1, <2>2, <1>i
  <2>4. 2 \in Later("plain", "parse") /\ \A p \in Later("plain", "parse") : 2 <= p
    <3>1. 2 \in DOMAIN order /\ 1 \in 1..(2 - 1) /\ order[1] = "parse" /\ Items(order[2]) > 0
      BY <2>1, <1>i
    <3>2. 2 \in Later("plain", "parse")
      BY <2>2, <3>1
    <3>3. QED
      BY <2>1, <2>2, <3>2
  <2>5. Later("plain", "summary") = IF NumPages > 0 THEN {3} ELSE {}
    <3>1. \A k \in 1..3 : (\E p \in 1..(k - 1) : order[p] = "summary") <=> k = 3
      <4>1. 2 \in 1..(3 - 1)
        OBVIOUS
      <4>2. QED
        BY <2>1, <4>1
    <3>2. QED
      BY <2>1, <2>2, <3>1, <1>i
  <2>6. Later("plain", "page") = {}
    BY <2>1, <2>2
  <2>7. QED
    BY <2>1, <2>3, <2>4, <2>5, <2>6, <1>o, FirstLater DEF Successor, Finish, order
<1>2. /\ Successor("document", "idle") = "summary"
      /\ Successor("document", "summary") = IF NumPages > 0 THEN "page" ELSE "done"
      /\ Successor("document", "page") = "done"
  <2> DEFINE order == Order("document")
  <2>1. DOMAIN order = 1..2 /\ order[1] = "summary" /\ order[2] = "page"
    BY DEF Order
  <2>2. \A at : Later("document", at) = {k \in DOMAIN order : /\ at = "idle" \/ \E p \in 1..(k - 1) : order[p] = at
                                                              /\ Items(order[k]) > 0}
    BY DEF Later
  <2> HIDE DEF order
  <2>3. 1 \in Later("document", "idle") /\ \A p \in Later("document", "idle") : 1 <= p
    BY <2>1, <2>2, <1>i
  <2>4. Later("document", "summary") = IF NumPages > 0 THEN {2} ELSE {}
    <3>1. \A k \in 1..2 : (\E p \in 1..(k - 1) : order[p] = "summary") <=> k = 2
      <4>1. 1 \in 1..(2 - 1)
        OBVIOUS
      <4>2. QED
        BY <2>1, <4>1
    <3>2. QED
      BY <2>1, <2>2, <3>1, <1>i
  <2>5. Later("document", "page") = {}
    BY <2>1, <2>2
  <2>6. QED
    BY <2>1, <2>3, <2>4, <2>5, <1>o, FirstLater DEF Successor, Finish, order
<1>3. /\ Successor("pages", "idle") = IF NumPages > 0 THEN "page" ELSE "done"
      /\ Successor("pages", "page") = "done"
  <2> DEFINE order == Order("pages")
  <2>1. DOMAIN order = {1} /\ order[1] = "page"
    BY DEF Order
  <2>2. \A at : Later("pages", at) = {k \in DOMAIN order : /\ at = "idle" \/ \E p \in 1..(k - 1) : order[p] = at
                                                           /\ Items(order[k]) > 0}
    BY DEF Later
  <2> HIDE DEF order
  <2>3. Later("pages", "idle") = IF NumPages > 0 THEN {1} ELSE {}
    BY <2>1, <2>2, <1>i
  <2>4. Later("pages", "page") = {}
    BY <2>1, <2>2
  <2>5. QED
    BY <2>1, <2>3, <2>4, <1>o, FirstLater DEF Successor, Finish, order
<1>4. Successor("rebuild", "idle") = "touch" /\ Successor("rebuild", "touch") = "done"
  <2> DEFINE order == Order("rebuild")
  <2>1. DOMAIN order = {1} /\ order[1] = "touch"
    BY DEF Order
  <2>2. \A at : Later("rebuild", at) = {k \in DOMAIN order : /\ at = "idle" \/ \E p \in 1..(k - 1) : order[p] = at
                                                             /\ Items(order[k]) > 0}
    BY DEF Later
  <2> HIDE DEF order
  <2>3. Later("rebuild", "idle") = {1}
    BY <2>1, <2>2, <1>i
  <2>4. Later("rebuild", "touch") = {}
    BY <2>1, <2>2
  <2>5. QED
    BY <2>1, <2>3, <2>4, <1>o, FirstLater DEF Successor, Finish, order
<1>5. QED
  BY <1>1, <1>2, <1>3, <1>4

\* The rows of an operation are what its calls write.
LEMMA RowsAre ==
    ASSUME NEW r \in Runs
    PROVE  RowsWritten(r) <=> /\ co[r].op # "rebuild" => Wrote(r, "page", NumPages)
                              /\ co[r].op \notin {"rebuild", "pages"} => Wrote(r, "summary", NumSummary)
BY DEF RowsWritten, Wrote

\* Rows that are written stay.
LEMMA RowsKept ==
    ASSUME NEW r \in Runs, Kept(r), co'[r].op = co[r].op, RowsWritten(r)
    PROVE  RowsWritten(r)'
<1>1. NumPages \in 0..Items("page") /\ NumSummary \in 0..Items("summary")
  BY SizesAssumption DEF Items
<1>2. QED
  BY <1>1 DEF Kept, RowsWritten, Wrote

\* Errors that were made stay made.
LEMMA ErrorsGrow ==
    ASSUME WriterInv, NEW q \in Runs, Step(q)
    PROVE  /\ Spent("error") \in Nat /\ Spent("error")' \in Nat
           /\ Spent("error")' >= Spent("error")
           /\ CallRaises(q) => Spent("error")' = Spent("error") + 1
<1> USE DEF WriterInv
<1>1. Kinds = {"crash", "error", "cancel", "lapse"} /\ left \in [Kinds -> Nat]
  BY DEF Kinds, TypeOK
<1>2. left' = left \/ \E kind \in Kinds : Spend(kind)
  BY <1>1 DEF Step, AcquireWriterLock, LockNotAcquired, ParseSource, SourceRejected,
         StartWithoutLock, CallReturns, CallRaises, ReleaseWriterLock, ReleaseRaises, Cancelled,
         CancelledWhileAcquiring, CancelledWhileReleasing, AcquireRaises, LateCall, Crash, LockLapses,
         LockExpires
<1>3. CallRaises(q) => Spend("error")
  BY DEF CallRaises
<1>4. QED
  BY <1>1, <1>2, <1>3, SpendTypes, BudgetAssumption DEF Spent, BudgetFalls

\* A call of an operation without a store goes on with its rows, or has written all.
LEMMA PlainReturn ==
    ASSUME TypeOK, NEW r \in Runs, RunInv(r), Kept(r), ~Tracked(r), PlainProgress(r),
           CallReturns(r)
    PROVE  PlainProgress(r)' /\ (co'[r].at = "done" => RowsWritten(r)')
<1>t. /\ co \in [Runs -> Coroutine] /\ co[r] \in Coroutine /\ NumSummary \in Nat /\ NumPages \in Nat
      /\ co[r].op \in {"plain", "document", "pages", "rebuild"}
  BY SizesAssumption DEF TypeOK, Coroutine, Tracked, Operations
<1>1. PICK op, at, i : op = co[r].op /\ at = co[r].at /\ i = co[r].item
  OBVIOUS
<1>2. at \in OnlyRows /\ i \in 1..Items(at) /\ Call(r, at, i) /\ at \in Calls
  BY <1>1 DEF CallReturns, TypeOK, RunInv
<1>3. PICK c : c = Learns(co[r])
  OBVIOUS
<1>4. c \in Coroutine /\ c.at = at /\ c.item = i /\ c.op = op /\ co'[r] = Following(op, c)
  BY <1>1, <1>3, <1>t DEF CallReturns, Learns, Coroutine
<1>5. co'[r].op = op
  BY <1>4 DEF Following, Coroutine
<1>6. PICK n, j : n = co'[r].at /\ j = co'[r].item
  OBVIOUS
<1>7. \/ i < Items(at) /\ n = at /\ j = i + 1
      \/ i = Items(at) /\ n = Successor(op, at) /\ j = 1
  BY <1>2, <1>4, <1>6, ItemsTypes DEF Following, Coroutine
<1>8. Items("touch") = 1 /\ Items("summary") = NumSummary /\ Items("page") = NumPages
  BY DEF Items
<1>9. at \in {"summary", "page"} => Wrote(r, at, i)'
  BY <1>1, <1>2, CallWrites DEF PlainProgress
<1>10. Wrote(r, "summary", NumSummary) => Wrote(r, "summary", NumSummary)'
  <2>1. NumSummary \in 0..Items("summary")
    BY <1>t, <1>8
  <2>2. QED
    BY <2>1 DEF Kept
<1>11. CASE i < Items(at)
  <2>1. n = at /\ j - 1 = i /\ at \in {"summary", "page"}
    BY <1>2, <1>7, <1>8, <1>11, ItemsTypes DEF OnlyRows
  <2>2. Wrote(r, n, j - 1)'
    BY <1>9, <2>1
  <2>3. PlainProgress(r)'
    BY <1>1, <1>5, <1>6, <1>10, <2>1, <2>2 DEF PlainProgress, Wrote
  <2>4. QED
    BY <1>6, <2>1, <2>3
<1>12. CASE i = Items(at)
  <2>0. n = Successor(op, at) /\ j = 1
    BY <1>7, <1>12, <1>2, ItemsTypes
  <2>1. CASE at = "summary"
    <3>1. op \in {"plain", "document"} /\ n = IF NumPages > 0 THEN "page" ELSE "done"
      BY <1>1, <2>0, <2>1, PlainNext DEF PlainProgress
    <3>2. Wrote(r, "summary", NumSummary)'
      BY <1>8, <1>9, <1>12, <2>1
    <3>3. Wrote(r, "page", 0)'
      BY WroteNothing
    <3>4. PlainProgress(r)'
      BY <1>5, <1>6, <2>0, <3>1, <3>2, <3>3 DEF PlainProgress, Wrote
    <3>5. n = "done" => NumPages = 0
      BY <1>t, <3>1
    <3>6. QED
      BY <1>5, <1>6, <3>1, <3>2, <3>3, <3>4, <3>5 DEF RowsWritten, Wrote
  <2>2. CASE at = "page"
    <3>1. op \in {"plain", "document", "pages"} /\ n = "done"
      BY <1>1, <2>0, <2>2, PlainNext DEF PlainProgress
    <3>2. Wrote(r, "page", NumPages)'
      BY <1>8, <1>9, <1>12, <2>2
    <3>3. op # "pages" => Wrote(r, "summary", NumSummary)'
      BY <1>1, <1>10, <2>2 DEF PlainProgress
    <3>4. PlainProgress(r)'
      BY <1>6, <3>1 DEF PlainProgress
    <3>5. QED
      BY <1>5, <3>1, <3>2, <3>3, <3>4 DEF RowsWritten, Wrote
  <2>3. CASE at = "touch"
    <3>1. op = "rebuild" /\ n = "done"
      BY <1>1, <2>0, <2>3, PlainNext DEF PlainProgress
    <3>2. QED
      BY <1>5, <1>6, <3>1 DEF PlainProgress, RowsWritten
  <2>4. QED
    BY <1>2, <2>1, <2>2, <2>3 DEF OnlyRows
<1>13. QED
  BY <1>7, <1>11, <1>12

\* Such an operation keeps its rows while it does nothing.
LEMMA ProgressKept ==
    ASSUME TypeOK, NEW r \in Runs, Kept(r), PlainProgress(r), co'[r] = co[r]
    PROVE  PlainProgress(r)'
<1>1. PICK at, i : at = co[r].at /\ i = co[r].item
  OBVIOUS
<1>2. at \in {"summary", "page"} => Wrote(r, at, i - 1)'
  <2> SUFFICES ASSUME at \in {"summary", "page"} PROVE Wrote(r, at, i - 1)'
    OBVIOUS
  <2>1. i \in 1..Items(at)
    BY <1>1 DEF TypeOK, Calls
  <2>2. PICK n \in 0..Items(at) : n = i - 1
    BY <2>1, ItemsTypes
  <2>3. Wrote(r, at, n)'
    BY <1>1, <2>2 DEF PlainProgress, Kept
  <2>4. QED
    BY <2>2, <2>3
<1>3. Wrote(r, "summary", NumSummary) => Wrote(r, "summary", NumSummary)'
  <2>1. NumSummary \in 0..Items("summary")
    BY SizesAssumption DEF Items
  <2>2. QED
    BY <2>1 DEF Kept
<1>4. QED
  BY <1>1, <1>2, <1>3 DEF PlainProgress, Wrote

\* The other steps of such an operation.
LEMMA PlainOther ==
    ASSUME TypeOK, NEW r \in Runs, RunInv(r), Kept(r), ~Tracked(r), PlainProgress(r),
           Step(r), ~CallReturns(r)
    PROVE  PlainProgress(r)'
<1>t. /\ co \in [Runs -> Coroutine] /\ co[r] \in Coroutine
      /\ co[r].op \in {"plain", "document", "pages", "rebuild"}
  BY DEF TypeOK, Coroutine, Tracked, Operations
<1>g. ASSUME NEW at, Goes(r, at) \/ \E out : Leaves(r, at, out)
      PROVE  co'[r].at = at /\ co'[r].item = 1 /\ co'[r].op = co[r].op
  BY <1>g, <1>t DEF Goes, Leaves, Coroutine
<1>1. CASE co' = co
  BY <1>1, ProgressKept
<1>2. CASE StartWithoutLock(r) \/ ParseSource(r)
  <2>1. /\ co[r].at \in {"idle", "parse"} /\ Goes(r, Successor(co[r].op, co[r].at))
        /\ co[r].at = "parse" => co[r].op = "plain"
    BY <1>2 DEF StartWithoutLock, ParseSource, At, PlainProgress
  <2>2. PICK n : n = Successor(co[r].op, co[r].at)
    OBVIOUS
  <2>3. \/ n = "parse" /\ co[r].op = "plain"
        \/ n = "summary" /\ co[r].op \in {"plain", "document"}
        \/ n = "page" /\ co[r].op = "pages"
        \/ n = "touch" /\ co[r].op = "rebuild"
        \/ n = "done"
    BY <1>t, <2>1, <2>2, PlainNext
  <2>4. co'[r].at = n /\ co'[r].item = 1 /\ co'[r].op = co[r].op
    BY <1>g, <2>1, <2>2
  <2>5. Wrote(r, n, 0)'
    BY WroteNothing
  <2>6. QED
    BY <2>3, <2>4, <2>5 DEF PlainProgress, Wrote
<1>3. ASSUME NEW at, at \in {"refused", "done", "unreleased", "abandoned", "dead"},
             Goes(r, at) \/ \E out : Leaves(r, at, out)
      PROVE  PlainProgress(r)'
  BY <1>3, <1>g DEF PlainProgress
<1>4. CASE LockNotAcquired(r) \/ SourceRejected(r) \/ CallRaises(r) \/ ReleaseWriterLock(r)
           \/ ReleaseRaises(r) \/ Cancelled(r) \/ CancelledWhileAcquiring(r)
           \/ CancelledWhileReleasing(r) \/ AcquireRaises(r) \/ Crash(r)
  <2>1. \/ Goes(r, "done") \/ Goes(r, "dead")
        \/ \E out : Leaves(r, "refused", out)
        \/ \E out : Leaves(r, "done", out)
        \/ \E out : Leaves(r, "unreleased", out)
        \/ \E out : Leaves(r, "abandoned", out)
    BY <1>4 DEF LockNotAcquired, SourceRejected, ParseFails, CallRaises, AfterError,
           ReleaseWriterLock, ReleaseRaises, Cancelled, CancelledWhileAcquiring, AcquiredInVain,
           CancelledWhileReleasing, AcquireRaises, Crash, Finish, Tracked, RunInv, Goes
  <2>2. QED
    BY <1>3, <2>1
<1>5. CASE AcquireWriterLock(r)
  BY <1>5 DEF AcquireWriterLock
<1>6. QED
  BY <1>1, <1>2, <1>4, <1>5 DEF Step, LateCall, LockLapses, LockExpires

\* What a run has been told stays true while it does nothing.
LEMMA ToldWaiting ==
    ASSUME WriterInv, NEW q \in Runs, Step(q), NEW r \in Runs, Told(r), Kept(r),
           co'[r] = co[r], late'[r] = late[r], state'[r] = state[r]
    PROVE  Told(r)'
<1>1. co[r].out = "returned" => RowsWritten(r)'
  BY RowsKept DEF Told
<1>2. Spent("error") > 0 => Spent("error")' > 0
  BY ErrorsGrow
<1>3. Spent("error") > 1 => Spent("error")' > 1
  BY ErrorsGrow
<1>4. QED
  BY <1>1, <1>2, <1>3 DEF Told, Tracked

\* The steps of a coroutine that call nothing.
LEMMA ToldQuiet ==
    ASSUME WriterInv, NEW r \in Runs, RunInv(r), Told(r), Kept(r),
           Tracked(r) \/ PlainProgress(r),
           \/ AcquireWriterLock(r) \/ LockNotAcquired(r) \/ StartWithoutLock(r)
           \/ ParseSource(r) \/ SourceRejected(r)
           \/ ReleaseWriterLock(r) \/ ReleaseRaises(r) \/ CancelledWhileReleasing(r)
           \/ AcquireRaises(r) \/ CancelledWhileAcquiring(r)
           \/ Cancelled(r) \/ Crash(r) \/ LockLapses(r) \/ LockExpires(r)
    PROVE  Told(r)'
<1> USE DEF WriterInv
<1>t. co \in [Runs -> Coroutine] /\ co[r] \in Coroutine /\ late \in [Runs -> LateCalls]
      /\ co[r].op \in Operations
  BY DEF TypeOK, Coroutine
<1>s. /\ state' = state /\ Step(r)
      /\ LockLapses(r) \/ LockExpires(r) => co' = co /\ late' = late
  BY DEF Step, AcquireWriterLock, LockNotAcquired, StartWithoutLock, ParseSource, SourceRejected,
         ReleaseWriterLock, ReleaseRaises, CancelledWhileReleasing, AcquireRaises,
         CancelledWhileAcquiring, Cancelled, Crash, LockLapses, LockExpires, storeVars
<1>g. ASSUME NEW at, Goes(r, at)
      PROVE  /\ co'[r].at = at /\ co'[r].op = co[r].op /\ co'[r].out = co[r].out
             /\ co'[r].initialized = co[r].initialized
  BY <1>g, <1>t DEF Goes, Coroutine
<1>l. ASSUME NEW at, NEW out, Leaves(r, at, out)
      PROVE  /\ co'[r].at = at /\ co'[r].op = co[r].op /\ co'[r].out = out
             /\ co'[r].initialized = co[r].initialized
  BY <1>l, <1>t DEF Leaves, Coroutine
<1>k. ASSUME co'[r].op = co[r].op, RowsWritten(r) PROVE RowsWritten(r)'
  BY <1>k, RowsKept
<1>n. /\ {"release", "done", "refused", "abandoned", "unreleased", "dead", "parse"} \cap Calls = {}
      /\ "none" \notin Calls
  BY DEF Calls
<1>1. CASE LockLapses(r) \/ LockExpires(r)
  BY <1>1, <1>s, ToldWaiting
<1>2. CASE AcquireWriterLock(r) \/ StartWithoutLock(r) \/ ParseSource(r)
  <2>1. /\ co[r].at \in {"idle", "parse"} /\ late' = late
        /\ \/ Goes(r, "parse")
           \/ /\ Goes(r, Successor(co[r].op, co[r].at))
              /\ Tracked(r) => co[r].at = "parse"
    BY <1>2 DEF AcquireWriterLock, StartWithoutLock, ParseSource, At
  <2>2. co[r].out = "pending" /\ late[r].at \notin Calls
    BY <2>1 DEF Told, RunInv
  <2>3. (Tracked(r) => co[r].at = "parse") => Successor(co[r].op, co[r].at) # "fail"
    BY <1>t, TrackedSuccessor, PlainSuccessor DEF Tracked, OnlyRows
  <2>4. co'[r].at # "fail" /\ co'[r].out = "pending"
    BY <1>g, <2>1, <2>2, <2>3
  <2>5. QED
    BY <1>s, <2>1, <2>2, <2>4 DEF Told
<1>3. CASE LockNotAcquired(r) \/ SourceRejected(r)
  <2>1. /\ co[r].at \in {"idle", "parse"} /\ late' = late
        /\ Leaves(r, "refused", "raised") \/ Leaves(r, Finish(co[r].op), "raised")
    BY <1>3 DEF LockNotAcquired, SourceRejected, ParseFails, At
  <2>2. late[r].at \notin Calls /\ ~co[r].initialized
    BY <2>1 DEF RunInv
  <2>3. /\ co'[r].at \in {"refused", "release", "done"} /\ co'[r].out = "raised"
        /\ ~co'[r].initialized
    BY <1>l, <2>1, <2>2 DEF Finish
  <2>4. QED
    BY <1>n, <1>s, <2>1, <2>2, <2>3 DEF Told
<1>4. CASE ReleaseWriterLock(r)
  <2>1. co[r].at = "release" /\ Goes(r, "done") /\ late' = late /\ Spent("error")' = Spent("error")
    BY <1>4 DEF ReleaseWriterLock, At, Spent
  <2>2. /\ co'[r].at = "done" /\ co'[r].op = co[r].op /\ co'[r].out = co[r].out
        /\ co'[r].initialized = co[r].initialized
    BY <1>g, <2>1
  <2>3. QED
    BY <1>n, <1>s, <1>k, <2>1, <2>2 DEF Told, Tracked
<1>5. CASE ReleaseRaises(r) \/ CancelledWhileReleasing(r)
  <2>1. /\ late' = late
        /\ Leaves(r, "unreleased", "raised") \/ Leaves(r, "unreleased", "cancelled")
    BY <1>5 DEF ReleaseRaises, CancelledWhileReleasing
  <2>2. co'[r].at = "unreleased" /\ co'[r].out \in {"raised", "cancelled"}
    BY <1>l, <2>1
  <2>3. QED
    BY <1>n, <2>1, <2>2 DEF Told
<1>6. CASE Cancelled(r) \/ CancelledWhileAcquiring(r)
  <2>1. Leaves(r, Finish(co[r].op), "cancelled") \/ Leaves(r, "abandoned", "cancelled")
    BY <1>6 DEF Cancelled, CancelledWhileAcquiring, AcquiredInVain
  <2>2. co'[r].at \in {"release", "done", "abandoned"} /\ co'[r].out = "cancelled"
    BY <1>l, <2>1 DEF Finish
  <2>3. QED
    BY <1>n, <2>2 DEF Told
<1>7. CASE Crash(r)
  <2>1. /\ co'[r].at = "dead" /\ co'[r].op = co[r].op /\ co'[r].out = co[r].out
        /\ late'[r].at = "none"
    BY <1>7, <1>t DEF Crash, Coroutine, NoCall
  <2>2. QED
    BY <1>n, <1>s, <1>k, <2>1 DEF Told, Tracked
<1>8. CASE AcquireRaises(r)
  <2>1. /\ co[r].at = "idle" /\ late' = late
        /\ Leaves(r, "abandoned", "raised") \/ Leaves(r, "refused", "raised")
    BY <1>8 DEF AcquireRaises, AcquiredInVain, At
  <2>2. co'[r].at \in {"abandoned", "refused"} /\ co'[r].out = "raised" /\ late[r].at \notin Calls
    BY <1>l, <2>1 DEF RunInv
  <2>3. QED
    BY <1>n, <2>1, <2>2 DEF Told
<1>9. QED
  BY <1>1, <1>2, <1>3, <1>4, <1>5, <1>6, <1>7, <1>8

\* A call returns.
LEMMA ToldReturn ==
    ASSUME WriterInv, NEW r \in Runs, RunInv(r), Told(r), Kept(r),
           ~Tracked(r) => PlainProgress(r), CallReturns(r)
    PROVE  Told(r)'
<1> USE DEF WriterInv
<1>t. co \in [Runs -> Coroutine] /\ co[r] \in Coroutine /\ co[r].op \in Operations
  BY DEF TypeOK, Coroutine
<1>1. PICK op, at, i : op = co[r].op /\ at = co[r].at /\ i = co[r].item
  OBVIOUS
<1>2. at \in Calls /\ i \in 1..Items(at) /\ Call(r, at, i)
  BY <1>1 DEF CallReturns, TypeOK
<1>3. PICK c : c = Learns(co[r])
  OBVIOUS
<1>4. /\ c \in Coroutine /\ c.at = at /\ c.item = i /\ c.op = op
      /\ co'[r] = Following(op, c)
      /\ c.out = IF at = "succeed" \/ Following(op, co[r]).at = "done"
                 THEN "returned" ELSE co[r].out
  BY <1>1, <1>3, <1>t DEF CallReturns, Learns, Coroutine
<1>5. Following(op, co[r]).at = Following(op, c).at
  BY <1>1, <1>4, <1>t DEF Following, Coroutine
<1>6. /\ co'[r].op = op /\ co'[r].initialized = c.initialized
      /\ co'[r].out = IF at = "succeed" \/ co'[r].at = "done" THEN "returned" ELSE co[r].out
  BY <1>4, <1>5 DEF Following, Coroutine
<1>7. late'[r].at \notin Calls
  BY <1>1, <1>2 DEF RunInv, CallReturns
<1>8. (co'[r].at = at /\ Items(at) # 1) \/ co'[r].at = Successor(op, at)
  BY <1>2, <1>4, ItemsTypes DEF Following, Coroutine
<1>0. co'[r].at \notin {"idle", "parse"}
  <2>1. CASE Tracked(r)
    <3>1. at \in InTry \ {"idle"} \/ at = "fail"
      BY <1>1, <1>2, <2>1 DEF RunInv, About, InTry, Calls
    <3>2. Successor("tracked", at) \notin {"idle", "parse"}
      BY <3>1, TrackedSuccessor DEF InTry
    <3>3. QED
      BY <1>1, <1>2, <1>8, <2>1, <3>2 DEF Tracked, Calls
  <2>2. CASE ~Tracked(r)
    <3>1. at \in OnlyRows /\ PlainProgress(r)
      BY <1>1, <1>2, <2>2 DEF RunInv
    <3>2. Successor(op, at) \in {"page", "done"}
      BY <1>1, <3>1, PlainNext DEF PlainProgress, OnlyRows
    <3>3. QED
      BY <1>8, <3>1, <3>2 DEF OnlyRows
  <2>3. QED
    BY <2>1, <2>2
<1>9. CASE Tracked(r)
  <2>1. About(r, at, i) /\ (at \in InCalls \/ at = "fail")
    BY <1>1, <1>2, <1>9 DEF RunInv, About, InCalls, InTry, Calls
  <2>2. co'[r].at # "done" /\ co'[r].at # "fail"
    BY <1>1, <1>8, <1>9, <2>1, TrackedSuccessor, ItemsTypes DEF Tracked, InCalls, InTry
  <2>3. CASE at = "fail"
    <3>1. co'[r].at = "release" /\ co'[r].out = "raised"
      BY <1>1, <1>6, <1>8, <1>9, <2>2, <2>3, TrackedSuccessor, ItemsTypes DEF Tracked, Told
    <3>2. state'[r].status = "FAILED"
      BY <1>2, <2>3, CallShows DEF Shown
    <3>3. QED
      <4>1. co'[r].initialized = co[r].initialized
        BY <1>1, <1>3, <1>6, <2>3, <1>t DEF Learns, Coroutine
      <4>2. co[r].initialized \/ Spent("error")' > 0
        BY <1>1, <2>3, ErrorsGrow DEF Told, Step
      <4>3. QED
        BY <1>7, <3>1, <3>2, <4>1, <4>2 DEF Told, Calls
  <2>4. CASE at = "succeed"
    <3>1. co'[r].at = "release" /\ co'[r].out = "returned"
      BY <1>1, <1>6, <1>8, <1>9, <2>4, TrackedSuccessor, ItemsTypes DEF Tracked
    <3>2. state'[r].status = "SUCCEEDED"
      BY <1>2, <2>4, CallShows DEF Shown
    <3>3. Complete(r)'
      BY <1>2, <2>1, <3>2, CallCompletes
    <3>4. RowsWritten(r)'
      <4>1. Items("summary") = NumSummary /\ Items("page") = NumPages
        BY DEF Items
      <4>2. QED
        BY <3>3, <4>1 DEF Complete, Writing, Wrote, RowsWritten
    <3>5. QED
      BY <1>7, <3>1, <3>2, <3>4 DEF Told, Calls
  <2>5. CASE at \notin {"fail", "succeed"}
    <3>1. co'[r].out = "pending"
      BY <1>1, <1>2, <1>6, <2>2, <2>5 DEF Told
    <3>2. QED
      BY <1>0, <1>7, <2>2, <3>1 DEF Told
  <2>6. QED
    BY <2>3, <2>4, <2>5
<1>10. CASE ~Tracked(r)
  <2>1. at \in OnlyRows /\ co[r].out = "pending"
    BY <1>1, <1>2, <1>10 DEF RunInv, Told, OnlyRows, Calls
  <2>2. co'[r].at # "fail"
    BY <1>1, <1>8, <1>10, <1>t, <2>1, PlainSuccessor DEF Tracked, OnlyRows
  <2>3. co'[r].out = "returned" <=> co'[r].at = "done"
    BY <1>6, <2>1 DEF OnlyRows
  <2>4. co'[r].out # "returned" => co'[r].out = "pending"
    BY <1>6, <2>1
  <2>5. co'[r].at = "done" => RowsWritten(r)'
    BY <1>10, PlainReturn
  <2>6. QED
    BY <1>0, <1>1, <1>6, <1>7, <1>10, <2>2, <2>3, <2>4, <2>5 DEF Told, Tracked, Calls
<1>11. QED
  BY <1>9, <1>10

\* A call raises, or a thread left behind makes one.
LEMMA ToldRaise ==
    ASSUME WriterInv, NEW r \in Runs, RunInv(r), Told(r), Kept(r),
           CallRaises(r) \/ LateCall(r)
    PROVE  Told(r)'
<1> USE DEF WriterInv
<1>t. co \in [Runs -> Coroutine] /\ co[r] \in Coroutine /\ late \in [Runs -> LateCalls]
  BY DEF TypeOK
<1>1. CASE CallRaises(r)
  <2>1. /\ co'[r].at = AfterError(r) /\ co'[r].out = "raised" /\ co'[r].op = co[r].op
        /\ co'[r].initialized = co[r].initialized /\ co[r].at \in Calls /\ late' = late
    BY <1>1, <1>t DEF CallRaises, Leaves, Coroutine
  <2>2. late'[r].at \notin Calls
    BY <2>1 DEF RunInv
  <2>3. Spent("error") \in Nat /\ Spent("error")' = Spent("error") + 1
    BY <1>1, ErrorsGrow DEF Step
  <2>4. CASE AfterError(r) = "fail"
    <3>1. Tracked(r)
      BY <2>4 DEF AfterError, Finish, RunInv
    <3>2. QED
      BY <2>1, <2>2, <2>3, <2>4, <3>1 DEF Told, Tracked
  <2>5. CASE AfterError(r) # "fail"
    <3>1. co'[r].at \in {"release", "done"} /\ (co[r].initialized => co[r].at = "fail")
      BY <2>1, <2>5 DEF AfterError, Finish, At
    <3>2. co[r].initialized => Spent("error") > 0
      BY <3>1 DEF Told
    <3>3. co[r].initialized => Spent("error")' > 1
      BY <2>3, <3>2
    <3>4. QED
      BY <2>1, <2>2, <2>3, <3>1, <3>3 DEF Told, Calls
  <2>6. QED
    BY <2>4, <2>5
<1>2. CASE LateCall(r)
  <2>1. /\ co' = co /\ late[r].at \in Calls
        /\ \/ co[r].out = "cancelled"
           \/ co[r].out = "raised" /\ co[r].at = "unreleased"
    BY <1>2 DEF LateCall, Told
  <2>2. co[r].at \notin Calls \cup {"idle", "parse"}
    BY <2>1 DEF RunInv
  <2>3. QED
    BY <2>1, <2>2 DEF Told, Calls
<1>3. QED
  BY <1>1, <1>2

\* Every step keeps what the callers have been told.
LEMMA ToldStep == WriterInv /\ OutcomeInv /\ ToldInv /\ [Next]_vars => ToldInv'
<1> SUFFICES ASSUME WriterInv, OutcomeInv, ToldInv, [Next]_vars, NEW r \in Runs
             PROVE  Told(r)' /\ (~Tracked(r)' => PlainProgress(r)')
  BY DEF ToldInv
<1>1. CASE UNCHANGED vars
  BY <1>1 DEF vars, storeVars, ToldInv, Told, PlainProgress, Tracked, RowsWritten, Wrote, Spent
<1>2. ASSUME NEW q \in Runs, Step(q)
      PROVE  Told(r)' /\ (~Tracked(r)' => PlainProgress(r)')
  <2>1. /\ TypeOK /\ RunInv(r) /\ Told(r) /\ Kept(r)
        /\ ~Tracked(r) => PlainProgress(r)
        /\ Tracked(r)' <=> Tracked(r)
    BY <1>2, StepKeeps, CallStays DEF WriterInv, OutcomeInv, ToldInv, Tracked
  <2>2. CASE q = r
    <3>1. Told(r)'
      BY <1>2, <2>1, <2>2, ToldQuiet, ToldReturn, ToldRaise DEF Step
    <3>2. ~Tracked(r) => PlainProgress(r)'
      BY <1>2, <2>1, <2>2, PlainReturn, PlainOther
    <3>3. QED
      BY <2>1, <3>1, <3>2
  <2>3. CASE q # r
    <3>1. co'[r] = co[r] /\ late'[r] = late[r] /\ state'[r] = state[r]
      BY <1>2, <2>1, <2>3, OthersWait, StepKeeps
    <3>2. Told(r)'
      BY <1>2, <2>1, <3>1, ToldWaiting
    <3>3. PlainProgress(r) => PlainProgress(r)'
      BY <2>1, <3>1, ProgressKept
    <3>4. QED
      BY <2>1, <3>2, <3>3
  <2>4. QED
    BY <2>2, <2>3
<1>3. QED
  BY <1>1, <1>2 DEF Next

\* The callers know in every state.
LEMMA ToldAlways == Spec => []ToldInv
<1>1. Init => ToldInv
  <2> SUFFICES ASSUME Init, NEW r \in Runs PROVE Told(r) /\ PlainProgress(r)
    BY DEF ToldInv
  <2>1. co[r].at = "idle" /\ co[r].out = "pending" /\ late[r].at = "none" /\ state[r].status = "NONE"
    BY DEF Init, NoCall, StoreInit, NoState
  <2>2. QED
    BY <2>1 DEF Told, PlainProgress, Calls
<1>2. QED
  BY <1>1, ToldStep, WriterAlways, OutcomeAlways, PTL DEF Spec

\* What the caller sees agrees with what is stored: a call that returned has its rows
\* in the tables, and its run is SUCCEEDED; one that raised is FAILED, or shows
\* nothing, unless initialize_run or mark_failed was a call that failed.
THEOREM OutcomeTold == Spec => []OutcomeMatchesStatus
<1>1. WriterInv /\ ToldInv => OutcomeMatchesStatus
  <2> SUFFICES ASSUME WriterInv, ToldInv, NEW r \in Runs, At(r, "done"), co[r].out = "raised"
               PROVE  \/ state[r].status = IF co[r].initialized THEN "FAILED" ELSE "NONE"
                      \/ Spent("error") >= IF co[r].initialized THEN 2 ELSE 1
    BY DEF OutcomeMatchesStatus, ToldInv, Told, At
  <2>1. Spent("error") \in Int
    BY BudgetAssumption DEF WriterInv, TypeOK, Spent, Kinds
  <2>2. CASE co[r].initialized
    <3>1. Spent("error") > 1 \/ state[r].status = "FAILED"
      BY <2>2 DEF ToldInv, Told, At
    <3>2. QED
      BY <2>1, <2>2, <3>1
  <2>3. CASE ~co[r].initialized
    <3>1. Spent("error") > 0 \/ state[r].status = "NONE"
      BY <2>3 DEF ToldInv, Told, At
    <3>2. QED
      BY <2>1, <2>3, <3>1
  <2>4. QED
    BY <2>2, <2>3
<1>2. QED
  BY <1>1, ToldAlways, WriterAlways, PTL

-----------------------------------------------------------------------------
(* The life of a run. *)

Marking(r) == At(r, "fail") \/ late[r].at = "fail"

\* What a run's mark_failed finds.
LEMMA MarkingFinds ==
    ASSUME OutcomeInv, ToldInv, NEW r \in Runs, Marking(r)
    PROVE  Settled(r) \in Open
BY DEF OutcomeInv, ToldInv, RunInv, Told, About, Marking, Settled, Undecided, At, Calls, OnlyRows,
       Open, Shown

\* Any other call moves its run one stage on, or leaves the stage alone.
LEMMA CallMoves ==
    ASSUME TypeOK, NEW r \in Runs, NEW at \in Calls \ {"fail"}, NEW i \in 1..Items(at),
           Call(r, at, i), About(r, at, i) \/ at \in OnlyRows
    PROVE  /\ Shown(r)' = Shown(r) \/ Shown(r)' \in Lifecycle!After(Shown(r))
           /\ Shown(r)'[1] = "SUCCEEDED" => \/ at = "succeed" /\ Shown(r) = <<"RUNNING", "DOC">>
                                            \/ at \in OnlyRows /\ Shown(r)' = Shown(r)
<1>1. CASE at \in OnlyRows
  BY <1>1, CallShows DEF OnlyRows
<1>2. CASE at \notin OnlyRows
  <2>1. at \in InTry \ {"idle", "parse", "summary", "page"}
    BY <1>2 DEF Calls, InTry, OnlyRows
  <2>2. Shown(r) = ShownBefore(at)
    BY <1>2, <2>1 DEF About
  <2>3. CASE at \in {"init", "page_meta", "sadd", "subch_meta", "subch", "ch_meta"}
    BY <2>2, <2>3, CallShows DEF ShownBefore, Lifecycle!After
  <2>4. CASE at \in {"ch", "doc_meta", "draft", "final", "succeed"}
    BY <2>2, <2>4, CallShows DEF ShownBefore, Lifecycle!After
  <2>5. QED
    BY <2>1, <2>3, <2>4 DEF InTry
<1>3. QED
  BY <1>1, <1>2

\* A coroutine's call.
LEMMA CoroutineMoves ==
    ASSUME WriterInv, OutcomeInv, ToldInv, NEW r \in Runs, CallReturns(r) \/ CallRaises(r)
    PROVE  Settled(r)' = Settled(r) \/ Settled(r)' \in Lifecycle!After(Settled(r))
<1> USE DEF WriterInv
<1>t. co \in [Runs -> Coroutine] /\ co[r] \in Coroutine /\ co[r].op \in Operations
  BY DEF TypeOK, Coroutine
<1>1. PICK at, i : at = co[r].at /\ i = co[r].item
  OBVIOUS
<1>2. /\ at \in Calls /\ i \in 1..Items(at) /\ late' = late /\ late[r].at \notin Calls
      /\ Call(r, at, i) \/ (CallRaises(r) /\ state' = state)
      /\ About(r, at, i) \/ at \in OnlyRows
  BY <1>1 DEF CallReturns, CallRaises, TypeOK, OutcomeInv, RunInv
<1>3. CallReturns(r) => co'[r].at # "fail"
  <2>1. PICK c : c = Learns(co[r])
    OBVIOUS
  <2>2. c \in Coroutine /\ c.at = at /\ c.item = i
    BY <1>1, <1>t, <2>1 DEF Learns, Coroutine
  <2>3. Following(co[r].op, c).at \in {at, Successor(co[r].op, at)} /\ (Items(at) = 1 =>
        Following(co[r].op, c).at = Successor(co[r].op, at))
    BY <1>2, <2>2 DEF Following, Coroutine
  <2>4. Successor(co[r].op, at) # "fail"
    <3>1. CASE Tracked(r)
      <4>1. at \in InTry \ {"idle"} \/ at = "fail"
        BY <1>1, <1>2, <3>1 DEF OutcomeInv, RunInv, About, InTry, Calls
      <4>2. QED
        BY <3>1, <4>1, TrackedSuccessor DEF Tracked, InTry
    <3>2. CASE ~Tracked(r)
      BY <1>t, <3>2, PlainSuccessor DEF Tracked, OnlyRows
    <3>3. QED
      BY <3>1, <3>2
  <2>5. CallReturns(r) => co'[r].at = Following(co[r].op, c).at
    BY <1>t, <2>1 DEF CallReturns
  <2>6. Items("fail") = 1
    BY DEF Items
  <2>7. QED
    BY <2>3, <2>4, <2>5, <2>6
<1>4. CallRaises(r) => co'[r].at = AfterError(r)
  BY <1>t DEF CallRaises, Leaves, Coroutine
<1>5. CASE at = "fail"
  <2>1. Settled(r) \in Open
    BY <1>1, <1>5, MarkingFinds DEF Marking, At
  <2>2. co'[r].at # "fail"
    BY <1>1, <1>3, <1>4, <1>5 DEF AfterError, At, Finish, CallReturns
  <2>3. Settled(r)' = Shown(r)'
    BY <1>2, <2>2 DEF Settled, Undecided, At, Shown, Calls
  <2>4. CASE Call(r, at, i)
    <3>1. Settled(r)' = <<"FAILED", "COMMIT">>
      BY <1>2, <1>5, <2>3, <2>4, CallShows
    <3>2. QED
      BY <2>1, <3>1 DEF Open, Lifecycle!After, Lifecycle!Failed
  <2>5. CASE state' = state
    <3>1. Shown(r)' = Shown(r)
      BY <2>5 DEF Shown
    <3>2. Shown(r) \in Open \cup {<<"SUCCEEDED", "COMMIT">>}
      BY <1>2, <1>5 DEF About, OnlyRows
    <3>3. CASE Shown(r) = <<"SUCCEEDED", "COMMIT">>
      <4>1. Settled(r) = <<"RUNNING", "DOC">>
        BY <1>1, <1>5, <3>3 DEF Settled, Undecided, At, Shown
      <4>2. QED
        BY <2>3, <3>1, <3>3, <4>1 DEF Lifecycle!After
    <3>4. CASE Shown(r) \in Open
      <4>1. Settled(r) = Shown(r)
        BY <3>4 DEF Settled, Undecided, Shown, Open
      <4>2. QED
        BY <2>3, <3>1, <4>1
    <3>5. QED
      BY <3>2, <3>3, <3>4
  <2>6. QED
    BY <1>2, <2>4, <2>5
<1>6. CASE at # "fail"
  <2>1. Settled(r) = Shown(r)
    BY <1>1, <1>2, <1>6 DEF Settled, Undecided, At, Shown, Calls
  <2>2. CASE co'[r].at = "fail"
    <3>1. CallRaises(r) /\ co[r].initialized /\ Tracked(r)
      BY <1>2, <1>3, <1>4, <2>2 DEF AfterError, Finish, OutcomeInv, RunInv
    <3>2. at \in InTry \ {"idle", "parse", "init"}
      BY <1>1, <1>2, <1>6, <3>1 DEF OutcomeInv, RunInv, About, InTry, Calls
    <3>3. Shown(r) \in Open
      BY <1>1, <3>1, <3>2 DEF OutcomeInv, RunInv, About, InTry, ShownBefore, Open
    <3>4. CASE state' = state
      BY <2>1, <3>3, <3>4 DEF Settled, Undecided, Shown, Open
    <3>5. CASE Call(r, at, i)
      <4>1. \/ Shown(r)' = Shown(r) \/ Shown(r)' \in Lifecycle!After(Shown(r))
        BY <1>2, <1>6, <3>5, CallMoves
      <4>2. CASE Shown(r)'[1] = "SUCCEEDED"
        <5>1. Shown(r) = <<"RUNNING", "DOC">>
          BY <1>2, <1>6, <3>3, <3>5, <4>2, CallMoves DEF Open
        <5>2. Settled(r)' = <<"RUNNING", "DOC">>
          BY <2>2, <4>2 DEF Settled, Undecided, At, Shown
        <5>3. QED
          BY <2>1, <5>1, <5>2
      <4>3. CASE Shown(r)'[1] # "SUCCEEDED"
        <5>1. Settled(r)' = Shown(r)'
          BY <4>3 DEF Settled, Undecided, Shown
        <5>2. QED
          BY <2>1, <4>1, <5>1
      <4>4. QED
        BY <4>2, <4>3
    <3>6. QED
      BY <1>2, <3>4, <3>5
  <2>3. CASE co'[r].at # "fail"
    <3>1. Settled(r)' = Shown(r)'
      BY <1>2, <2>3 DEF Settled, Undecided, At, Shown, Calls
    <3>2. CASE state' = state
      BY <2>1, <3>1, <3>2 DEF Shown
    <3>3. CASE Call(r, at, i)
      BY <1>2, <1>6, <2>1, <3>1, <3>3, CallMoves
    <3>4. QED
      BY <1>2, <3>2, <3>3
  <2>4. QED
    BY <2>2, <2>3
<1>7. QED
  BY <1>5, <1>6

\* A call of a thread that was left behind.
LEMMA ThreadMoves ==
    ASSUME WriterInv, OutcomeInv, ToldInv, NEW r \in Runs, LateCall(r)
    PROVE  Settled(r)' = Settled(r) \/ Settled(r)' \in Lifecycle!After(Settled(r))
<1> USE DEF WriterInv
<1>t. late \in [Runs -> LateCalls] /\ late[r] \in LateCalls
  BY DEF TypeOK
<1>1. PICK at, i : at = late[r].at /\ i = late[r].item
  OBVIOUS
<1>2. /\ at \in Calls /\ i \in 1..Items(at) /\ Call(r, at, i) /\ co' = co
      /\ co[r].at # "fail" /\ (About(r, at, i) \/ at \in OnlyRows)
  BY <1>1 DEF LateCall, TypeOK, OutcomeInv, RunInv, Calls
<1>3. late'[r].at # "fail"
  <2>1. late'[r] = NoCall \/ late'[r].at \in {"page_meta", "summary", "page"}
    BY <1>t DEF LateCall, Continues
  <2>2. QED
    BY <2>1 DEF NoCall
<1>4. Settled(r)' = Shown(r)'
  BY <1>2, <1>3 DEF Settled, Undecided, At, Shown
<1>5. CASE at = "fail"
  <2>1. Settled(r) \in Open
    BY <1>1, <1>5, MarkingFinds DEF Marking
  <2>2. Shown(r)' = <<"FAILED", "COMMIT">>
    BY <1>2, <1>5, CallShows
  <2>3. QED
    BY <1>4, <2>1, <2>2 DEF Open, Lifecycle!After, Lifecycle!Failed
<1>6. CASE at # "fail"
  <2>1. Settled(r) = Shown(r)
    BY <1>1, <1>2, <1>6 DEF Settled, Undecided, At, Shown
  <2>2. QED
    BY <1>2, <1>4, <1>6, <2>1, CallMoves
<1>7. QED
  BY <1>5, <1>6

\* A step that calls nothing: a mark_failed that is not made leaves the success.
LEMMA QuietMoves ==
    ASSUME WriterInv, OutcomeInv, NEW r \in Runs, Step(r),
           ~CallReturns(r), ~CallRaises(r), ~LateCall(r)
    PROVE  Settled(r)' = Settled(r) \/ Settled(r)' \in Lifecycle!After(Settled(r))
<1> USE DEF WriterInv
<1>t. /\ co \in [Runs -> Coroutine] /\ co[r] \in Coroutine /\ co[r].op \in Operations
      /\ late \in [Runs -> LateCalls]
  BY DEF TypeOK, Coroutine
<1>1. state' = state
  BY DEF Step, AcquireWriterLock, AcquireRaises, LockNotAcquired, StartWithoutLock, ParseSource,
         SourceRejected, ReleaseWriterLock, ReleaseRaises, Cancelled, CancelledWhileAcquiring,
         CancelledWhileReleasing, Crash, LockLapses, LockExpires, storeVars
<1>g. ASSUME NEW at, Goes(r, at) \/ \E out : Leaves(r, at, out) PROVE co'[r].at = at
  BY <1>g, <1>t DEF Goes, Leaves, Coroutine
<1>2. CASE Crash(r)
  <2>1. co'[r].at = "dead" /\ late'[r].at = "none"
    BY <1>2, <1>t DEF Crash, Coroutine, NoCall
  <2>2. Settled(r)' = Shown(r)
    BY <1>1, <2>1 DEF Settled, Undecided, At, Shown
  <2>3. CASE Undecided(r)
    <3>1. Shown(r) = <<"SUCCEEDED", "COMMIT">>
      BY <2>3 DEF Undecided, OutcomeInv, RunInv, About, At, Open, Shown, Calls, OnlyRows
    <3>2. Settled(r) = <<"RUNNING", "DOC">>
      BY <2>3 DEF Settled
    <3>3. QED
      BY <2>2, <3>1, <3>2 DEF Lifecycle!After
  <2>4. CASE ~Undecided(r)
    BY <2>2, <2>4 DEF Settled, Shown
  <2>5. QED
    BY <2>3, <2>4
<1>3. CASE ~Crash(r)
  <2>1. Marking(r)' = Marking(r)
    <3>1. CASE Cancelled(r)
      <4>1. /\ co'[r].at \in {"release", "done"} /\ co[r].at \in Calls \cup {"parse"}
            /\ late'[r].at = IF co[r].at = "parse" THEN "none" ELSE co[r].at
        BY <3>1, <1>g, <1>t DEF Cancelled, Finish, NoCall, At
      <4>2. late[r].at \notin Calls
        BY <4>1 DEF OutcomeInv, RunInv
      <4>3. QED
        BY <4>1, <4>2 DEF Marking, At, Calls
    <3>2. CASE LockLapses(r) \/ LockExpires(r)
      BY <3>2 DEF LockLapses, LockExpires, Marking, At
    <3>3. CASE StartWithoutLock(r) \/ ParseSource(r)
      <4>1. /\ co[r].at \in {"idle", "parse"} /\ Goes(r, Successor(co[r].op, co[r].at))
            /\ late' = late /\ (co[r].at = "idle" => ~Tracked(r))
        BY <3>3 DEF StartWithoutLock, ParseSource, At
      <4>2. Successor(co[r].op, co[r].at) # "fail"
        BY <1>t, <4>1, TrackedSuccessor, PlainSuccessor DEF Tracked, OnlyRows
      <4>3. QED
        BY <1>g, <4>1, <4>2 DEF Marking, At
    <3>4. CASE ~Cancelled(r) /\ ~LockLapses(r) /\ ~LockExpires(r) /\ ~StartWithoutLock(r) /\ ~ParseSource(r)
      <4>1. /\ co[r].at \in {"idle", "parse", "release"} /\ late' = late
            /\ \/ Goes(r, "parse") \/ Goes(r, "done")
               \/ \E at \in {"abandoned", "refused", "release", "done", "unreleased"}, out \in {"raised", "cancelled"} :
                    Leaves(r, at, out)
        BY <1>3, <3>4
           DEF Step, AcquireWriterLock, AcquireRaises, AcquiredInVain, LockNotAcquired,
               SourceRejected, ParseFails, ReleaseWriterLock, ReleaseRaises,
               CancelledWhileAcquiring, CancelledWhileReleasing, At, Finish
      <4>2. QED
        BY <1>g, <4>1 DEF Marking, At
    <3>5. QED
      BY <3>1, <3>2, <3>3, <3>4
  <2>2. QED
    BY <1>1, <2>1 DEF Settled, Undecided, Marking
<1>4. QED
  BY <1>2, <1>3

\* Every step of a run is a step of its life, or invisible in it.
LEMMA StepMoves ==
    WriterInv /\ OutcomeInv /\ ToldInv /\ [Next]_vars =>
        [Lifecycle!Next]_([r \in Runs |-> Settled(r)])
<1> DEFINE life == [r \in Runs |-> Settled(r)]
<1> SUFFICES ASSUME WriterInv, OutcomeInv, ToldInv, [Next]_vars PROVE [Lifecycle!Next]_life
  OBVIOUS
<1>1. CASE UNCHANGED vars
  BY <1>1 DEF vars, storeVars, Settled, Undecided, At
<1>2. ASSUME NEW r \in Runs, Step(r) PROVE [Lifecycle!Next]_life
  <2>1. \A s \in Runs \ {r} : Settled(s)' = Settled(s)
    <3> SUFFICES ASSUME NEW s \in Runs \ {r} PROVE Settled(s)' = Settled(s)
      OBVIOUS
    <3>1. co'[s] = co[s] /\ late'[s] = late[s] /\ state'[s] = state[s]
      BY <1>2, OthersWait, StepKeeps DEF WriterInv
    <3>2. QED
      BY <3>1 DEF Settled, Undecided, At
  <2>2. CASE Settled(r)' = Settled(r)
    BY <2>1, <2>2
  <2>3. CASE Settled(r)' \in Lifecycle!After(Settled(r))
    <3>1. life' = [life EXCEPT ![r] = life'[r]]
      BY <2>1
    <3>2. Lifecycle!Step(r)
      BY <2>3, <3>1 DEF Lifecycle!Step
    <3>3. QED
      BY <3>2 DEF Lifecycle!Next
  <2>4. QED
    BY <1>2, <2>2, <2>3, CoroutineMoves, ThreadMoves, QuietMoves
<1>3. QED
  BY <1>1, <1>2 DEF Next

\* At the start no run shows anything.
LEMMA InitMoves == Init => Lifecycle!Init
BY DEF Init, StoreInit, NoState, Lifecycle!Init, Settled, Undecided

\* IngestionRun implements IngestionLifecycle: a run goes through its stages in their
\* order, succeeds only after the last of them, fails only once it has begun, and is
\* final then, as long as a success that mark_failed is about to overwrite is not
\* counted as one.
THEOREM ImplementsLifecycle == Spec => LifecycleSpec
BY InitMoves, StepMoves, OutcomeAlways, WriterAlways, ToldAlways, PTL
   DEF Spec, LifecycleSpec, Lifecycle!Spec
=============================================================================
