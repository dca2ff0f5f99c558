---------------------------- MODULE JobLifecycle ----------------------------
(***************************************************************************)
(* What a caller may rely on when it polls a search job: the states of     *)
(* get_job and the order in which they appear, without queue, workers or   *)
(* messages.  Module SearchQueue implements it.                            *)
(***************************************************************************)
EXTENDS Integers

CONSTANTS Jobs, MaxRetries

VARIABLES
    state,  \* what get_job reports
    tries   \* its "retries": attempts that have failed

vars == <<state, tries>>

Init == state = [j \in Jobs |-> "ABSENT"] /\ tries = [j \in Jobs |-> 0]

Moves(j, from, to) == state[j] = from /\ state' = [state EXCEPT ![j] = to]

Submit(j)  == Moves(j, "ABSENT", "PENDING") /\ UNCHANGED tries
Start(j)   == Moves(j, "PENDING", "RUNNING") /\ UNCHANGED tries
Succeed(j) == Moves(j, "RUNNING", "SUCCEEDED") /\ UNCHANGED tries

Retry(j) ==
    /\ tries[j] < MaxRetries
    /\ Moves(j, "RUNNING", "PENDING")
    /\ tries' = [tries EXCEPT ![j] = @ + 1]

GiveUp(j) ==
    /\ tries[j] = MaxRetries
    /\ Moves(j, "RUNNING", "FAILED")
    /\ tries' = [tries EXCEPT ![j] = @ + 1]

Next == \E j \in Jobs : Submit(j) \/ Start(j) \/ Succeed(j) \/ Retry(j) \/ GiveUp(j)

Spec == Init /\ [][Next]_vars
=============================================================================
