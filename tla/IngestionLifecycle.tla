------------------------- MODULE IngestionLifecycle -------------------------
(***************************************************************************)
(* The life of a run as docs/arch/how-this-works.md draws it: its stages   *)
(* in their order and the two ways it ends, without locks, tables, faults  *)
(* or threads.  Module IngestionRun implements it.                         *)
(***************************************************************************)
EXTENDS Integers

CONSTANT Runs

VARIABLE life  \* the fields "status" and "stage" of each run's meta hash

Init == life = [r \in Runs |-> <<"NONE", "NONE">>]

Failed == <<"FAILED", "COMMIT">>

\* One stage after the other, none left out; a run fails at any stage, but only one
\* that is running, and what has ended stays as it is.
After(from) ==
    CASE from = <<"NONE", "NONE">>     -> {<<"RUNNING", "PAGE">>}
      [] from = <<"RUNNING", "PAGE">>  -> {<<"RUNNING", "SUBCH">>, Failed}
      [] from = <<"RUNNING", "SUBCH">> -> {<<"RUNNING", "CH">>, Failed}
      [] from = <<"RUNNING", "CH">>    -> {<<"RUNNING", "DOC">>, Failed}
      [] from = <<"RUNNING", "DOC">>   -> {<<"SUCCEEDED", "COMMIT">>, Failed}
      [] OTHER                         -> {}

Step(r) == life'[r] \in After(life[r]) /\ life' = [life EXCEPT ![r] = life'[r]]

Next == \E r \in Runs : Step(r)

Spec == Init /\ [][Next]_life
=============================================================================
