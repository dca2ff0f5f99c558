---------------------------- MODULE MCSearchQueue ----------------------------
(* Constant values and symmetry for model checking SearchQueue. *)
EXTENDS SearchQueue, TLC

CONSTANTS c1, c2, w1, w2, j1, j2, j3, j4, f1, f2

Allow(kinds) == [k \in Kinds |-> IF k \in kinds THEN 1 ELSE 0]

\* No command fails and nobody cancels.
Quiet == Allow({})
OneCancel == Allow({"cancel"})
OneCrash == Allow({"crash"})
EveryFault == Allow(Kinds)

\* At most three of the five kinds in one behaviour.
ThreeFaults == Cardinality({k \in Kinds : left[k] = 0}) <= 3

Symmetry == Permutations(Clients) \cup Permutations(Workers) \cup Permutations(Jobs)
=============================================================================
