--------------------------- MODULE MCIngestionRun ---------------------------
(* Constant values and symmetry for model checking IngestionRun. *)
EXTENDS IngestionRun, TLC, Functions

CONSTANTS r1, r2, r3, v1, v2

TwoErrors == [k \in Kinds |-> IF k = "error" THEN 2 ELSE 1]
OneLapse == [k \in Kinds |-> IF k = "lapse" THEN 1 ELSE 0]

CallOf(op, v) == [op |-> op, version |-> v]
AllTracked == {[r \in Runs |-> CallOf("tracked", v1)]}

\* Three runs under one lock, two and a call without one, and each other
\* combination of two calls that share the tables only.
Assigned(calls) == {[r \in Runs |-> calls[place[r]]] : place \in Bijection(Runs, 1..3)}
Mixed ==
    UNION {Assigned(<<CallOf("tracked", v1), calls[1], calls[2]>>) : calls \in {
        <<CallOf("tracked", v1), CallOf("tracked", v1)>>,
        <<CallOf("tracked", v1), CallOf("document", v1)>>,
        <<CallOf("tracked", v2), CallOf("rebuild", v1)>>,
        <<CallOf("plain", v1), CallOf("rebuild", v1)>>,
        <<CallOf("pages", v1), CallOf("rebuild", v1)>>}}

\* At most two faults in one behaviour, of one kind or two.
TwoFaults == Spent("crash") + Spent("error") + Spent("cancel") + Spent("lapse") <= 2

Symmetry == Permutations(Runs)
=============================================================================
