------------------------------ MODULE WriteOnce -------------------------------
(***************************************************************************)
(* What `poc b029 run` promises of its output directories, to somebody who *)
(* looks at them from outside: a directory holds no report, or one whole   *)
(* report of one run, which appears in one step and then stays.            *)
(***************************************************************************)
CONSTANTS Places, Writers, Nobody

VARIABLE by   \* whose report is in each place

Init == by = [p \in Places |-> Nobody]

Publish(p, w) == by[p] = Nobody /\ by' = [by EXCEPT ![p] = w]

Next == \E p \in Places, w \in Writers : Publish(p, w)

Spec == Init /\ [][Next]_by
=============================================================================
