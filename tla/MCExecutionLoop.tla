-------------------------- MODULE MCExecutionLoop --------------------------
(* Instances of ExecutionLoop for TLC: process p1 may start the loop twice *)
(* (after a stop), p2 once, with trading switched off.                     *)
EXTENDS ExecutionLoop

CONSTANTS p1, p2, l1, l2, l3

TwoProcesses == {p1, p2}
OnlyP1 == {p1}
ThreeLoops == {l1, l2, l3}
OwnerOfThree == [l \in ThreeLoops |-> IF l = l3 THEN p2 ELSE p1]
=============================================================================
