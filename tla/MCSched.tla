------------------------------- MODULE MCSched -------------------------------
(* Instances of Sched for TLC. *)
EXTENDS Sched, TLC

CONSTANTS idle, t1, t2, t3

TwoTasks   == {idle, t1, t2}
ThreeTasks == {idle, t1, t2, t3}

(* The tasks other than IDLE are interchangeable. *)
Symmetry == Permutations(ThreeTasks \ {idle})
=============================================================================
