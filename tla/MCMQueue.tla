------------------------------ MODULE MCMQueue -------------------------------
(* Instances of MQueue for TLC. *)
EXTENDS MQueue

CONSTANTS idle, t1, t2, t3

ThreeTasks == {idle, t1, t2, t3}

(* A task of the lowest priority and two above it. *)
Base122 == (idle :> 0) @@ (t1 :> 1) @@ (t2 :> 2) @@ (t3 :> 2)
=============================================================================
