----------------------------- MODULE MCSemaphore -----------------------------
(* Instances of Semaphore for TLC. *)
EXTENDS Semaphore

CONSTANTS idle, t1, t2, t3, t4

ThreeTasks == {idle, t1, t2, t3}
FourTasks  == ThreeTasks \cup {t4}

(* One task of each priority; and four with two of the middle one. *)
Base123  == (idle :> 0) @@ (t1 :> 1) @@ (t2 :> 2) @@ (t3 :> 3)
Base1223 == Base123 @@ (t4 :> 2)
=============================================================================
