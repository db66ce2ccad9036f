---------------------------- MODULE WorkQueueSpec ----------------------------
(***************************************************************************)
(* What the work queue promises (tinyara/wqueue.h: "Queue work to be       *)
(* performed at a later time", delay is "from the time queue until the     *)
(* worker is invoked", work_cancel() "removes work from the work queue"):  *)
(* every work item is a count-down of its own; its callback is begun once  *)
(* per queueing, not before the delay is over and not after a cancel.      *)
(*                                                                         *)
(*   left[w]  ticks until w is due, -1 when it is not queued               *)
(*   item[i]  the work whose callback worker i has in hand, or None        *)
(***************************************************************************)
EXTENDS Integers

CONSTANTS Work, Workers, MaxDelay, None

VARIABLES left, item

vars == <<left, item>>

Init == left = [w \in Work |-> -1] /\ item = [i \in Workers |-> None]

Queue(w, d) == left[w] = -1 /\ left' = [left EXCEPT ![w] = d] /\ UNCHANGED item

Cancel(w) == left[w] # -1 /\ left' = [left EXCEPT ![w] = -1] /\ UNCHANGED item

Tick ==
    /\ left' = [w \in Work |-> IF left[w] > 0 THEN left[w] - 1 ELSE left[w]]
    /\ UNCHANGED item

(* A worker takes a work that is due, or has nothing left to do. *)
Begin(i, w) ==
    /\ left[w] = 0
    /\ left' = [left EXCEPT ![w] = -1]
    /\ item' = [item EXCEPT ![i] = w]

Finish(i) == item' = [item EXCEPT ![i] = None] /\ UNCHANGED left

Next ==
    \/ Tick
    \/ \E w \in Work : Cancel(w) \/ \E d \in 0 .. MaxDelay : Queue(w, d)
    \/ \E i \in Workers : Finish(i) \/ \E w \in Work : Begin(i, w)

Spec == Init /\ [][Next]_vars
=============================================================================
