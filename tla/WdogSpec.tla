------------------------------ MODULE WdogSpec -------------------------------
(***************************************************************************)
(* What a watchdog promises (wd_start: "The specified watchdog function    *)
(* will be called from the interrupt level after the specified number of   *)
(* ticks has elapsed"): a set of independent count-down timers.            *)
(*                                                                         *)
(*   left[w]   ticks until w expires, -1 when it is stopped                *)
(*   expiring  the timer interrupt is calling the functions that are due   *)
(*   fn        the watchdog whose function is running                      *)
(***************************************************************************)
EXTENDS Integers

CONSTANTS Dog, IntMax, MaxDelay, None

VARIABLES left, expiring, fn

vars == <<left, expiring, fn>>

Init == left = [w \in Dog |-> -1] /\ expiring = FALSE /\ fn = None

(* One tick is added for the one that has begun. *)
Ticks(delay) == IF delay = 0 THEN 1 ELSE IF delay < IntMax THEN delay + 1 ELSE IntMax

Start(w, delay) ==
    /\ expiring => fn # None
    /\ left' = [left EXCEPT ![w] = Ticks(delay)]
    /\ UNCHANGED <<expiring, fn>>

Stop(w) ==
    /\ expiring => fn # None
    /\ left' = [left EXCEPT ![w] = -1]
    /\ UNCHANGED <<expiring, fn>>

Tick ==
    /\ ~ expiring
    /\ left' = [w \in Dog |-> IF left[w] > 0 THEN left[w] - 1 ELSE left[w]]
    /\ expiring' = (\E w \in Dog : left'[w] = 0)
    /\ UNCHANGED fn

(* A watchdog that is due runs its function and is stopped ... *)
Expire(w) ==
    /\ expiring /\ left[w] = 0
    /\ left' = [left EXCEPT ![w] = -1]
    /\ fn' = w
    /\ UNCHANGED expiring

(* ... and the interrupt ends when no more are due. *)
End ==
    /\ expiring /\ \A w \in Dog : left[w] # 0
    /\ expiring' = FALSE
    /\ fn' = None
    /\ UNCHANGED left

Next ==
    \/ Tick \/ End
    \/ \E w \in Dog : Stop(w) \/ Expire(w) \/ \E d \in 0 .. MaxDelay : Start(w, d)

Spec == Init /\ [][Next]_vars
=============================================================================
