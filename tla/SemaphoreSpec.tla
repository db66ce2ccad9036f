---------------------------- MODULE SemaphoreSpec ----------------------------
(***************************************************************************)
(* What a semaphore promises, without priorities, holder lists, lists of   *)
(* waiting tasks or a count that doubles as the number of waiters: counts  *)
(* that are available, counts that tasks have, and tasks that wait.        *)
(***************************************************************************)
EXTENDS Naturals

CONSTANTS Task, Sem, None,
          MayReset  \* sem_reset() is used

VARIABLES avail,   \* avail[s]: counts nobody has
          got,     \* got[t][s]: counts t has
          waiting  \* waiting[t]: the semaphore t waits for

vars == <<avail, got, waiting>>

Init ==
    /\ avail \in [Sem -> Nat]
    /\ got = [t \in Task |-> [s \in Sem |-> 0]]
    /\ waiting = [t \in Task |-> None]

Wanted(s) == \E t \in Task : waiting[t] = s

(* A count is taken if there is one, and only otherwise does a task wait. *)
Acquire(t, s) ==
    /\ avail[s] > 0 /\ waiting[t] = None
    /\ avail' = [avail EXCEPT ![s] = @ - 1]
    /\ got' = [got EXCEPT ![t][s] = @ + 1]
    /\ UNCHANGED waiting

Block(t, s) ==
    /\ avail[s] = 0 /\ waiting[t] = None
    /\ waiting' = [waiting EXCEPT ![t] = s]
    /\ UNCHANGED <<avail, got>>

(* A count is put back or brought in: a waiter gets it if there is one,    *)
(* and only otherwise is it available.                                     *)
Dropped(t, s) == IF got[t][s] > 0 THEN [got EXCEPT ![t][s] = @ - 1] ELSE got
Give(s, g) ==
    \/ /\ ~ Wanted(s)
       /\ avail' = [avail EXCEPT ![s] = @ + 1]
       /\ got' = g
       /\ UNCHANGED waiting
    \/ \E w \in Task :
         /\ waiting[w] = s
         /\ waiting' = [waiting EXCEPT ![w] = None]
         /\ got' = [g EXCEPT ![w][s] = @ + 1]
         /\ UNCHANGED avail
Release(t, s) == Give(s, Dropped(t, s))
Bring(s) == Give(s, got)

(* A wait ends without a count; a task goes with its counts. *)
Abort(t) ==
    /\ waiting[t] # None
    /\ waiting' = [waiting EXCEPT ![t] = None]
    /\ UNCHANGED <<avail, got>>

Die(t) ==
    /\ waiting[t] = None
    /\ got' = [got EXCEPT ![t] = [s \in Sem |-> 0]]
    /\ UNCHANGED <<avail, waiting>>

Reset(s) ==
    /\ MayReset /\ ~ Wanted(s)
    /\ avail'[s] \in Nat /\ avail' = [avail EXCEPT ![s] = avail'[s]]
    /\ UNCHANGED <<got, waiting>>

Next ==
    \/ \E t \in Task : Abort(t) \/ Die(t)
    \/ \E s \in Sem : Bring(s) \/ Reset(s)
    \/ \E t \in Task, s \in Sem : Acquire(t, s) \/ Block(t, s) \/ Release(t, s)

Spec == Init /\ [][Next]_vars
=============================================================================
