------------------------------ MODULE SchedCalls ------------------------------
(***************************************************************************)
(* What the rest of the kernel calls of the scheduler, on the record k of  *)
(* SchedOps, when interrupts are disabled: pre-emption is locked and       *)
(* unlocked, tasks block and are unblocked, each with the merge of         *)
(* g_pendingtasks that goes with it as one step (Sched has its steps).     *)
(* k.panic is the assertion that has stopped the system.                   *)
(***************************************************************************)
EXTENDS SchedOps

(* sched_mergepending() with interrupts disabled: the whole loop.          *)
(* Merged(m)[n] is what the first n iterations make of m, and where the    *)
(* search goes on.                                                         *)
Merged(m) ==
    LET f[n \in 0 .. Len(Pending(m))] ==
            IF n = 0 THEN [m |-> m, c |-> 1]
            ELSE LET a == f[n - 1] IN [m |-> MergeOne(a.m, a.c), c |-> MergePos(a.m, a.c)]
    IN  f
sched_mergepending(m) == Merged(m)[Len(Pending(m))].m

(* sched_unlock() *)
Unlocked(m) ==
    LET u == [m EXCEPT !.lock[Running(m)] = @ - 1]
    IN  IF u.lock[Running(m)] = 0 THEN sched_mergepending(u) ELSE u

(* up_block_task(), up_unblock_task() with its assertion, and              *)
(* sched_setpriority() with the merge of up_reprioritize_rtr().            *)
up_block_task(m, t, s) == sched_mergepending(BlockTask(m, t, s))
up_unblock_task(m, t) ==
    IF m.state[t] \in BlockedState THEN UnblockTask(m, t)
    ELSE [m EXCEPT !.panic = "unblock"]
SetPrio(m, t, p) ==
    LET n == sched_setpriority(m, t, p)
    IN  IF Switched(m, n) THEN sched_mergepending(n) ELSE n

(* All tasks are ready: g_readytorun in one of the orders that their       *)
(* activation (base is their priority) can give it, and the states.        *)
ReadyOrder(base) ==
    {q \in [1 .. Cardinality(Task) -> Task] :
        /\ IsInjective(q)
        /\ \A t \in Task : \E i \in DOMAIN q : q[i] = t
        /\ \A i, j \in DOMAIN q : i < j => base[q[i]] >= base[q[j]]}
ReadyLists(q)  == [l \in List |-> IF l = "READYTORUN" THEN q ELSE <<>>]
ReadyStates(q) == [t \in Task |-> IF t = q[1] THEN "RUNNING" ELSE "READYTORUN"]
=============================================================================
