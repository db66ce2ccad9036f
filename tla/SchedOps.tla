------------------------------- MODULE SchedOps -------------------------------
(***************************************************************************)
(* The list primitives of the TizenRT scheduler (os/kernel/sched) and the  *)
(* ARMv7-R context-switch entry points (os/arch/arm/src/armv7-r) as        *)
(* functions on a record k that holds what those functions read and write: *)
(*                                                                         *)
(*   k.list[l]   the TCBs of list l, head first (g_readytorun,             *)
(*               g_pendingtasks, g_waitingforsemaphore, ...)               *)
(*   k.state[t]  tcb->task_state                                           *)
(*   k.prio[t]   tcb->sched_priority                                       *)
(*   k.lock[t]   tcb->lockcount                                            *)
(*                                                                         *)
(* There is one CPU: the running task is the head of g_readytorun, and a   *)
(* context switch is a change of that head.  The dq_queue_t links are      *)
(* abstracted to sequences.                                                *)
(***************************************************************************)
EXTENDS Integers, Sequences, SequencesExt

CONSTANTS Task,     \* the TCBs
          Idle,     \* the TCB of the IDLE task
          MaxPrio   \* SCHED_PRIORITY_MAX

ASSUME IdleAssumption == Idle \in Task
ASSUME PrioAssumption == MaxPrio \in Nat \ {0}

(* SCHED_PRIORITY_MIN .. SCHED_PRIORITY_MAX; only the IDLE task has 0. *)
Prio == 1 .. MaxPrio

(* enum tstate_e *)
BlockedState == {"INACTIVE", "WAIT_SEM", "WAIT_SIG",
                 "WAIT_MQNOTEMPTY", "WAIT_MQNOTFULL"}
TState == {"INVALID", "PENDING", "READYTORUN", "RUNNING"} \cup BlockedState

(* The lists of g_tasklisttable, named after the state they hold; both     *)
(* RUNNING and READYTORUN stand for g_readytorun.                          *)
List == TState \ {"INVALID", "RUNNING"}
ListOf(s) == IF s = "RUNNING" THEN "READYTORUN" ELSE s

(* The prioritized column of g_tasklisttable. *)
Prioritized == List \ {"INACTIVE", "WAIT_SIG"}

Rtr(k)     == k.list["READYTORUN"]
Pending(k) == k.list["PENDING"]
Running(k) == Rtr(k)[1]

-----------------------------------------------------------------------------
(* Mutation: the new TCB goes before those of equal priority. *)
SearchFromBeforeEqual(k, l, from, p) ==
    CHOOSE i \in from .. Len(k.list[l]) + 1 :
        /\ i <= Len(k.list[l]) => k.prio[k.list[l][i]] <= p
        /\ \A j \in from .. i - 1 : k.prio[k.list[l][j]] > p

(* The index at which the search loop shared by sched_addprioritized and   *)
(* sched_mergepending stops, started at index `from': the first TCB of     *)
(* lower priority than p, or one past the end of the list.                 *)
SearchFrom(k, l, from, p) ==
    CHOOSE i \in from .. Len(k.list[l]) + 1 :
        /\ i <= Len(k.list[l]) => k.prio[k.list[l][i]] < p
        /\ \A j \in from .. i - 1 : k.prio[k.list[l][j]] >= p

PutAt(k, l, i, t) == [k EXCEPT !.list[l] = InsertAt(@, i, t)]

sched_addprioritized(k, t, l) == PutAt(k, l, SearchFrom(k, l, 1, k.prio[t]), t)

(* dq_rem: unlink t from list l. *)
IndexIn(k, l, t) == CHOOSE i \in 1 .. Len(k.list[l]) : k.list[l][i] = t
dq_rem(k, t, l)  == [k EXCEPT !.list[l] = RemoveAt(@, IndexIn(k, l, t))]

-----------------------------------------------------------------------------
(* Mutation: pre-emption is never held back. *)
AddReadyNoLock(k, t) ==
    LET m == sched_addprioritized(k, t, "READYTORUN") IN
    IF Running(m) = t
    THEN [m EXCEPT !.state[Running(k)] = "READYTORUN", !.state[t] = "RUNNING"]
    ELSE [m EXCEPT !.state[t] = "READYTORUN"]

(* Make the detached task t ready: it is held on g_pendingtasks if it      *)
(* would pre-empt a running task that has pre-emption disabled, and        *)
(* becomes the running task if it is inserted at the head.                 *)
sched_addreadytorun(k, t) ==
    LET r == Running(k) IN
    IF k.lock[r] > 0 /\ k.prio[r] < k.prio[t]
    THEN [sched_addprioritized(k, t, "PENDING") EXCEPT !.state[t] = "PENDING"]
    ELSE LET m == sched_addprioritized(k, t, "READYTORUN") IN
         IF Running(m) = t
         THEN [m EXCEPT !.state[r] = "READYTORUN", !.state[t] = "RUNNING"]
         ELSE [m EXCEPT !.state[t] = "READYTORUN"]

(* Mutation: the successor is not marked RUNNING. *)
RemoveReadyNoState(k, t) == [dq_rem(k, t, "READYTORUN") EXCEPT !.state[t] = "INVALID"]

(* Detach t from g_readytorun; its successor runs if t was the head. *)
sched_removereadytorun(k, t) ==
    LET m == dq_rem(k, t, "READYTORUN") IN
    IF Running(k) = t
    THEN [m EXCEPT !.state[Running(m)] = "RUNNING", !.state[t] = "INVALID"]
    ELSE [m EXCEPT !.state[t] = "INVALID"]

sched_addblocked(k, t, s) ==
    LET m == IF s \in Prioritized THEN sched_addprioritized(k, t, s)
             ELSE [k EXCEPT !.list[s] = Append(@, t)]
    IN  [m EXCEPT !.state[t] = s]

sched_removeblocked(k, t) ==
    [dq_rem(k, t, k.state[t]) EXCEPT !.state[t] = "INVALID"]

(* Link a detached TCB at the head of g_inactivetasks. *)
AddInactive(k, t) ==
    [k EXCEPT !.list["INACTIVE"] = InsertAt(@, 1, t), !.state[t] = "INACTIVE"]

(* Mutation: the search is skipped. *)
MergePosHere(k, c) == c

(* One iteration of the loop of sched_mergepending, which has reached      *)
(* index c of g_readytorun: move the head of g_pendingtasks there.         *)
MergePos(k, c) == SearchFrom(k, "READYTORUN", c, k.prio[Pending(k)[1]])
MergeOne(k, c) ==
    LET t == Pending(k)[1]
        i == MergePos(k, c)
        m == [PutAt(k, "READYTORUN", i, t) EXCEPT !.list["PENDING"] = Tail(@)]
    IN  IF i = 1
        THEN [m EXCEPT !.state[Running(k)] = "READYTORUN", !.state[t] = "RUNNING"]
        ELSE [m EXCEPT !.state[t] = "READYTORUN"]

-----------------------------------------------------------------------------
(* sched_lock() by the running task. *)
Locked(m) == [m EXCEPT !.lock[Running(m)] = @ + 1]

(* up_block_task and up_reprioritize_rtr up to their call of               *)
(* sched_mergepending, and up_unblock_task.                                *)
BlockTask(k, t, s) == sched_addblocked(sched_removereadytorun(k, t), t, s)

UnblockTask(k, t) == sched_addreadytorun(sched_removeblocked(k, t), t)

WithPrio(k, t, p) == [k EXCEPT !.prio[t] = p]

ReprioritizeRtr(k, t, p) ==
    sched_addreadytorun(WithPrio(sched_removereadytorun(k, t), t, p), t)

(* Mutation: a waiting task is linked again. *)
SetPriorityNoUnlink(k, t, p) ==
    IF ListOf(k.state[t]) = "READYTORUN" THEN ReprioritizeRtr(k, t, p)
    ELSE IF k.state[t] \in Prioritized
    THEN sched_addprioritized(WithPrio(k, t, p), t, k.state[t])
    ELSE WithPrio(k, t, p)

(* sched_setpriority, up to the merge in up_reprioritize_rtr. *)
sched_setpriority(k, t, p) ==
    LET s == k.state[t] IN
    CASE s = "RUNNING" ->
            IF p <= k.prio[Rtr(k)[2]] THEN ReprioritizeRtr(k, t, p)
            ELSE WithPrio(k, t, p)
      [] s = "READYTORUN" -> ReprioritizeRtr(k, t, p)
      [] s \in Prioritized \ {"READYTORUN"} ->
            sched_addprioritized(WithPrio(dq_rem(k, t, s), t, p), t, s)
      [] OTHER -> WithPrio(k, t, p)

(* The condition of up_reprioritize_rtr for a context switch: exactly one  *)
(* of its two list operations changed the head of g_readytorun.            *)
Switched(k, m) == Running(k) # Running(m)

-----------------------------------------------------------------------------
(* What the list operations maintain.  The components that use them keep   *)
(* more fields in the same record.                                         *)
SchedField == {"list", "state", "prio", "lock"}
KType(k) ==
    /\ SchedField \subseteq DOMAIN k
    /\ k.list \in [List -> Seq(Task)] /\ k.state \in [Task -> TState]
    /\ k.prio \in [Task -> 0 .. MaxPrio] /\ k.lock \in [Task -> Nat]

(* A listed TCB has the state that names its list ... *)
Placed(k) ==
    \A l \in List : \A i \in 1 .. Len(k.list[l]) : ListOf(k.state[k.list[l][i]]) = l

(* ... is listed once ... *)
Unique(k) ==
    \A l \in List : \A i, j \in 1 .. Len(k.list[l]) :
        k.list[l][i] = k.list[l][j] => i = j

(* ... and a TCB with a valid state is listed. *)
Present(k) ==
    \A t \in Task : k.state[t] # "INVALID" =>
        \E i \in 1 .. Len(k.list[ListOf(k.state[t])]) :
            k.list[ListOf(k.state[t])][i] = t

(* The prioritized lists are in priority order. *)
InOrder(k) ==
    \A l \in Prioritized : \A i, j \in 1 .. Len(k.list[l]) :
        i < j => k.prio[k.list[l][i]] >= k.prio[k.list[l][j]]

(* g_readytorun ends with the IDLE task, the only one of priority 0. *)
IdleLast(k) ==
    /\ Len(Rtr(k)) > 0
    /\ Rtr(k)[Len(Rtr(k))] = Idle
    /\ k.prio[Idle] = 0
    /\ \A t \in Task \ {Idle} : k.state[t] # "INVALID" => k.prio[t] > 0

(* Exactly the head of g_readytorun is RUNNING. *)
HeadRuns(k) == \A t \in Task : k.state[t] = "RUNNING" <=> t = Running(k)
=============================================================================
