-------------------------------- MODULE Sched --------------------------------
(***************************************************************************)
(* The TizenRT scheduler: pre-emption locking, blocking and unblocking,    *)
(* re-prioritization, round robin, and the part of the task life cycle     *)
(* that moves TCBs between the task lists.  The bodies of the list         *)
(* operations are in SchedOps.                                             *)
(*                                                                         *)
(* Interleaving.  There is one CPU.  Code between irqsave() and            *)
(* irqrestore() is one step up to a context switch; a call that only holds *)
(* sched_lock() is split at the points where an interrupt can be taken,    *)
(* and call[t] remembers where task t is.  The loop of sched_mergepending  *)
(* runs with interrupts disabled: while cursor # 0 it is the only thing    *)
(* that can happen.                                                        *)
(***************************************************************************)
EXTENDS SchedOps

CONSTANTS RRTicks,    \* MSEC2TICK(CONFIG_RR_INTERVAL)
          MaxLock,    \* bound on lockcount (MAX_LOCK_COUNT in the code)
          WaitStates, \* the states tasks of the instance block in
          Api         \* the optional calls the application makes

ASSUME RRAssumption   == RRTicks \in Nat \ {0}
ASSUME LockAssumption == MaxLock \in Nat \ {0}
ASSUME ApiAssumption  == Api \subseteq {"lock", "yield", "setparam", "setscheduler",
                                        "exit", "terminate", "restart"}
ASSUME WaitAssumption == WaitStates \subseteq BlockedState \ {"INACTIVE"}

VARIABLES k,      \* task lists, states, priorities, lock counts (SchedOps)
          cursor, \* rtrtcb of sched_mergepending as an index, 0 when idle
          base,   \* tcb->base_priority
          init,   \* tcb->init_priority
          rr,     \* the tasks with TCB_FLAG_ROUND_ROBIN
          slice,  \* tcb->timeslice
          hashed, \* the tasks found by sched_gettcb (g_pidhash)
          call,   \* the kernel call each task is in
          nest    \* history: sched_lock() calls the task has not undone

vars == <<k, cursor, base, init, rr, slice, hashed, call, nest>>

Op == {"user",    \* not in a kernel call
       "sslock",  \* sched_setscheduler: TCB found, sched_lock() not yet called
       "reprio",  \* before sched_setpriority() in sched_reprioritize()
       "base",    \* after it, base_priority not yet written
       "term",    \* task_terminate: locked, TCB still listed
       "restart", \* task_restart: locked, TCB still listed
       "unlock",  \* before the sched_unlock() that ends the call
       "unlterm", \* same in task_terminate
       "release"} \* task_terminate: unlocked, before sched_releasetcb()
Call == [op : Op, tcb : Task, p : 0 .. MaxPrio, rr : BOOLEAN]
UserCall(t) == [op |-> "user", tcb |-> t, p |-> 0, rr |-> FALSE]

Init ==
    /\ k = [list  |-> [l \in List |-> IF l = "READYTORUN" THEN <<Idle>> ELSE <<>>],
            state |-> [t \in Task |-> IF t = Idle THEN "RUNNING" ELSE "INVALID"],
            prio  |-> [t \in Task |-> 0],
            lock  |-> [t \in Task |-> 0]]
    /\ cursor = 0
    /\ base = [t \in Task |-> 0]
    /\ init = [t \in Task |-> 0]
    /\ rr = {}
    /\ slice = [t \in Task |-> 0]
    /\ hashed = {Idle}
    /\ call = [t \in Task |-> UserCall(t)]
    /\ nest = [t \in Task |-> 0]

r == Running(k)   \* the running task

(* The running task executes the next piece of the call it is in. *)
At(op) == cursor = 0 /\ call[r].op = op

(* A task in user code may call the kernel; the IDLE task only creates the *)
(* first task (os_start) and then runs when nobody else does.              *)
AtUser == At("user") /\ r # Idle
Goto(op) == call' = [call EXCEPT ![r].op = op]
Return == call' = [call EXCEPT ![r] = UserCall(r)]
Enter(op, t, p, robin) ==
    call' = [call EXCEPT ![r] = [op |-> op, tcb |-> t, p |-> p, rr |-> robin]]

(* Install the new lists m and, if `go' and tasks are pending, enter       *)
(* sched_mergepending() at the head of g_readytorun.                       *)
Install(m, go) ==
    /\ k' = m
    /\ cursor' = IF go /\ Pending(m) # <<>> THEN 1 ELSE 0

(* sched_lock() by the running task.  A call is only begun with room for   *)
(* the locks it takes, so that the bound never stops a call in the middle. *)
CanLock == k.lock[r] < MaxLock

(* sched_unlock() by the running task.  The branch on an expired           *)
(* time slice is unreachable: see RRSlicePositive.                         *)
LockDropped == IF k.lock[r] > 0 THEN [k EXCEPT !.lock[r] = @ - 1] ELSE k
sched_unlock == Install(LockDropped, LockDropped.lock[r] = 0)

-----------------------------------------------------------------------------
(* Mutation: the loop ends after one task. *)
MergeOnlyFirst ==
    /\ cursor # 0
    /\ k' = MergeOne(k, cursor)
    /\ cursor' = 0
    /\ UNCHANGED <<base, init, rr, slice, hashed, call, nest>>

(* One iteration of sched_mergepending. *)
MergeStep ==
    /\ cursor # 0
    /\ k' = MergeOne(k, cursor)
    /\ cursor' = IF Len(Pending(k)) > 1 THEN MergePos(k, cursor) ELSE 0
    /\ UNCHANGED <<base, init, rr, slice, hashed, call, nest>>

(* The application's own sched_lock() and sched_unlock(). *)
Lock ==
    /\ "lock" \in Api /\ AtUser /\ CanLock
    /\ k' = Locked(k)
    /\ nest' = [nest EXCEPT ![r] = @ + 1]
    /\ UNCHANGED <<cursor, base, init, rr, slice, hashed, call>>

Unlock ==
    /\ "lock" \in Api /\ AtUser
    /\ sched_unlock
    /\ nest' = [nest EXCEPT ![r] = IF @ > 0 THEN @ - 1 ELSE 0]
    /\ UNCHANGED <<base, init, rr, slice, hashed, call>>

(* The running task waits: up_block_task(rtcb, s). *)
Block(s) ==
    /\ AtUser
    /\ Install(BlockTask(k, r, s), TRUE)
    /\ UNCHANGED <<base, init, rr, slice, hashed, call, nest>>

(* A task or an interrupt handler ends the wait of t: up_unblock_task(t).  *)
(* In a task this ends its kernel call, so only an interrupt does it while *)
(* the running task is inside one; the effect is the same.                 *)
Unblock(t) ==
    /\ cursor = 0
    /\ k.state[t] \in WaitStates
    /\ Install(UnblockTask(k, t), FALSE)
    /\ UNCHANGED <<base, init, rr, slice, hashed, call, nest>>

(* Mutations of the time slice: the expired slice is not renewed, and the  *)
(* next task must have a higher priority.                                  *)
TickNoReset ==
    /\ cursor = 0 /\ r \in rr /\ slice[r] > 0
    /\ slice' = [slice EXCEPT ![r] = @ - 1]
    /\ UNCHANGED <<k, cursor, base, init, rr, hashed, call, nest>>
TickStrict ==
    /\ cursor = 0 /\ r \in rr
    /\ slice' = [slice EXCEPT ![r] = IF @ <= 1 THEN RRTicks ELSE @ - 1]
    /\ IF slice[r] <= 1 /\ Len(Rtr(k)) > 1 /\ k.prio[Rtr(k)[2]] > k.prio[r]
       THEN Install(ReprioritizeRtr(k, r, k.prio[r]), TRUE)
       ELSE UNCHANGED <<k, cursor>>
    /\ UNCHANGED <<base, init, rr, hashed, call, nest>>

(* sched_process_timeslice(), from the timer interrupt. *)
Tick ==
    /\ cursor = 0 /\ r \in rr
    /\ \/ /\ slice[r] <= 1 /\ k.lock[r] = 0
          /\ slice' = [slice EXCEPT ![r] = RRTicks]
          /\ IF Len(Rtr(k)) > 1 /\ k.prio[Rtr(k)[2]] >= k.prio[r]
             THEN LET m == ReprioritizeRtr(k, r, k.prio[r])
                  IN  Install(m, Switched(k, m))
             ELSE UNCHANGED <<k, cursor>>
       \/ /\ slice[r] > 1
          /\ slice' = [slice EXCEPT ![r] = @ - 1]
          /\ UNCHANGED <<k, cursor>>
    /\ UNCHANGED <<base, init, rr, hashed, call, nest>>

-----------------------------------------------------------------------------
(* sched_yield(): sched_setpriority of the running task to its priority.   *)
Yield ==
    /\ "yield" \in Api /\ AtUser
    /\ LET m == sched_setpriority(k, r, k.prio[r]) IN Install(m, Switched(k, m))
    /\ UNCHANGED <<base, init, rr, slice, hashed, call, nest>>

(* sched_setparam(): sched_lock() and the search for the TCB. *)
SetParam(t, p) ==
    /\ "setparam" \in Api /\ AtUser /\ CanLock /\ t \in hashed \ {Idle}
    /\ k' = Locked(k)
    /\ Enter("reprio", t, p, FALSE)
    /\ UNCHANGED <<cursor, base, init, rr, slice, hashed, nest>>

(* sched_setscheduler() searches for the TCB before it locks ...           *)
SetScheduler(t, robin, p) ==
    /\ "setscheduler" \in Api /\ AtUser /\ CanLock /\ t \in hashed \ {Idle}
    /\ Enter("sslock", t, p, robin)
    /\ UNCHANGED <<k, cursor, base, init, rr, slice, hashed, nest>>

(* ... then locks and sets the policy.                                     *)
SetPolicy ==
    /\ At("sslock")
    /\ LET c == call[r] IN
       /\ rr' = IF c.rr THEN rr \cup {c.tcb} ELSE rr \ {c.tcb}
       /\ slice' = [slice EXCEPT ![c.tcb] = IF c.rr THEN RRTicks ELSE 0]
    /\ k' = Locked(k)
    /\ Enter("reprio", call[r].tcb, call[r].p, FALSE)
    /\ UNCHANGED <<cursor, base, init, hashed, nest>>

(* sched_reprioritize(): sched_setpriority() may switch away from the      *)
(* caller although it holds sched_lock(); base_priority is written when it *)
(* runs again.                                                             *)
Reprioritize ==
    /\ At("reprio")
    /\ LET m == sched_setpriority(k, call[r].tcb, call[r].p)
       IN  Install(m, Switched(k, m))
    /\ Goto("base")
    /\ UNCHANGED <<base, init, rr, slice, hashed, nest>>

(* Mutation: sched_reprioritize() returns without the unlock. *)
SetBaseNoUnlock ==
    /\ At("base")
    /\ base' = [base EXCEPT ![call[r].tcb] = call[r].p]
    /\ Return
    /\ UNCHANGED <<k, cursor, init, rr, slice, hashed, nest>>

SetBase ==
    /\ At("base")
    /\ base' = [base EXCEPT ![call[r].tcb] = call[r].p]
    /\ Enter("unlock", r, 0, FALSE)
    /\ UNCHANGED <<k, cursor, init, rr, slice, hashed, nest>>

(* The sched_unlock() at the end of these calls and of task_restart(). *)
UnlockReturn ==
    /\ At("unlock")
    /\ sched_unlock
    /\ Return
    /\ UNCHANGED <<base, init, rr, slice, hashed, nest>>

-----------------------------------------------------------------------------
(* task_schedsetup() for a zero-initialised TCB: it gets a pid, its        *)
(* priority, the round robin policy and a place on the inactive list.      *)
Setup(t, p) ==
    /\ At("user") /\ t \notin hashed
    /\ k' = AddInactive(WithPrio([k EXCEPT !.lock[t] = 0], t, p), t)
    /\ base' = [base EXCEPT ![t] = p]
    /\ init' = [init EXCEPT ![t] = p]
    /\ rr' = rr \cup {t}
    /\ slice' = [slice EXCEPT ![t] = RRTicks]
    /\ hashed' = hashed \cup {t}
    /\ call' = [call EXCEPT ![t] = UserCall(t)]
    /\ nest' = [nest EXCEPT ![t] = 0]
    /\ UNCHANGED cursor

Activate(t) ==
    /\ At("user") /\ k.state[t] = "INACTIVE"
    /\ Install(UnblockTask(k, t), FALSE)
    /\ UNCHANGED <<base, init, rr, slice, hashed, call, nest>>

(* _exit(), task_exit(): the running task leaves the ready list, passes    *)
(* through the inactive list and is released, with interrupts disabled.    *)
(* The lock count taken on its successor meanwhile is given back.          *)
Exit ==
    /\ "exit" \in Api /\ AtUser
    /\ Install(sched_removereadytorun(k, r), TRUE)
    /\ hashed' = hashed \ {r}
    /\ UNCHANGED <<base, init, rr, slice, call, nest>>

(* task_terminate() of another task: sched_lock() and sched_gettcb() ...   *)
Terminate(t) ==
    /\ "terminate" \in Api /\ AtUser /\ CanLock /\ t \in hashed \ {Idle, r}
    /\ k' = Locked(k)
    /\ Enter("term", t, 0, FALSE)
    /\ UNCHANGED <<cursor, base, init, rr, slice, hashed, nest>>

(* ... the TCB leaves its list (a RUNNING task would PANIC; a TCB that is  *)
(* on no list would be unlinked from the list NULL, a fault, so that the   *)
(* call does not continue) ...                                             *)
Unlink(t) == [dq_rem(k, t, ListOf(k.state[t])) EXCEPT !.state[t] = "INVALID"]
TerminateUnlink ==
    /\ At("term")
    /\ k.state[call[r].tcb] \notin {"RUNNING", "INVALID"}
    /\ k' = Unlink(call[r].tcb)
    /\ Goto("unlterm")
    /\ UNCHANGED <<cursor, base, init, rr, slice, hashed, nest>>

(* ... pre-emption is enabled ...                                          *)
TerminateUnlock ==
    /\ At("unlterm")
    /\ sched_unlock
    /\ Goto("release")
    /\ UNCHANGED <<base, init, rr, slice, hashed, nest>>

(* ... and sched_releasetcb() frees the pid and the TCB.                   *)
TerminateRelease ==
    /\ At("release")
    /\ hashed' = hashed \ {call[r].tcb}
    /\ Return
    /\ UNCHANGED <<k, cursor, base, init, rr, slice, nest>>

(* task_restart(): sched_lock(), then the two error returns (the calling   *)
(* task itself: ENOSYS; no such pid: ESRCH), which do not unlock ...       *)
Restart(t) ==
    /\ "restart" \in Api /\ AtUser /\ CanLock /\ t # Idle
    /\ k' = Locked(k)
    /\ IF t = r \/ t \notin hashed THEN Return ELSE Enter("restart", t, 0, FALSE)
    /\ UNCHANGED <<cursor, base, init, rr, slice, hashed, nest>>

(* ... or the TCB is unlinked, re-initialised (not its lock count) and     *)
(* activated from the inactive list.  task_state INVALID is the fault of   *)
(* TerminateUnlink.                                                        *)
RestartActivate ==
    /\ At("restart")
    /\ LET t == call[r].tcb
           m == AddInactive(WithPrio(Unlink(t), t, init[t]), t)
       IN  /\ k.state[t] \notin {"RUNNING", "INVALID"}
           /\ Install(UnblockTask(m, t), FALSE)
           /\ base' = [base EXCEPT ![t] = init[t]]
           /\ call' = [call EXCEPT ![t] = UserCall(t), ![r].op = "unlock"]
           /\ nest' = [nest EXCEPT ![t] = 0]
    /\ UNCHANGED <<init, rr, slice, hashed>>

-----------------------------------------------------------------------------
Next ==
    \/ MergeStep \/ Lock \/ Unlock \/ Tick \/ Yield \/ Exit
    \/ SetPolicy \/ Reprioritize \/ SetBase \/ UnlockReturn
    \/ TerminateUnlink \/ TerminateUnlock \/ TerminateRelease \/ RestartActivate
    \/ \E s \in WaitStates : Block(s)
    \/ \E t \in Task : Unblock(t) \/ Activate(t) \/ Terminate(t) \/ Restart(t)
    \/ \E t \in Task, p \in Prio :
         \/ SetParam(t, p) \/ Setup(t, p)
         \/ \E robin \in BOOLEAN : SetScheduler(t, robin, p)

Spec == Init /\ [][Next]_vars

(* The timer interrupt keeps coming and the merge loop runs on. *)
FairSpec == Spec /\ WF_vars(Tick) /\ WF_vars(MergeStep)

-----------------------------------------------------------------------------
(* Types of the state. *)
TypeOK ==
    /\ KType(k)
    /\ cursor \in Nat
    /\ base \in [Task -> 0 .. MaxPrio]
    /\ init \in [Task -> 0 .. MaxPrio]
    /\ rr \subseteq Task
    /\ slice \in [Task -> Nat]
    /\ hashed \subseteq Task
    /\ call \in [Task -> Call]
    /\ nest \in [Task -> Nat]

(* A TCB is linked into the list its task_state names, exactly once, and   *)
(* into no other (sched_addreadytorun, sched_addblocked, dq_rem ...).      *)
ListsAgree == Placed(k) /\ Unique(k) /\ Present(k)

(* The lists marked prioritized in g_tasklisttable stay in priority order  *)
(* whatever re-prioritizes, merges or moves their tasks.                   *)
ListsInOrder == InOrder(k)

(* sched.h: "The head of this list is the currently active task; the tail  *)
(* of this list is always the IDLE task."                                  *)
ReadyListEnds == IdleLast(k) /\ HeadRuns(k)

(* No pre-emption is missed: a task waits on g_pendingtasks only while the *)
(* running task has pre-emption disabled (or the merge is in progress), so *)
(* no ready task outranks the running one otherwise.                       *)
NoMissedPreemption ==
    cursor = 0 /\ k.lock[r] = 0 =>
        /\ Pending(k) = <<>>
        /\ \A t \in Task : k.state[t] = "READYTORUN" => k.prio[t] <= k.prio[r]

(* A round robin task always has time left, so that the branch of          *)
(* sched_unlock on timeslice == 0 never runs without CONFIG_SCHED_TICKLESS. *)
RRSlicePositive == \A t \in rr : slice[t] > 0

(* Interrupts and other tasks never take the CPU from a ready task that    *)
(* has pre-emption disabled; only its own sched_yield() or                 *)
(* sched_reprioritize() does.                                              *)
LockHoldsCpu ==
    [][ k.lock[r] > 0 /\ k'.state[r] = "READYTORUN" /\ cursor = 0
          => Yield \/ Reprioritize ]_vars

(* A task entering g_readytorun queues behind the ready tasks of its       *)
(* priority, whether directly or through sched_mergepending.               *)
FifoEntry ==
    [][ \A i, j \in 1 .. Len(Rtr(k)') :
          LET t == Rtr(k)'[i]
              u == Rtr(k)'[j]
          IN  /\ ListOf(k.state[t]) # "READYTORUN"
              /\ ListOf(k.state[u]) = "READYTORUN"
              /\ k.prio[u] = k'.prio[t]
              /\ k'.prio[u] = k'.prio[t]
              => j < i ]_vars

(* Every kernel call gives back the pre-emption lock it takes: a task in   *)
(* user code is locked exactly as often as it asked for.                   *)
LockBalanced == \A t \in hashed : call[t].op = "user" => k.lock[t] = nest[t]

(* Round robin: where all tasks have one priority and never disable        *)
(* pre-emption, a ready task gets the CPU, although the running one may    *)
(* never give it up (sched_process_timeslice).                             *)
RoundRobin ==
    \A t \in Task \ {Idle} : k.state[t] = "READYTORUN" ~> k.state[t] # "READYTORUN"

(* task_terminate.c: "At this point, the TCB should no longer be           *)
(* accessible to the system" -- once it is unlinked and pre-emption is     *)
(* enabled again.                                                          *)
UnlinkedNotAccessible ==
    \A t \in Task : call[t].op = "term" => k.state[call[t].tcb] # "INVALID"
=============================================================================
