------------------------------ MODULE SchedProof ------------------------------
(* The invariants of the scheduler of module Sched, proved for every set   *)
(* of tasks, priority range and choice of calls.                           *)
EXTENDS Sched, SchedOpsProof

(* The task lists are good, the merge loop is where it should be, and      *)
(* outside of it a task is pending only if pre-emption is disabled.        *)
ListsInv(m, c) ==
    /\ Good(m)
    /\ c # 0 => MergeAt(m, c)
    /\ c = 0 /\ m.lock[Running(m)] = 0 => Pending(m) = <<>>

(* A TCB without a pid is on no list; every pid has a legal priority to    *)
(* restart with.                                                           *)
HashInv ==
    /\ Idle \in hashed
    /\ \A t \in Task \ hashed : k.state[t] = "INVALID"
    /\ \A t \in hashed \ {Idle} : init[t] \in Prio

(* The calls act on tasks other than IDLE, with legal priorities.  The TCB *)
(* that task_terminate() has unlinked stays off the lists and keeps its    *)
(* pid until that same call releases it.                                   *)
Releasing(t) == call[t].op \in {"unlterm", "release"}
CallInv ==
    /\ \A t \in Task : call[t].op \in {"sslock", "reprio"} =>
          call[t].tcb # Idle /\ call[t].p \in Prio
    /\ \A t \in Task : call[t].op \in {"term", "restart"} => call[t].tcb # Idle
    /\ \A t \in Task : Releasing(t) =>
          call[t].tcb \in hashed \ {Idle} /\ k.state[call[t].tcb] = "INVALID"
    /\ \A t, u \in Task : Releasing(t) /\ Releasing(u) /\ call[t].tcb = call[u].tcb => t = u

Inv == TypeOK /\ ListsInv(k, cursor) /\ HashInv /\ CallInv /\ RRSlicePositive

-----------------------------------------------------------------------------
(* The initial state. *)
LEMMA InitInv == Init => Inv
<1> SUFFICES ASSUME Init PROVE Inv
  OBVIOUS
<1>1. TypeOK
  <2>1. KType(k)
    <3>1. [l \in List |-> IF l = "READYTORUN" THEN <<Idle>> ELSE <<>>] \in [List -> Seq(Task)]
      BY IdleAssumption
    <3> QED
      BY <3>1, PrioAssumption DEF Init, KType, SchedField, TState
  <2>2. call \in [Task -> Call]
    BY PrioAssumption DEF Init, UserCall, Call, Op
  <2> QED
    BY <2>1, <2>2, IdleAssumption, PrioAssumption DEF Init, TypeOK
<1>2. /\ k.list = [l \in List |-> IF l = "READYTORUN" THEN <<Idle>> ELSE <<>>]
      /\ k.state = [t \in Task |-> IF t = Idle THEN "RUNNING" ELSE "INVALID"]
      /\ k.prio = [t \in Task |-> 0] /\ k.lock = [t \in Task |-> 0]
      /\ "READYTORUN" \in List /\ "PENDING" \in List /\ KType(k)
  BY <1>1 DEF Init, List, TState, TypeOK
<1>3. Rtr(k) = <<Idle>> /\ Pending(k) = <<>> /\ Running(k) = Idle
  <2>1. Rtr(k) = <<Idle>>
    BY <1>2 DEF Rtr
  <2>2. Pending(k) = <<>>
    BY <1>2 DEF Pending
  <2> QED
    BY <2>1, <2>2 DEF Running
<1>4. Good(k)
  <2>1. Placed(k)
    <3>1. ASSUME NEW l \in List, NEW i \in 1 .. Len(k.list[l])
          PROVE  l = "READYTORUN" /\ k.list[l][i] = Idle
      BY <1>2
    <3> QED
      BY <1>2, <3>1, IdleAssumption DEF Placed, ListOf
  <2>2. Unique(k)
    BY <1>2 DEF Unique
  <2>3. Present(k)
    BY <1>2 DEF Present, ListOf
  <2>4. InOrder(k)
    BY <1>2 DEF InOrder, Prioritized
  <2>5. IdleLast(k) /\ HeadRuns(k)
    BY <1>2, <1>3, IdleAssumption DEF IdleLast, HeadRuns
  <2> QED
    BY <1>2, <2>1, <2>2, <2>3, <2>4, <2>5 DEF Good, Lists
<1>5. ListsInv(k, cursor)
  BY <1>3, <1>4 DEF ListsInv, Init
<1>6. HashInv /\ CallInv /\ RRSlicePositive
  BY <1>2 DEF Init, HashInv, CallInv, Releasing, RRSlicePositive, UserCall
<1> QED
  BY <1>1, <1>5, <1>6 DEF Inv

-----------------------------------------------------------------------------
(* Frame lemmas. *)

(* Installing good lists, with a merge if something pending may pre-empt. *)
LEMMA InstallLemma ==
    ASSUME NEW m, NEW go \in BOOLEAN, Good(m), Install(m, go),
           ~go /\ m.lock[Running(m)] = 0 => Pending(m) = <<>>
    PROVE  k' = m /\ cursor' \in Nat /\ ListsInv(k', cursor')
<1>1. k' = m /\ cursor' = IF go /\ Pending(m) # <<>> THEN 1 ELSE 0
  BY DEF Install
<1>2. Len(Rtr(m)) \in Nat \ {0}
  BY ReadyFacts
<1>3. cursor' = 1 => MergeAt(m, cursor')
  BY <1>1, <1>2 DEF MergeAt
<1>4. cursor' = 0 /\ m.lock[Running(m)] = 0 => Pending(m) = <<>>
  BY <1>1
<1> QED
  BY <1>1, <1>3, <1>4 DEF ListsInv

(* The bookkeeping of pids and calls only depends on which TCBs are on a   *)
(* list.                                                                   *)
LEMMA HashFrame ==
    ASSUME HashInv, SameTasks(k, k'), hashed' = hashed, init' = init
    PROVE  HashInv'
BY DEF HashInv, SameTasks

LEMMA CallFrame ==
    ASSUME TypeOK, CallInv, SameTasks(k, k'), hashed' = hashed, call' = call
    PROVE  CallInv'
BY DEF CallInv, SameTasks, Releasing, TypeOK, Call

(* The running task t goes to a point c of its call that releases nothing. *)
LEMMA CallStep ==
    ASSUME TypeOK, CallInv, SameTasks(k, k'), hashed' = hashed,
           NEW t \in Task, NEW c \in Call, call' = [call EXCEPT ![t] = c],
           c.op \in {"sslock", "reprio"} => c.tcb # Idle /\ c.p \in Prio,
           c.op \in {"term", "restart"} => c.tcb # Idle,
           c.op \notin {"unlterm", "release"}
    PROVE  CallInv' /\ call' \in [Task -> Call]
<1>1. call \in [Task -> Call]
  BY DEF TypeOK
<1>2. call' \in [Task -> Call] /\ call'[t] = c /\ \A u \in Task \ {t} : call'[u] = call[u]
  BY <1>1
<1>3. \A u \in Task : call[u].tcb \in Task
  BY <1>1 DEF Call
<1>4. \A u \in Task : call'[u].op \in {"sslock", "reprio"} =>
          call'[u].tcb # Idle /\ call'[u].p \in Prio
  BY <1>2 DEF CallInv
<1>5. \A u \in Task : call'[u].op \in {"term", "restart"} => call'[u].tcb # Idle
  BY <1>2 DEF CallInv
<1>6. \A u \in Task : Releasing(u)' => Releasing(u) /\ call'[u] = call[u]
  BY <1>2 DEF Releasing
<1>7. \A u \in Task : Releasing(u)' =>
          call'[u].tcb \in hashed' \ {Idle} /\ k'.state[call'[u].tcb] = "INVALID"
  BY <1>3, <1>6 DEF CallInv, SameTasks
<1>8. \A u, v \in Task : Releasing(u)' /\ Releasing(v)' /\ call'[u].tcb = call'[v].tcb => u = v
  BY <1>6 DEF CallInv
<1> QED
  BY <1>2, <1>4, <1>5, <1>7, <1>8 DEF CallInv

(* The running task and the lists it acts on. *)
LEMMA RunFacts ==
    ASSUME Inv
    PROVE  /\ Good(k) /\ r \in Task /\ k.state[r] = "RUNNING" /\ KType(k)
           /\ k.lock \in [Task -> Nat] /\ k.state \in [Task -> TState] /\ k.prio \in [Task -> 0 .. MaxPrio]
           /\ k.lock[r] \in Nat /\ TypeOK /\ HashInv /\ CallInv /\ RRSlicePositive
           /\ call \in [Task -> Call] /\ call[r] \in Call
           /\ cursor = 0 /\ k.lock[r] = 0 => Pending(k) = <<>>
BY ReadyFacts DEF Inv, ListsInv, Good, Lists, KType, r, TypeOK

(* sched_lock(). *)
LEMMA LockedLemma ==
    ASSUME Inv, k' = Locked(k), cursor' = 0
    PROVE  ListsInv(k', cursor') /\ SameTasks(k, k') /\ KType(k')
<1>1. Good(k) /\ r \in Task /\ k.lock \in [Task -> Nat] /\ k.lock[r] \in Nat
  BY RunFacts
<1> DEFINE n == k.lock[r] + 1
           m == [k EXCEPT !.lock[r] = n]
<1>2. n \in Nat /\ n # 0
  BY <1>1
<1>3. k' = m
  BY DEF Locked, r
<1> HIDE DEF n
<1>4. /\ Good(m) /\ m.state = k.state /\ m.lock = [k.lock EXCEPT ![r] = n]
      /\ Running(m) = r
  BY <1>1, <1>2, LockCountLemma DEF r
<1> HIDE DEF m
<1>5. m.lock[Running(m)] # 0
  BY <1>1, <1>2, <1>4
<1> QED
  BY <1>3, <1>4, <1>5 DEF ListsInv, SameTasks, Good, Lists

(* sched_unlock(). *)
LEMMA UnlockedLemma ==
    ASSUME Inv, sched_unlock
    PROVE  ListsInv(k', cursor') /\ SameTasks(k, k') /\ KType(k') /\ cursor' \in Nat
<1>1. Good(k) /\ r \in Task /\ k.lock \in [Task -> Nat] /\ k.lock[r] \in Nat
  BY RunFacts
<1> DEFINE m == LockDropped
<1>2. Good(m) /\ m.state = k.state /\ Running(m) = r
  <2>1. CASE k.lock[r] > 0
    <3> DEFINE n == k.lock[r] - 1
    <3>1. n \in Nat
      BY <1>1, <2>1
    <3>2. m = [k EXCEPT !.lock[r] = n]
      BY <2>1 DEF LockDropped
    <3> HIDE DEF n
    <3> QED
      BY <1>1, <3>1, <3>2, LockCountLemma DEF r
  <2>2. CASE ~(k.lock[r] > 0)
    <3>1. m = k
      BY <2>2 DEF LockDropped
    <3> QED
      BY <1>1, <3>1 DEF r
  <2> QED
    BY <2>1, <2>2
<1> DEFINE go == LockDropped.lock[r] = 0
<1>3. Install(m, go) /\ go \in BOOLEAN
  BY DEF sched_unlock
<1>4. ~go /\ m.lock[Running(m)] = 0 => Pending(m) = <<>>
  BY <1>2
<1> HIDE DEF m, go
<1>5. k' = m /\ cursor' \in Nat /\ ListsInv(k', cursor')
  BY <1>2, <1>3, <1>4, InstallLemma
<1> QED
  BY <1>2, <1>5 DEF SameTasks, Good, Lists

(* A re-prioritization that merges what is pending if it switched tasks. *)
LEMMA SwitchLemma ==
    ASSUME Inv, cursor = 0, NEW m, Good(m), m.lock = k.lock, SameTasks(k, m), Preempts(k, m),
           Install(m, Switched(k, m))
    PROVE  ListsInv(k', cursor') /\ SameTasks(k, k') /\ KType(k') /\ cursor' \in Nat
<1>1. Good(k) /\ (k.lock[r] = 0 => Pending(k) = <<>>)
  BY RunFacts
<1>2. ~Switched(k, m) /\ m.lock[Running(m)] = 0 => Pending(m) = <<>>
  BY <1>1 DEF Switched, Preempts, r
<1>3. Switched(k, m) \in BOOLEAN
  BY DEF Switched
<1>4. k' = m /\ cursor' \in Nat /\ ListsInv(k', cursor')
  BY <1>2, <1>3, InstallLemma
<1> QED
  BY <1>4 DEF Good, Lists

(* The end of a wait. *)
LEMMA WakeLemma ==
    ASSUME Inv, cursor = 0, NEW t \in Task, k.state[t] \in BlockedState,
           Install(UnblockTask(k, t), FALSE)
    PROVE  ListsInv(k', cursor') /\ SameTasks(k, k') /\ KType(k') /\ cursor' \in Nat
<1> DEFINE m == UnblockTask(k, t)
<1>1. Good(k) /\ (k.lock[r] = 0 => Pending(k) = <<>>)
  BY RunFacts
<1>2. /\ Good(m) /\ m.lock = k.lock /\ SameTasks(k, m)
      /\ Running(m) = Running(k) \/ k.lock[Running(k)] = 0
      /\ k.lock[Running(k)] = 0 /\ Pending(k) = <<>> => Pending(m) = <<>>
  BY <1>1, UnblockLemma
<1> HIDE DEF m
<1>3. m.lock[Running(m)] = 0 => Pending(m) = <<>>
  BY <1>1, <1>2 DEF r
<1>4. k' = m /\ cursor' \in Nat /\ ListsInv(k', cursor')
  BY <1>2, <1>3, InstallLemma DEF m
<1> QED
  BY <1>2, <1>4 DEF Good, Lists

-----------------------------------------------------------------------------
(* Every step keeps the invariant. *)
(* The steps that change nothing but the lists. *)
LEMMA ListStep ==
    ASSUME Inv, ListsInv(k', cursor'), SameTasks(k, k'), KType(k'), cursor' \in Nat,
           UNCHANGED <<base, init, rr, slice, hashed, call>>, nest' \in [Task -> Nat]
    PROVE  Inv'
<1>1. HashInv' /\ CallInv'
  BY HashFrame, CallFrame DEF Inv
<1> QED
  BY <1>1 DEF Inv, TypeOK, RRSlicePositive

(* The steps that also move the running task to another point of its call. *)
LEMMA OpStep ==
    ASSUME Inv, ListsInv(k', cursor'), SameTasks(k, k'), KType(k'), cursor' \in Nat,
           UNCHANGED <<init, hashed, nest>>, base' \in [Task -> 0 .. MaxPrio],
           rr' \subseteq Task, slice' \in [Task -> Nat], RRSlicePositive',
           NEW t \in Task, NEW c \in Call, call' = [call EXCEPT ![t] = c],
           c.op \in {"sslock", "reprio"} => c.tcb # Idle /\ c.p \in Prio,
           c.op \in {"term", "restart"} => c.tcb # Idle,
           c.op \notin {"unlterm", "release"}
    PROVE  Inv'
<1>1. HashInv' /\ CallInv' /\ call' \in [Task -> Call]
  BY HashFrame, CallStep DEF Inv
<1> QED
  BY <1>1 DEF Inv, TypeOK

LEMMA MergeInv == ASSUME Inv, MergeStep PROVE Inv'
<1>1. Good(k) /\ MergeAt(k, cursor)
  BY DEF Inv, ListsInv, MergeStep
<1> DEFINE m == MergeOne(k, cursor)
<1>2. /\ Good(m) /\ SameTasks(k, m)
      /\ IF Len(Pending(k)) > 1 THEN MergeAt(m, MergePos(k, cursor)) ELSE Pending(m) = <<>>
  BY <1>1, MergeLemma
<1> HIDE DEF m
<1>3. k' = m /\ cursor' = IF Len(Pending(k)) > 1 THEN MergePos(k, cursor) ELSE 0
  BY DEF MergeStep, m
<1>4. ListsInv(k', cursor') /\ cursor' \in Nat
  <2>1. Len(Rtr(m)) \in Nat
    BY <1>2, ReadyFacts
  <2>2. CASE Len(Pending(k)) > 1
    BY <1>2, <1>3, <2>1, <2>2 DEF ListsInv, MergeAt
  <2>3. CASE ~(Len(Pending(k)) > 1)
    BY <1>2, <1>3, <2>3 DEF ListsInv
  <2> QED
    BY <2>2, <2>3
<1>5. UNCHANGED <<base, init, rr, slice, hashed, call>> /\ nest' \in [Task -> Nat]
  BY DEF MergeStep, Inv, TypeOK
<1> QED
  BY <1>2, <1>3, <1>4, <1>5, ListStep DEF Good, Lists

LEMMA LockInv == ASSUME Inv, Lock PROVE Inv'
<1>1. k' = Locked(k) /\ cursor' = 0
  BY DEF Lock, AtUser, At
<1>2. UNCHANGED <<base, init, rr, slice, hashed, call>> /\ nest' \in [Task -> Nat]
  <2>1. r \in Task /\ nest \in [Task -> Nat] /\ nest[r] \in Nat
    BY RunFacts DEF TypeOK
  <2> QED
    BY <2>1 DEF Lock
<1> QED
  BY <1>1, <1>2, LockedLemma, ListStep

LEMMA UnlockInv == ASSUME Inv, Unlock PROVE Inv'
<1>1. sched_unlock
  BY DEF Unlock
<1>2. UNCHANGED <<base, init, rr, slice, hashed, call>> /\ nest' \in [Task -> Nat]
  <2>1. r \in Task /\ nest \in [Task -> Nat] /\ nest[r] \in Nat
    BY RunFacts DEF TypeOK
  <2> QED
    BY <2>1 DEF Unlock
<1> QED
  BY <1>1, <1>2, UnlockedLemma, ListStep

LEMMA BlockInv == ASSUME Inv, NEW s \in WaitStates, Block(s) PROVE Inv'
<1>1. Good(k) /\ Running(k) # Idle /\ s \in BlockedState
  BY RunFacts, WaitAssumption DEF Block, AtUser, r
<1> DEFINE m == BlockTask(k, Running(k), s)
<1>2. Good(m) /\ SameTasks(k, m)
  BY <1>1, BlockLemma
<1> HIDE DEF m
<1>3. k' = m /\ cursor' \in Nat /\ ListsInv(k', cursor')
  BY <1>2, InstallLemma DEF Block, m, r
<1>4. UNCHANGED <<base, init, rr, slice, hashed, call>> /\ nest' \in [Task -> Nat]
  BY DEF Block, Inv, TypeOK
<1> QED
  BY <1>2, <1>3, <1>4, ListStep DEF Good, Lists

LEMMA UnblockInv == ASSUME Inv, NEW t \in Task, Unblock(t) \/ Activate(t) PROVE Inv'
<1>1. cursor = 0 /\ k.state[t] \in BlockedState /\ Install(UnblockTask(k, t), FALSE)
  BY WaitAssumption DEF Unblock, Activate, At, BlockedState
<1>2. UNCHANGED <<base, init, rr, slice, hashed, call>> /\ nest' \in [Task -> Nat]
  BY DEF Unblock, Activate, Inv, TypeOK
<1> QED
  BY <1>1, <1>2, WakeLemma, ListStep

LEMMA TickInv == ASSUME Inv, Tick PROVE Inv'
<1>1. /\ Good(k) /\ r \in Task /\ k.state[r] = "RUNNING" /\ cursor = 0 /\ KType(k)
      /\ k.prio \in [Task -> 0 .. MaxPrio]
  BY RunFacts DEF Tick
<1>2. ListsInv(k', cursor') /\ SameTasks(k, k') /\ KType(k') /\ cursor' \in Nat
  <2>1. CASE UNCHANGED <<k, cursor>>
    BY <1>1, <2>1 DEF Inv, SameTasks, TypeOK
  <2>2. CASE LET m == ReprioritizeRtr(k, r, k.prio[r]) IN
             Install(m, Switched(k, m)) /\ Len(Rtr(k)) > 1
    <3> DEFINE m == ReprioritizeRtr(k, r, k.prio[r])
    <3>1. r # Idle
      <4>1. Len(Rtr(k)) \in Nat /\ Rtr(k)[1] = r /\ Rtr(k)[Len(Rtr(k))] = Idle
        BY <1>1, ReadyFacts DEF Good, IdleLast, r, Running
      <4>2. Rtr(k) = k.list["READYTORUN"] /\ "READYTORUN" \in List
        BY DEF Rtr, List, TState
      <4> QED
        BY <1>1, <2>2, <4>1, <4>2 DEF Good, Lists, Unique
    <3>2. k.prio[r] \in Prio /\ ListOf(k.state[r]) = "READYTORUN"
      BY <1>1, <3>1, PrioAssumption DEF Good, IdleLast, Prio, ListOf
    <3>3. Good(m) /\ m.lock = k.lock /\ SameTasks(k, m) /\ Preempts(k, m)
      BY <1>1, <3>1, <3>2, ReprioLemma
    <3>4. Install(m, Switched(k, m))
      BY <2>2
    <3> HIDE DEF m
    <3> QED
      BY <1>1, <3>3, <3>4, SwitchLemma
  <2> QED
    BY <2>1, <2>2 DEF Tick
<1>3. slice' \in [Task -> Nat] /\ RRSlicePositive'
  <2>1. slice \in [Task -> Nat] /\ rr \subseteq Task /\ rr' = rr /\ \A t \in rr : slice[t] > 0
    BY DEF Tick, Inv, TypeOK, RRSlicePositive
  <2>2. slice' = [slice EXCEPT ![r] = RRTicks] \/ (slice[r] > 1 /\ slice' = [slice EXCEPT ![r] = @ - 1])
    BY DEF Tick
  <2>3. RRTicks \in Nat /\ RRTicks > 0 /\ slice[r] \in Nat
    BY <1>1, <2>1, RRAssumption
  <2> QED
    BY <1>1, <2>1, <2>2, <2>3 DEF RRSlicePositive
<1>4. HashInv' /\ CallInv'
  BY <1>2, HashFrame, CallFrame DEF Inv, Tick
<1> QED
  BY <1>2, <1>3, <1>4 DEF Inv, TypeOK, Tick

LEMMA YieldInv == ASSUME Inv, Yield PROVE Inv'
<1>1. /\ Good(k) /\ r \in Task \ {Idle} /\ k.state[r] = "RUNNING" /\ cursor = 0
      /\ k.prio \in [Task -> 0 .. MaxPrio]
  BY RunFacts DEF Yield, AtUser, At
<1>2. k.prio[r] \in Prio
  BY <1>1, PrioAssumption DEF Good, IdleLast, Prio
<1> DEFINE m == sched_setpriority(k, r, k.prio[r])
<1>3. Good(m) /\ m.lock = k.lock /\ SameTasks(k, m) /\ Preempts(k, m)
  BY <1>1, <1>2, SetPriorityLemma
<1>4. Install(m, Switched(k, m))
  BY DEF Yield
<1> HIDE DEF m
<1>5. ListsInv(k', cursor') /\ SameTasks(k, k') /\ KType(k') /\ cursor' \in Nat
  BY <1>1, <1>3, <1>4, SwitchLemma
<1>6. UNCHANGED <<base, init, rr, slice, hashed, call>> /\ nest' \in [Task -> Nat]
  BY DEF Yield, Inv, TypeOK
<1> QED
  BY <1>5, <1>6, ListStep

(* A call record. *)
LEMMA CallRecord ==
    ASSUME NEW op \in Op, NEW t \in Task, NEW p \in 0 .. MaxPrio, NEW b \in BOOLEAN
    PROVE  LET c == [op |-> op, tcb |-> t, p |-> p, rr |-> b] IN
           c \in Call /\ c.op = op /\ c.tcb = t /\ c.p = p
BY DEF Call

LEMMA SetParamInv == ASSUME Inv, NEW t \in Task, NEW p \in Prio, SetParam(t, p) PROVE Inv'
<1>1. /\ k' = Locked(k) /\ cursor' = 0 /\ t \in Task \ {Idle} /\ p \in 0 .. MaxPrio
      /\ r \in Task /\ "reprio" \in Op /\ FALSE \in BOOLEAN
  BY RunFacts, PrioAssumption DEF SetParam, AtUser, At, Prio, Op
<1> DEFINE c == [op |-> "reprio", tcb |-> t, p |-> p, rr |-> FALSE]
<1>2. c \in Call /\ c.op = "reprio" /\ c.tcb = t /\ c.p = p
  BY <1>1, CallRecord
<1>3. call' = [call EXCEPT ![r] = c] /\ UNCHANGED <<base, init, rr, slice, hashed, nest>>
  BY DEF SetParam, Enter
<1>4. base' \in [Task -> 0 .. MaxPrio] /\ rr' \subseteq Task /\ slice' \in [Task -> Nat] /\ RRSlicePositive'
  BY <1>3 DEF Inv, TypeOK, RRSlicePositive
<1>5. ListsInv(k', cursor') /\ SameTasks(k, k') /\ KType(k') /\ cursor' \in Nat
  BY <1>1, LockedLemma
<1> HIDE DEF c
<1> QED
  BY <1>1, <1>2, <1>3, <1>4, <1>5, OpStep

LEMMA SetSchedulerInv ==
    ASSUME Inv, NEW t \in Task, NEW b \in BOOLEAN, NEW p \in Prio, SetScheduler(t, b, p)
    PROVE  Inv'
<1>1. t \in Task \ {Idle} /\ p \in 0 .. MaxPrio /\ r \in Task /\ "sslock" \in Op
  BY RunFacts, PrioAssumption DEF SetScheduler, Prio, Op
<1> DEFINE c == [op |-> "sslock", tcb |-> t, p |-> p, rr |-> b]
<1>2. c \in Call /\ c.op = "sslock" /\ c.tcb = t /\ c.p = p
  BY <1>1, CallRecord
<1>3. call' = [call EXCEPT ![r] = c] /\ UNCHANGED <<k, cursor, base, init, rr, slice, hashed, nest>>
  BY DEF SetScheduler, Enter
<1>4. base' \in [Task -> 0 .. MaxPrio] /\ rr' \subseteq Task /\ slice' \in [Task -> Nat] /\ RRSlicePositive'
  BY <1>3 DEF Inv, TypeOK, RRSlicePositive
<1>5. ListsInv(k', cursor') /\ SameTasks(k, k') /\ KType(k') /\ cursor' \in Nat
  BY <1>3 DEF Inv, TypeOK, SameTasks
<1> HIDE DEF c
<1> QED
  BY <1>1, <1>2, <1>3, <1>4, <1>5, OpStep

LEMMA SetPolicyInv == ASSUME Inv, SetPolicy PROVE Inv'
<1> DEFINE d == call[r]
           c == [op |-> "reprio", tcb |-> d.tcb, p |-> d.p, rr |-> FALSE]
<1>1. /\ k' = Locked(k) /\ cursor' = 0 /\ r \in Task /\ "reprio" \in Op /\ FALSE \in BOOLEAN
      /\ d.tcb \in Task /\ d.p \in 0 .. MaxPrio /\ d.rr \in BOOLEAN /\ d.op = "sslock"
  BY RunFacts DEF SetPolicy, At, Op, Call
<1>2. d.tcb # Idle /\ d.p \in Prio
  BY <1>1, RunFacts DEF CallInv
<1>3. c \in Call /\ c.op = "reprio" /\ c.tcb = d.tcb /\ c.p = d.p
  BY <1>1, CallRecord
<1>4. call' = [call EXCEPT ![r] = c] /\ UNCHANGED <<base, init, hashed, nest>>
  BY DEF SetPolicy, Enter
<1>5. /\ rr' = IF d.rr THEN rr \cup {d.tcb} ELSE rr \ {d.tcb}
      /\ slice' = [slice EXCEPT ![d.tcb] = IF d.rr THEN RRTicks ELSE 0]
  BY DEF SetPolicy
<1>6. ListsInv(k', cursor') /\ SameTasks(k, k') /\ KType(k') /\ cursor' \in Nat
  BY <1>1, LockedLemma
<1> HIDE DEF c, d
<1>7. base' \in [Task -> 0 .. MaxPrio] /\ rr' \subseteq Task /\ slice' \in [Task -> Nat] /\ RRSlicePositive'
  <2>1. slice \in [Task -> Nat] /\ rr \subseteq Task /\ (\A t \in rr : slice[t] > 0)
        /\ base \in [Task -> 0 .. MaxPrio] /\ RRTicks \in Nat /\ RRTicks > 0
    BY RRAssumption DEF Inv, TypeOK, RRSlicePositive
  <2> QED
    BY <1>1, <1>4, <1>5, <2>1 DEF RRSlicePositive
<1> QED
  BY <1>1, <1>2, <1>3, <1>4, <1>6, <1>7, OpStep

(* A call goes from one point to the next. *)
LEMMA GotoRecord ==
    ASSUME NEW d \in Call, NEW op \in Op
    PROVE  LET c == [d EXCEPT !.op = op] IN
           c \in Call /\ c.op = op /\ c.tcb = d.tcb /\ c.p = d.p
BY DEF Call

LEMMA ReprioritizeInv == ASSUME Inv, Reprioritize PROVE Inv'
<1> DEFINE d == call[r]
           c == [d EXCEPT !.op = "base"]
           m == sched_setpriority(k, d.tcb, d.p)
<1>1. Good(k) /\ r \in Task /\ d \in Call /\ d.op = "reprio" /\ cursor = 0 /\ "base" \in Op
  BY RunFacts DEF Reprioritize, At, Op
<1>2. d.tcb \in Task \ {Idle} /\ d.p \in Prio
  BY <1>1, RunFacts DEF CallInv, Call
<1>3. c \in Call /\ c.op = "base"
  BY <1>1, GotoRecord
<1>4. call' = [call EXCEPT ![r] = c] /\ Install(m, Switched(k, m))
      /\ UNCHANGED <<base, init, rr, slice, hashed, nest>>
  BY DEF Reprioritize, Goto
<1> HIDE DEF c, d
<1>5. Good(m) /\ m.lock = k.lock /\ SameTasks(k, m) /\ Preempts(k, m)
  BY <1>1, <1>2, SetPriorityLemma
<1> HIDE DEF m
<1>6. ListsInv(k', cursor') /\ SameTasks(k, k') /\ KType(k') /\ cursor' \in Nat
  BY <1>1, <1>4, <1>5, SwitchLemma
<1>7. base' \in [Task -> 0 .. MaxPrio] /\ rr' \subseteq Task /\ slice' \in [Task -> Nat] /\ RRSlicePositive'
  BY <1>4 DEF Inv, TypeOK, RRSlicePositive
<1> QED
  BY <1>1, <1>3, <1>4, <1>6, <1>7, OpStep

LEMMA SetBaseInv == ASSUME Inv, SetBase PROVE Inv'
<1> DEFINE c == [op |-> "unlock", tcb |-> r, p |-> 0, rr |-> FALSE]
<1>1. r \in Task /\ "unlock" \in Op /\ FALSE \in BOOLEAN /\ 0 \in 0 .. MaxPrio /\ call[r] \in Call
  BY RunFacts, PrioAssumption DEF Op
<1>2. c \in Call /\ c.op = "unlock"
  BY <1>1, CallRecord
<1>3. call' = [call EXCEPT ![r] = c] /\ UNCHANGED <<k, cursor, init, rr, slice, hashed, nest>>
  BY DEF SetBase, Enter
<1>4. base' = [base EXCEPT ![call[r].tcb] = call[r].p] /\ call[r].p \in 0 .. MaxPrio
  BY <1>1 DEF SetBase, Call
<1>5. base' \in [Task -> 0 .. MaxPrio] /\ rr' \subseteq Task /\ slice' \in [Task -> Nat] /\ RRSlicePositive'
  BY <1>3, <1>4 DEF Inv, TypeOK, RRSlicePositive
<1>6. ListsInv(k', cursor') /\ SameTasks(k, k') /\ KType(k') /\ cursor' \in Nat
  BY <1>3 DEF Inv, TypeOK, SameTasks
<1> HIDE DEF c
<1> QED
  BY <1>1, <1>2, <1>3, <1>5, <1>6, OpStep

(* The return to user code. *)
LEMMA UserRecord ==
    ASSUME NEW t \in Task
    PROVE  UserCall(t) \in Call /\ UserCall(t).op = "user"
BY PrioAssumption DEF UserCall, Call, Op

LEMMA UnlockReturnInv == ASSUME Inv, UnlockReturn PROVE Inv'
<1>1. /\ r \in Task /\ sched_unlock /\ call' = [call EXCEPT ![r] = UserCall(r)]
      /\ UNCHANGED <<base, init, rr, slice, hashed, nest>>
  BY RunFacts DEF UnlockReturn, Return
<1>2. UserCall(r) \in Call /\ UserCall(r).op = "user"
  BY <1>1, UserRecord
<1>3. base' \in [Task -> 0 .. MaxPrio] /\ rr' \subseteq Task /\ slice' \in [Task -> Nat] /\ RRSlicePositive'
  BY <1>1 DEF Inv, TypeOK, RRSlicePositive
<1>4. ListsInv(k', cursor') /\ SameTasks(k, k') /\ KType(k') /\ cursor' \in Nat
  BY <1>1, UnlockedLemma
<1> QED
  BY <1>1, <1>2, <1>3, <1>4, OpStep

LEMMA SetupInv == ASSUME Inv, NEW t \in Task, NEW p \in Prio, Setup(t, p) PROVE Inv'
<1>1. /\ Good(k) /\ cursor = 0 /\ cursor' = 0 /\ t \in Task \ {Idle} /\ t \notin hashed
      /\ k.state[t] = "INVALID" /\ p \in 0 .. MaxPrio
  BY RunFacts, PrioAssumption DEF Setup, At, HashInv, Prio
<1>2. /\ hashed' = hashed \cup {t} /\ call' = [call EXCEPT ![t] = UserCall(t)]
      /\ rr' = rr \cup {t} /\ slice' = [slice EXCEPT ![t] = RRTicks]
      /\ base' = [base EXCEPT ![t] = p] /\ init' = [init EXCEPT ![t] = p]
      /\ nest' = [nest EXCEPT ![t] = 0]
  BY DEF Setup
<1> DEFINE m == AddInactive(WithPrio([k EXCEPT !.lock[t] = 0], t, p), t)
<1>3. /\ Good(m) /\ m.state = [k.state EXCEPT ![t] = "INACTIVE"]
      /\ m.lock = [k.lock EXCEPT ![t] = 0]
      /\ Running(m) = Running(k) /\ Pending(m) = Pending(k)
  BY <1>1, SetupLemma
<1>4. k' = m
  BY DEF Setup
<1> HIDE DEF m
<1>5. ListsInv(k', cursor')
  <2>1. Running(k) # t /\ Running(k) \in Task /\ k.lock \in [Task -> Nat]
        /\ (k.lock[Running(k)] = 0 => Pending(k) = <<>>)
    BY <1>1, RunFacts DEF r
  <2> QED
    BY <1>1, <1>3, <1>4, <2>1 DEF ListsInv
<1>6. /\ k.state \in [Task -> TState] /\ call \in [Task -> Call] /\ init \in [Task -> 0 .. MaxPrio]
      /\ hashed \subseteq Task /\ slice \in [Task -> Nat] /\ rr \subseteq Task
      /\ base \in [Task -> 0 .. MaxPrio] /\ nest \in [Task -> Nat]
  BY RunFacts DEF TypeOK
<1>7. UserCall(t) \in Call /\ UserCall(t).op = "user"
  BY UserRecord
<1>8. HashInv'
  <2>1. k'.state = [k.state EXCEPT ![t] = "INACTIVE"] /\ hashed' = hashed \cup {t}
        /\ init' = [init EXCEPT ![t] = p]
    BY <1>2, <1>3, <1>4
  <2>2. /\ Idle \in hashed /\ \A u \in Task \ hashed : k.state[u] = "INVALID"
        /\ \A u \in hashed \ {Idle} : init[u] \in Prio
    BY RunFacts DEF HashInv
  <2>3. \A u \in Task \ hashed' : k'.state[u] = "INVALID"
    BY <1>6, <2>1, <2>2
  <2>4. \A u \in hashed' \ {Idle} : init'[u] \in Prio
    BY <1>6, <2>1, <2>2
  <2> QED
    BY <2>1, <2>2, <2>3, <2>4 DEF HashInv
<1>9. CallInv'
  <2>1. \A u \in Task : call'[u].op # "user" => u # t /\ call'[u] = call[u]
    BY <1>2, <1>6, <1>7
  <2>2. \A u \in Task : Releasing(u)' => Releasing(u) /\ call'[u] = call[u]
    BY <2>1 DEF Releasing
  <2>3. \A u \in Task : Releasing(u) => k'.state[call[u].tcb] = "INVALID" /\ call[u].tcb \in hashed' \ {Idle}
    <3>1. k'.state = [k.state EXCEPT ![t] = "INACTIVE"] /\ hashed' = hashed \cup {t}
      BY <1>2, <1>3, <1>4
    <3>2. \A u \in Task : Releasing(u) => call[u].tcb \in hashed \ {Idle}
                                          /\ k.state[call[u].tcb] = "INVALID"
      BY RunFacts DEF CallInv
    <3> QED
      BY <1>1, <1>6, <3>1, <3>2
  <2>4. /\ \A u \in Task : call'[u].op \in {"sslock", "reprio"} =>
              call'[u].tcb # Idle /\ call'[u].p \in Prio
        /\ \A u \in Task : call'[u].op \in {"term", "restart"} => call'[u].tcb # Idle
    BY <2>1, RunFacts DEF CallInv
  <2>5. \A u, v \in Task : Releasing(u)' /\ Releasing(v)' /\ call'[u].tcb = call'[v].tcb => u = v
    BY <2>2, RunFacts DEF CallInv
  <2> QED
    BY <2>2, <2>3, <2>4, <2>5 DEF CallInv
<1>10. slice' \in [Task -> Nat] /\ RRSlicePositive'
  <2>1. RRTicks \in Nat /\ RRTicks > 0
    BY RRAssumption
  <2> QED
    BY <1>2, <1>6, <2>1, RunFacts DEF RRSlicePositive
<1>11. TypeOK'
  BY <1>1, <1>2, <1>3, <1>4, <1>6, <1>7, <1>10 DEF TypeOK, Good, Lists
<1> QED
  BY <1>5, <1>8, <1>9, <1>10, <1>11 DEF Inv

(* hashed shrinks by t, which is off the lists and which no call releases. *)
LEMMA UnhashLemma ==
    ASSUME Inv, NEW t \in Task \ {Idle}, hashed' = hashed \ {t}, init' = init,
           k'.state[t] = "INVALID",
           \A u \in Task \ {t} : k'.state[u] = "INVALID" <=> k.state[u] = "INVALID",
           call' \in [Task -> Call],
           \A u \in Task : call'[u].op = "user" \/ call'[u] = call[u],
           \A u \in Task : Releasing(u)' => call[u].tcb # t
    PROVE  HashInv' /\ CallInv'
<1>0. call \in [Task -> Call] /\ HashInv /\ CallInv
  BY RunFacts
<1>1. HashInv'
  BY <1>0 DEF HashInv
<1>2. \A u \in Task : Releasing(u)' => Releasing(u) /\ call'[u] = call[u]
  BY DEF Releasing
<1>3. \A u \in Task : Releasing(u)' =>
          call'[u].tcb \in hashed' \ {Idle} /\ k'.state[call'[u].tcb] = "INVALID"
  BY <1>0, <1>2 DEF CallInv, Call
<1>4. /\ \A u \in Task : call'[u].op \in {"sslock", "reprio"} =>
            call'[u].tcb # Idle /\ call'[u].p \in Prio
      /\ \A u \in Task : call'[u].op \in {"term", "restart"} => call'[u].tcb # Idle
  BY <1>0 DEF CallInv
<1>5. \A u, v \in Task : Releasing(u)' /\ Releasing(v)' /\ call'[u].tcb = call'[v].tcb => u = v
  BY <1>0, <1>2 DEF CallInv
<1> QED
  BY <1>1, <1>3, <1>4, <1>5 DEF CallInv

LEMMA ExitInv == ASSUME Inv, Exit PROVE Inv'
<1>1. /\ Good(k) /\ r \in Task \ {Idle} /\ k.state[r] = "RUNNING" /\ ListOf(k.state[r]) = "READYTORUN"
  BY RunFacts DEF Exit, AtUser, ListOf
<1> DEFINE m == sched_removereadytorun(k, r)
<1>2. /\ Good(m) /\ m.state[r] = "INVALID"
      /\ \A u \in Task \ {r} : m.state[u] = "INVALID" <=> k.state[u] = "INVALID"
  BY <1>1, RemoveReadyLemma
<1>3. Install(m, TRUE) /\ UNCHANGED <<base, init, rr, slice, call, nest>> /\ hashed' = hashed \ {r}
  BY DEF Exit
<1> HIDE DEF m
<1>4. k' = m /\ cursor' \in Nat /\ ListsInv(k', cursor')
  BY <1>2, <1>3, InstallLemma
<1>5. \A u \in Task : Releasing(u)' => call[u].tcb # r
  BY <1>1, <1>3, RunFacts DEF CallInv, Releasing
<1>6. HashInv' /\ CallInv'
  BY <1>1, <1>2, <1>3, <1>4, <1>5, UnhashLemma, RunFacts
<1> QED
  BY <1>2, <1>3, <1>4, <1>6 DEF Inv, TypeOK, RRSlicePositive, Good, Lists

LEMMA TerminateInv == ASSUME Inv, NEW t \in Task, Terminate(t) PROVE Inv'
<1>1. /\ k' = Locked(k) /\ cursor' = 0 /\ t \in Task \ {Idle} /\ 0 \in 0 .. MaxPrio
      /\ r \in Task /\ "term" \in Op /\ FALSE \in BOOLEAN
  BY RunFacts, PrioAssumption DEF Terminate, AtUser, At, Op
<1> DEFINE c == [op |-> "term", tcb |-> t, p |-> 0, rr |-> FALSE]
<1>2. c \in Call /\ c.op = "term" /\ c.tcb = t
  BY <1>1, CallRecord
<1>3. call' = [call EXCEPT ![r] = c] /\ UNCHANGED <<base, init, rr, slice, hashed, nest>>
  BY DEF Terminate, Enter
<1>4. base' \in [Task -> 0 .. MaxPrio] /\ rr' \subseteq Task /\ slice' \in [Task -> Nat] /\ RRSlicePositive'
  BY <1>3 DEF Inv, TypeOK, RRSlicePositive
<1>5. ListsInv(k', cursor') /\ SameTasks(k, k') /\ KType(k') /\ cursor' \in Nat
  BY <1>1, LockedLemma
<1> HIDE DEF c
<1> QED
  BY <1>1, <1>2, <1>3, <1>4, <1>5, OpStep

LEMMA TerminateUnlinkInv == ASSUME Inv, TerminateUnlink PROVE Inv'
<1> DEFINE d == call[r]
           t == d.tcb
           c == [d EXCEPT !.op = "unlterm"]
           m == Unlink(t)
<1>1. /\ Good(k) /\ r \in Task /\ d \in Call /\ d.op = "term" /\ cursor = 0 /\ cursor' = 0
      /\ "unlterm" \in Op /\ k.state[t] \notin {"RUNNING", "INVALID"}
      /\ k.state \in [Task -> TState] /\ call \in [Task -> Call]
      /\ (k.lock[r] = 0 => Pending(k) = <<>>)
  BY RunFacts DEF TerminateUnlink, At, Op
<1>2. t \in Task \ {Idle} /\ t \in hashed
  BY <1>1, RunFacts DEF CallInv, HashInv, Call
<1>3. c \in Call /\ c.op = "unlterm" /\ c.tcb = t
  BY <1>1, GotoRecord
<1>4. k' = m /\ call' = [call EXCEPT ![r] = c] /\ UNCHANGED <<base, init, rr, slice, hashed, nest>>
  BY DEF TerminateUnlink, Goto
<1> HIDE DEF c, d, t
<1>5. /\ Good(m) /\ m.state = [k.state EXCEPT ![t] = "INVALID"] /\ m.lock = k.lock
      /\ Running(m) = Running(k)
      /\ Pending(k) = <<>> => Pending(m) = <<>>
  BY <1>1, <1>2, UnlinkLemma DEF Unlink
<1> HIDE DEF m
<1>6. ListsInv(k', cursor')
  BY <1>1, <1>4, <1>5 DEF ListsInv, r
<1>7. HashInv'
  BY <1>1, <1>2, <1>4, <1>5, RunFacts DEF HashInv
<1>8. CallInv'
  <2>0. call'[r] = c /\ (\A u \in Task \ {r} : call'[u] = call[u]) /\ k'.state[t] = "INVALID"
        /\ \A u \in Task : k.state[u] = "INVALID" => k'.state[u] = "INVALID"
    BY <1>1, <1>2, <1>4, <1>5
  <2>1. \A u \in Task \ {r} : Releasing(u)' => Releasing(u) /\ call[u].tcb \in Task /\ call[u].tcb # t
                                /\ call[u].tcb \in hashed \ {Idle} /\ k.state[call[u].tcb] = "INVALID"
    BY <1>1, <2>0, RunFacts DEF CallInv, Releasing, Call
  <2>2. \A u \in Task : Releasing(u)' =>
          call'[u].tcb \in hashed' \ {Idle} /\ k'.state[call'[u].tcb] = "INVALID"
    BY <1>2, <1>3, <1>4, <2>0, <2>1
  <2>3. \A u, v \in Task : Releasing(u)' /\ Releasing(v)' /\ call'[u].tcb = call'[v].tcb => u = v
    BY <1>3, <2>0, <2>1, RunFacts DEF CallInv
  <2>4. /\ \A u \in Task : call'[u].op \in {"sslock", "reprio"} =>
              call'[u].tcb # Idle /\ call'[u].p \in Prio
        /\ \A u \in Task : call'[u].op \in {"term", "restart"} => call'[u].tcb # Idle
    BY <1>3, <2>0, RunFacts DEF CallInv
  <2> QED
    BY <2>2, <2>3, <2>4 DEF CallInv
<1>9. call' \in [Task -> Call]
  BY <1>1, <1>3, <1>4
<1> QED
  BY <1>1, <1>4, <1>5, <1>6, <1>7, <1>8, <1>9 DEF Inv, TypeOK, RRSlicePositive, Good, Lists

LEMMA TerminateUnlockInv == ASSUME Inv, TerminateUnlock PROVE Inv'
<1> DEFINE d == call[r]
           c == [d EXCEPT !.op = "release"]
<1>1. /\ r \in Task /\ d \in Call /\ d.op = "unlterm" /\ sched_unlock /\ "release" \in Op
      /\ call \in [Task -> Call]
  BY RunFacts DEF TerminateUnlock, At, Op
<1>2. c \in Call /\ c.op = "release" /\ c.tcb = d.tcb
  BY <1>1, GotoRecord
<1>3. call' = [call EXCEPT ![r] = c] /\ UNCHANGED <<base, init, rr, slice, hashed, nest>>
  BY DEF TerminateUnlock, Goto
<1>4. ListsInv(k', cursor') /\ SameTasks(k, k') /\ KType(k') /\ cursor' \in Nat
  BY <1>1, UnlockedLemma
<1>5. call' \in [Task -> Call] /\ call'[r] = c /\ \A u \in Task \ {r} : call'[u] = call[u]
  BY <1>1, <1>2, <1>3
<1>6. Releasing(r)
  BY <1>1 DEF Releasing
<1> HIDE DEF c, d
<1>7. \A u \in Task : Releasing(u)' => Releasing(u) /\ call'[u].tcb = call[u].tcb /\ call[u].tcb \in Task
  BY <1>1, <1>2, <1>5, <1>6 DEF Releasing, d, Call
<1>8. CallInv'
  <2>1. \A u \in Task : Releasing(u)' =>
          call'[u].tcb \in hashed' \ {Idle} /\ k'.state[call'[u].tcb] = "INVALID"
    BY <1>3, <1>4, <1>7, RunFacts DEF CallInv, SameTasks
  <2>2. \A u, v \in Task : Releasing(u)' /\ Releasing(v)' /\ call'[u].tcb = call'[v].tcb => u = v
    BY <1>7, RunFacts DEF CallInv
  <2>3. /\ \A u \in Task : call'[u].op \in {"sslock", "reprio"} =>
              call'[u].tcb # Idle /\ call'[u].p \in Prio
        /\ \A u \in Task : call'[u].op \in {"term", "restart"} => call'[u].tcb # Idle
    BY <1>2, <1>5, RunFacts DEF CallInv
  <2> QED
    BY <2>1, <2>2, <2>3 DEF CallInv
<1>9. HashInv'
  BY <1>3, <1>4, HashFrame, RunFacts
<1> QED
  BY <1>3, <1>4, <1>5, <1>8, <1>9 DEF Inv, TypeOK, RRSlicePositive

LEMMA TerminateReleaseInv == ASSUME Inv, TerminateRelease PROVE Inv'
<1> DEFINE t == call[r].tcb
<1>1. /\ r \in Task /\ Releasing(r) /\ call \in [Task -> Call]
      /\ hashed' = hashed \ {t} /\ call' = [call EXCEPT ![r] = UserCall(r)]
      /\ UNCHANGED <<k, cursor, base, init, rr, slice, nest>>
  BY RunFacts DEF TerminateRelease, At, Releasing, Return
<1>2. t \in Task \ {Idle} /\ k.state[t] = "INVALID"
  BY <1>1, RunFacts DEF CallInv, Call
<1>3. UserCall(r) \in Call /\ UserCall(r).op = "user"
  BY <1>1, UserRecord
<1>4. /\ call' \in [Task -> Call] /\ call'[r].op = "user"
      /\ \A u \in Task \ {r} : call'[u] = call[u]
  BY <1>1, <1>3
<1>5. \A u \in Task : Releasing(u)' => call[u].tcb # t
  BY <1>1, <1>4, RunFacts DEF CallInv, Releasing
<1> HIDE DEF t
<1>6. HashInv' /\ CallInv'
  <2>1. \A u \in Task : call'[u].op = "user" \/ call'[u] = call[u]
    BY <1>4
  <2>2. \A u \in Task \ {t} : k'.state[u] = "INVALID" <=> k.state[u] = "INVALID"
    BY <1>1
  <2> QED
    BY <1>1, <1>2, <1>4, <1>5, <2>1, <2>2, UnhashLemma
<1> QED
  BY <1>1, <1>4, <1>6 DEF Inv, TypeOK, RRSlicePositive

LEMMA RestartCallInv == ASSUME Inv, NEW t \in Task, Restart(t) PROVE Inv'
<1>1. /\ k' = Locked(k) /\ cursor' = 0 /\ t \in Task \ {Idle} /\ 0 \in 0 .. MaxPrio
      /\ r \in Task /\ "restart" \in Op /\ FALSE \in BOOLEAN
  BY RunFacts, PrioAssumption DEF Restart, AtUser, At, Op
<1> DEFINE d == [op |-> "restart", tcb |-> t, p |-> 0, rr |-> FALSE]
           c == IF t = r \/ t \notin hashed THEN UserCall(r) ELSE d
<1>2. d \in Call /\ d.op = "restart" /\ d.tcb = t
  BY <1>1, CallRecord
<1>3. UserCall(r) \in Call /\ UserCall(r).op = "user"
  BY <1>1, UserRecord
<1>4. call' = [call EXCEPT ![r] = c] /\ UNCHANGED <<base, init, rr, slice, hashed, nest>>
  BY DEF Restart, Enter, Return
<1> HIDE DEF d
<1>5. c \in Call /\ (c.op = "user" \/ (c.op = "restart" /\ c.tcb # Idle))
  BY <1>1, <1>2, <1>3
<1>6. base' \in [Task -> 0 .. MaxPrio] /\ rr' \subseteq Task /\ slice' \in [Task -> Nat] /\ RRSlicePositive'
  BY <1>4 DEF Inv, TypeOK, RRSlicePositive
<1>7. ListsInv(k', cursor') /\ SameTasks(k, k') /\ KType(k') /\ cursor' \in Nat
  BY <1>1, LockedLemma
<1> HIDE DEF c
<1> QED
  BY <1>1, <1>4, <1>5, <1>6, <1>7, OpStep

LEMMA RestartActivateInv == ASSUME Inv, RestartActivate PROVE Inv'
<1> DEFINE d == call[r]
           t == d.tcb
           a == Unlink(t)
           m == AddInactive(WithPrio(a, t, init[t]), t)
           c == [d EXCEPT !.op = "unlock"]
<1>1. /\ Good(k) /\ r \in Task /\ d \in Call /\ d.op = "restart" /\ cursor = 0 /\ "unlock" \in Op
      /\ k.state[t] \notin {"RUNNING", "INVALID"} /\ k.state[r] = "RUNNING"
      /\ call \in [Task -> Call]
      /\ (k.lock[r] = 0 => Pending(k) = <<>>)
  BY RunFacts DEF RestartActivate, At, Op
<1>2. t \in Task \ {Idle} /\ t # r
  BY <1>1, RunFacts DEF CallInv, Call
<1>3. init[t] \in Prio /\ init \in [Task -> 0 .. MaxPrio]
  BY <1>1, <1>2, RunFacts DEF HashInv, TypeOK
<1>4. c \in Call /\ c.op = "unlock"
  BY <1>1, GotoRecord
<1>5. UserCall(t) \in Call /\ UserCall(t).op = "user"
  BY <1>2, UserRecord
<1>6. /\ Install(UnblockTask(m, t), FALSE) /\ base' = [base EXCEPT ![t] = init[t]]
      /\ call' = [call EXCEPT ![t] = UserCall(t), ![r].op = "unlock"]
      /\ nest' = [nest EXCEPT ![t] = 0] /\ UNCHANGED <<init, rr, slice, hashed>>
  BY DEF RestartActivate
<1>7. /\ call' \in [Task -> Call] /\ call'[r] = c /\ call'[t] = UserCall(t)
      /\ \A u \in Task \ {r, t} : call'[u] = call[u]
  <2> HIDE DEF t
  <2>1. call' = [[call EXCEPT ![t] = UserCall(t)] EXCEPT ![r] = c]
    BY <1>1, <1>2, <1>6
  <2> HIDE DEF c, d
  <2> QED
    BY <1>1, <1>2, <1>4, <1>5, <2>1
<1>8. a = [dq_rem(k, t, ListOf(k.state[t])) EXCEPT !.state[t] = "INVALID"]
  BY DEF Unlink
<1> HIDE DEF a, t, d, c
<1>9. /\ Good(m) /\ m.state[t] = "INACTIVE" /\ m.lock = k.lock /\ SameTasks(k, m)
      /\ Running(m) = Running(k)
      /\ Pending(k) = <<>> => Pending(m) = <<>>
  BY <1>1, <1>2, <1>3, <1>8, RestartLemma
<1> DEFINE w == UnblockTask(m, t)
<1> HIDE DEF m
<1>10. /\ Good(w) /\ w.lock = m.lock /\ SameTasks(m, w)
       /\ Running(w) = Running(m) \/ m.lock[Running(m)] = 0
       /\ m.lock[Running(m)] = 0 /\ Pending(m) = <<>> => Pending(w) = <<>>
  <2>1. m.state[t] \in BlockedState
    BY <1>9 DEF BlockedState
  <2> QED
    BY <1>2, <1>9, <2>1, UnblockLemma
<1>11. Install(w, FALSE)
  BY <1>6
<1> HIDE DEF w
<1>12. k' = w /\ cursor' \in Nat /\ ListsInv(k', cursor')
  <2>1. w.lock[Running(w)] = 0 => Pending(w) = <<>>
    BY <1>1, <1>9, <1>10 DEF r
  <2> QED
    BY <1>10, <1>11, <2>1, InstallLemma
<1>13. SameTasks(k, k') /\ KType(k')
  BY <1>9, <1>10, <1>12 DEF SameTasks, Good, Lists
<1>14. HashInv'
  BY <1>6, <1>13, HashFrame, RunFacts
<1>15. CallInv'
  <2>1. \A u \in Task : Releasing(u)' => Releasing(u) /\ call'[u] = call[u] /\ call[u].tcb \in Task
    BY <1>1, <1>4, <1>5, <1>7 DEF Releasing, Call
  <2>2. \A u \in Task : Releasing(u)' =>
          call'[u].tcb \in hashed' \ {Idle} /\ k'.state[call'[u].tcb] = "INVALID"
    BY <1>6, <1>13, <2>1, RunFacts DEF CallInv, SameTasks
  <2>3. \A u, v \in Task : Releasing(u)' /\ Releasing(v)' /\ call'[u].tcb = call'[v].tcb => u = v
    BY <2>1, RunFacts DEF CallInv
  <2>4. /\ \A u \in Task : call'[u].op \in {"sslock", "reprio"} =>
              call'[u].tcb # Idle /\ call'[u].p \in Prio
        /\ \A u \in Task : call'[u].op \in {"term", "restart"} => call'[u].tcb # Idle
    BY <1>4, <1>5, <1>7, RunFacts DEF CallInv
  <2> QED
    BY <2>2, <2>3, <2>4 DEF CallInv
<1>16. TypeOK'
  BY <1>3, <1>6, <1>7, <1>12, <1>13 DEF Inv, TypeOK
<1> QED
  BY <1>6, <1>12, <1>14, <1>15, <1>16 DEF Inv, RRSlicePositive

LEMMA StepInv == Inv /\ [Next]_vars => Inv'
<1> SUFFICES ASSUME Inv, [Next]_vars PROVE Inv'
  OBVIOUS
<1>1. CASE MergeStep
  BY <1>1, MergeInv
<1>2. CASE Lock
  BY <1>2, LockInv
<1>3. CASE Unlock
  BY <1>3, UnlockInv
<1>4. CASE Tick
  BY <1>4, TickInv
<1>5. CASE Yield
  BY <1>5, YieldInv
<1>6. CASE Exit
  BY <1>6, ExitInv
<1>7. CASE SetPolicy
  BY <1>7, SetPolicyInv
<1>8. CASE Reprioritize
  BY <1>8, ReprioritizeInv
<1>9. CASE SetBase
  BY <1>9, SetBaseInv
<1>10. CASE UnlockReturn
  BY <1>10, UnlockReturnInv
<1>11. CASE TerminateUnlink
  BY <1>11, TerminateUnlinkInv
<1>12. CASE TerminateUnlock
  BY <1>12, TerminateUnlockInv
<1>13. CASE TerminateRelease
  BY <1>13, TerminateReleaseInv
<1>14. CASE RestartActivate
  BY <1>14, RestartActivateInv
<1>15. CASE \E s \in WaitStates : Block(s)
  BY <1>15, BlockInv
<1>16. CASE \E t \in Task : Unblock(t) \/ Activate(t) \/ Terminate(t) \/ Restart(t)
  BY <1>16, UnblockInv, TerminateInv, RestartCallInv
<1>17. CASE \E t \in Task, p \in Prio :
              \/ SetParam(t, p) \/ Setup(t, p)
              \/ \E robin \in BOOLEAN : SetScheduler(t, robin, p)
  BY <1>17, SetParamInv, SetupInv, SetSchedulerInv
<1>18. CASE UNCHANGED vars
  <2>1. UNCHANGED <<k, cursor, base, init, rr, slice, hashed, call, nest>>
    BY <1>18 DEF vars
  <2>2. SameTasks(k, k') /\ ListsInv(k', cursor') /\ KType(k') /\ cursor' \in Nat /\ nest' \in [Task -> Nat]
    BY <2>1 DEF SameTasks, Inv, TypeOK
  <2> QED
    BY <2>1, <2>2, ListStep
<1> QED
  BY <1>1, <1>2, <1>3, <1>4, <1>5, <1>6, <1>7, <1>8, <1>9, <1>10, <1>11, <1>12,
     <1>13, <1>14, <1>15, <1>16, <1>17, <1>18 DEF Next

(* The inductive invariant of the scheduler. *)
THEOREM Invariance == Spec => []Inv
BY InitInv, StepInv, PTL DEF Spec

(* The state of Sched keeps its types. *)
THEOREM TypeCorrect == Spec => []TypeOK
<1>1. Inv => TypeOK
  BY DEF Inv
<1> QED
  BY Invariance, <1>1, PTL

(* Whatever blocks, wakes, re-prioritizes, merges, creates or deletes      *)
(* tasks, a TCB is linked exactly once, into the list its task_state       *)
(* names.                                                                  *)
THEOREM ListsAgreeHolds == Spec => []ListsAgree
<1>1. Inv => ListsAgree
  BY DEF Inv, ListsInv, Good, Lists, ListsAgree
<1> QED
  BY Invariance, <1>1, PTL

(* The prioritized lists of g_tasklisttable are always in priority order. *)
THEOREM ListsInOrderHolds == Spec => []ListsInOrder
<1>1. Inv => ListsInOrder
  BY DEF Inv, ListsInv, Good, ListsInOrder
<1> QED
  BY Invariance, <1>1, PTL

(* The head of g_readytorun is the running task and its tail is IDLE. *)
THEOREM ReadyListEndsHolds == Spec => []ReadyListEnds
<1>1. Inv => ReadyListEnds
  BY DEF Inv, ListsInv, Good, ReadyListEnds
<1> QED
  BY Invariance, <1>1, PTL

(* No pre-emption is missed: with pre-emption enabled and no merge under   *)
(* way, nothing is pending and no ready task outranks the running one.     *)
THEOREM NoMissedPreemptionHolds == Spec => []NoMissedPreemption
<1>1. Inv => NoMissedPreemption
  <2> SUFFICES ASSUME Inv, cursor = 0, k.lock[r] = 0
               PROVE  /\ Pending(k) = <<>>
                      /\ \A t \in Task : k.state[t] = "READYTORUN" => k.prio[t] <= k.prio[r]
    BY DEF NoMissedPreemption
  <2>1. Good(k) /\ Pending(k) = <<>>
    BY RunFacts
  <2>2. ASSUME NEW t \in Task, k.state[t] = "READYTORUN" PROVE k.prio[t] <= k.prio[r]
    <3>1. PICK i \in 1 .. Len(Rtr(k)) : Rtr(k)[i] = t
      BY <2>1, <2>2 DEF Good, Lists, Present, ListOf, Rtr
    <3>2. Len(Rtr(k)) \in Nat \ {0} /\ 1 \in 1 .. Len(Rtr(k)) /\ Rtr(k)[1] = r
      BY <2>1, ReadyFacts DEF r, Running
    <3>3. i = 1 \/ 1 < i
      BY <3>1, <3>2
    <3>4. k.prio[t] \in 0 .. MaxPrio /\ k.prio[r] \in 0 .. MaxPrio
      BY RunFacts
    <3>5. 1 < i => k.prio[r] >= k.prio[t]
      BY <2>1, <3>1, <3>2 DEF Good, InOrder, Rtr, Prioritized, List, TState
    <3> QED
      BY <3>1, <3>2, <3>3, <3>4, <3>5, PrioAssumption
  <2> QED
    BY <2>1, <2>2
<1> QED
  BY Invariance, <1>1, PTL

(* A round robin task always has time left in its slice. *)
THEOREM RRSlicePositiveHolds == Spec => []RRSlicePositive
<1>1. Inv => RRSlicePositive
  BY DEF Inv
<1> QED
  BY Invariance, <1>1, PTL

-----------------------------------------------------------------------------
(* Who may take the CPU from a task that has pre-emption disabled. *)

(* A task that stays at the head of g_readytorun keeps running. *)
LEMMA StaysRunning ==
    ASSUME Inv, Inv', Running(k') = r
    PROVE  k'.state[r] # "READYTORUN"
<1>1. Good(k')
  BY DEF Inv, ListsInv
<1>2. k'.state[Running(k')] = "RUNNING"
  BY <1>1, ReadyFacts
<1> QED
  BY <1>2

LEMMA LockStep ==
    ASSUME Inv, Inv', Next, k.lock[r] > 0, k'.state[r] = "READYTORUN", cursor = 0
    PROVE  Yield \/ Reprioritize
<1> USE DEF r
<1>0. Good(k) /\ r \in Task /\ k.state[r] = "RUNNING" /\ k.lock[r] \in Nat /\ k.lock[r] # 0
      /\ k.lock \in [Task -> Nat]
  BY RunFacts
<1>1. Running(k') # r
  BY StaysRunning
<1>2. k' # k
  BY <1>1
<1>3. k' # Locked(k)
  <2> DEFINE n == k.lock[r] + 1
  <2>1. n \in Nat
    BY <1>0
  <2> HIDE DEF n
  <2>2. Running([k EXCEPT !.lock[r] = n]) = r
    BY <1>0, <2>1, LockCountLemma
  <2> QED
    BY <1>1, <2>2 DEF Locked, n
<1>4. ~sched_unlock
  <2> DEFINE n == k.lock[r] - 1
  <2>1. n \in Nat
    BY <1>0
  <2>2. LockDropped = [k EXCEPT !.lock[r] = n]
    BY DEF LockDropped
  <2> HIDE DEF n
  <2>3. Running([k EXCEPT !.lock[r] = n]) = r
    BY <1>0, <2>1, LockCountLemma
  <2> QED
    BY <1>1, <2>2, <2>3 DEF sched_unlock, Install
<1>5. ~MergeStep /\ ~Lock /\ ~Unlock /\ ~SetPolicy /\ ~SetBase /\ ~UnlockReturn
      /\ ~TerminateUnlock /\ ~TerminateRelease
  BY <1>2, <1>3, <1>4 DEF MergeStep, Lock, Unlock, SetPolicy, SetBase, UnlockReturn,
                          TerminateUnlock, TerminateRelease
<1>6. ~Tick
  BY <1>0, <1>2 DEF Tick
<1>7. ~Exit
  <2>1. SUFFICES ASSUME Exit PROVE FALSE
    OBVIOUS
  <2>2. k' = sched_removereadytorun(k, r) /\ r \in Task \ {Idle} /\ ListOf(k.state[r]) = "READYTORUN"
    BY <1>0, <2>1 DEF Exit, AtUser, Install, ListOf
  <2>3. sched_removereadytorun(k, r).state[r] = "INVALID"
    BY <1>0, <2>2, RemoveReadyLemma
  <2> QED
    BY <2>2, <2>3
<1>8. ASSUME NEW s \in WaitStates, Block(s) PROVE FALSE
  <2>1. k' = BlockTask(k, r, s) /\ r # Idle /\ s \in BlockedState
    BY <1>8, WaitAssumption DEF Block, AtUser, Install
  <2> DEFINE n == sched_removereadytorun(k, r)
  <2>2. Good(n) /\ n.prio = k.prio /\ n.state[r] = "INVALID"
    BY <1>0, <2>1, RemoveReadyLemma DEF ListOf
  <2> HIDE DEF n
  <2>3. n.prio[r] > 0
    BY <1>0, <2>1, <2>2 DEF Good, IdleLast
  <2>4. sched_addblocked(n, r, s).state = [n.state EXCEPT ![r] = s]
    BY <1>0, <2>1, <2>2, <2>3, AddBlockedLemma
  <2>5. k'.state[r] = s
    BY <1>0, <2>1, <2>2, <2>4 DEF BlockTask, n, Good, Lists, KType
  <2> QED
    BY <2>1, <2>5 DEF BlockedState
<1>9. ASSUME NEW t \in Task, Unblock(t) \/ Activate(t) PROVE FALSE
  <2>1. k.state[t] \in BlockedState /\ k' = UnblockTask(k, t)
    BY <1>9, WaitAssumption DEF Unblock, Activate, BlockedState, Install
  <2>2. Running(UnblockTask(k, t)) = r
    BY <1>0, <2>1, UnblockLemma
  <2> QED
    BY <1>1, <2>1, <2>2
<1>10. ASSUME NEW t \in Task, Terminate(t) \/ Restart(t) PROVE FALSE
  BY <1>3, <1>10 DEF Terminate, Restart
<1>11. ~TerminateUnlink
  <2>1. SUFFICES ASSUME TerminateUnlink PROVE FALSE
    OBVIOUS
  <2> DEFINE t == call[r].tcb
  <2>2. k' = Unlink(t) /\ k.state[t] \notin {"INVALID", "RUNNING"} /\ t \in Task \ {Idle}
    BY <1>0, <2>1, RunFacts DEF TerminateUnlink, At, CallInv, Call
  <2> HIDE DEF t
  <2>3. Running(Unlink(t)) = r
    BY <1>0, <2>2, UnlinkLemma DEF Unlink
  <2> QED
    BY <1>1, <2>2, <2>3
<1>12. ~RestartActivate
  <2>1. SUFFICES ASSUME RestartActivate PROVE FALSE
    OBVIOUS
  <2> DEFINE t == call[r].tcb
             a == Unlink(t)
             m == AddInactive(WithPrio(a, t, init[t]), t)
  <2>2. k' = UnblockTask(m, t) /\ k.state[t] \notin {"INVALID", "RUNNING"} /\ t \in Task \ {Idle}
    BY <1>0, <2>1, RunFacts DEF RestartActivate, At, CallInv, Call, Install
  <2>3. init[t] \in Prio
    BY <2>2, RunFacts DEF HashInv, TypeOK
  <2>4. a = [dq_rem(k, t, ListOf(k.state[t])) EXCEPT !.state[t] = "INVALID"]
    BY DEF Unlink
  <2> HIDE DEF a, t
  <2>5. Good(m) /\ m.state[t] = "INACTIVE" /\ m.lock = k.lock /\ Running(m) = r
    BY <1>0, <2>2, <2>3, <2>4, RestartLemma
  <2> HIDE DEF m
  <2>6. m.state[t] \in BlockedState
    BY <2>5 DEF BlockedState
  <2>7. Running(UnblockTask(m, t)) = r
    BY <1>0, <2>2, <2>5, <2>6, UnblockLemma
  <2> QED
    BY <1>1, <2>2, <2>7
<1>13. ASSUME NEW t \in Task, NEW p \in Prio, SetParam(t, p) PROVE FALSE
  BY <1>3, <1>13 DEF SetParam
<1>14. ASSUME NEW t \in Task, NEW p \in Prio, NEW b \in BOOLEAN, SetScheduler(t, b, p) PROVE FALSE
  BY <1>2, <1>14 DEF SetScheduler
<1>15. ASSUME NEW t \in Task, NEW p \in Prio, Setup(t, p) PROVE FALSE
  <2>1. /\ k' = AddInactive(WithPrio([k EXCEPT !.lock[t] = 0], t, p), t)
        /\ t \in Task \ {Idle} /\ k.state[t] = "INVALID"
    BY <1>15, RunFacts DEF Setup, HashInv
  <2>2. Running(AddInactive(WithPrio([k EXCEPT !.lock[t] = 0], t, p), t)) = r
    BY <1>0, <2>1, SetupLemma
  <2> QED
    BY <1>1, <2>1, <2>2
<1> QED
  BY <1>5, <1>6, <1>7, <1>8, <1>9, <1>10, <1>11, <1>12, <1>13, <1>14, <1>15 DEF Next

(* A ready task that has pre-emption disabled loses the CPU to nobody: no  *)
(* interrupt, wake-up, creation, restart or deletion of another task takes *)
(* it, only its own sched_yield() or sched_reprioritize().                 *)
THEOREM LockHoldsCpuHolds == Spec => LockHoldsCpu
<1>1. Inv /\ Inv' /\ [Next]_vars =>
        [k.lock[r] > 0 /\ k'.state[r] = "READYTORUN" /\ cursor = 0 => Yield \/ Reprioritize]_vars
  BY LockStep
<1> QED
  BY Invariance, <1>1, PTL DEF Spec, LockHoldsCpu
-----------------------------------------------------------------------------
(* The locks of the kernel's own calls. *)

(* Where a call holds the pre-emption lock it has taken. *)
Held(c) == c.op \in {"reprio", "base", "term", "unlock", "unlterm"}

Balance ==
    /\ \A t \in Task : k.lock[t] = nest[t] + IF Held(call[t]) THEN 1 ELSE 0
    /\ \A t \in Task : call[t].op # "restart"

(* The running task goes on to c, with its lock count changed as c says. *)
LEMMA BalanceCall ==
    ASSUME Inv, Balance, nest' = nest, NEW c, call' = [call EXCEPT ![r] = c], c.op # "restart",
           NEW n, k'.lock = [k.lock EXCEPT ![r] = n],
           n = nest[r] + IF Held(c) THEN 1 ELSE 0
    PROVE  Balance'
<1>1. r \in Task /\ call \in [Task -> Call] /\ k.lock \in [Task -> Nat]
  BY RunFacts
<1>2. \A t \in Task : /\ call'[t] = IF t = r THEN c ELSE call[t]
                      /\ k'.lock[t] = IF t = r THEN n ELSE k.lock[t]
  BY <1>1
<1>3. \A t \in Task : k'.lock[t] = nest'[t] + IF Held(call'[t]) THEN 1 ELSE 0
  BY <1>2 DEF Balance
<1>4. \A t \in Task : call'[t].op # "restart"
  BY <1>2 DEF Balance
<1> QED
  BY <1>3, <1>4 DEF Balance, Held

(* A step that leaves lock counts and calls alone. *)
LEMMA BalanceFrame ==
    ASSUME Balance, nest' = nest, call' = call, k'.lock = k.lock
    PROVE  Balance'
BY DEF Balance, Held

LEMMA BalanceStep ==
    ASSUME Inv, Balance, "restart" \notin Api, [Next]_vars
    PROVE  Balance'
<1>1. /\ Good(k) /\ r \in Task /\ k.state[r] = "RUNNING" /\ k.lock \in [Task -> Nat] /\ k.lock[r] \in Nat
      /\ call \in [Task -> Call] /\ call[r] \in Call /\ nest \in [Task -> Nat] /\ nest[r] \in Nat
      /\ CallInv /\ k.prio \in [Task -> 0 .. MaxPrio]
  BY RunFacts DEF TypeOK
<1>2. /\ k.lock[r] = nest[r] + IF Held(call[r]) THEN 1 ELSE 0
      /\ ~ Held(call[r]) => k.lock[r] = nest[r]
  BY <1>1 DEF Balance
<1>3. k.lock = [k.lock EXCEPT ![r] = k.lock[r]]
  BY <1>1
<1>4. KType(k)
  BY <1>1 DEF Good, Lists
<1>5. ASSUME k' = Locked(k) PROVE k'.lock = [k.lock EXCEPT ![r] = k.lock[r] + 1]
  BY <1>4, <1>5 DEF Locked, r, KType
<1>6. ASSUME sched_unlock
      PROVE  k'.lock = [k.lock EXCEPT ![r] = IF k.lock[r] > 0 THEN k.lock[r] - 1 ELSE 0]
  <2>1. k' = IF k.lock[r] > 0 THEN [k EXCEPT !.lock[r] = k.lock[r] - 1] ELSE k
    BY <1>6 DEF sched_unlock, Install, LockDropped
  <2>2. CASE k.lock[r] > 0
    BY <1>4, <2>1, <2>2 DEF KType
  <2>3. CASE ~(k.lock[r] > 0)
    BY <1>1, <1>3, <2>1, <2>3
  <2> QED
    BY <2>2, <2>3
<1>7. CASE MergeStep
  <2>1. MergeAt(k, cursor)
    BY <1>7 DEF Inv, ListsInv, MergeStep
  <2>2. k'.lock = k.lock
    BY <1>1, <1>7, <2>1, MergeLemma DEF MergeStep
  <2> QED
    BY <1>7, <2>2, BalanceFrame DEF MergeStep
<1>8. CASE Lock \/ Unlock
  <2> DEFINE a == k'.lock[r]
             b == nest'[r]
  <2>1. call' = call /\ call[r].op = "user" /\ k.lock[r] = nest[r]
    BY <1>2, <1>8 DEF Lock, Unlock, AtUser, At, Held
  <2>2. /\ k'.lock[r] = nest'[r]
        /\ \A t \in Task \ {r} : k'.lock[t] = k.lock[t] /\ nest'[t] = nest[t]
    <3>1. CASE Lock
      <4>1. nest' = [nest EXCEPT ![r] = nest[r] + 1] /\ k' = Locked(k)
        BY <1>1, <3>1 DEF Lock
      <4> QED
        BY <1>1, <1>5, <2>1, <4>1
    <3>2. CASE Unlock
      <4>1. nest' = [nest EXCEPT ![r] = IF nest[r] > 0 THEN nest[r] - 1 ELSE 0] /\ sched_unlock
        BY <1>1, <3>2 DEF Unlock
      <4> QED
        BY <1>1, <1>6, <2>1, <4>1
    <3> QED
      BY <1>8, <3>1, <3>2
  <2>3. ASSUME NEW t \in Task PROVE k'.lock[t] = nest'[t] + IF Held(call[t]) THEN 1 ELSE 0
    <3>1. CASE t = r
      <4>1. ~ Held(call[t]) /\ nest'[r] \in Nat
        BY <1>1, <1>8, <2>1, <3>1 DEF Held, Lock, Unlock
      <4> QED
        BY <2>2, <3>1, <4>1
    <3>2. CASE t # r
      BY <2>2, <3>2 DEF Balance
    <3> QED
      BY <3>1, <3>2
  <2> QED
    BY <2>1, <2>3 DEF Balance, Held
<1>9. CASE Tick
  <2>1. CASE UNCHANGED k
    BY <1>9, <2>1, BalanceFrame DEF Tick
  <2>2. CASE k' # k
    <3>1. /\ k' = ReprioritizeRtr(k, r, k.prio[r]) /\ r \in rr /\ Len(Rtr(k)) > 1
      BY <1>9, <2>2 DEF Tick, Install
    <3>2. r \in Task \ {Idle} /\ k.prio[r] \in Prio
      <4>1. r # Idle
        <5>1. Len(Rtr(k)) \in Nat /\ Rtr(k)[1] = r /\ Rtr(k)[Len(Rtr(k))] = Idle
          BY <1>1, ReadyFacts DEF Good, IdleLast, r, Running
        <5>2. Rtr(k) = k.list["READYTORUN"] /\ "READYTORUN" \in List
          BY DEF Rtr, List, TState
        <5> QED
          BY <1>1, <3>1, <5>1, <5>2 DEF Good, Lists, Unique
      <4>2. k.prio[r] > 0
        BY <1>1, <4>1 DEF Good, IdleLast
      <4>3. k.prio[r] \in 0 .. MaxPrio /\ MaxPrio \in Nat
        BY <1>1, PrioAssumption
      <4> QED
        BY <1>1, <4>1, <4>2, <4>3 DEF Prio
    <3>3. ListOf(k.state[r]) = "READYTORUN"
      BY <1>1 DEF ListOf
    <3>4. k'.lock = k.lock
      BY <1>1, <3>1, <3>2, <3>3, ReprioLemma
    <3> QED
      BY <1>9, <3>4, BalanceFrame DEF Tick
  <2> QED
    BY <2>1, <2>2
<1>10. CASE Yield
  <2>1. r \in Task \ {Idle} /\ k' = sched_setpriority(k, r, k.prio[r])
    BY <1>1, <1>10 DEF Yield, AtUser, Install
  <2>2. k.prio[r] \in Prio
    <3>1. r # Idle /\ k.state[r] # "INVALID"
      BY <1>1, <2>1
    <3>2. k.prio[r] > 0
      BY <1>1, <3>1 DEF Good, IdleLast
    <3> QED
      BY <1>1, <3>2, PrioAssumption DEF Prio
  <2>3. k'.lock = k.lock
    BY <1>1, <2>1, <2>2, SetPriorityLemma
  <2> QED
    BY <1>10, <2>3, BalanceFrame DEF Yield
<1>11. CASE Exit
  <2>1. r \in Task \ {Idle} /\ k' = sched_removereadytorun(k, r) /\ ListOf(k.state[r]) = "READYTORUN"
    BY <1>1, <1>11 DEF Exit, AtUser, Install, ListOf
  <2>2. k'.lock = k.lock
    BY <1>1, <2>1, RemoveReadyLemma
  <2> QED
    BY <1>11, <2>2, BalanceFrame DEF Exit
<1>12. CASE SetPolicy
  <2> DEFINE c == [op |-> "reprio", tcb |-> call[r].tcb, p |-> call[r].p, rr |-> FALSE]
  <2>1. k.lock[r] = nest[r] /\ k' = Locked(k) /\ nest' = nest /\ call' = [call EXCEPT ![r] = c]
    BY <1>2, <1>12 DEF SetPolicy, At, Held, Enter
  <2>2. Held(c) /\ c.op # "restart"
    BY DEF Held
  <2> HIDE DEF c
  <2> QED
    BY <1>5, <2>1, <2>2, BalanceCall
<1>13. CASE Reprioritize
  <2> DEFINE c == [call[r] EXCEPT !.op = "base"]
  <2>1. /\ call[r].op = "reprio" /\ nest' = nest /\ call' = [call EXCEPT ![r] = c]
        /\ k' = sched_setpriority(k, call[r].tcb, call[r].p)
    BY <1>1, <1>13 DEF Reprioritize, At, Goto, Install
  <2>2. Held(c) /\ c.op # "restart" /\ Held(call[r])
    BY <1>1, <2>1 DEF Held, Call
  <2>3. call[r].tcb \in Task \ {Idle} /\ call[r].p \in Prio
    BY <1>1, <2>1 DEF CallInv, Call
  <2>4. k'.lock = k.lock
    BY <1>1, <2>1, <2>3, SetPriorityLemma
  <2> HIDE DEF c
  <2> QED
    BY <1>2, <1>3, <2>1, <2>2, <2>4, BalanceCall
<1>14. CASE SetBase
  <2> DEFINE c == [op |-> "unlock", tcb |-> r, p |-> 0, rr |-> FALSE]
  <2>1. Held(call[r]) /\ k' = k /\ nest' = nest /\ call' = [call EXCEPT ![r] = c]
    BY <1>14 DEF SetBase, At, Held, Enter
  <2>2. Held(c) /\ c.op # "restart"
    BY DEF Held
  <2> HIDE DEF c
  <2> QED
    BY <1>2, <1>3, <2>1, <2>2, BalanceCall
<1>15. CASE UnlockReturn
  <2> DEFINE c == UserCall(r)
  <2>1. Held(call[r]) /\ sched_unlock /\ nest' = nest /\ call' = [call EXCEPT ![r] = c]
    BY <1>15 DEF UnlockReturn, At, Held, Return
  <2>2. ~ Held(c) /\ c.op # "restart"
    BY DEF Held, UserCall
  <2>3. k'.lock = [k.lock EXCEPT ![r] = nest[r]]
    BY <1>1, <1>2, <1>6, <2>1
  <2> HIDE DEF c
  <2>4. nest[r] = nest[r] + IF Held(c) THEN 1 ELSE 0
    BY <1>1, <2>2
  <2> QED
    BY <1>1, <2>1, <2>2, <2>4, <2>3, BalanceCall
<1>16. CASE TerminateUnlink
  <2> DEFINE c == [call[r] EXCEPT !.op = "unlterm"]
             t == call[r].tcb
  <2>1. /\ call[r].op = "term" /\ nest' = nest /\ call' = [call EXCEPT ![r] = c]
        /\ k.state[t] \notin {"RUNNING", "INVALID"} /\ k' = Unlink(t)
    BY <1>1, <1>16 DEF TerminateUnlink, At, Goto
  <2>2. Held(c) /\ c.op # "restart" /\ Held(call[r])
    BY <1>1, <2>1 DEF Held, Call
  <2>3. t \in Task \ {Idle}
    BY <1>1, <2>1 DEF CallInv, Call
  <2> HIDE DEF c, t
  <2>4. k'.lock = k.lock
    BY <1>1, <2>1, <2>3, UnlinkLemma DEF Unlink
  <2> QED
    BY <1>2, <1>3, <2>1, <2>2, <2>4, BalanceCall
<1>17. CASE TerminateUnlock
  <2> DEFINE c == [call[r] EXCEPT !.op = "release"]
  <2>1. Held(call[r]) /\ sched_unlock /\ nest' = nest /\ call' = [call EXCEPT ![r] = c]
    BY <1>1, <1>17 DEF TerminateUnlock, At, Held, Goto
  <2>2. ~ Held(c) /\ c.op # "restart"
    BY <1>1 DEF Held, Call
  <2>3. k'.lock = [k.lock EXCEPT ![r] = nest[r]]
    BY <1>1, <1>2, <1>6, <2>1
  <2> HIDE DEF c
  <2>4. nest[r] = nest[r] + IF Held(c) THEN 1 ELSE 0
    BY <1>1, <2>2
  <2> QED
    BY <1>1, <2>1, <2>2, <2>4, <2>3, BalanceCall
<1>18. CASE TerminateRelease
  <2> DEFINE c == UserCall(r)
  <2>1. ~ Held(call[r]) /\ k' = k /\ nest' = nest /\ call' = [call EXCEPT ![r] = c]
    BY <1>18 DEF TerminateRelease, At, Held, Return
  <2>2. ~ Held(c) /\ c.op # "restart"
    BY DEF Held, UserCall
  <2> HIDE DEF c
  <2> QED
    BY <1>2, <1>3, <2>1, <2>2, BalanceCall
<1>19. CASE RestartActivate
  BY <1>1, <1>19 DEF RestartActivate, At, Balance
<1>20. ASSUME NEW s \in WaitStates, Block(s) PROVE Balance'
  <2>1. k' = BlockTask(k, Running(k), s) /\ Running(k) # Idle /\ s \in BlockedState
    BY <1>20, WaitAssumption DEF Block, Install, AtUser, r
  <2>2. k'.lock = k.lock
    BY <1>1, <2>1, BlockLemma
  <2> QED
    BY <1>20, <2>2, BalanceFrame DEF Block
<1>21. ASSUME NEW t \in Task, Unblock(t) \/ Activate(t) PROVE Balance'
  <2>1. k' = UnblockTask(k, t) /\ k.state[t] \in BlockedState /\ nest' = nest /\ call' = call
    BY <1>21, WaitAssumption DEF Unblock, Activate, Install, BlockedState
  <2>2. k'.lock = k.lock
    BY <1>1, <2>1, UnblockLemma
  <2> QED
    BY <2>1, <2>2, BalanceFrame
<1>22. ASSUME NEW t \in Task, Terminate(t) PROVE Balance'
  <2> DEFINE c == [op |-> "term", tcb |-> t, p |-> 0, rr |-> FALSE]
  <2>1. k.lock[r] = nest[r] /\ k' = Locked(k) /\ nest' = nest /\ call' = [call EXCEPT ![r] = c]
    BY <1>2, <1>22 DEF Terminate, AtUser, At, Held, Enter
  <2>2. Held(c) /\ c.op # "restart"
    BY DEF Held
  <2> HIDE DEF c
  <2> QED
    BY <1>5, <2>1, <2>2, BalanceCall
<1>23. ASSUME NEW t \in Task, Restart(t) PROVE Balance'
  BY <1>23 DEF Restart
<1>24. ASSUME NEW t \in Task, NEW p \in Prio, SetParam(t, p) PROVE Balance'
  <2> DEFINE c == [op |-> "reprio", tcb |-> t, p |-> p, rr |-> FALSE]
  <2>1. k.lock[r] = nest[r] /\ k' = Locked(k) /\ nest' = nest /\ call' = [call EXCEPT ![r] = c]
    BY <1>2, <1>24 DEF SetParam, AtUser, At, Held, Enter
  <2>2. Held(c) /\ c.op # "restart"
    BY DEF Held
  <2> HIDE DEF c
  <2> QED
    BY <1>5, <2>1, <2>2, BalanceCall
<1>25. ASSUME NEW t \in Task, NEW p \in Prio, NEW robin \in BOOLEAN, SetScheduler(t, robin, p)
       PROVE  Balance'
  <2> DEFINE c == [op |-> "sslock", tcb |-> t, p |-> p, rr |-> robin]
  <2>1. ~ Held(call[r]) /\ k' = k /\ nest' = nest /\ call' = [call EXCEPT ![r] = c]
    BY <1>25 DEF SetScheduler, AtUser, At, Held, Enter
  <2>2. ~ Held(c) /\ c.op # "restart"
    BY DEF Held
  <2> HIDE DEF c
  <2> QED
    BY <1>2, <1>3, <2>1, <2>2, BalanceCall
<1>26. ASSUME NEW t \in Task, NEW p \in Prio, Setup(t, p) PROVE Balance'
  <2>1. /\ k' = AddInactive(WithPrio([k EXCEPT !.lock[t] = 0], t, p), t)
        /\ call' = [call EXCEPT ![t] = UserCall(t)] /\ nest' = [nest EXCEPT ![t] = 0]
        /\ t \notin hashed
    BY <1>26 DEF Setup
  <2>2. t \in Task \ {Idle} /\ k.state[t] = "INVALID"
    BY <2>1, RunFacts DEF HashInv
  <2>3. k'.lock = [k.lock EXCEPT ![t] = 0]
    BY <1>1, <2>1, <2>2, SetupLemma
  <2>4. \A u \in Task : /\ call'[u] = IF u = t THEN UserCall(t) ELSE call[u]
                        /\ k'.lock[u] = IF u = t THEN 0 ELSE k.lock[u]
                        /\ nest'[u] = IF u = t THEN 0 ELSE nest[u]
    BY <1>1, <2>1, <2>3
  <2>5. ~ Held(UserCall(t)) /\ UserCall(t).op # "restart"
    BY DEF Held, UserCall
  <2>6. \A u \in Task : k'.lock[u] = nest'[u] + IF Held(call'[u]) THEN 1 ELSE 0
    BY <2>4, <2>5 DEF Balance
  <2>7. \A u \in Task : call'[u].op # "restart"
    BY <2>4, <2>5 DEF Balance
  <2> QED
    BY <2>6, <2>7 DEF Balance, Held
<1>27. CASE UNCHANGED vars
  BY <1>27, BalanceFrame DEF vars
<1> QED
  BY <1>7, <1>8, <1>9, <1>10, <1>11, <1>12, <1>13, <1>14, <1>15, <1>16, <1>17, <1>18, <1>19,
     <1>20, <1>21, <1>22, <1>23, <1>24, <1>25, <1>26, <1>27 DEF Next

(* Every kernel call gives back the pre-emption lock it takes, wherever it *)
(* is interrupted, switched away from or terminated.  task_restart() does  *)
(* not: its error returns keep the lock, and it leaves the lock count of   *)
(* the task it restarts.                                                   *)
THEOREM LockBalancedHolds == ASSUME "restart" \notin Api PROVE Spec => []LockBalanced
<1>1. Init => Balance
  <2> SUFFICES ASSUME Init PROVE Balance
    OBVIOUS
  <2>1. \A t \in Task : k.lock[t] = 0 /\ nest[t] = 0 /\ call[t].op = "user"
    BY DEF Init, UserCall
  <2> QED
    BY <2>1 DEF Balance, Held
<1>2. Inv /\ Balance /\ [Next]_vars => Balance'
  BY BalanceStep
<1>3. Inv /\ Balance => LockBalanced
  BY DEF Inv, TypeOK, Balance, Held, LockBalanced
<1> QED
  BY <1>1, <1>2, <1>3, Invariance, PTL DEF Spec
-----------------------------------------------------------------------------
(* The order of arrival. *)

(* The formula of FifoEntry. *)
EntersBehind ==
    \A i, j \in 1 .. Len(Rtr(k)') :
        LET t == Rtr(k)'[i]
            u == Rtr(k)'[j]
        IN  /\ ListOf(k.state[t]) # "READYTORUN"
            /\ ListOf(k.state[u]) = "READYTORUN"
            /\ k.prio[u] = k'.prio[t]
            /\ k'.prio[u] = k'.prio[t]
            => j < i

(* The tasks of g_readytorun are ready. *)
LEMMA ReadyListed ==
    ASSUME NEW m, Good(m), NEW i \in 1 .. Len(Rtr(m))
    PROVE  Rtr(m)[i] \in Task /\ ListOf(m.state[Rtr(m)[i]]) = "READYTORUN"
<1>1. "READYTORUN" \in List /\ m.list["READYTORUN"] \in Seq(Task) /\ Rtr(m) = m.list["READYTORUN"]
  BY DEF Good, Lists, KType, List, TState, Rtr
<1> QED
  BY <1>1 DEF Good, Lists, Placed

(* At most t enters g_readytorun, and it is behind its equals. *)
LEMMA OneEnters ==
    ASSUME Good(k'), NEW t,
           \A u \in Task \ {t} : ListOf(k'.state[u]) = "READYTORUN" => ListOf(k.state[u]) = "READYTORUN",
           \/ ListOf(k'.state[t]) = "READYTORUN" => ListOf(k.state[t]) = "READYTORUN"
           \/ Behind(k', t)
    PROVE  EntersBehind
<1> DEFINE m == k'
<1> SUFFICES ASSUME NEW i \in 1 .. Len(Rtr(m)), NEW j \in 1 .. Len(Rtr(m)),
                    ListOf(k.state[Rtr(m)[i]]) # "READYTORUN",
                    ListOf(k.state[Rtr(m)[j]]) = "READYTORUN",
                    m.prio[Rtr(m)[j]] = m.prio[Rtr(m)[i]]
             PROVE  j < i
  BY DEF EntersBehind, Rtr
<1> HIDE DEF m
<1>1. Rtr(m)[i] \in Task /\ ListOf(m.state[Rtr(m)[i]]) = "READYTORUN"
  BY ReadyListed DEF m
<1>2. Rtr(m)[i] = t /\ Rtr(m)[j] # t
  BY <1>1 DEF m
<1>3. Behind(m, t)
  BY <1>1, <1>2 DEF m
<1> QED
  BY <1>2, <1>3 DEF Behind

(* No task changes its list. *)
LEMMA NobodyEnters ==
    ASSUME Good(k'), k'.state = k.state
    PROVE  EntersBehind
BY OneEnters

LEMMA RequeuedEnters ==
    ASSUME Good(k'), NEW t \in Task, Requeued(k, k', t)
    PROVE  EntersBehind
<1>1. \A u \in Task \ {t} : ListOf(k'.state[u]) = "READYTORUN" => ListOf(k.state[u]) = "READYTORUN"
  BY DEF Requeued, Stay
<1>2. ListOf(k'.state[t]) = "READYTORUN" => ListOf(k.state[t]) = "READYTORUN"
  BY DEF Requeued
<1> QED
  BY <1>1, <1>2, OneEnters

LEMMA FifoStep ==
    ASSUME Inv, Inv', Next
    PROVE  EntersBehind
<1>1. /\ Good(k) /\ Good(k') /\ r \in Task /\ k.state[r] = "RUNNING" /\ ListOf(k.state[r]) = "READYTORUN"
      /\ k.state \in [Task -> TState] /\ k.prio \in [Task -> 0 .. MaxPrio]
      /\ CallInv /\ KType(k) /\ call[r] \in Call
  BY RunFacts DEF Inv, ListsInv, ListOf
<1>2. \A m, t : Stay(k, m, t) =>
        \A u \in Task \ {t} : ListOf(m.state[u]) = "READYTORUN" => ListOf(k.state[u]) = "READYTORUN"
  BY DEF Stay
<1>3. ASSUME k' = Locked(k) \/ sched_unlock \/ k' = k PROVE EntersBehind
  <2>1. k'.state = k.state
    BY <1>1, <1>3 DEF Locked, sched_unlock, Install, LockDropped, KType, SchedField
  <2> QED
    BY <1>1, <2>1, NobodyEnters
<1>4. CASE MergeStep
  <2>1. MergeAt(k, cursor) /\ k' = MergeOne(k, cursor)
    BY <1>4 DEF Inv, ListsInv, MergeStep
  <2>2. Stay(k, k', Pending(k)[1]) /\ Behind(k', Pending(k)[1])
    BY <1>1, <2>1, MergeLemma
  <2> QED
    BY <1>1, <1>2, <2>2, OneEnters
<1>5. CASE Tick
  <2>1. CASE k' = k
    BY <1>3, <2>1
  <2>2. CASE k' # k
    <3>1. k' = ReprioritizeRtr(k, r, k.prio[r]) /\ Len(Rtr(k)) > 1
      BY <1>5, <2>2 DEF Tick, Install
    <3>2. r # Idle
      <4>1. Len(Rtr(k)) \in Nat /\ Rtr(k)[1] = r /\ Rtr(k)[Len(Rtr(k))] = Idle
        BY <1>1, ReadyFacts DEF Good, IdleLast, r, Running
      <4>2. Rtr(k) = k.list["READYTORUN"] /\ "READYTORUN" \in List
        BY DEF Rtr, List, TState
      <4> QED
        BY <1>1, <3>1, <4>1, <4>2 DEF Good, Lists, Unique
    <3>3. k.prio[r] \in Prio
      BY <1>1, <3>2, PrioAssumption DEF Good, IdleLast, Prio
    <3> QED
      BY <1>1, <3>1, <3>2, <3>3, ReprioLemma, RequeuedEnters
  <2> QED
    BY <2>1, <2>2
<1>6. CASE Yield
  <2>1. r # Idle /\ k' = sched_setpriority(k, r, k.prio[r])
    BY <1>6 DEF Yield, AtUser, Install
  <2>2. k.prio[r] \in Prio
    BY <1>1, <2>1, PrioAssumption DEF Good, IdleLast, Prio
  <2> QED
    BY <1>1, <2>1, <2>2, SetPriorityLemma, RequeuedEnters
<1>7. CASE Exit
  <2>1. r # Idle /\ k' = sched_removereadytorun(k, r)
    BY <1>7 DEF Exit, AtUser, Install
  <2>2. Stay(k, k', r)
    BY <1>1, <2>1, RemoveReadyLemma
  <2> QED
    BY <1>1, <1>2, <2>2, OneEnters
<1>8. CASE Reprioritize
  <2>1. call[r].tcb \in Task \ {Idle} /\ call[r].p \in Prio
    BY <1>1, <1>8 DEF Reprioritize, At, CallInv, Call
  <2>2. k' = sched_setpriority(k, call[r].tcb, call[r].p)
    BY <1>8 DEF Reprioritize, Install
  <2> QED
    BY <1>1, <2>1, <2>2, SetPriorityLemma, RequeuedEnters
<1>9. CASE TerminateUnlink
  <2> DEFINE t == call[r].tcb
  <2>1. k.state[t] \notin {"RUNNING", "INVALID"} /\ k' = Unlink(t) /\ t \in Task \ {Idle}
    BY <1>1, <1>9 DEF TerminateUnlink, At, CallInv, Call
  <2> HIDE DEF t
  <2>2. k'.state = [k.state EXCEPT ![t] = "INVALID"]
    BY <1>1, <2>1, UnlinkLemma DEF Unlink
  <2>3. k'.state[t] = "INVALID" /\ \A u \in Task \ {t} : k'.state[u] = k.state[u]
    BY <1>1, <2>1, <2>2
  <2>4. ListOf(k'.state[t]) # "READYTORUN"
    BY <2>3 DEF ListOf
  <2> QED
    BY <1>1, <2>3, <2>4, OneEnters
<1>10. CASE RestartActivate
  <2> DEFINE t == call[r].tcb
             a == Unlink(t)
             m == AddInactive(WithPrio(a, t, init[t]), t)
  <2>1. k' = UnblockTask(m, t) /\ k.state[t] \notin {"INVALID", "RUNNING"} /\ t \in Task \ {Idle}
    BY <1>1, <1>10 DEF RestartActivate, At, CallInv, Call, Install
  <2>2. init[t] \in Prio
    BY <2>1, RunFacts DEF HashInv, TypeOK
  <2>3. a = [dq_rem(k, t, ListOf(k.state[t])) EXCEPT !.state[t] = "INVALID"]
    BY DEF Unlink
  <2> HIDE DEF a, t
  <2>4. Good(m) /\ m.state[t] = "INACTIVE" /\ Stay(k, m, t)
    BY <1>1, <2>1, <2>2, <2>3, RestartLemma
  <2> HIDE DEF m
  <2>5. Stay(m, k', t) /\ Behind(k', t)
    BY <2>1, <2>4, UnblockLemma DEF BlockedState
  <2>6. Stay(k, k', t)
    BY <2>4, <2>5 DEF Stay
  <2> QED
    BY <1>1, <1>2, <2>5, <2>6, OneEnters
<1>11. ASSUME NEW s \in WaitStates, Block(s) PROVE EntersBehind
  <2>1. k' = BlockTask(k, Running(k), s) /\ Running(k) # Idle /\ s \in BlockedState
    BY <1>11, WaitAssumption DEF Block, Install, AtUser, r
  <2>2. Stay(k, k', r)
    BY <1>1, <2>1, BlockLemma DEF r
  <2> QED
    BY <1>1, <1>2, <2>2, OneEnters
<1>12. ASSUME NEW t \in Task, Unblock(t) \/ Activate(t) PROVE EntersBehind
  <2>1. k' = UnblockTask(k, t) /\ k.state[t] \in BlockedState
    BY <1>12, WaitAssumption DEF Unblock, Activate, Install, BlockedState
  <2>2. Stay(k, k', t) /\ Behind(k', t)
    BY <1>1, <2>1, UnblockLemma
  <2> QED
    BY <1>1, <1>2, <2>2, OneEnters
<1>13. ASSUME NEW t \in Task, NEW p \in Prio, Setup(t, p) PROVE EntersBehind
  <2>1. k' = AddInactive(WithPrio([k EXCEPT !.lock[t] = 0], t, p), t) /\ t \notin hashed
    BY <1>13 DEF Setup
  <2>2. t \in Task \ {Idle} /\ k.state[t] = "INVALID"
    BY <2>1, RunFacts DEF HashInv
  <2>3. k'.state = [k.state EXCEPT ![t] = "INACTIVE"]
    BY <1>1, <2>1, <2>2, SetupLemma
  <2>4. k'.state[t] = "INACTIVE" /\ \A u \in Task \ {t} : k'.state[u] = k.state[u]
    BY <1>1, <2>3
  <2>5. ListOf(k'.state[t]) # "READYTORUN"
    BY <2>4 DEF ListOf
  <2> QED
    BY <1>1, <2>4, <2>5, OneEnters
<1>14. CASE Lock \/ Unlock \/ SetPolicy \/ SetBase \/ UnlockReturn \/ TerminateUnlock \/ TerminateRelease
  BY <1>3, <1>14 DEF Lock, Unlock, SetPolicy, SetBase, UnlockReturn, TerminateUnlock, TerminateRelease
<1>15. ASSUME NEW t \in Task, Terminate(t) \/ Restart(t) PROVE EntersBehind
  BY <1>3, <1>15 DEF Terminate, Restart
<1>16. ASSUME NEW t \in Task, NEW p \in Prio, SetParam(t, p) PROVE EntersBehind
  BY <1>3, <1>16 DEF SetParam
<1>17. ASSUME NEW t \in Task, NEW p \in Prio, NEW robin \in BOOLEAN, SetScheduler(t, robin, p)
       PROVE  EntersBehind
  BY <1>3, <1>17 DEF SetScheduler
<1> QED
  BY <1>4, <1>5, <1>6, <1>7, <1>8, <1>9, <1>10, <1>11, <1>12, <1>13, <1>14, <1>15, <1>16, <1>17 DEF Next

(* Tasks of one priority reach the CPU in the order they became ready:     *)
(* whether it is unblocked, activated, restarted or merged from            *)
(* g_pendingtasks, a task enters g_readytorun behind all its equals.       *)
THEOREM FifoEntryHolds == Spec => FifoEntry
<1>1. Inv /\ Inv' /\ [Next]_vars => [EntersBehind]_vars
  BY FifoStep
<1> QED
  BY Invariance, <1>1, PTL DEF Spec, FifoEntry, EntersBehind
=============================================================================
