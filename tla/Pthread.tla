-------------------------------- MODULE Pthread -------------------------------
(***************************************************************************)
(* Mutexes, condition variables and joining of threads                     *)
(* (os/kernel/pthread, CONFIG_PTHREAD_MUTEX_UNSAFE with                    *)
(* CONFIG_PTHREAD_MUTEX_TYPES) on the scheduler of SchedCalls.             *)
(*                                                                         *)
(* They are made of semaphores, which here are what Semaphore shows the    *)
(* kernel's to be: a count, negative while tasks wait, without priority    *)
(* inheritance.  The record k gets count[s], waitsem[t] and err[t] for     *)
(*                                                                         *)
(*   "mutex"  mutex->sem          "cond"  cond->sem                        *)
(*   "join"   group->tg_joinsem   "exit"  pjoin->exit_sem                  *)
(*   "data"   pjoin->data_sem                                              *)
(*                                                                         *)
(* There is one mutex, one condition variable and the join structure of    *)
(* one thread, Exiter.                                                     *)
(*                                                                         *)
(* Interleaving.  A call is cut where it can be switched out: at each      *)
(* sem_wait(), and between two semaphore operations of a task that has     *)
(* not disabled pre-emption.  call[t].op is what t does next, once it has  *)
(* the semaphore it waits for.                                             *)
(***************************************************************************)
EXTENDS SchedCalls, FiniteSets, FiniteSetsExt

CONSTANTS Base,     \* priority of each task
          User,     \* the threads that use the mutex
          Waiter,   \* those that wait for the condition
          Exiter,   \* the thread that exits
          Joiner,   \* the threads that join it
          MaxLocks, \* bound on the depth of a recursive mutex (INT16_MAX)
          Types,    \* the types of the mutex to look at
          None,
          Api       \* the calls of the instance besides those on the mutex

ASSUME PthreadAssumption ==
    /\ Base \in [Task -> 0 .. MaxPrio] /\ \A t \in Task : Base[t] = 0 <=> t = Idle
    /\ User \cup Joiner \cup {Exiter} \subseteq Task \ {Idle} /\ Exiter \notin Joiner
    /\ Waiter \subseteq User
    /\ MaxLocks \in Nat \ {0}
    /\ Types \subseteq {"NORMAL", "ERRORCHECK", "RECURSIVE"}
    /\ Api \subseteq {"condwait", "badtime", "rwait", "signal", "detach", "latedetach"}

Sem == {"mutex", "cond", "join", "exit", "data"}

VARIABLES k,      \* task lists and semaphores
          call,   \* what each thread does next
          mutex,  \* type, pid and nlocks
          timed,  \* the threads whose waitdog is running
          info,   \* the join structure of Exiter
          level   \* how often each thread has locked the mutex, by the
                  \* results of its calls

vars == <<k, call, mutex, timed, info, level>>

UserCall == [op |-> "user", n |-> 0]

Init ==
    /\ \E order \in ReadyOrder(Base) :
         k = [list  |-> ReadyLists(order), state |-> ReadyStates(order), prio |-> Base,
              lock  |-> [t \in Task |-> 0], panic |-> "none",
              count   |-> [s \in Sem |-> IF s \in {"mutex", "join"} THEN 1 ELSE 0],
              waitsem |-> [t \in Task |-> None],
              err     |-> [t \in Task |-> "OK"]]
    /\ call = [t \in Task |-> UserCall]
    /\ mutex \in [type : Types, pid : {None}, nlocks : {0}]
    /\ timed = {}
    /\ info = [crefs |-> 0, terminated |-> FALSE, detached |-> FALSE, freed |-> FALSE,
               joined |-> FALSE, fault |-> FALSE]
    /\ level = [t \in Task |-> 0]

r == Running(k)
At(op) == k.panic = "none" /\ call[r].op = op
Goto(op) == call' = [call EXCEPT ![r].op = op]
Return == call' = [call EXCEPT ![r] = UserCall]

-----------------------------------------------------------------------------
(* sem_wait(), sem_post() and sem_waitirq() without priority inheritance. *)
sem_wait(m, t, s) ==
    LET n == [m EXCEPT !.count[s] = @ - 1, !.err[t] = "OK"]
    IN  IF m.count[s] > 0 THEN n
        ELSE up_block_task([n EXCEPT !.waitsem[t] = s], t, "WAIT_SEM")

sem_post(m, s) ==
    LET n == [m EXCEPT !.count[s] = @ + 1]
        w == SelectSeq(m.list["WAIT_SEM"], LAMBDA t : m.waitsem[t] = s)
    IN  IF n.count[s] <= 0 /\ w # <<>>
        THEN up_unblock_task([n EXCEPT !.waitsem[w[1]] = None], w[1])
        ELSE n

sem_waitirq(m, t) ==
    IF m.state[t] # "WAIT_SEM" THEN m
    ELSE up_unblock_task([m EXCEPT !.count[m.waitsem[t]] = @ + 1, !.waitsem[t] = None,
                                   !.err[t] = "EINTR"], t)

(* Task r goes for s, and on to op, at once or when it runs again.         *)
(* pthread_takesemaphore() with intr false tries again after a signal.     *)
Take(m, s, op) == k' = sem_wait(m, r, s) /\ Goto(op)
TakeNext(m, op) == k' = [m EXCEPT !.err[r] = "TAKE"] /\ Goto(op)
Got(op) == At(op) /\ k.err[r] = "OK"
SemOf == [relock |-> "mutex", cond1 |-> "mutex", cond2 |-> "mutex", join1 |-> "join",
          join2 |-> "exit", join3 |-> "join", exit1 |-> "join", exit3 |-> "data",
          detach |-> "join"]
pthread_takesemaphore ==
    /\ call[r].op \in DOMAIN SemOf /\ k.err[r] # "OK" /\ k.panic = "none"
    /\ k' = sem_wait(k, r, SemOf[call[r].op])
    /\ UNCHANGED <<call, mutex, timed, info, level>>

-----------------------------------------------------------------------------
Mine == mutex.type # "NORMAL" /\ mutex.pid = r
Owned(n) ==
    /\ mutex' = [mutex EXCEPT !.pid = r, !.nlocks = n]
    /\ level' = [level EXCEPT ![r] = 1]

(* pthread_mutex_lock(): an owner adds a level or gets EDEADLK.  Pre-      *)
(* emption stays disabled until the mutex has its owner.                   *)
pthread_mutex_lock ==
    /\ At("user") /\ r \in User /\ (mutex.type = "NORMAL" => level[r] = 0)
    /\ \/ /\ ~ Mine
          /\ Take(Locked(k), "mutex", "locked")
          /\ UNCHANGED <<mutex, level>>
       \/ /\ Mine /\ mutex.type = "RECURSIVE" /\ mutex.nlocks < MaxLocks
          /\ mutex' = [mutex EXCEPT !.nlocks = @ + 1]
          /\ level' = [level EXCEPT ![r] = @ + 1]
          /\ UNCHANGED <<k, call>>
    /\ UNCHANGED <<timed, info>>

(* Mutation: the result of the wait is not looked at. *)
LockedAnyhow ==
    /\ At("locked")
    /\ Owned(1)
    /\ k' = Unlocked(k) /\ Return
    /\ UNCHANGED <<timed, info>>

(* Back from the wait; a signal makes the call fail with EINTR. *)
LockDone ==
    /\ At("locked")
    /\ IF k.err[r] = "OK" THEN Owned(1) ELSE UNCHANGED <<mutex, level>>
    /\ k' = Unlocked(k) /\ Return
    /\ UNCHANGED <<timed, info>>

(* pthread_mutex_trylock(): sem_trywait() is taken for a function that     *)
(* returns EAGAIN, so that the owner of a recursive mutex fails too.       *)
pthread_mutex_trylock ==
    /\ At("user") /\ r \in User /\ k.count["mutex"] > 0
    /\ k' = [k EXCEPT !.count["mutex"] = @ - 1]
    /\ Owned(IF mutex.type = "RECURSIVE" THEN 1 ELSE mutex.nlocks)
    /\ UNCHANGED <<call, timed, info>>

(* pthread_mutex_unlock() by a thread that locked it; the others' calls    *)
(* fail, or are wrong (a normal mutex).                                    *)
pthread_mutex_unlock ==
    /\ At("user") /\ level[r] > 0 /\ (mutex.type # "NORMAL" => mutex.pid = r)
    /\ IF mutex.type = "RECURSIVE" /\ mutex.nlocks > 1
       THEN mutex' = [mutex EXCEPT !.nlocks = @ - 1] /\ UNCHANGED k
       ELSE /\ mutex' = [mutex EXCEPT !.pid = None, !.nlocks = 0]
            /\ k' = Unlocked(sem_post(Locked(k), "mutex"))
    /\ level' = [level EXCEPT ![r] = @ - 1]
    /\ UNCHANGED <<call, timed, info>>

-----------------------------------------------------------------------------
(* pthread_cond_timedwait(): with interrupts disabled the mutex is given   *)
(* up, the watchdog started and the wait begun.  A recursive mutex is      *)
(* waited with only where the instance has "rwait": nlocks is not set when *)
(* it is taken back.                                                       *)
MayWait == At("user") /\ r \in Waiter /\ level[r] = 1 /\ mutex.pid = r
pthread_cond_timedwait ==
    /\ MayWait /\ (mutex.type = "RECURSIVE" => "rwait" \in Api)
    /\ mutex' = [mutex EXCEPT !.pid = None]
    /\ level' = [level EXCEPT ![r] = 0]
    /\ timed' = timed \cup {r}
    /\ Take(sem_post(Locked(k), "mutex"), "cond", "waited")
    /\ UNCHANGED info

(* clock_abstime2ticks() fails: the sched_unlock() is skipped. *)
BadTime ==
    /\ "badtime" \in Api /\ MayWait /\ k.lock[r] = 0
    /\ k' = Locked(k)
    /\ UNCHANGED <<call, mutex, timed, info, level>>

(* Mutation: the wait goes on after a signal. *)
WaitOn ==
    /\ At("waited")
    /\ IF k.err[r] = "OK" THEN Take(k, "mutex", "relock")
       ELSE k' = sem_wait(k, r, "cond") /\ UNCHANGED call
    /\ UNCHANGED <<mutex, timed, info, level>>

(* Whatever ended the wait, the mutex is taken back ...                    *)
CondWaited ==
    /\ At("waited")
    /\ Take(k, "mutex", "relock")
    /\ UNCHANGED <<mutex, timed, info, level>>

(* ... and the watchdog, which may have expired meanwhile, is deleted.     *)
CondRelocked ==
    /\ Got("relock")
    /\ mutex' = [mutex EXCEPT !.pid = r]
    /\ level' = [level EXCEPT ![r] = 1]
    /\ k' = Unlocked(k) /\ Return
    /\ timed' = timed \ {r}
    /\ UNCHANGED info

(* pthread_condtimedout(): SIGCONDTIMEDOUT ends any wait for a semaphore. *)
Timeout(t) ==
    /\ k.panic = "none" /\ t \in timed
    /\ k' = sem_waitirq(k, t)
    /\ timed' = timed \ {t}
    /\ UNCHANGED <<call, mutex, info, level>>

(* pthread_cond_wait(): the mutex is given up and taken, and taken again. *)
pthread_cond_wait ==
    /\ "condwait" \in Api /\ MayWait
    /\ mutex' = [mutex EXCEPT !.pid = None]
    /\ level' = [level EXCEPT ![r] = 0]
    /\ Take(sem_post(Locked(k), "mutex"), "mutex", "cond1")
    /\ UNCHANGED <<timed, info>>

CondTakeAgain ==
    /\ Got("cond1")
    /\ TakeNext(Unlocked(k), "cond2")
    /\ UNCHANGED <<mutex, timed, info, level>>

(* pthread_cond_signal(): the value is looked at before the post, which    *)
(* nothing protects.                                                       *)
pthread_cond_signal ==
    /\ At("user") /\ r \in User /\ k.count["cond"] < 0
    /\ Goto("signal")
    /\ UNCHANGED <<k, mutex, timed, info, level>>

CondSignalGive ==
    /\ At("signal")
    /\ k' = sem_post(k, "cond") /\ Return
    /\ UNCHANGED <<mutex, timed, info, level>>

(* pthread_cond_broadcast(): as many posts as there were waiters. *)
pthread_cond_broadcast ==
    /\ At("user") /\ r \in User /\ k.count["cond"] < 0
    /\ k' = Locked(k)
    /\ call' = [call EXCEPT ![r] = [op |-> "broadcast", n |-> - k.count["cond"]]]
    /\ UNCHANGED <<mutex, timed, info, level>>

CondBroadcastGive ==
    /\ At("broadcast")
    /\ IF call[r].n = 1 THEN k' = Unlocked(sem_post(k, "cond")) /\ Return
       ELSE k' = sem_post(k, "cond") /\ call' = [call EXCEPT ![r].n = @ - 1]
    /\ UNCHANGED <<mutex, timed, info, level>>

-----------------------------------------------------------------------------
(* The join structure is used: a fault if it has been freed. *)
Touch == info' = [info EXCEPT !.fault = @ \/ info.freed]

(* Only an instance with "latedetach" detaches a thread while another      *)
(* joins it.                                                               *)
Apart(ops) == "latedetach" \in Api \/ \A t \in Task : call[t].op \notin ops

(* pthread_join(): tg_joinsem is taken, the structure looked up ...        *)
pthread_join ==
    /\ At("user") /\ r \in Joiner /\ Apart({"detach"})
    /\ Take(k, "join", "join1")
    /\ UNCHANGED <<mutex, timed, info, level>>

(* ... and the joiner, with pre-emption disabled, goes to wait for the     *)
(* exit, unless it is over ...                                             *)
JoinFound ==
    /\ Got("join1")
    /\ \/ /\ info.freed
          /\ k' = sem_post(k, "join") /\ Return
          /\ UNCHANGED info
       \/ /\ ~ info.freed /\ info.terminated
          /\ info' = [info EXCEPT !.crefs = @ + 1]
          /\ Goto("join3")
          /\ k' = Locked(k)
       \/ /\ ~ info.freed /\ ~ info.terminated
          /\ info' = [info EXCEPT !.crefs = @ + 1]
          /\ Take(sem_post(Locked(k), "join"), "exit", "join2")
    /\ UNCHANGED <<mutex, timed, level>>

(* ... reads the exit value, tells the exiting thread, and takes           *)
(* tg_joinsem back ...                                                     *)
JoinExited ==
    /\ Got("join2")
    /\ Touch
    /\ Take(sem_post(k, "data"), "join", "join3")
    /\ UNCHANGED <<mutex, timed, level>>


(* ... to drop its reference; the last one frees the structure.            *)
JoinDone ==
    /\ Got("join3")
    /\ info' = [info EXCEPT !.fault = @ \/ info.freed, !.crefs = @ - 1, !.joined = TRUE,
                            !.freed = @ \/ info.crefs <= 1]
    /\ k' = Unlocked(sem_post(k, "join")) /\ Return
    /\ UNCHANGED <<mutex, timed, level>>

(* pthread_detach() frees the structure of a thread that has exited        *)
(* whatever crefs says.                                                    *)
pthread_detach ==
    /\ "detach" \in Api /\ At("user") /\ r \in Joiner
    /\ Apart({"join1", "join2", "join3"})
    /\ Take(k, "join", "detach")
    /\ UNCHANGED <<mutex, timed, info, level>>

Detached ==
    /\ Got("detach")
    /\ info' = IF info.freed THEN info
               ELSE IF info.terminated THEN [info EXCEPT !.freed = TRUE]
               ELSE [info EXCEPT !.detached = TRUE]
    /\ k' = sem_post(k, "join") /\ Return
    /\ UNCHANGED <<mutex, timed, level>>

-----------------------------------------------------------------------------
(* pthread_exit() and pthread_completejoin() of Exiter, with tg_joinsem:   *)
(* the joiners there are get the semaphore they wait for ...               *)
pthread_exit ==
    /\ At("user") /\ r = Exiter /\ level[r] = 0
    /\ Take(k, "join", "exit1")
    /\ UNCHANGED <<mutex, timed, info, level>>

pthread_completejoin ==
    LET n == k.count["exit"] IN
    /\ Got("exit1")
    /\ \/ /\ info.freed
          /\ k' = sem_post(k, "join") /\ Goto("leave")
          /\ UNCHANGED info
       \/ /\ ~ info.freed /\ n < 0
          /\ info' = [info EXCEPT !.terminated = TRUE]
          /\ k' = [k EXCEPT !.count["data"] = IF n + 1 >= 0 THEN n + 1 ELSE @]
          /\ Goto("exit2")
       \/ /\ ~ info.freed /\ n >= 0
          /\ info' = [info EXCEPT !.terminated = TRUE, !.freed = info.detached]
          /\ k' = sem_post(k, "join") /\ Goto("leave")
    /\ UNCHANGED <<mutex, timed, level>>

(* Mutation: one joiner is told. *)
NotifyOne ==
    /\ At("exit2")
    /\ TakeNext(sem_post(k, "exit"), "exit3")
    /\ UNCHANGED <<mutex, timed, info, level>>

(* ... one after the other: each may run at once ...                       *)
NotifyWaiters ==
    LET m == sem_post(k, "exit") IN
    /\ At("exit2")
    /\ IF m.count["exit"] < 0 THEN k' = m /\ UNCHANGED call ELSE TakeNext(m, "exit3")
    /\ UNCHANGED <<mutex, timed, info, level>>

(* ... and the thread waits until one has its exit value, and goes.        *)
ExitDone ==
    /\ Got("exit3")
    /\ k' = sem_post(k, "join") /\ Goto("leave")
    /\ UNCHANGED <<mutex, timed, info, level>>

_exit ==
    /\ At("leave")
    /\ k' = sched_mergepending(sched_removereadytorun(k, r))
    /\ Goto("gone")
    /\ UNCHANGED <<mutex, timed, info, level>>

-----------------------------------------------------------------------------
(* A signal for a thread that waits for a semaphore, from an interrupt     *)
(* handler; pthread_exit() blocks all signals.                             *)
Signal(t) ==
    /\ "signal" \in Api /\ k.panic = "none" /\ k.state[t] = "WAIT_SEM"
    /\ call[t].op \notin {"exit1", "exit3"}
    /\ k' = sem_waitirq(k, t)
    /\ UNCHANGED <<call, mutex, timed, info, level>>

(* A thread sleeps, and an interrupt wakes it. *)
Sleep ==
    /\ At("user") /\ r # Idle
    /\ k' = up_block_task(k, r, "WAIT_SIG")
    /\ UNCHANGED <<call, mutex, timed, info, level>>

Wake(t) ==
    /\ k.panic = "none" /\ k.state[t] = "WAIT_SIG"
    /\ k' = up_unblock_task(k, t)
    /\ UNCHANGED <<call, mutex, timed, info, level>>

Next ==
    \/ pthread_takesemaphore
    \/ pthread_mutex_lock \/ LockDone \/ pthread_mutex_trylock \/ pthread_mutex_unlock
    \/ pthread_cond_timedwait \/ BadTime \/ CondWaited \/ CondRelocked
    \/ pthread_cond_wait \/ CondTakeAgain
    \/ pthread_cond_signal \/ CondSignalGive \/ pthread_cond_broadcast \/ CondBroadcastGive
    \/ pthread_join \/ JoinFound \/ JoinExited \/ JoinDone \/ pthread_detach \/ Detached
    \/ pthread_exit \/ pthread_completejoin \/ NotifyWaiters \/ ExitDone \/ _exit
    \/ Sleep
    \/ \E t \in Task : Timeout(t) \/ Signal(t) \/ Wake(t)

Spec == Init /\ [][Next]_vars

-----------------------------------------------------------------------------
(* Types of the state; the scheduler's record is typed by KType in Sched. *)
TypeOK ==
    /\ k.count \in [Sem -> Int] /\ k.waitsem \in [Task -> Sem \cup {None}]
    /\ mutex \in [type : Types, pid : Task \cup {None}, nlocks : 0 .. MaxLocks]
    /\ info.crefs \in Int /\ timed \subseteq Task /\ level \in [Task -> 0 .. MaxLocks]

(* A mutex has one owner, who is the thread in mutex->pid, and a recursive *)
(* one is locked as often as nlocks says, whatever waits for it are        *)
(* interrupted or time out.                                                *)
MutexOwned ==
    \A t \in Task : level[t] > 0 =>
        /\ \A u \in Task \ {t} : level[u] = 0
        /\ mutex.pid = t
        /\ mutex.type = "RECURSIVE" => mutex.nlocks = level[t]

(* The count of the mutex is with its owner, on its way to one thread, or  *)
(* in the semaphore: none is lost or made.                                 *)
HasCount(t) ==
    \/ level[t] > 0
    \/ call[t].op \in {"locked", "relock", "cond1"} /\ k.waitsem[t] = None /\ k.err[t] = "OK"
    \/ call[t].op = "cond2"
MutexConserved ==
    Max({k.count["mutex"], 0}) + Cardinality({t \in Task : HasCount(t)}) = 1

(* Mutual exclusion, and the count and owner fields that provide it, hold  *)
(* together however waits end.                                             *)
MutexSound == TypeOK /\ MutexOwned /\ MutexConserved

(* A thread that waits for the condition has its watchdog running:         *)
(* nothing ends pthread_cond_timedwait() too early to be noticed.          *)
CondWaitHasTimer == \A t \in Task : k.waitsem[t] = "cond" => t \in timed

(* pthread_notifywaiters(): "Post the semaphore to restart each thread     *)
(* that is waiting on the semaphore": when the exiting thread goes on from *)
(* there nobody is waiting, whoever joined or was interrupted by a signal  *)
(* meanwhile; and once it has terminated the only wait that begins is one  *)
(* resumed after a signal.                                                 *)
JoinersTold ==
    [][ /\ call[Exiter].op = "exit2" /\ call'[Exiter].op # "exit2" =>
              \A t \in Task : k'.waitsem[t] # "exit"
        /\ info.terminated => \A t \in Task :
              k'.waitsem[t] = "exit" => k.waitsem[t] = "exit" \/ call[t].op = "join2" ]_vars

(* pthread_join(): "We will sleep here until the thread exits": when it    *)
(* has exited nobody sleeps any more.  A signal at the wrong moment breaks *)
(* it.                                                                     *)
JoinNotMissed ==
    call[Exiter].op \in {"leave", "gone"} => \A t \in Task : k.waitsem[t] # "exit"

(* pthread_mutex_lock(): "the errno EINTR is never returned".              *)
LockNotInterrupted == At("locked") => k.err[r] = "OK"


(* No thread waits for a mutex it has itself (pthread_cond_wait: "Give up  *)
(* the mutex", "Take the semaphore", "Reacquire the mutex").               *)
NoSelfDeadlock == \A t \in Task : HasCount(t) => k.waitsem[t] # "mutex"

(* Pre-emption is enabled again when a call returns                        *)
(* (pthread_condtimedwait.c: "pre-emption will be enabled when we fall     *)
(* through the if/then/else").                                             *)
LockBalanced == \A t \in Task : call[t].op = "user" => k.lock[t] = 0
=============================================================================
