------------------------------ MODULE WorkQueue ------------------------------
(***************************************************************************)
(* A kernel work queue (os/kernel/wqueue): the high priority queue with    *)
(* its one worker or the low priority queue with LPNTHREADS of them.       *)
(*                                                                         *)
(*   kind     the build and the queue: hp, HPWORK rather than LPWORK;      *)
(*            sorting, CONFIG_SCHED_WORKQUEUE_SORTING; boot, whether the   *)
(*            behaviour begins before work_hpstart() or work_lpstart() has *)
(*            recorded the workers' pids                                   *)
(*   started  the pids are recorded                                        *)
(*   q        wqueue->q, head first                                        *)
(*   work     struct work_s: worker says whether the field is not NULL;    *)
(*            age is clock_systimer() - qtime, counted up to Cap, beyond   *)
(*            which nothing depends on it                                  *)
(*   wk       the workers; `run' is about to begin a pass, `call' is in a  *)
(*            callback, `sleep' in usleep(), `wait' in sigwaitinfo(),      *)
(*            `woken' is ready again but has not set busy yet; took is     *)
(*            clock_systimer() - stick, the time since the pass began      *)
(*   cl       tasks between the two halves of work_queue()                 *)
(*   calls    the number of work_queue() calls, for the bound              *)
(*                                                                         *)
(* Interleaving.  work_qqueue(), work_qcancel() and work_process() run     *)
(* with interrupts disabled, the latter up to a callback or a wait.  In a  *)
(* task work_queue() goes on to work_signal() with interrupts enabled, and *)
(* there the idle worker is looked up before the signal is sent.  In an    *)
(* interrupt handler it is one step.  Callbacks may make the same calls,   *)
(* as one of the tasks does.  Which of the ready tasks has the CPU is left *)
(* open: every order is allowed.                                           *)
(*                                                                         *)
(* SIGWORK ends a wait and is otherwise ignored (it is not masked and has  *)
(* no action, sig_tcbdispatch()).  Garbage collection and the priority of  *)
(* the workers (kwork_inherit.c) are left out.                             *)
(***************************************************************************)
EXTENDS Integers, Sequences, SequencesExt, FiniteSets, FiniteSetsExt

CONSTANTS Work, Clients, None,
          LPNTHREADS,  \* CONFIG_SCHED_LPNTHREADS
          Period,      \* the polling period of worker 0, in ticks
          Kinds,       \* the builds and queues to consider
          MaxDelay,    \* the longest delay asked for
          MaxCalls     \* bound on work_queue() calls where order is by delay

ASSUME WorkQueueAssumption ==
    /\ LPNTHREADS \in Nat \ {0} /\ Period \in Nat \ {0} /\ MaxDelay \in Nat
    /\ Kinds \subseteq [hp : BOOLEAN, sorting : BOOLEAN, boot : BOOLEAN]
    /\ None \notin Work

VARIABLES kind, started, q, work, wk, cl, calls

vars == <<kind, started, q, work, wk, cl, calls>>

Workers == 0 .. LPNTHREADS - 1
Active == IF kind.hp THEN {0} ELSE Workers

(* A work that is not queued; its other fields are dead and kept at zero.  *)
Off == [worker |-> FALSE, delay |-> 0, age |-> 0]

Cap == IF MaxDelay > Period THEN MaxDelay ELSE Period
Later(t) == IF t < Cap THEN t + 1 ELSE Cap

Init ==
    /\ kind \in Kinds
    /\ started = ~ kind.boot
    /\ q = <<>>
    /\ work = [w \in Work |-> Off]
    /\ wk = [i \in Workers |-> [pc |-> "run", busy |-> started, took |-> 0,
                                next |-> 0, timer |-> 0, item |-> None]]
    /\ cl = [c \in Clients |-> [pc |-> "idle", to |-> 0]]
    /\ calls = 0

(* work_hpstart() runs on after kernel_thread(), which let the new thread  *)
(* go first; work_lpstart() holds sched_lock() until all is recorded.      *)
Start ==
    /\ ~ started
    /\ started' = TRUE
    /\ wk' = [i \in Workers |-> IF i \in Active THEN [wk[i] EXCEPT !.busy = TRUE] ELSE wk[i]]
    /\ UNCHANGED <<kind, q, work, cl, calls>>

-----------------------------------------------------------------------------
(* work_qqueue().  With SORTING the place is before the first work of a    *)
(* longer delay.  Work that is in the list is refused: no step.            *)
Place(d) ==
    LET later == {n \in 1 .. Len(q) : work[q[n]].delay > d}
    IN  IF kind.sorting /\ later # {} THEN Min(later) ELSE Len(q) + 1

work_qqueue(w, d) ==
    /\ kind.sorting => calls < MaxCalls
    /\ w \notin Range(q)
    /\ q' = InsertAt(q, Place(d), w)
    /\ work' = [work EXCEPT ![w] = [worker |-> TRUE, delay |-> d, age |-> 0]]
    /\ calls' = IF kind.sorting THEN calls + 1 ELSE calls

(* work_signal(): the first worker that is not busy, else worker 0, is     *)
(* sent SIGWORK.  kill() refuses the pid of zero of a worker that is not   *)
(* recorded yet, and work_queue() then fails with the work left queued.    *)
IdleWorker ==
    LET idle == {i \in Workers : ~ wk[i].busy}
    IN  IF kind.hp \/ idle = {} THEN 0 ELSE Min(idle)

Awake(s) == IF s.pc \in {"sleep", "wait"} THEN [s EXCEPT !.pc = "woken", !.timer = 0] ELSE s

KillSleeper(i) ==                                            \* mutation
    wk' = IF started /\ wk[i].pc = "sleep" THEN [wk EXCEPT ![i] = Awake(@)] ELSE wk
Kill(i) == wk' = IF started THEN [wk EXCEPT ![i] = Awake(@)] ELSE wk

(* An interrupt handler queues work. *)
IsrQueue(w, d) ==
    /\ work_qqueue(w, d)
    /\ Kill(IdleWorker)
    /\ UNCHANGED <<kind, started, cl>>

(* A task queues work, then looks for an idle worker, then signals it.  It *)
(* may also call work_signal() by itself.                                  *)
TaskQueue(c, w, d) ==
    /\ cl[c].pc = "idle"
    /\ work_qqueue(w, d)
    /\ cl' = [cl EXCEPT ![c].pc = "signal"]
    /\ UNCHANGED <<kind, started, wk>>

work_signal(c) ==
    /\ cl[c].pc \in {"idle", "signal"}
    /\ cl' = [cl EXCEPT ![c] = [pc |-> "kill", to |-> IdleWorker]]
    /\ UNCHANGED <<kind, started, q, work, wk, calls>>

SignalKill(c) ==
    /\ cl[c].pc = "kill"
    /\ Kill(cl[c].to)
    /\ cl' = [cl EXCEPT ![c] = [pc |-> "idle", to |-> 0]]
    /\ UNCHANGED <<kind, started, q, work, calls>>

(* Mutation: the work is marked available but left in the list. *)
CancelMarkOnly(w) ==
    /\ work[w].worker /\ w \in Range(q)
    /\ work' = [work EXCEPT ![w].worker = FALSE]
    /\ UNCHANGED <<kind, started, q, wk, cl, calls>>

(* work_qcancel(), by a task or an interrupt handler; ENOENT is no step.   *)
work_cancel(w) ==
    /\ work[w].worker /\ w \in Range(q)
    /\ q' = RemoveAt(q, CHOOSE n \in 1 .. Len(q) : q[n] = w)
    /\ work' = [work EXCEPT ![w] = Off]
    /\ UNCHANGED <<kind, started, wk, cl, calls>>

-----------------------------------------------------------------------------
(* work_process() *)
DueEarly(w) == work[w].age + 1 >= work[w].delay              \* mutation
Due(w) == work[w].age >= work[w].delay

(* What is left of the delay, less what the pass itself has taken. *)
Remaining(w, took) ==
    LET e == work[w].age + took
    IN  IF e > work[w].delay THEN 0 ELSE work[w].delay - e

(* The places of the works that a scan finds ready: a sorted list is left  *)
(* at the first that is not.                                               *)
Ready ==
    IF kind.sorting THEN {n \in 1 .. Len(q) : n = 1 /\ Due(q[n])}
                    ELSE {n \in 1 .. Len(q) : Due(q[n])}

(* The smallest of next and the remaining delays of the works passed.      *)
Sooner(next, took, passed) ==
    Min({next} \cup {Remaining(q[n], took) : n \in passed})

(* The first ready work is taken off the list and called. *)
Take(i, took, next) ==
    LET n == Min(Ready)
    IN  /\ q' = RemoveAt(q, n)
        /\ work' = [work EXCEPT ![q[n]] = Off]
        /\ wk' = [wk EXCEPT ![i] = [@ EXCEPT !.pc = "call", !.item = q[n], !.took = took,
                                             !.next = Sooner(next, took, 1 .. n - 1)]]

(* With none ready the worker waits: for a signal (a period of zero, or a  *)
(* sorted list that is empty), or for the next work.  usleep() of n ticks  *)
(* lasts up to n + 1 (wd_start()).                                         *)
Doze(i, took, next) ==
    LET idle == [wk[i] EXCEPT !.busy = FALSE, !.item = None, !.took = 0, !.next = 0]
        n == IF kind.sorting THEN Remaining(q[1], took)
             ELSE Sooner(next, took, 1 .. Len(q))
    IN  CASE i # 0 \/ (kind.sorting /\ q = <<>>) -> [idle EXCEPT !.pc = "wait"]
          [] kind.sorting /\ q # <<>> /\ i = 0 /\ n > 0 ->
                [idle EXCEPT !.pc = "sleep", !.timer = n + 1]
          [] ~ kind.sorting /\ i = 0 /\ took < Period /\ n > 0 ->
                [idle EXCEPT !.pc = "sleep", !.timer = Min({n, Period - took}) + 1]
          [] OTHER -> [idle EXCEPT !.pc = "run", !.busy = wk[i].busy]

Scan(i, took, next) ==
    \/ Ready # {} /\ Take(i, took, next)
    \/ Ready = {} /\ wk' = [wk EXCEPT ![i] = Doze(i, took, next)] /\ UNCHANGED <<q, work>>

(* A pass begins.  The threads of the low priority queue do not run before *)
(* work_lpstart() has finished.                                            *)
work_process(i) ==
    /\ i \in Active /\ wk[i].pc = "run"
    /\ kind.hp \/ started
    /\ Scan(i, 0, IF i = 0 THEN Period ELSE 0)
    /\ UNCHANGED <<kind, started, cl, calls>>

(* A callback returns and the pass goes on at the head of the list. *)
Returned(i) ==
    /\ wk[i].pc = "call"
    /\ Scan(i, wk[i].took, wk[i].next)
    /\ UNCHANGED <<kind, started, cl, calls>>

(* A worker that was woken gets the CPU. *)
Resume(i) ==
    /\ wk[i].pc = "woken"
    /\ wk' = [wk EXCEPT ![i].pc = "run", ![i].busy = TRUE]
    /\ UNCHANGED <<kind, started, q, work, cl, calls>>

(* The timer interrupt: time passes, and a sleep ends with sig_timeout().  *)
Tick ==
    /\ work' = [w \in Work |-> IF w \in Range(q) THEN [work[w] EXCEPT !.age = Later(@)] ELSE work[w]]
    /\ wk' = [i \in Workers |->
                CASE wk[i].timer = 1 -> Awake(wk[i])
                  [] wk[i].timer > 1 -> [wk[i] EXCEPT !.timer = @ - 1]
                  [] wk[i].pc = "call" -> [wk[i] EXCEPT !.took = Later(@)]
                  [] OTHER -> wk[i]]
    /\ UNCHANGED <<kind, started, q, cl, calls>>

Next ==
    \/ Start \/ Tick
    \/ \E w \in Work :
         \/ work_cancel(w)
         \/ \E d \in 0 .. MaxDelay : IsrQueue(w, d) \/ \E c \in Clients : TaskQueue(c, w, d)
    \/ \E c \in Clients : work_signal(c) \/ SignalKill(c)
    \/ \E i \in Workers : work_process(i) \/ Returned(i) \/ Resume(i)

Spec == Init /\ [][Next]_vars

(* Ticks keep coming, callbacks return, workers that are ready get the  *)
(* CPU, and tasks and start-up code finish what they have begun.           *)
FairSpec ==
    /\ Spec
    /\ WF_vars(Tick) /\ WF_vars(Start)
    /\ \A i \in Workers : WF_vars(work_process(i)) /\ WF_vars(Returned(i)) /\ WF_vars(Resume(i))
    /\ \A c \in Clients :
         WF_vars(cl[c].pc = "signal" /\ work_signal(c)) /\ WF_vars(SignalKill(c))

-----------------------------------------------------------------------------
(* Types of the state. *)
TypeOK ==
    /\ kind \in Kinds /\ started \in BOOLEAN
    /\ q \in Seq(Work)
    /\ work \in [Work -> [worker : BOOLEAN, delay : 0 .. MaxDelay, age : 0 .. Cap]]
    /\ wk \in [Workers -> [pc : {"run", "call", "sleep", "wait", "woken"}, busy : BOOLEAN,
                           took : 0 .. Cap, next : 0 .. Cap, timer : 0 .. Cap + 1,
                           item : Work \cup {None}]]
    /\ cl \in [Clients -> [pc : {"idle", "signal", "kill"}, to : Workers]]

(* work_available(), a look at the worker field, tells whether the work is *)
(* in the list, which holds it once, whatever cancels, callbacks and       *)
(* requeueing do at the same time.                                         *)
AvailableIsFree ==
    /\ \A w \in Work : work[w].worker <=> w \in Range(q)
    /\ IsInjective(q)

(* While worker 0 waits, and no work_queue() call is unfinished, it will   *)
(* wake up no later than a tick after each of the works is due: no wakeup  *)
(* is lost, neither at work_queue() nor because the wait was set up for    *)
(* another work.  Left(w) is the time until w is due.                      *)
Left(w) == IF Due(w) THEN 0 ELSE work[w].delay - work[w].age
Idling == started /\ wk[0].pc \in {"sleep", "wait"} /\ \A c \in Clients : cl[c].pc = "idle"
OnTime == Idling => \A w \in Range(q) : wk[0].pc = "sleep" /\ wk[0].timer <= Left(w) + 1

(* The same with the allowance that order by delay needs: with SORTING a   *)
(* work may be found late, but by no more than its own delay.              *)
WakesFor ==
    Idling => \A w \in Range(q) :
        /\ wk[0].pc = "sleep"
        /\ wk[0].timer <= 1 + IF kind.sorting THEN work[w].delay ELSE Left(w)

(* List, flags and wakeups agree while clients and workers race.           *)
QueueSound == TypeOK /\ AvailableIsFree /\ WakesFor

(* The workers implement independent delayed calls: none is begun early,   *)
(* twice, or after work_cancel() has returned OK.                          *)
Promise == INSTANCE WorkQueueSpec WITH
    left <- [w \in Work |-> IF w \in Range(q) THEN Left(w) ELSE -1],
    item <- [i \in Workers |-> wk[i].item]
IsWorkQueue == Promise!Spec

(* Queued work is called or cancelled in the end.  Without SORTING this is *)
(* so even if other work is queued again and again; with it, only when     *)
(* that ends (MaxCalls), for work of no delay always goes first.           *)
QueuedRuns == \A w \in Work : w \in Range(q) ~> w \notin Range(q)
=============================================================================
