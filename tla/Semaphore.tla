------------------------------ MODULE Semaphore ------------------------------
(***************************************************************************)
(* Counting semaphores with priority inheritance                           *)
(* (os/kernel/semaphore) on the scheduler of SchedCalls.                   *)
(*                                                                         *)
(* The record k of SchedOps gets the fields the semaphore code works on:   *)
(*                                                                         *)
(*   k.count[s]    sem->semcount                                           *)
(*   k.holders[s]  sem->hhead, the list of [tcb, counts], newest first     *)
(*   k.free        number of holder structures on g_freeholders            *)
(*   k.pend[t]     the bag of tcb->pend_reprios (its order is never read)  *)
(*   k.waitsem[t]  tcb->waitsem                                            *)
(*   k.err[t]      tcb->pterrno after a wait                               *)
(*   k.live        the TCBs sched_verifytcb accepts                        *)
(*   k.panic       the assertion that has stopped the system               *)
(*                                                                         *)
(* Interleaving.  These functions run with interrupts disabled, so that a  *)
(* call is one step up to the point where it is switched out; call[t] says *)
(* where t continues when it runs again, and while the running task is in  *)
(* such a place nothing else happens.  sched_setparam is left to Sched:    *)
(* base_priority is the constant Base.                                     *)
(***************************************************************************)
EXTENDS SchedCalls, FiniteSets, FiniteSetsExt, Bags

CONSTANTS Sem,        \* the semaphores
          PISem,      \* those without PRIOINHERIT_FLAGS_DISABLE
          InitCount,  \* value given to sem_init()
          Base,       \* base_priority of each task
          User,       \* the tasks that use the semaphores
          ForIsr,     \* ... with sem_wait_for_isr() too
          Killer,     \* those that signal others
          Deleter,    \* those that delete others
          NHolders,   \* CONFIG_SEM_PREALLOCHOLDERS
          NNest,      \* CONFIG_SEM_NNESTPRIO
          None,       \* NULL
          MaxCount,   \* bound on counts posted (SEM_VALUE_MAX in the code)
          Api         \* the calls of the instance besides sem_wait, sem_post

ASSUME SemAssumption ==
    /\ PISem \subseteq Sem /\ User \subseteq Task /\ ForIsr \subseteq User
    /\ Killer \subseteq Task /\ Deleter \subseteq Task
    /\ IsFiniteSet(Task) /\ IsFiniteSet(Sem) /\ None \notin Task \cup Sem
    /\ InitCount \in Nat /\ NHolders \in Nat /\ NNest \in Nat \ {0}
    /\ MaxCount \in Nat /\ InitCount <= MaxCount
    /\ Base \in [Task -> 0 .. MaxPrio] /\ \A t \in Task : Base[t] = 0 <=> t = Idle
    /\ Idle \notin User \cup Killer \cup Deleter
    /\ Api \subseteq {"timedwait", "isrpost", "isrkill", "reset", "again"}

VARIABLES k,     \* task lists and semaphores
          call,  \* where each task continues
          timed, \* the tasks whose waitdog is running
          have,  \* history: counts of s given to t and not posted by it
          held,  \* the counts t knows of from the results of its calls
          total  \* history: counts of s in the system

vars == <<k, call, timed, have, held, total>>

Call == [op   : {"user", "wait", "dog", "post", "reset", "cancel", "delete", "release"},
         sem  : Sem \cup {None},
         tcb  : Task \cup {None},
         zero : BOOLEAN,                \* npend_reprio = 0 is still to be done
         rest : Seq(Task),              \* holders the loop has not visited
         then : {"none", "kill", "delete", "reset"},
         n    : 0 .. MaxCount]
UserCall == [op |-> "user", sem |-> None, tcb |-> None, zero |-> FALSE, rest |-> <<>>,
             then |-> "none", n |-> 0]

Init ==
    /\ \E order \in ReadyOrder(Base) :
         k = [list  |-> ReadyLists(order), state |-> ReadyStates(order), prio |-> Base,
              lock  |-> [t \in Task |-> 0], panic |-> "none",
              count   |-> [s \in Sem |-> InitCount],
              holders |-> [s \in Sem |-> <<>>],
              free    |-> NHolders,
              pend    |-> [t \in Task |-> EmptyBag],
              waitsem |-> [t \in Task |-> None],
              err     |-> [t \in Task |-> "OK"],
              live    |-> Task]
    /\ call = [t \in Task |-> UserCall]
    /\ timed = {}
    /\ have = [t \in Task |-> [s \in Sem |-> 0]]
    /\ held = have
    /\ total = [s \in Sem |-> InitCount]

r == Running(k)

(* The running task continues at op; it, or an interrupt handler, may      *)
(* start something new only where interrupts are enabled.                  *)
At(op) == k.panic = "none" /\ call[r].op = op
AtUser == At("user") /\ r \in User
Irq    == At("user") \/ At("delete") \/ At("release")

-----------------------------------------------------------------------------
(* Holder structures.                                                      *)
Holders(m, s) == [i \in 1 .. Len(m.holders[s]) |-> m.holders[s][i].tcb]
Holds(m, t, s) == \E i \in 1 .. Len(m.holders[s]) : m.holders[s][i].tcb = t
HolderIndex(m, t, s) == CHOOSE i \in 1 .. Len(m.holders[s]) : m.holders[s][i].tcb = t

(* Mutation: the structure does not return to the pool. *)
FreeholderLeak(m, t, s) == [m EXCEPT !.holders[s] = RemoveAt(@, HolderIndex(m, t, s))]

sem_freeholder(m, t, s) ==
    [m EXCEPT !.holders[s] = RemoveAt(@, HolderIndex(m, t, s)), !.free = @ + 1]

(* A count taken when the pool is empty goes unrecorded. *)
sem_addholder_tcb(m, t, s) ==
    IF s \notin PISem THEN m
    ELSE IF Holds(m, t, s)
    THEN [m EXCEPT !.holders[s][HolderIndex(m, t, s)].counts = @ + 1]
    ELSE IF m.free > 0
    THEN [m EXCEPT !.holders[s] = <<[tcb |-> t, counts |-> 1]>> \o @, !.free = @ - 1]
    ELSE m

sem_releaseholder(m, t, s) ==
    IF Holds(m, t, s) /\ m.holders[s][HolderIndex(m, t, s)].counts > 0
    THEN [m EXCEPT !.holders[s][HolderIndex(m, t, s)].counts = @ - 1]
    ELSE m

Push(m, h, p) == [m EXCEPT !.pend[h] = @ (+) SetToBag({p})]
Pop(m, h, p)  == [m EXCEPT !.pend[h] = @ (-) SetToBag({p})]

(* sem_boostholderprio(): t is about to wait for a count of s, of which h  *)
(* is a holder.  The second push is not checked against the array's size.  *)
sem_boostholderprio(m, h, s, t) ==
    LET p == m.prio[t] IN
    CASE h \notin m.live -> sem_freeholder(m, h, s)
      [] h \in m.live /\ p <= Base[h] -> m
      [] h \in m.live /\ p > Base[h] /\ p > m.prio[h] ->
            SetPrio(IF m.prio[h] > Base[h] /\ BagCardinality(m.pend[h]) < NNest
                    THEN Push(m, h, m.prio[h]) ELSE m, h, p)
      [] h \in m.live /\ p > Base[h] /\ p <= m.prio[h] ->
            IF BagCardinality(m.pend[h]) < NNest THEN Push(m, h, p)
            ELSE [m EXCEPT !.panic = "overrun"]

(* Mutation: nobody is boosted. *)
BoostNone(m, s, t) == m

(* sem_foreachholder(): Boosts(m, hs, s, t)[n] is what the first n of the  *)
(* holders hs make of m.                                                   *)
Boosts(m, hs, s, t) ==
    LET f[n \in 0 .. Len(hs)] ==
            IF n = 0 THEN m ELSE sem_boostholderprio(f[n - 1], hs[n], s, t)
    IN  f
sem_boostpriority(m, s, t) == Boosts(m, Holders(m, s), s, t)[Len(m.holders[s])]

(* sem_restoreholderprio() of h: st has been given a count of s, or gave   *)
(* up waiting for it.  If that takes the CPU from h, and h is the task     *)
(* executing this, then npend_reprio = 0 in sched_reprioritize() comes     *)
(* only when h runs again (Zeroes).                                        *)
Zeroes(m, h) == h \in m.live /\ m.prio[h] # Base[h] /\ m.pend[h] = EmptyBag

(* Mutation: the holder drops to the waiter's priority. *)
RestoreToWaiter(m, h, s, st) ==
    IF h \notin m.live THEN sem_freeholder(m, h, s)
    ELSE IF m.prio[h] = Base[h] THEN m
    ELSE SetPrio(m, h, m.prio[st])

sem_restoreholderprio(m, h, s, st) ==
    IF h \notin m.live THEN sem_freeholder(m, h, s)
    ELSE IF m.prio[h] = Base[h] THEN m
    ELSE IF m.pend[h] = EmptyBag THEN SetPrio(m, h, Base[h])
    ELSE IF m.prio[h] <= m.prio[st]
    THEN LET p == Max(BagToSet(m.pend[h])) IN SetPrio(Pop(m, h, p), h, p)
    ELSE IF BagIn(m.prio[st], m.pend[h]) THEN Pop(m, h, m.prio[st])
    ELSE m

(* The pass over the holders hs; all but t in sem_restoreholderprioA().    *)
Restores(m, hs, s, st, t) ==
    LET f[n \in 0 .. Len(hs)] ==
            IF n = 0 THEN m
            ELSE IF hs[n] = t THEN f[n - 1]
            ELSE sem_restoreholderprio(f[n - 1], hs[n], s, st)
    IN  f
RestoreBut(m, hs, s, st, t) == Restores(m, hs, s, st, t)[Len(hs)]
RestoreAll(m, hs, s, st) == RestoreBut(m, hs, s, st, None)

-----------------------------------------------------------------------------
(* The first waiter for s on g_waitingforsemaphore. *)
WaitList(m) == m.list["WAIT_SEM"]
WaitPlaces(m, s) == {i \in 1 .. Len(WaitList(m)) : m.waitsem[WaitList(m)[i]] = s}
LastWaiter(m, s) ==                       \* mutation: from the wrong end
    IF WaitPlaces(m, s) = {} THEN None ELSE WaitList(m)[Max(WaitPlaces(m, s))]
FirstWaiter(m, s) ==
    IF WaitPlaces(m, s) = {} THEN None ELSE WaitList(m)[Min(WaitPlaces(m, s))]

(* The count goes to the first waiter, if there is one. *)
GrantedStrict(m, s) == IF m.count[s] < 0 THEN FirstWaiter(m, s) ELSE None  \* mutation
Granted(m, s) == IF m.count[s] <= 0 THEN FirstWaiter(m, s) ELSE None
Grant(m, s, st, pi) ==
    IF st = None THEN m
    ELSE up_unblock_task([(IF pi THEN sem_addholder_tcb(m, st, s) ELSE m)
                              EXCEPT !.waitsem[st] = None], st)

Add(f, t, s, d) == IF t = None THEN f ELSE [f EXCEPT ![t][s] = Max({@ + d, 0})]

(* sem_post() by task t up to the point where restoring t's own priority   *)
(* may switch it out: the count, the grant, and the two passes over the    *)
(* holders, t last.                                                        *)
Posted(m, t, s) == [sem_releaseholder(m, t, s) EXCEPT !.count[s] = @ + 1]
PostOthers(m, t, s) ==
    LET st == Granted(Posted(m, t, s), s)
        g  == Grant(Locked(Posted(m, t, s)), s, st, TRUE)
    IN  IF st = None THEN g
        ELSE RestoreBut(g, Holders(g, s), s, st, t)
PostSelf(m, t, s) ==
    LET st == Granted(Posted(m, t, s), s)
        g  == PostOthers(m, t, s)
    IN  IF st # None /\ Holds(g, t, s) THEN sem_restoreholderprio(g, t, s, st) ELSE g
PostZeroes(m, t, s) ==
    /\ Granted(Posted(m, t, s), s) # None
    /\ Holds(PostOthers(m, t, s), t, s)
    /\ Zeroes(PostOthers(m, t, s), t)

(* The rest of it: an entry without counts is freed, and sched_unlock().   *)
PostEnd(m, t, s, zero) ==
    LET z == IF zero THEN [m EXCEPT !.pend[t] = EmptyBag] ELSE m
        f == IF Holds(z, t, s) /\ z.holders[s][HolderIndex(z, t, s)].counts <= 0
             THEN sem_freeholder(z, t, s) ELSE z
    IN  Unlocked(f)

-----------------------------------------------------------------------------
(* The end of a wait that is cancelled: st waits for s no longer. *)
CancelNoCount(m, st, s) == [m EXCEPT !.waitsem[st] = None]                       \* mutations
CancelTwice(m, st, s) == [m EXCEPT !.count[s] = @ + 2, !.waitsem[st] = None]
CancelEnd(m, st, s) == [m EXCEPT !.count[s] = @ + 1, !.waitsem[st] = None]
WokenNoErr(m, st, s, e) == up_unblock_task(CancelEnd(m, st, s), st)
Woken(m, st, s, e)  == up_unblock_task([CancelEnd(m, st, s) EXCEPT !.err[st] = e], st)

(* sem_waitirq() in an interrupt handler, where nothing is switched out. *)
sem_waitirq(m, st, e) ==
    LET s == m.waitsem[st] IN
    IF m.state[st] # "WAIT_SEM" THEN m
    ELSE IF s = None THEN [m EXCEPT !.panic = "nullsem"]
    ELSE Woken(RestoreAll(m, Holders(m, s), s, st), st, s, e)

(* The same pass over the holders by task t, which may be switched out     *)
(* when it comes to its own entry: the holders up to t, and the others.    *)
UpTo(m, t, s) ==
    IF Holds(m, t, s) THEN SubSeq(Holders(m, s), 1, HolderIndex(m, t, s)) ELSE Holders(m, s)
Rest(m, t, s) ==
    IF Holds(m, t, s)
    THEN SubSeq(Holders(m, s), HolderIndex(m, t, s) + 1, Len(m.holders[s])) ELSE <<>>

(* ... and what follows it: the loop goes on with the next entry it had    *)
(* read, then kill() wakes the waiter and enables pre-emption.             *)
CancelRest(m, t, c) ==
    LET z == IF c.zero THEN [m EXCEPT !.pend[t] = EmptyBag] ELSE m
        a == RestoreAll(z, c.rest, c.sem, c.tcb)
    IN  IF \E i \in 1 .. Len(c.rest) : ~ Holds(m, c.rest[i], c.sem)
        THEN [m EXCEPT !.panic = "staleholder"]
        ELSE IF c.then = "kill" THEN Unlocked(Woken(a, c.tcb, c.sem, "EINTR"))
        ELSE CancelEnd(a, c.tcb, c.sem)

-----------------------------------------------------------------------------
Goto(c)  == call' = [call EXCEPT ![r] = c]
Return   == Goto(UserCall)
Took(s)  == have' = Add(have, r, s, 1) /\ held' = Add(held, r, s, 1)

(* Mutation: the count is not tested. *)
TakeUnguarded(s) ==
    /\ AtUser /\ k.count[s] >= 0
    /\ k' = sem_addholder_tcb([k EXCEPT !.count[s] = @ - 1], r, s)
    /\ Took(s)
    /\ UNCHANGED <<call, timed, total>>

(* sem_wait(), sem_trywait(), sem_timedwait() or sem_wait_for_isr() of a   *)
(* semaphore with counts; only the last records no holder.                 *)
Take(s) ==
    /\ AtUser /\ k.count[s] > 0
    /\ k' = sem_addholder_tcb([k EXCEPT !.count[s] = @ - 1], r, s)
    /\ Took(s)
    /\ UNCHANGED <<call, timed, total>>

TakeForIsr(s) ==
    /\ AtUser /\ r \in ForIsr /\ k.count[s] > 0
    /\ k' = [k EXCEPT !.count[s] = @ - 1]
    /\ Took(s)
    /\ UNCHANGED <<call, timed, total>>

(* sem_wait() blocks: the holders are boosted, which must not switch       *)
(* tasks, before r leaves the CPU with pre-emption disabled.  The calls    *)
(* "again" are those of a task that already has a count of s.              *)
Waiting(s) == [k EXCEPT !.count[s] = @ - 1, !.waitsem[r] = s, !.err[r] = "OK"]
Boosted(s) == sem_boostpriority(Locked(Waiting(s)), s, r)
Wait(s, dog) ==
    /\ AtUser /\ k.count[s] <= 0
    /\ held[r][s] = 0 \/ "again" \in Api
    /\ dog => "timedwait" \in Api
    /\ k' = IF Switched(k, Boosted(s)) THEN [k EXCEPT !.panic = "boost"]
            ELSE up_block_task(Boosted(s), r, "WAIT_SEM")
    /\ timed' = IF dog THEN timed \cup {r} ELSE timed
    /\ Goto([UserCall EXCEPT !.op = "wait", !.sem = s])
    /\ UNCHANGED <<have, held, total>>

WaitForIsr(s) ==
    /\ AtUser /\ r \in ForIsr /\ k.count[s] <= 0
    /\ k' = up_block_task(Waiting(s), r, "WAIT_SEM")
    /\ Goto([UserCall EXCEPT !.op = "wait", !.sem = s])
    /\ UNCHANGED <<timed, have, held, total>>

(* The waiter runs again: errno says whether it got the count, then        *)
(* sched_unlock(); sem_timedwait() stops the watchdog when it runs on.     *)
WaitEnd ==
    /\ At("wait")
    /\ k' = IF k.lock[r] > 0 THEN Unlocked(k) ELSE k
    /\ held' = IF k.err[r] = "OK" THEN Add(held, r, call[r].sem, 1) ELSE held
    /\ IF Running(k)' # r /\ r \in timed
       THEN Goto([UserCall EXCEPT !.op = "dog"]) /\ UNCHANGED timed
       ELSE Return /\ timed' = timed \ {r}
    /\ UNCHANGED <<have, total>>

DogEnd ==
    /\ At("dog")
    /\ timed' = timed \ {r}
    /\ Return
    /\ UNCHANGED <<k, have, held, total>>

(* Mutation: the expiry is ignored. *)
TimeoutIgnored(t) ==
    /\ Irq /\ t \in timed
    /\ timed' = timed \ {t}
    /\ UNCHANGED <<k, call, have, held, total>>

(* sem_timeout(): the watchdog of t expires. *)
sem_timeout(t) ==
    /\ Irq /\ t \in timed
    /\ timed' = timed \ {t}
    /\ k' = IF t \in k.live THEN sem_waitirq(k, t, "ETIMEDOUT") ELSE k
    /\ UNCHANGED <<call, have, held, total>>

(* sem_post() by the running task, from its own code or from sem_reset().  *)
PostBy(s, c) ==
    LET m    == PostSelf(k, r, s)
        zero == PostZeroes(k, r, s)
    IN  /\ IF Switched(k, m)
           THEN k' = m /\ Goto([c EXCEPT !.op = "post", !.sem = s, !.zero = zero])
           ELSE k' = PostEnd(m, r, s, zero) /\ Goto(c)
        /\ have' = Add(Add(have, r, s, -1), Granted(Posted(k, r, s), s), s, 1)
        /\ total' = [total EXCEPT ![s] = IF have[r][s] = 0 THEN @ + 1 ELSE @]

Post(s) ==
    /\ AtUser /\ held[r][s] > 0
    /\ PostBy(s, UserCall)
    /\ held' = Add(held, r, s, -1)
    /\ UNCHANGED timed

PostResume ==
    /\ At("post")
    /\ k' = PostEnd(k, r, call[r].sem, call[r].zero)
    /\ Goto(IF call[r].then = "reset" THEN [call[r] EXCEPT !.op = "reset", !.zero = FALSE]
            ELSE UserCall)
    /\ UNCHANGED <<timed, have, held, total>>

(* sem_post() in an interrupt handler: sched_lock() does nothing there,    *)
(* but sem_releaseholder() still looks for the interrupted task.           *)
IsrPost(s) ==
    /\ "isrpost" \in Api /\ Irq /\ total[s] < MaxCount
    /\ LET p  == Posted(k, r, s)
           st == Granted(p, s)
           g  == Grant(p, s, st, TRUE)
       IN  /\ k' = IF st = None THEN g ELSE RestoreAll(g, Holders(g, s), s, st)
           /\ have' = Add(have, st, s, 1)
    /\ total' = [total EXCEPT ![s] = @ + 1]
    /\ UNCHANGED <<call, timed, held>>

sem_post_from_isr(s) ==
    /\ ForIsr # {} /\ Irq /\ total[s] < MaxCount
    /\ LET p  == [k EXCEPT !.count[s] = @ + 1]
           st == Granted(p, s)
       IN  k' = Grant(p, s, st, FALSE) /\ have' = Add(have, st, s, 1)
    /\ total' = [total EXCEPT ![s] = @ + 1]
    /\ UNCHANGED <<call, timed, held>>

-----------------------------------------------------------------------------
(* Signals reach a semaphore waiter through sem_waitirq(), from an         *)
(* interrupt handler or from kill() by task r, which holds sched_lock().   *)
IsrKill(t) ==
    /\ "isrkill" \in Api /\ Irq /\ t \in k.live /\ k.state[t] = "WAIT_SEM"
    /\ k' = sem_waitirq(k, t, "EINTR")
    /\ UNCHANGED <<call, timed, have, held, total>>

(* The task part of sem_waitirq() and sem_recover(): up to the switch, or  *)
(* to the end.  c says what is to follow.                                  *)
Cancel(t, next) ==
    LET l == Locked(k)
        s == k.waitsem[t]
        m == RestoreAll(l, UpTo(l, r, s), s, t)
        c == [UserCall EXCEPT !.op = "cancel", !.sem = s, !.tcb = t,
                 !.zero = Holds(l, r, s) /\ Zeroes(l, r),
                 !.rest = Rest(l, r, s), !.then = next]
    IN  IF Switched(k, m) THEN k' = m /\ Goto(c)
        ELSE k' = CancelRest(m, r, c)
             /\ Goto(IF next = "kill" THEN UserCall
                     ELSE [UserCall EXCEPT !.op = "delete", !.tcb = t])

kill(t) ==
    /\ At("user") /\ r \in Killer /\ t \in k.live \ {r}
    /\ k.state[t] = "WAIT_SEM" /\ k.waitsem[t] # None
    /\ Cancel(t, "kill")
    /\ UNCHANGED <<timed, have, held, total>>

CancelResume ==
    /\ At("cancel")
    /\ k' = CancelRest(k, r, call[r])
    /\ Goto(IF call[r].then = "kill" THEN UserCall
            ELSE [UserCall EXCEPT !.op = "delete", !.tcb = call[r].tcb])
    /\ UNCHANGED <<timed, have, held, total>>

(* task_terminate() of t: task_recover() stops its watchdog and, if it     *)
(* waits for a semaphore, takes back its count ...                         *)
Delete(t) ==
    /\ At("user") /\ r \in Deleter /\ t \in k.live \ {Idle, r}
    /\ \A u \in Task : call[u].tcb # t /\ call[t].tcb # u
    /\ timed' = timed \ {t}
    /\ IF k.state[t] = "WAIT_SEM" THEN Cancel(t, "delete")
       ELSE k' = Locked(k) /\ Goto([UserCall EXCEPT !.op = "delete", !.tcb = t])
    /\ UNCHANGED <<have, held, total>>

(* ... the TCB leaves its list, the counts t held are lost ...             *)
DeleteUnlink ==
    LET t == call[r].tcb IN
    /\ At("delete")
    /\ k' = Unlocked([dq_rem(k, t, ListOf(k.state[t])) EXCEPT !.state[t] = "INVALID"])
    /\ Goto([call[r] EXCEPT !.op = "release"])
    /\ total' = [s \in Sem |-> total[s] - have[t][s]]
    /\ have' = [have EXCEPT ![t] = [s \in Sem |-> 0]]
    /\ held' = [held EXCEPT ![t] = [s \in Sem |-> 0]]
    /\ UNCHANGED timed

(* ... and sched_releasetcb() makes it stale.                              *)
DeleteRelease ==
    /\ At("release")
    /\ k' = [k EXCEPT !.live = @ \ {call[r].tcb}]
    /\ Return
    /\ UNCHANGED <<timed, have, held, total>>

-----------------------------------------------------------------------------
(* sem_reset(s, n) after the holders of s died (pthread_mutex_consistent): *)
(* a loop of sem_post() with pre-emption disabled.                         *)
Reset(s, n) ==
    /\ "reset" \in Api /\ AtUser /\ \A t \in Task : have[t][s] = 0
    /\ k' = Locked(k)
    /\ Goto([UserCall EXCEPT !.op = "reset", !.sem = s, !.then = "reset", !.n = n])
    /\ UNCHANGED <<timed, have, held, total>>

ResetPost ==
    /\ At("reset") /\ k.count[call[r].sem] < 0 /\ call[r].n > 0
    /\ PostBy(call[r].sem, [call[r] EXCEPT !.n = @ - 1])
    /\ UNCHANGED <<timed, held>>

ResetEnd ==
    LET s == call[r].sem
        n == call[r].n
    IN  /\ At("reset") /\ (k.count[s] >= 0 \/ n = 0)
        /\ k' = Unlocked([k EXCEPT !.count[s] = IF @ >= 0 THEN n ELSE @])
        /\ total' = [total EXCEPT ![s] = IF k.count[s] >= 0 THEN @ - k.count[s] + n ELSE @]
        /\ Return
        /\ UNCHANGED <<timed, have, held>>

-----------------------------------------------------------------------------
(* A task sleeps, and an interrupt wakes it. *)
Sleep ==
    /\ At("user") /\ r # Idle
    /\ k' = up_block_task(k, r, "WAIT_SIG")
    /\ UNCHANGED <<call, timed, have, held, total>>

Wake(t) ==
    /\ Irq /\ k.state[t] = "WAIT_SIG"
    /\ k' = up_unblock_task(k, t)
    /\ UNCHANGED <<call, timed, have, held, total>>

Next ==
    \/ WaitEnd \/ DogEnd \/ PostResume \/ CancelResume \/ DeleteUnlink \/ DeleteRelease
    \/ ResetPost \/ ResetEnd \/ Sleep
    \/ \E s \in Sem :
         \/ Take(s) \/ TakeForIsr(s) \/ WaitForIsr(s) \/ Post(s) \/ IsrPost(s)
         \/ sem_post_from_isr(s)
         \/ \E dog \in BOOLEAN : Wait(s, dog)
         \/ \E n \in 1 .. InitCount : Reset(s, n)
    \/ \E t \in Task : sem_timeout(t) \/ IsrKill(t) \/ kill(t) \/ Delete(t) \/ Wake(t)

Spec == Init /\ [][Next]_vars

(* A task or handler that runs in the kernel goes on, and a watchdog that  *)
(* has expired is seen when interrupts are enabled again and again.        *)
Kernel == WaitEnd \/ DogEnd \/ PostResume \/ CancelResume
FairSpec == Spec /\ WF_vars(Kernel) /\ \A t \in Task : SF_vars(sem_timeout(t))

-----------------------------------------------------------------------------
Waiters(s) == {t \in Task : k.waitsem[t] = s}

(* Types of the state; the scheduler's record is typed by KType in Sched. *)
TypeOK ==
    /\ k.count \in [Sem -> Int]
    /\ \A s \in Sem : \A i \in 1 .. Len(k.holders[s]) :
          k.holders[s][i] \in [tcb : Task, counts : Nat]
    /\ k.free \in 0 .. NHolders
    /\ k.waitsem \in [Task -> Sem \cup {None}]
    /\ k.err \in [Task -> {"OK", "EINTR", "ETIMEDOUT"}]
    /\ k.live \subseteq Task
    /\ k.panic \in {"none", "boost", "overrun", "unblock", "nullsem", "staleholder"}
    /\ call \in [Task -> Call]
    /\ timed \subseteq Task
    /\ have \in [Task -> [Sem -> Nat]] /\ held \in [Task -> [Sem -> Nat]]

(* The task lists stay sound while priority inheritance moves tasks about  *)
(* (the invariants of Sched, under the calls of this module).              *)
ListsSound ==
    /\ Placed(k) /\ Unique(k) /\ Present(k) /\ InOrder(k) /\ IdleLast(k) /\ HeadRuns(k)
    /\ k.lock[r] = 0 => Pending(k) = <<>>

(* No assertion of the code fails, no boost switches tasks                 *)
(* (sem_boostholderprio: "This cannot cause a context switch"), and no     *)
(* loop over the holders goes on with a freed one; a behaviour that gets   *)
(* to the end of pend_reprios stops there (PendInBounds).                  *)
NoPanic == k.panic \in {"none", "overrun"}

(* semaphore.h: semcount "<0 -> Num tasks waiting for semaphore". *)
WaitersCounted ==
    \A s \in Sem : Cardinality(Waiters(s)) = (IF k.count[s] < 0 THEN -k.count[s] ELSE 0)

(* The sum of f over the finite set S, along an enumeration of it. *)
Sums(f, q) ==
    LET g[n \in 0 .. Len(q)] == IF n = 0 THEN 0 ELSE g[n - 1] + f[q[n]] IN g
SumOver(f, S) == Sums(f, SetToSeq(S))[Cardinality(S)]

(* No count is lost or made: what is available and what the tasks were     *)
(* given is what was put in, whatever times out, is signalled or deleted.  *)
CountsConserved ==
    \A s \in Sem :
        Max({k.count[s], 0}) + SumOver([t \in Task |-> have[t][s]], Task) = total[s]

(* The result of a wait is the truth: a task that is back from its call    *)
(* has what the kernel gave it, also when a timeout or a signal raced      *)
(* with the post.                                                          *)
ResultIsTrue == \A t \in k.live : call[t].op = "user" => held[t] = have[t]

(* Holder structures are in the pool or on one semaphore's list, one per   *)
(* task and semaphore (sem_findorallocateholder, sem_freeholder).          *)
PoolConserved ==
    /\ k.free >= 0
    /\ k.free + SumOver([s \in Sem |-> Len(k.holders[s])], Sem) = NHolders
    /\ \A s \in Sem : IsInjective(Holders(k, s))

(* No task runs below the priority its creator gave it. *)
NotBelowBase == \A t \in k.live : k.prio[t] >= Base[t]

(* Throughout the calls and their interruption by handlers the lists, the  *)
(* holder structures and the priorities are sound.                         *)
KernelSound == TypeOK /\ ListsSound /\ NoPanic /\ PoolConserved /\ NotBelowBase

(* Nothing is lost or made when waiters and holders are deleted, waits are *)
(* cancelled step by step and the semaphore is reset.                      *)
Conserved == WaitersCounted /\ CountsConserved /\ PoolConserved

(* sem_boostpriority(): "Boost the priority of every thread holding counts *)
(* on this semaphore that are lower in priority than the new thread that   *)
(* is waiting for a count": a task that was given a count runs at least at *)
(* the priority of every task waiting for one, unless the wait is being    *)
(* cancelled.  A third user breaks it.                                     *)
NoInversion ==
    \A s \in PISem : \A t \in Waiters(s) : \A h \in k.live :
        have[h][s] > 0 /\ (\A u \in Task : call[u].tcb # t) => k.prio[h] >= k.prio[t]

(* What holds of sem_boostpriority() with more than one waiter: a holder   *)
(* that has its structure has the priority of a task from the moment its   *)
(* wait begins (other than in sem_wait_for_isr(), which boosts nobody),    *)
(* and neither a post that finishes late nor one of its own takes it away. *)
(* Holder and waiter become inverted only in a step that ends another wait *)
(* for the semaphore, where sem_restoreholderprio() guesses the priority.  *)
Inverted(s, t, h) ==
    /\ t \in Waiters(s) \ ForIsr /\ \A u \in Task : call[u].tcb # t
    /\ h \in k.live /\ Holds(k, h, s) /\ have[h][s] > 0
    /\ k.prio[h] < k.prio[t]
InversionOnlyAtEnd ==
    [][ \A s \in PISem : Waiters(s) \subseteq Waiters(s)' =>
          \A t, h \in Task : Inverted(s, t, h)' => Inverted(s, t, h) ]_vars

(* A post gives its count to a waiter of the highest priority, although    *)
(* priorities change while tasks wait.                                     *)
GrantHighest ==
    [][ \A s \in Sem : \A t, u \in Waiters(s) :
          have'[t][s] > have[t][s] => k.prio[t] >= k.prio[u] ]_vars

(* A timed wait ends (sem_timedwait, sem_tickwait). *)
TimedWaitEnds ==
    \A t \in Task : t \in timed /\ k.state[t] = "WAIT_SEM" ~> k.state[t] # "WAIT_SEM"

(* The semaphore is one: the abstract SemaphoreSpec is implemented. *)
Abstract == INSTANCE SemaphoreSpec WITH
    avail    <- [s \in Sem |-> Max({k.count[s], 0})],
    got      <- have,
    waiting  <- k.waitsem,
    MayReset <- "reset" \in Api
IsSemaphore == Abstract!Spec

(* sem_verifyholder, disabled with "these assumptions seem to be untrue -- *)
(* OR there is a bug???": "there is no thread waiting for the count.  In   *)
(* this case, the priority of the holder should not be boosted."  The next *)
(* sem_post() of the holder would evaluate it.                             *)
NotBoosted ==
    (\A s \in Sem : Waiters(s) = {}) /\ (\A t \in Task : call[t].op = "user")
      => \A s \in Sem, t \in k.live : have[t][s] > 0 => k.prio[t] = Base[t]

(* The array pend_reprios has room for what sem_boostholderprio() puts     *)
(* there (Kconfig, SEM_NNESTPRIO).                                         *)
PendInBounds == k.panic # "overrun"
=============================================================================
