-------------------------------- MODULE MQueue --------------------------------
(***************************************************************************)
(* POSIX message queues (os/kernel/mqueue) on the scheduler of SchedCalls, *)
(* with their timeouts, the signals that interrupt a wait and the signal   *)
(* of mq_notify().  The record k gets:                                     *)
(*                                                                         *)
(*   k.msgs[q]    msgq->msglist, next message to receive first; nmsgs is   *)
(*                its length: both change with interrupts disabled         *)
(*   k.empty[q]   msgq->nwaitnotempty                                      *)
(*   k.full[q]    msgq->nwaitnotfull                                       *)
(*   k.nt[q]      msgq->ntpid, None without ntmqdes                        *)
(*   k.waitq[t]   tcb->msgwaitq                                            *)
(*   k.err[t]     tcb->pterrno of a wait                                   *)
(*   k.nfree      length of g_msgfree                                      *)
(*   k.nirq       length of g_msgfreeirq                                   *)
(*   k.pend       the tasks that have the notification signal pending      *)
(*                                                                         *)
(* A message is its priority, the free list it belongs to and whether an   *)
(* interrupt handler sent it; the mail is left out.                        *)
(*                                                                         *)
(* Interleaving.  Tasks hold sched_lock() throughout a call, so that only  *)
(* interrupt handlers come between its steps: watchdogs, mq_send() from a  *)
(* handler, signals.  call[t].op is where t goes on; in "waitsend" and     *)
(* "waitrecv" it does so with interrupts disabled.                         *)
(***************************************************************************)
EXTENDS SchedCalls, FiniteSets, FiniteSetsExt

CONSTANTS Queue,     \* the message queues
          MaxMsgs,   \* their mq_maxmsg
          MsgPrio,   \* the message priorities used
          Base,      \* priority of each task
          Sender,    \* the tasks that send ...
          Receiver,  \* ... that receive, with mq_notify() too ...
          Timed,     \* ... whose calls are the timed ones ...
          Killer,    \* ... and that signal or delete others
          NFixed,    \* CONFIG_PREALLOC_MQ_MSGS
          NIrq,      \* NUM_INTERRUPT_MSGS
          MaxIsr,    \* bound on messages of interrupt handlers in a queue
          None,
          Api        \* the calls of the instance besides mq_send, mq_receive

ASSUME MQAssumption ==
    /\ IsFiniteSet(Task)
    /\ MaxMsgs \in Nat \ {0} /\ MsgPrio \subseteq Nat
    /\ Base \in [Task -> 0 .. MaxPrio] /\ \A t \in Task : Base[t] = 0 <=> t = Idle
    /\ Sender \cup Receiver \cup Timed \cup Killer \subseteq Task \ {Idle}
    /\ NFixed \in Nat /\ NIrq \in Nat /\ MaxIsr \in Nat
    /\ None \notin Task \cup Queue
    /\ None \notin [q : Queue, prio : MsgPrio] \cup [prio : MsgPrio, isr : BOOLEAN]
    /\ Api \subseteq {"isrsend", "notify", "delete", "window"}

VARIABLES k,     \* task lists and message queues
          call,  \* where each task goes on
          timed, \* the tasks whose waitdog is running
          owed   \* history: tasks that registered and got no signal since

vars == <<k, call, timed, owed>>

Msg == [prio : MsgPrio, pool : {"FIXED", "IRQ", "DYN"}, isr : BOOLEAN]

UserCall == [op |-> "user", q |-> None, msg |-> None, dog |-> FALSE, tcb |-> None]

Init ==
    /\ \E order \in ReadyOrder(Base) :
         k = [list  |-> ReadyLists(order), state |-> ReadyStates(order), prio |-> Base,
              lock  |-> [t \in Task |-> 0], panic |-> "none",
              msgs  |-> [q \in Queue |-> <<>>],
              empty |-> [q \in Queue |-> 0],
              full  |-> [q \in Queue |-> 0],
              nt    |-> [q \in Queue |-> None],
              waitq |-> [t \in Task |-> None],
              err   |-> [t \in Task |-> "OK"],
              nfree |-> NFixed,
              nirq  |-> NIrq,
              pend  |-> {}]
    /\ call = [t \in Task |-> UserCall]
    /\ timed = {}
    /\ owed = {}

r == Running(k)

At(op) == k.panic = "none" /\ call[r].op = op
Irq ==
    /\ k.panic = "none" /\ call[r].op \notin {"waitsend", "waitrecv"}
    /\ call[r].op = "delete" => "window" \in Api

Goto(c) == call' = [call EXCEPT ![r] = c]
Step(op) == Goto([call[r] EXCEPT !.op = op])
Return(m) == k' = Unlocked(m) /\ Goto(UserCall)

-----------------------------------------------------------------------------
(* mq_msgalloc() by a task, which never fails, and by an interrupt handler. *)
Alloc(m) == IF m.nfree > 0 THEN [m EXCEPT !.nfree = @ - 1] ELSE m
AllocPool(m) == IF m.nfree > 0 THEN "FIXED" ELSE "DYN"
AllocIsr(m) == IF m.nfree > 0 THEN [m EXCEPT !.nfree = @ - 1] ELSE [m EXCEPT !.nirq = @ - 1]
AllocIsrPool(m) == IF m.nfree > 0 THEN "FIXED" ELSE "IRQ"

(* Mutation: everything goes back to g_msgfree. *)
FreeToOne(m, msg) == [m EXCEPT !.nfree = @ + 1]

mq_msgfree(m, msg) ==
    CASE msg.pool = "FIXED" -> [m EXCEPT !.nfree = @ + 1]
      [] msg.pool = "IRQ"   -> [m EXCEPT !.nirq = @ + 1]
      [] msg.pool = "DYN"   -> m

(* Mutation: before the messages of equal priority. *)
InsertFirst(m, q, msg) ==
    LET s == m.msgs[q]
        i == CHOOSE i \in 1 .. Len(s) + 1 :
                /\ i <= Len(s) => msg.prio >= s[i].prio
                /\ \A j \in 1 .. i - 1 : msg.prio < s[j].prio
    IN  [m EXCEPT !.msgs[q] = InsertAt(@, i, msg)]

(* The first half of mq_dosend(). *)
Insert(m, q, msg) ==
    LET s == m.msgs[q]
        i == CHOOSE i \in 1 .. Len(s) + 1 :
                /\ i <= Len(s) => msg.prio > s[i].prio
                /\ \A j \in 1 .. i - 1 : msg.prio <= s[j].prio
    IN  [m EXCEPT !.msgs[q] = InsertAt(@, i, msg)]

(* The first task of a waiting list that waits for q is woken, m being the *)
(* state with the count of waiters already lower; the assertion that there *)
(* is one where the count says so.                                         *)
Waiting(q, l) == {i \in 1 .. Len(k.list[l]) : k.waitq[k.list[l][i]] = q}
WakeFirst(m, q, l) ==
    IF Waiting(q, l) = {} THEN [k EXCEPT !.panic = l]
    ELSE LET t == k.list[l][Min(Waiting(q, l))]
         IN  up_unblock_task([m EXCEPT !.waitq[t] = None], t)

(* Mutation: only the first message of a queue wakes a receiver. *)
WakeReceiverIfFirst(m, q) ==
    IF m.empty[q] > 0 /\ Len(m.msgs[q]) = 1
    THEN WakeFirst([m EXCEPT !.empty[q] = @ - 1], q, "WAIT_MQNOTEMPTY")
    ELSE m

WakeReceiver(m, q) ==
    IF m.empty[q] > 0
    THEN WakeFirst([m EXCEPT !.empty[q] = @ - 1], q, "WAIT_MQNOTEMPTY")
    ELSE m

(* The notification signal, which its receiver keeps blocked: it ends the  *)
(* sigwaitinfo() of the task or is pending, once.                          *)
sig_mqnotempty(m, t) ==
    IF t = None \/ m.state[t] = "INVALID" THEN m
    ELSE IF m.state[t] = "WAIT_SIG" THEN up_unblock_task(m, t)
    ELSE [m EXCEPT !.pend = @ \cup {t}]

(* Mutation: the count keeps the waiter that gave up. *)
WaitirqNoCount(m, t, errcode) ==
    IF m.state[t] \in {"WAIT_MQNOTEMPTY", "WAIT_MQNOTFULL"}
    THEN up_unblock_task([m EXCEPT !.waitq[t] = None, !.err[t] = errcode], t)
    ELSE m

(* mq_waitirq(), of a task that waits for a message or for room. *)
mq_waitirq(m, t, errcode) ==
    LET q == m.waitq[t]
        c == [m EXCEPT !.waitq[t] = None, !.err[t] = errcode]
    IN  CASE m.state[t] = "WAIT_MQNOTEMPTY" -> up_unblock_task([c EXCEPT !.empty[q] = @ - 1], t)
          [] m.state[t] = "WAIT_MQNOTFULL"  -> up_unblock_task([c EXCEPT !.full[q] = @ - 1], t)
          [] OTHER -> m

-----------------------------------------------------------------------------
(* mq_send(), mq_timedsend(): up to the allocation or the wait.            *)
Room(q) == Len(k.msgs[q]) < MaxMsgs

(* The message is allocated, by a task that holds sched_lock(). *)
Prepared(m, c, p) ==
    /\ k' = Alloc(m)
    /\ Goto([c EXCEPT !.op = "dosend", !.dog = FALSE,
                      !.msg = [prio |-> p, pool |-> AllocPool(m), isr |-> FALSE]])

(* The loop of mq_waitsend() blocks. *)
Full(m, c) ==
    /\ k' = up_block_task([m EXCEPT !.waitq[r] = c.q, !.full[c.q] = @ + 1, !.err[r] = "OK"],
                          r, "WAIT_MQNOTFULL")
    /\ Goto([c EXCEPT !.op = "waitsend"])

mq_send(q, p) ==
    LET c == [UserCall EXCEPT !.q = q, !.dog = r \in Timed,
                              !.msg = [prio |-> p, pool |-> "DYN", isr |-> FALSE]]
    IN  /\ At("user") /\ r \in Sender
        /\ IF Room(q) THEN Prepared(Locked(k), c, p) ELSE Full(Locked(k), c)
        /\ timed' = IF r \in Timed /\ ~ Room(q) THEN timed \cup {r} ELSE timed
        /\ UNCHANGED owed

(* The task is back from its wait. *)
mq_waitsend ==
    LET c == call[r] IN
    /\ At("waitsend")
    /\ \/ /\ k.err[r] # "OK"
          /\ Return(k)
          /\ timed' = timed \ {r}
       \/ /\ k.err[r] = "OK" /\ ~ Room(c.q)
          /\ Full(k, c)
          /\ UNCHANGED timed
       \/ /\ k.err[r] = "OK" /\ Room(c.q)
          /\ Prepared(k, c, c.msg.prio)
          /\ timed' = timed \ {r}
    /\ UNCHANGED owed

(* mq_dosend(): the message is inserted; then the notification is looked   *)
(* up, and detached and sent; then a receiver is woken.                    *)
DoSend ==
    /\ At("dosend")
    /\ k' = Insert(k, call[r].q, call[r].msg)
    /\ Step("notify")
    /\ UNCHANGED <<timed, owed>>

DoSendNotify ==
    /\ At("notify")
    /\ Goto([call[r] EXCEPT !.tcb = k.nt[call[r].q],
                            !.op = IF k.nt[call[r].q] = None THEN "wake" ELSE "detach"])
    /\ UNCHANGED <<k, timed, owed>>

(* Mutation: the notification is detached but nobody told when a receiver  *)
(* waits.                                                                  *)
DetachQuiet ==
    /\ At("detach")
    /\ k' = IF k.empty[call[r].q] > 0 THEN [k EXCEPT !.nt[call[r].q] = None]
            ELSE sig_mqnotempty([k EXCEPT !.nt[call[r].q] = None], call[r].tcb)
    /\ owed' = IF k.empty[call[r].q] > 0 \/ call[r].tcb \in k'.pend
               THEN owed ELSE owed \ {call[r].tcb}
    /\ Step("wake")
    /\ UNCHANGED timed

DoSendDetach ==
    /\ At("detach")
    /\ k' = sig_mqnotempty([k EXCEPT !.nt[call[r].q] = None], call[r].tcb)
    /\ owed' = IF call[r].tcb \in k'.pend THEN owed ELSE owed \ {call[r].tcb}
    /\ Step("wake")
    /\ UNCHANGED timed

DoSendWake ==
    /\ At("wake")
    /\ Return(WakeReceiver(k, call[r].q))
    /\ UNCHANGED <<timed, owed>>

(* mq_send() in an interrupt handler: MaxMsgs does not bound it, the free  *)
(* lists do.                                                               *)
IsrSend(q, p) ==
    LET msg == [prio |-> p, pool |-> AllocIsrPool(k), isr |-> TRUE]
        m   == Insert(AllocIsr(k), q, msg)
        n   == sig_mqnotempty([m EXCEPT !.nt[q] = None], m.nt[q])
    IN  /\ "isrsend" \in Api /\ Irq /\ k.nfree + k.nirq > 0
        /\ Len(SelectSeq(k.msgs[q], LAMBDA x : x.isr)) < MaxIsr
        /\ k' = WakeReceiver(n, q)
        /\ owed' = IF k.nt[q] \in n.pend THEN owed ELSE owed \ {k.nt[q]}
        /\ UNCHANGED <<call, timed>>

-----------------------------------------------------------------------------
(* mq_receive(), mq_timedreceive(): mq_waitreceive() takes the message or  *)
(* blocks.                                                                 *)
Taken(m, c) ==
    /\ k' = [m EXCEPT !.msgs[c.q] = Tail(@)]
    /\ Goto([c EXCEPT !.op = "doreceive", !.msg = Head(m.msgs[c.q]), !.dog = FALSE])

Empty(m, c) ==
    /\ k' = up_block_task([m EXCEPT !.waitq[r] = c.q, !.empty[c.q] = @ + 1, !.err[r] = "OK"],
                          r, "WAIT_MQNOTEMPTY")
    /\ Goto([c EXCEPT !.op = "waitrecv"])

mq_receive(q) ==
    LET c == [UserCall EXCEPT !.q = q, !.dog = r \in Timed] IN
    /\ At("user") /\ r \in Receiver
    /\ IF k.msgs[q] # <<>> THEN Taken(Locked(k), c) ELSE Empty(Locked(k), c)
    /\ timed' = IF r \in Timed /\ k.msgs[q] = <<>> THEN timed \cup {r} ELSE timed
    /\ UNCHANGED owed

mq_waitreceive ==
    LET c == call[r] IN
    /\ At("waitrecv")
    /\ \/ /\ k.err[r] # "OK"
          /\ Return(k)
          /\ timed' = timed \ {r}
       \/ /\ k.err[r] = "OK" /\ k.msgs[c.q] = <<>>
          /\ Empty(k, c)
          /\ UNCHANGED timed
       \/ /\ k.err[r] = "OK" /\ k.msgs[c.q] # <<>>
          /\ Taken(k, c)
          /\ timed' = timed \ {r}
    /\ UNCHANGED owed

(* mq_doreceive(): the message is freed, and nwaitnotfull looked at with   *)
(* interrupts enabled ...                                                  *)
DoReceive ==
    LET m == mq_msgfree(k, call[r].msg) IN
    /\ At("doreceive")
    /\ IF k.full[call[r].q] > 0 THEN k' = m /\ Step("wakesend") ELSE Return(m)
    /\ UNCHANGED <<timed, owed>>

(* ... before a sender is looked for.                                      *)
DoReceiveWake ==
    /\ At("wakesend")
    /\ Return(WakeFirst([k EXCEPT !.full[call[r].q] = @ - 1], call[r].q, "WAIT_MQNOTFULL"))
    /\ UNCHANGED <<timed, owed>>

-----------------------------------------------------------------------------
(* mq_sndtimeout(), mq_rcvtimeout(): the watchdog of t expires. *)
Timeout(t) ==
    /\ Irq /\ t \in timed
    /\ k' = mq_waitirq(k, t, "ETIMEDOUT")
    /\ timed' = timed \ {t}
    /\ UNCHANGED <<call, owed>>

(* An unblocked signal for t from kill(). *)
kill(t) ==
    /\ At("user") /\ r \in Killer /\ k.waitq[t] # None
    /\ k' = Unlocked(mq_waitirq(Locked(k), t, "EINTR"))
    /\ UNCHANGED <<call, timed, owed>>

(* mq_notify(): register, or take one's own registration back. *)
mq_notify(q, on) ==
    /\ "notify" \in Api /\ At("user") /\ r \in Receiver
    /\ k.nt[q] = IF on THEN None ELSE r
    /\ k' = [k EXCEPT !.nt[q] = IF on THEN r ELSE None]
    /\ owed' = IF on THEN owed \cup {r} ELSE owed \ {r}
    /\ UNCHANGED <<call, timed>>

(* sigwaitinfo() for the notification, or any other sleep; an interrupt    *)
(* ends it.                                                                *)
Sleep ==
    /\ At("user") /\ r # Idle
    /\ k' = IF r \in k.pend THEN [k EXCEPT !.pend = @ \ {r}] ELSE up_block_task(k, r, "WAIT_SIG")
    /\ owed' = IF r \in k.pend THEN owed \ {r} ELSE owed
    /\ UNCHANGED <<call, timed>>

Wake(t) ==
    /\ Irq /\ k.state[t] = "WAIT_SIG"
    /\ k' = up_unblock_task(k, t)
    /\ UNCHANGED <<call, timed, owed>>

-----------------------------------------------------------------------------
(* task_terminate() of t: wd_recover() and mq_recover(), which leaves      *)
(* msgwaitq and runs with interrupts enabled (none comes in an instance    *)
(* without "window").  A task that was woken but has not run yet is not    *)
(* deleted here: its message would have nobody on its way to it.           *)
mq_recover(m, t) ==
    CASE m.state[t] = "WAIT_MQNOTEMPTY" -> [m EXCEPT !.empty[m.waitq[t]] = @ - 1]
      [] m.state[t] = "WAIT_MQNOTFULL"  -> [m EXCEPT !.full[m.waitq[t]] = @ - 1]
      [] OTHER -> m

Delete(t) ==
    /\ "delete" \in Api /\ At("user") /\ r \in Killer
    /\ t \notin {r, Idle} /\ k.state[t] # "INVALID"
    /\ call[t].op = "user" \/ k.waitq[t] # None
    /\ timed' = timed \ {t}
    /\ k' = mq_recover(Locked(k), t)
    /\ Goto([UserCall EXCEPT !.op = "delete", !.tcb = t])
    /\ UNCHANGED owed

(* ... then the TCB is unlinked.  mq_release() has closed its descriptors. *)
DeleteUnlink ==
    LET t == call[r].tcb
        m == [k EXCEPT !.nt = [q \in Queue |-> IF k.nt[q] = t THEN None ELSE k.nt[q]],
                       !.pend = @ \ {t}, !.waitq[t] = None]
    IN  /\ At("delete")
        /\ Return([dq_rem(m, t, ListOf(k.state[t])) EXCEPT !.state[t] = "INVALID"])
        /\ owed' = owed \ {t}
        /\ UNCHANGED timed

Next ==
    \/ mq_waitsend \/ DoSend \/ DoSendNotify \/ DoSendDetach \/ DoSendWake
    \/ mq_waitreceive \/ DoReceive \/ DoReceiveWake \/ Sleep \/ DeleteUnlink
    \/ \E q \in Queue :
         \/ mq_receive(q)
         \/ \E p \in MsgPrio : mq_send(q, p) \/ IsrSend(q, p)
         \/ \E on \in BOOLEAN : mq_notify(q, on)
    \/ \E t \in Task : Timeout(t) \/ kill(t) \/ Wake(t) \/ Delete(t)

Spec == Init /\ [][Next]_vars

-----------------------------------------------------------------------------
Deleting(t) == \E u \in Task : call[u].op = "delete" /\ call[u].tcb = t
Blocked(q, l) == {t \in Task : k.state[t] = l /\ k.waitq[t] = q /\ ~ Deleting(t)}
In(ops, q) == {t \in Task : call[t].op \in ops /\ call[t].q = q}
Woken(op, q, l) == {t \in In({op}, q) : k.state[t] \notin {l, "INVALID"} /\ k.err[t] = "OK"}
Has(ops, pool) == Cardinality({t \in Task : call[t].op \in ops /\ call[t].msg.pool = pool})
Places(q, pool) == {q} \X {i \in 1 .. Len(k.msgs[q]) : k.msgs[q][i].pool = pool}
Queued(pool) == Cardinality(UNION {Places(q, pool) : q \in Queue})

(* nwaitnotempty and nwaitnotfull count the tasks that wait, whatever      *)
(* times out, is signalled, woken or robbed of its message: mq_dosend()    *)
(* and mq_doreceive() look for a task only where they are not 0.           *)
WaitersCounted ==
    \A q \in Queue :
        /\ k.empty[q] = Cardinality(Blocked(q, "WAIT_MQNOTEMPTY"))
        /\ k.full[q] = Cardinality(Blocked(q, "WAIT_MQNOTFULL"))

(* No wake-up is lost: while a task waits for a message, every message     *)
(* there has a task on its way to it, and while one waits for room, every  *)
(* free place has one.                                                     *)
NoLostWakeup ==
    \A q \in Queue :
        /\ Blocked(q, "WAIT_MQNOTEMPTY") # {} =>
              Len(k.msgs[q]) <= Cardinality(Woken("waitrecv", q, "WAIT_MQNOTEMPTY")
                                              \cup In({"notify", "detach", "wake"}, q))
        /\ Blocked(q, "WAIT_MQNOTFULL") # {} =>
              MaxMsgs - Len(k.msgs[q]) <=
                  Cardinality(Woken("waitsend", q, "WAIT_MQNOTFULL")
                                \cup In({"dosend", "doreceive", "wakesend"}, q))

(* Types of the state; the scheduler's record is typed by KType in Sched. *)
TypeOK ==
    /\ k.msgs \in [Queue -> Seq(Msg)]
    /\ k.empty \in [Queue -> Nat] /\ k.full \in [Queue -> Nat]
    /\ k.nt \in [Queue -> Task \cup {None}] /\ k.waitq \in [Task -> Queue \cup {None}]
    /\ k.nfree \in 0 .. NFixed /\ k.nirq \in 0 .. NIrq
    /\ k.pend \subseteq Task /\ timed \subseteq Task /\ owed \subseteq Task

(* Every preallocated message is on its free list, in a queue or in the    *)
(* hands of one task (mq_msgalloc, mq_msgfree).                            *)
PoolConserved ==
    /\ k.nfree + Queued("FIXED") + Has({"dosend", "doreceive"}, "FIXED") = NFixed
    /\ k.nirq + Queued("IRQ") + Has({"dosend", "doreceive"}, "IRQ") = NIrq

(* No message structure is lost, whatever interrupts a call.               *)
PoolSound == TypeOK /\ PoolConserved

(* A task that has registered with mq_notify() is still registered, or has *)
(* had its signal, or will get it: none is lost between a sender and an    *)
(* interrupt handler that send at the same time.                           *)
NotifyNotLost ==
    \A t \in owed :
        \/ \E q \in Queue : k.nt[q] = t
        \/ t \in k.pend
        \/ \E u \in Task : call[u].op = "detach" /\ call[u].tcb = t

(* The messages without their free lists, and what a task has in hand. *)
Plain(msg) == [prio |-> msg.prio, isr |-> msg.isr]
Abs(s) == [i \in 1 .. Len(s) |-> Plain(s[i])]
SendOf(c) == IF c.op = "dosend" THEN [q |-> c.q, prio |-> c.msg.prio] ELSE None
RecvOf(c) == IF c.op = "doreceive" THEN Plain(c.msg) ELSE None

AbsQueue == [q \in Queue |-> Abs(k.msgs[q])]
AbsSending == [t \in Task |-> SendOf(call[t])]
AbsReceived == [t \in Task |-> RecvOf(call[t])]

(* The queue is a bounded priority queue: MQueueSpec is implemented. *)
Abstract == INSTANCE MQueueSpec WITH
    queue <- AbsQueue, sending <- AbsSending, received <- AbsReceived
IsQueue == Abstract!Spec

(* mq_timedreceive.c: abstime is "a ceiling on the time for which the call *)
(* will block": a task that waits in a timed call has its watchdog         *)
(* running.                                                                *)
TimedWaitHasTimer ==
    \A t \in Task : k.waitq[t] # None /\ call[t].dog => t \in timed

(* No assertion fails: where a count is not 0 there is a task to wake      *)
(* (mq_waitirq.c: "The operations within the if are safe because           *)
(* interrupts are always disabled with the msgwaitq, nwaitnotempty, and    *)
(* nwaitnotfull fields are modified").                                     *)
NoPanic == k.panic = "none"
=============================================================================
