------------------------------ MODULE MQueueSpec ------------------------------
(***************************************************************************)
(* What a message queue promises, without counts of waiting tasks, wake-   *)
(* ups, timeouts or free lists: messages of the tasks and of interrupt     *)
(* handlers in order of priority, the oldest first among equals, each sent *)
(* and received once, and a bound on those of the tasks.                   *)
(***************************************************************************)
EXTENDS Naturals, Sequences, FiniteSets, SequencesExt

CONSTANTS Task, Queue, MsgPrio, MaxMsgs, None

VARIABLES queue,     \* queue[q]: the messages of q, [prio, isr]
          sending,   \* sending[t]: the message t is putting into a queue
          received   \* received[t]: the message t is taking home

vars == <<queue, sending, received>>

Init ==
    /\ queue = [q \in Queue |-> <<>>]
    /\ sending = [t \in Task |-> None]
    /\ received = [t \in Task |-> None]

OfTasks(q) == Cardinality({i \in 1 .. Len(queue[q]) : ~ queue[q][i].isr})

(* Behind the messages of higher and of equal priority, and before the     *)
(* others.                                                                 *)
Enter(q, m) ==
    \E i \in 1 .. Len(queue[q]) + 1 :
        /\ \A j \in 1 .. i - 1 : queue[q][j].prio >= m.prio
        /\ \A j \in i .. Len(queue[q]) : queue[q][j].prio < m.prio
        /\ queue' = [queue EXCEPT ![q] = InsertAt(@, i, m)]

(* A task begins to send where there is room, and no other task can take   *)
(* that from it.                                                           *)
Begin(t, q, p) ==
    /\ sending[t] = None
    /\ Len(queue[q]) + Cardinality({u \in Task : sending[u] # None /\ sending[u].q = q}) < MaxMsgs
    /\ sending' = [sending EXCEPT ![t] = [q |-> q, prio |-> p]]
    /\ UNCHANGED <<queue, received>>

Put(t) ==
    /\ sending[t] # None
    /\ OfTasks(sending[t].q) < MaxMsgs
    /\ Enter(sending[t].q, [prio |-> sending[t].prio, isr |-> FALSE])
    /\ sending' = [sending EXCEPT ![t] = None]
    /\ UNCHANGED received

PutByIsr(q, p) ==
    /\ Enter(q, [prio |-> p, isr |-> TRUE])
    /\ UNCHANGED <<sending, received>>

Get(t, q) ==
    /\ queue[q] # <<>> /\ received[t] = None
    /\ received' = [received EXCEPT ![t] = Head(queue[q])]
    /\ queue' = [queue EXCEPT ![q] = Tail(@)]
    /\ UNCHANGED sending

Deliver(t) ==
    /\ received[t] # None
    /\ received' = [received EXCEPT ![t] = None]
    /\ UNCHANGED <<queue, sending>>

Next ==
    \/ \E t \in Task : Put(t) \/ Deliver(t)
    \/ \E q \in Queue, p \in MsgPrio : PutByIsr(q, p)
    \/ \E t \in Task, q \in Queue : Get(t, q) \/ \E p \in MsgPrio : Begin(t, q, p)

Spec == Init /\ [][Next]_vars
=============================================================================
