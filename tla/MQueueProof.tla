----------------------------- MODULE MQueueProof -----------------------------
(* The message queues of module MQueue, for every set of tasks and queues, *)
(* every queue length and every priority.                                  *)
EXTENDS MQueue, SchedOpsProof, FiniteSetTheorems, FunctionTheorems

-----------------------------------------------------------------------------
(* Where a task can be in a call, and what it holds there. *)
Op == {"user", "waitsend", "dosend", "notify", "detach", "wake",
       "waitrecv", "doreceive", "wakesend", "delete"}
Call == [op : Op, q : Queue \cup {None}, msg : Msg \cup {None}, dog : BOOLEAN,
         tcb : Task \cup {None}]

(* The calls that another task can be in while one runs: it waits for a    *)
(* message or for room, or did so and has not run since.                   *)
OffCpu == {"user", "waitsend", "waitrecv"}

CallOK(c) ==
    /\ c \in Call
    /\ c.op \notin {"user", "delete"} => c.q \in Queue
    /\ c.op \in {"waitsend", "dosend", "doreceive"} => c.msg \in Msg
    /\ c.op = "detach" => c.tcb \in Task

(* The fields that MQueue adds to the record of the scheduler. *)
OwnField == {"panic", "msgs", "empty", "full", "nt", "waitq", "err", "nfree", "nirq", "pend"}
Own(m) ==
    /\ OwnField \subseteq DOMAIN m
    /\ m.msgs \in [Queue -> Seq(Msg)]
    /\ m.empty \in [Queue -> Int] /\ m.full \in [Queue -> Int]
    /\ m.nt \in [Queue -> Task \cup {None}] /\ m.waitq \in [Task -> Queue \cup {None}]
    /\ m.err \in [Task -> {"OK", "EINTR", "ETIMEDOUT"}]
    /\ m.nfree \in Nat /\ m.nirq \in Nat /\ m.pend \subseteq Task

(* msgwaitq and the call agree with the task state. *)
WaitOK(m, c, t) ==
    /\ m.state[t] = "WAIT_MQNOTEMPTY" =>
          m.waitq[t] \in Queue /\ c.op = "waitrecv" /\ c.q = m.waitq[t] /\ m.err[t] = "OK"
    /\ m.state[t] = "WAIT_MQNOTFULL" =>
          m.waitq[t] \in Queue /\ c.op = "waitsend" /\ c.q = m.waitq[t] /\ m.err[t] = "OK"
    /\ m.state[t] \notin {"WAIT_MQNOTEMPTY", "WAIT_MQNOTFULL"} => m.waitq[t] = None

(* The task that is being deleted is another one, not in the middle of a   *)
(* call.                                                                   *)
DeleteOK(m, f, u, c) ==
    c.op = "delete" =>
        /\ c.tcb \in Task \ {Idle, u} /\ m.state[c.tcb] # "INVALID"
        /\ f[c.tcb].op = "user" \/ m.waitq[c.tcb] # None

(* A task in a call holds sched_lock(), once: only the running task is     *)
(* between two steps of a call other than a wait.                          *)
Core ==
    /\ Good(k) /\ Own(k)
    /\ call \in [Task -> Call]
    /\ \A t \in Task :
          /\ CallOK(call[t]) /\ WaitOK(k, call[t], t) /\ DeleteOK(k, call, t, call[t])
          /\ k.lock[t] = IF call[t].op = "user" THEN 0 ELSE 1
          /\ t = Idle => call[t].op = "user"
          /\ t # r => call[t].op \in OffCpu

(* The task that is about to be told of a message is registered, or an     *)
(* interrupt handler has told it.                                          *)
Detaching ==
    \A t \in Task : call[t].op = "detach" => k.nt[call[t].q] \in {None, call[t].tcb}

Inv == Core /\ WaitersCounted /\ NoLostWakeup /\ Detaching /\ NotifyNotLost /\ owed \subseteq Task

-----------------------------------------------------------------------------
(* The initial state. *)
LEMMA UserCallOK == UserCall \in Call /\ CallOK(UserCall) /\ UserCall.op = "user"
<1>1. UserCall \in Call /\ UserCall.op = "user"
  BY DEF UserCall, Call, Op
<1> QED
  BY <1>1 DEF CallOK

LEMMA InitInv == Init => Inv
<1> SUFFICES ASSUME Init PROVE Inv
  OBVIOUS
<1>1. PICK order \in ReadyOrder(Base) :
         k = [list  |-> ReadyLists(order), state |-> ReadyStates(order), prio |-> Base,
              lock  |-> [t \in Task |-> 0], panic |-> "none",
              msgs  |-> [q \in Queue |-> <<>>],
              empty |-> [q \in Queue |-> 0],
              full  |-> [q \in Queue |-> 0],
              nt    |-> [q \in Queue |-> None],
              waitq |-> [t \in Task |-> None],
              err   |-> [t \in Task |-> "OK"],
              nfree |-> NFixed,
              nirq  |-> NIrq,
              pend  |-> {}]
  BY DEF Init
<1>2. call = [t \in Task |-> UserCall] /\ timed = {} /\ owed = {}
  BY DEF Init
<1>3. Good(k)
  <2>1. /\ SchedField \subseteq DOMAIN k /\ k.list = ReadyLists(order) /\ k.state = ReadyStates(order)
        /\ k.prio = Base /\ k.lock = [t \in Task |-> 0]
    BY <1>1 DEF SchedField
  <2>2. /\ Base \in [Task -> 0 .. MaxPrio] /\ Cardinality(Task) \in Nat
        /\ \A t \in Task : Base[t] = 0 <=> t = Idle
    BY MQAssumption, FS_CardinalityType
  <2> QED
    BY <2>1, <2>2, ReadyGood
<1>4. Own(k)
  <2>1. OwnField \subseteq DOMAIN k
    BY <1>1 DEF OwnField
  <2>2. /\ k.msgs = [q \in Queue |-> <<>>] /\ k.empty = [q \in Queue |-> 0]
        /\ k.full = [q \in Queue |-> 0] /\ k.nt = [q \in Queue |-> None]
        /\ k.waitq = [t \in Task |-> None] /\ k.err = [t \in Task |-> "OK"]
        /\ k.nfree = NFixed /\ k.nirq = NIrq /\ k.pend = {}
    BY <1>1
  <2> QED
    BY <2>1, <2>2, MQAssumption DEF Own
<1>5. \A t \in Task : /\ k.state[t] \in {"RUNNING", "READYTORUN"} /\ k.waitq[t] = None /\ k.lock[t] = 0
                      /\ call[t] = UserCall
  BY <1>1, <1>2 DEF ReadyStates
<1>6. Core
  <2>1. call \in [Task -> Call]
    BY <1>2, UserCallOK
  <2>2. ASSUME NEW t \in Task
        PROVE  /\ CallOK(call[t]) /\ WaitOK(k, call[t], t) /\ DeleteOK(k, call, t, call[t])
               /\ k.lock[t] = IF call[t].op = "user" THEN 0 ELSE 1
               /\ call[t].op \in OffCpu /\ call[t].op = "user"
    BY <1>5, UserCallOK DEF WaitOK, DeleteOK, OffCpu
  <2> QED
    BY <1>2, <1>3, <1>4, <2>1, <2>2 DEF Core
<1>7. \A q \in Queue : Blocked(q, "WAIT_MQNOTEMPTY") = {} /\ Blocked(q, "WAIT_MQNOTFULL") = {}
  BY <1>5 DEF Blocked
<1>8. WaitersCounted
  <2>1. \A q \in Queue : k.empty[q] = 0 /\ k.full[q] = 0
    BY <1>1
  <2> QED
    BY <1>7, <2>1, FS_EmptySet DEF WaitersCounted
<1>9. NoLostWakeup
  BY <1>7 DEF NoLostWakeup
<1>10. Detaching /\ NotifyNotLost /\ owed \subseteq Task
  BY <1>2, <1>5, UserCallOK DEF Detaching, NotifyNotLost
<1> QED
  BY <1>6, <1>8, <1>9, <1>10 DEF Inv

-----------------------------------------------------------------------------
(* What a step does to the tasks.  A task that waits for no queue may run, *)
(* be ready or sleep: the queues do not tell these apart.                  *)
QueueState == {"WAIT_MQNOTEMPTY", "WAIT_MQNOTFULL", "INVALID"}
Still(m, n, u) ==
    n.state[u] = m.state[u] \/ (m.state[u] \notin QueueState /\ n.state[u] \notin QueueState)

(* Only t begins or ends a wait (nobody, if t is None), and r goes on at c. *)
Acts(t, c) ==
    /\ Good(k') /\ Own(k')
    /\ \A u \in Task \ {t} :
          Still(k, k', u) /\ k'.waitq[u] = k.waitq[u] /\ k'.err[u] = k.err[u]
    /\ call' = [call EXCEPT ![r] = c] /\ CallOK(c)
    /\ k'.lock = [k.lock EXCEPT ![r] = IF c.op = "user" THEN 0 ELSE 1]
    /\ Running(k') = r \/ c.op \in OffCpu

(* The other fields of the queues stay as they are. *)
Keeps(F) == \A f \in OwnField \ F : k'[f] = k[f]

LEMMA StillShuffled ==
    ASSUME NEW m, NEW n, NEW T, Shuffled(m, n, T)
    PROVE  \A u \in T : Still(m, n, u)
BY DEF Shuffled, Still, ReadyState, QueueState

LEMMA FrameOwn ==
    ASSUME NEW m, NEW n, Own(m), Frame(m, n)
    PROVE  Own(n) /\ \A f \in OwnField : n[f] = m[f]
<1>1. \A f \in OwnField : f \in DOMAIN m \ SchedField
  BY DEF Own, OwnField, SchedField
<1>2. \A f \in OwnField : n[f] = m[f] /\ f \in DOMAIN n
  BY <1>1 DEF Frame
<1>3. /\ n.msgs = m.msgs /\ n.empty = m.empty /\ n.full = m.full /\ n.nt = m.nt
      /\ n.waitq = m.waitq /\ n.err = m.err /\ n.nfree = m.nfree /\ n.nirq = m.nirq
      /\ n.pend = m.pend
  BY <1>2 DEF OwnField
<1> QED
  BY <1>2, <1>3 DEF Own

LEMMA RunFacts ==
    ASSUME Core
    PROVE  /\ Good(k) /\ Own(k) /\ KType(k) /\ r \in Task /\ k.state[r] = "RUNNING"
           /\ k.lock \in [Task -> Nat] /\ k.state \in [Task -> TState]
           /\ call \in [Task -> Call] /\ call[r] \in Call /\ CallOK(call[r])
           /\ k.lock[r] = IF call[r].op = "user" THEN 0 ELSE 1
           /\ k.waitq[r] = None
           /\ call[r].op # "user" => r # Idle
           /\ \A t \in Task : k.state[t] = "RUNNING" <=> t = r
<1>1. Good(k) /\ Own(k) /\ call \in [Task -> Call]
  BY DEF Core
<1>2. r \in Task /\ k.state[r] = "RUNNING"
  BY <1>1, ReadyFacts DEF r
<1>3. KType(k) /\ \A t \in Task : k.state[t] = "RUNNING" <=> t = r
  BY <1>1 DEF Good, Lists, HeadRuns, r
<1>4. /\ CallOK(call[r]) /\ WaitOK(k, call[r], r) /\ (r = Idle => call[r].op = "user")
      /\ k.lock[r] = IF call[r].op = "user" THEN 0 ELSE 1
  BY <1>2 DEF Core
<1>5. k.waitq[r] = None
  BY <1>2, <1>4 DEF WaitOK
<1> QED
  BY <1>1, <1>2, <1>3, <1>4, <1>5 DEF KType, CallOK

(* The state in which r is inside a call. *)
Entry(m) ==
    /\ Good(m) /\ Own(m) /\ Running(m) = r /\ m.state = k.state
    /\ m.lock = [k.lock EXCEPT ![r] = 1]
    /\ Frame(k, m)

LEMMA EntryLemma ==
    ASSUME Core
    PROVE  Entry(IF call[r].op = "user" THEN Locked(k) ELSE k)
<1>1. CASE call[r].op = "user"
  <2>1. Locks(k, Locked(k))
    BY LocksLemma DEF Core
  <2>2. k.lock[r] = 0 /\ k.lock \in [Task -> Nat] /\ r \in Task
    BY <1>1, RunFacts
  <2>3. [k.lock EXCEPT ![r] = @ + 1] = [k.lock EXCEPT ![r] = 1]
    BY <2>2
  <2>4. Own(Locked(k))
    BY <2>1, FrameOwn DEF Core, Locks
  <2> QED
    BY <1>1, <2>1, <2>3, <2>4 DEF Entry, Locks, r
<1>2. CASE call[r].op # "user"
  <2>1. k.lock[r] = 1 /\ k.lock \in [Task -> Nat] /\ r \in Task
    BY <1>2, RunFacts
  <2>2. k.lock = [k.lock EXCEPT ![r] = 1]
    BY <2>1
  <2> QED
    BY <1>2, <2>2 DEF Entry, r, Core, Frame
<1> QED
  BY <1>1, <1>2

LEMMA EntryFields ==
    ASSUME Core, NEW m, Entry(m)
    PROVE  \A f \in OwnField : m[f] = k[f]
BY FrameOwn DEF Core, Entry

(* sched_unlock() at the end of the call. *)
LEMMA ReturnEffect ==
    ASSUME Core, NEW m, Good(m), Own(m), Running(m) = r, m.lock = [k.lock EXCEPT ![r] = 1],
           k' = Unlocked(m)
    PROVE  /\ Good(k') /\ Own(k') /\ Shuffled(m, k', Task)
           /\ \A f \in OwnField : k'[f] = m[f]
           /\ k'.lock = [k.lock EXCEPT ![r] = 0]
<1>1. r \in Task /\ k.lock \in [Task -> Nat]
  BY RunFacts
<1>2. m.lock[Running(m)] > 0
  BY <1>1
<1>3. Unlocks(m, k')
  BY <1>2, UnlocksLemma
<1>4. k'.lock = [k.lock EXCEPT ![r] = 0]
  BY <1>1, <1>3 DEF Unlocks
<1>5. Own(k') /\ \A f \in OwnField : k'[f] = m[f]
  BY <1>3, FrameOwn DEF Unlocks
<1> QED
  BY <1>3, <1>4, <1>5 DEF Unlocks

(* mq_waitsend(): r waits for room. *)
LEMMA FullEffect ==
    ASSUME Core, r # Idle, NEW m, Entry(m), NEW c, CallOK(c), c.q \in Queue, c.msg \in Msg,
           Full(m, c)
    PROVE  LET d == [c EXCEPT !.op = "waitsend"] IN
           /\ Acts(r, d) /\ d.op = "waitsend" /\ d.q = c.q
           /\ k'.state[r] = "WAIT_MQNOTFULL" /\ k'.waitq[r] = c.q /\ k'.err[r] = "OK"
           /\ k'.full = [k.full EXCEPT ![c.q] = @ + 1]
           /\ Keeps({"waitq", "full", "err"})
<1> DEFINE x == [m EXCEPT !.waitq[r] = c.q, !.full[c.q] = @ + 1, !.err[r] = "OK"]
           d == [c EXCEPT !.op = "waitsend"]
<1>1. r \in Task /\ k.lock \in [Task -> Nat]
  BY RunFacts
<1>2. /\ Good(m) /\ Own(m) /\ Running(m) = r /\ m.state = k.state
      /\ m.lock = [k.lock EXCEPT ![r] = 1] /\ \A f \in OwnField : m[f] = k[f]
  BY EntryFields DEF Entry
<1>3. SchedField \cup OwnField \subseteq DOMAIN m
  BY <1>2 DEF Good, Lists, KType, Own
<1>4. Alike(m, x)
  BY <1>3 DEF Alike, SchedField
<1>5. /\ x.waitq = [m.waitq EXCEPT ![r] = c.q] /\ x.full = [m.full EXCEPT ![c.q] = @ + 1]
      /\ x.err = [m.err EXCEPT ![r] = "OK"]
      /\ \A f \in OwnField \ {"waitq", "full", "err"} : x[f] = m[f]
  BY <1>3 DEF OwnField
<1>6. Own(x)
  <2>1. /\ x.waitq \in [Task -> Queue \cup {None}] /\ x.full \in [Queue -> Int]
        /\ x.err \in [Task -> {"OK", "EINTR", "ETIMEDOUT"}]
    BY <1>1, <1>2, <1>5 DEF Own
  <2>2. DOMAIN x = DOMAIN m /\ x.msgs = m.msgs /\ x.empty = m.empty /\ x.nt = m.nt
        /\ x.nfree = m.nfree /\ x.nirq = m.nirq /\ x.pend = m.pend
    BY <1>5 DEF OwnField
  <2> HIDE DEF x
  <2> QED
    BY <1>2, <2>1, <2>2 DEF Own
<1>7. k' = up_block_task(x, r, "WAIT_MQNOTFULL") /\ call' = [call EXCEPT ![r] = d]
  BY DEF Full, Goto
<1> HIDE DEF x
<1>8. Good(x) /\ Running(x) = r
  BY <1>2, <1>4, AlikeLemma
<1>9. Blocks(x, k', r, "WAIT_MQNOTFULL")
  <2>1. "WAIT_MQNOTFULL" \in BlockedState
    BY DEF BlockedState
  <2> QED
    BY <1>7, <1>8, <2>1, BlocksLemma
<1>10. Own(k') /\ \A f \in OwnField : k'[f] = x[f]
  BY <1>6, <1>9, FrameOwn DEF Blocks
<1>11. /\ k'.waitq = [k.waitq EXCEPT ![r] = c.q] /\ k'.full = [k.full EXCEPT ![c.q] = @ + 1]
       /\ k'.err = [k.err EXCEPT ![r] = "OK"] /\ Keeps({"waitq", "full", "err"})
  BY <1>2, <1>5, <1>10 DEF OwnField, Keeps
<1>12. CallOK(d) /\ d.op = "waitsend" /\ d.q = c.q
  BY DEF CallOK, Call, Op
<1>13. \A u \in Task \ {r} : Still(k, k', u) /\ k'.waitq[u] = k.waitq[u] /\ k'.err[u] = k.err[u]
  <2>1. \A u \in Task \ {r} : Still(x, k', u)
    BY <1>9, StillShuffled DEF Blocks
  <2>2. x.state = k.state
    BY <1>2, <1>4 DEF Alike
  <2>3. \A u \in Task \ {r} : Still(k, k', u)
    BY <2>1, <2>2 DEF Still
  <2>4. k.waitq \in [Task -> Queue \cup {None}] /\ k.err \in [Task -> {"OK", "EINTR", "ETIMEDOUT"}]
    BY RunFacts DEF Own
  <2> QED
    BY <1>11, <2>3, <2>4
<1>14. k'.lock = [k.lock EXCEPT ![r] = IF d.op = "user" THEN 0 ELSE 1]
  BY <1>2, <1>4, <1>9, <1>12 DEF Blocks, Alike
<1>15. k'.state[r] = "WAIT_MQNOTFULL" /\ Good(k')
  BY <1>9 DEF Blocks
<1>16. k'.waitq[r] = c.q /\ k'.err[r] = "OK"
  <2>1. k.waitq \in [Task -> Queue \cup {None}] /\ k.err \in [Task -> {"OK", "EINTR", "ETIMEDOUT"}]
    BY RunFacts DEF Own
  <2> QED
    BY <1>1, <1>11, <2>1
<1> HIDE DEF d
<1>17. Acts(r, d)
  BY <1>7, <1>10, <1>12, <1>13, <1>14, <1>15 DEF Acts, OffCpu
<1> QED
  BY <1>11, <1>12, <1>15, <1>16, <1>17 DEF d

(* mq_waitreceive(): r waits for a message. *)
LEMMA EmptyEffect ==
    ASSUME Core, r # Idle, NEW m, Entry(m), NEW c, CallOK(c), c.q \in Queue,
           Empty(m, c)
    PROVE  LET d == [c EXCEPT !.op = "waitrecv"] IN
           /\ Acts(r, d) /\ d.op = "waitrecv" /\ d.q = c.q
           /\ k'.state[r] = "WAIT_MQNOTEMPTY" /\ k'.waitq[r] = c.q /\ k'.err[r] = "OK"
           /\ k'.empty = [k.empty EXCEPT ![c.q] = @ + 1]
           /\ Keeps({"waitq", "empty", "err"})
<1> DEFINE x == [m EXCEPT !.waitq[r] = c.q, !.empty[c.q] = @ + 1, !.err[r] = "OK"]
           d == [c EXCEPT !.op = "waitrecv"]
<1>1. r \in Task /\ k.lock \in [Task -> Nat]
  BY RunFacts
<1>2. /\ Good(m) /\ Own(m) /\ Running(m) = r /\ m.state = k.state
      /\ m.lock = [k.lock EXCEPT ![r] = 1] /\ \A f \in OwnField : m[f] = k[f]
  BY EntryFields DEF Entry
<1>3. SchedField \cup OwnField \subseteq DOMAIN m
  BY <1>2 DEF Good, Lists, KType, Own
<1>4. Alike(m, x)
  BY <1>3 DEF Alike, SchedField
<1>5. /\ x.waitq = [m.waitq EXCEPT ![r] = c.q] /\ x.empty = [m.empty EXCEPT ![c.q] = @ + 1]
      /\ x.err = [m.err EXCEPT ![r] = "OK"]
      /\ \A f \in OwnField \ {"waitq", "empty", "err"} : x[f] = m[f]
  BY <1>3 DEF OwnField
<1>6. Own(x)
  <2>1. /\ x.waitq \in [Task -> Queue \cup {None}] /\ x.empty \in [Queue -> Int]
        /\ x.err \in [Task -> {"OK", "EINTR", "ETIMEDOUT"}]
    BY <1>1, <1>2, <1>5 DEF Own
  <2>2. DOMAIN x = DOMAIN m /\ x.msgs = m.msgs /\ x.full = m.full /\ x.nt = m.nt
        /\ x.nfree = m.nfree /\ x.nirq = m.nirq /\ x.pend = m.pend
    BY <1>5 DEF OwnField
  <2> HIDE DEF x
  <2> QED
    BY <1>2, <2>1, <2>2 DEF Own
<1>7. k' = up_block_task(x, r, "WAIT_MQNOTEMPTY") /\ call' = [call EXCEPT ![r] = d]
  BY DEF Empty, Goto
<1> HIDE DEF x
<1>8. Good(x) /\ Running(x) = r
  BY <1>2, <1>4, AlikeLemma
<1>9. Blocks(x, k', r, "WAIT_MQNOTEMPTY")
  <2>1. "WAIT_MQNOTEMPTY" \in BlockedState
    BY DEF BlockedState
  <2> QED
    BY <1>7, <1>8, <2>1, BlocksLemma
<1>10. Own(k') /\ \A f \in OwnField : k'[f] = x[f]
  BY <1>6, <1>9, FrameOwn DEF Blocks
<1>11. /\ k'.waitq = [k.waitq EXCEPT ![r] = c.q] /\ k'.empty = [k.empty EXCEPT ![c.q] = @ + 1]
       /\ k'.err = [k.err EXCEPT ![r] = "OK"] /\ Keeps({"waitq", "empty", "err"})
  BY <1>2, <1>5, <1>10 DEF OwnField, Keeps
<1>12. CallOK(d) /\ d.op = "waitrecv" /\ d.q = c.q
  BY DEF CallOK, Call, Op
<1>13. \A u \in Task \ {r} : Still(k, k', u) /\ k'.waitq[u] = k.waitq[u] /\ k'.err[u] = k.err[u]
  <2>1. \A u \in Task \ {r} : Still(x, k', u)
    BY <1>9, StillShuffled DEF Blocks
  <2>2. x.state = k.state
    BY <1>2, <1>4 DEF Alike
  <2>3. \A u \in Task \ {r} : Still(k, k', u)
    BY <2>1, <2>2 DEF Still
  <2>4. k.waitq \in [Task -> Queue \cup {None}] /\ k.err \in [Task -> {"OK", "EINTR", "ETIMEDOUT"}]
    BY RunFacts DEF Own
  <2> QED
    BY <1>11, <2>3, <2>4
<1>14. k'.lock = [k.lock EXCEPT ![r] = IF d.op = "user" THEN 0 ELSE 1]
  BY <1>2, <1>4, <1>9, <1>12 DEF Blocks, Alike
<1>15. k'.state[r] = "WAIT_MQNOTEMPTY" /\ Good(k')
  BY <1>9 DEF Blocks
<1>16. k'.waitq[r] = c.q /\ k'.err[r] = "OK"
  <2>1. k.waitq \in [Task -> Queue \cup {None}] /\ k.err \in [Task -> {"OK", "EINTR", "ETIMEDOUT"}]
    BY RunFacts DEF Own
  <2> QED
    BY <1>1, <1>11, <2>1
<1> HIDE DEF d
<1>17. Acts(r, d)
  BY <1>7, <1>10, <1>12, <1>13, <1>14, <1>15 DEF Acts, OffCpu
<1> QED
  BY <1>11, <1>12, <1>15, <1>16, <1>17 DEF d

-----------------------------------------------------------------------------
(* A state within a step: t alone has begun or ended a wait, and r has     *)
(* lockcount n.                                                            *)
Mid(m, t, n) ==
    /\ Good(m) /\ Own(m)
    /\ m.lock = [k.lock EXCEPT ![r] = n] /\ (n > 0 => Running(m) = r)
    /\ \A u \in Task \ {t} :
          Still(k, m, u) /\ m.waitq[u] = k.waitq[u] /\ m.err[u] = k.err[u]

(* The fields of the queues, F apart. *)
Same(m, n, F) == \A f \in OwnField \ F : n[f] = m[f]

LEMMA MidEntry ==
    ASSUME Core, NEW m, Entry(m)
    PROVE  Mid(m, None, 1) /\ Same(k, m, {})
<1>1. \A f \in OwnField : m[f] = k[f]
  BY EntryFields
<1>2. m.waitq = k.waitq /\ m.err = k.err
  BY <1>1 DEF OwnField
<1> QED
  BY <1>1, <1>2 DEF Entry, Mid, Same, Still

(* The state that an interrupt handler or a simple call finds. *)
Held == IF call[r].op = "user" THEN 0 ELSE 1
LEMMA MidSelf ==
    ASSUME Core
    PROVE  Mid(k, None, Held) /\ Held \in {0, 1} /\ Same(k, k, {})
<1>1. r \in Task /\ k.lock \in [Task -> Nat] /\ k.lock[r] = Held
  BY RunFacts DEF Held
<1>2. k.lock = [k.lock EXCEPT ![r] = Held]
  BY <1>1
<1> QED
  BY <1>2 DEF Core, Mid, r, Same, Still, Held

LEMMA MidUpdate ==
    ASSUME Core, NEW m, NEW t, NEW n, Mid(m, t, n), NEW x, Alike(m, x), Own(x),
           \A u \in Task \ {t} : x.waitq[u] = m.waitq[u] /\ x.err[u] = m.err[u]
    PROVE  Mid(x, t, n)
<1>1. Good(x) /\ Running(x) = Running(m)
  BY AlikeLemma DEF Mid
<1>2. \A u \in Task \ {t} : Still(k, x, u)
  BY DEF Mid, Alike, Still
<1> QED
  BY <1>1, <1>2 DEF Mid, Alike

LEMMA MidFields ==
    ASSUME NEW m, NEW t, NEW n, Mid(m, t, n)
    PROVE  /\ SchedField \cup OwnField \subseteq DOMAIN m
           /\ m.state \in [Task -> TState] /\ Own(m) /\ Good(m)
           /\ m.waitq \in [Task -> Queue \cup {None}]
           /\ m.err \in [Task -> {"OK", "EINTR", "ETIMEDOUT"}]
BY DEF Mid, Good, Lists, KType, Own

(* A step that ends in m, in a call or outside of one. *)
LEMMA StayEffect ==
    ASSUME Core, NEW t, NEW c, Mid(k', t, IF c.op = "user" THEN 0 ELSE 1), CallOK(c),
           call' = [call EXCEPT ![r] = c]
    PROVE  Acts(t, c)
<1>1. Running(k') = r \/ c.op \in OffCpu
  BY DEF Mid, OffCpu
<1> QED
  BY <1>1 DEF Mid, Acts

LEMMA HeldEffect ==
    ASSUME Core, NEW t, Mid(k', t, Held), call' = call
    PROVE  Acts(t, call[r])
<1>1. call' = [call EXCEPT ![r] = call[r]] /\ CallOK(call[r])
  BY RunFacts
<1> QED
  BY <1>1, StayEffect DEF Held

(* The end of a call. *)
LEMMA UnlockEffect ==
    ASSUME Core, NEW t, NEW m, Mid(m, t, 1), k' = Unlocked(m),
           NEW c, CallOK(c), c.op = "user", call' = [call EXCEPT ![r] = c]
    PROVE  /\ Acts(t, c) /\ Same(m, k', {}) /\ \A u \in Task : Still(m, k', u)
<1>1. Good(m) /\ Own(m) /\ Running(m) = r /\ m.lock = [k.lock EXCEPT ![r] = 1]
  BY DEF Mid
<1>2. /\ Good(k') /\ Own(k') /\ Shuffled(m, k', Task)
      /\ \A f \in OwnField : k'[f] = m[f]
      /\ k'.lock = [k.lock EXCEPT ![r] = 0]
  BY <1>1, ReturnEffect
<1>3. \A u \in Task : Still(m, k', u)
  BY <1>2, StillShuffled
<1>4. k'.waitq = m.waitq /\ k'.err = m.err
  BY <1>2 DEF OwnField
<1>5. \A u \in Task \ {t} : Still(k, k', u) /\ k'.waitq[u] = k.waitq[u] /\ k'.err[u] = k.err[u]
  BY <1>3, <1>4 DEF Mid, Still
<1> QED
  BY <1>2, <1>3, <1>5 DEF Acts, Same, OffCpu

LEMMA EndEffect ==
    ASSUME Core, NEW t, NEW m, Mid(m, t, 1), Return(m)
    PROVE  /\ Acts(t, UserCall) /\ Same(m, k', {}) /\ \A u \in Task : Still(m, k', u)
BY UnlockEffect, UserCallOK DEF Return, Goto

(* up_unblock_task() of t within a step. *)
LEMMA MidUnblock ==
    ASSUME Core, NEW t \in Task, NEW a, a = t \/ a = None, NEW n \in {0, 1}, NEW m, Mid(m, a, n),
           m.state[t] \in BlockedState,
           m.state[t] = "WAIT_SIG" \/ a = t
    PROVE  LET x == up_unblock_task(m, t) IN
           Mid(x, a, n) /\ Same(m, x, {}) /\ x.state[t] \notin QueueState
<1> DEFINE x == up_unblock_task(m, t)
<1>1. Unblocks(m, x, t)
  BY UnblocksLemma DEF Mid
<1> HIDE DEF x
<1>2. Own(x) /\ \A f \in OwnField : x[f] = m[f]
  BY <1>1, FrameOwn DEF Unblocks, Mid
<1>3. x.state[t] \notin QueueState
  BY <1>1 DEF Unblocks, ReadyState, QueueState
<1>4. \A u \in Task \ {t} : Still(m, x, u)
  BY <1>1, StillShuffled DEF Unblocks
<1>5. \A u \in Task \ {a} : Still(m, x, u)
  <2>1. m.state[t] = "WAIT_SIG" => Still(m, x, t)
    BY <1>3 DEF Still, QueueState
  <2> QED
    BY <1>4, <2>1
<1>6. n > 0 => Running(x) = r
  <2>1. r \in Task /\ k.lock \in [Task -> Nat]
    BY RunFacts
  <2> QED
    BY <1>1, <2>1 DEF Mid, Unblocks
<1>7. x.waitq = m.waitq /\ x.err = m.err
  BY <1>2 DEF OwnField
<1>8. \A u \in Task \ {a} : Still(k, x, u) /\ x.waitq[u] = k.waitq[u] /\ x.err[u] = k.err[u]
  BY <1>5, <1>7 DEF Mid, Still
<1>9. Mid(x, a, n)
  BY <1>1, <1>2, <1>6, <1>8 DEF Mid, Unblocks
<1> QED
  BY <1>2, <1>3, <1>9 DEF Same, x

-----------------------------------------------------------------------------
(* The tasks that the search of a waiting list finds. *)
QueueWait == {"WAIT_MQNOTEMPTY", "WAIT_MQNOTFULL"}
LEMMA WaitingLemma ==
    ASSUME Core, NEW q \in Queue, NEW l \in QueueWait
    PROVE  /\ Waiting(q, l) = {} => \A t \in Task : ~ (k.state[t] = l /\ k.waitq[t] = q)
           /\ Waiting(q, l) # {} =>
                LET t == k.list[l][Min(Waiting(q, l))] IN
                t \in Task /\ k.state[t] = l /\ k.waitq[t] = q
<1>1. l \in List /\ ListOf(l) = l /\ l \notin {"INVALID", "RUNNING"}
  BY DEF QueueWait, List, TState, BlockedState, ListOf
<1>2. /\ k.list \in [List -> Seq(Task)] /\ k.state \in [Task -> TState] /\ Placed(k) /\ Present(k)
  BY DEF Core, Good, Lists, KType
<1>3. k.list[l] \in Seq(Task) /\ Len(k.list[l]) \in Nat
  BY <1>1, <1>2
<1>4. ASSUME NEW t \in Task, k.state[t] = l, k.waitq[t] = q PROVE Waiting(q, l) # {}
  <2>1. PICK i \in 1 .. Len(k.list[l]) : k.list[l][i] = t
    BY <1>1, <1>2, <1>4 DEF Present
  <2>2. i \in Waiting(q, l)
    BY <1>4, <2>1 DEF Waiting
  <2> QED
    BY <2>2
<1>5. ASSUME Waiting(q, l) # {}
      PROVE  LET t == k.list[l][Min(Waiting(q, l))] IN
             t \in Task /\ k.state[t] = l /\ k.waitq[t] = q
  <2> DEFINE i == Min(Waiting(q, l))
             t == k.list[l][i]
  <2>1. Waiting(q, l) \subseteq Nat
    BY <1>3 DEF Waiting
  <2>2. i \in Waiting(q, l)
    BY <1>5, <2>1, MinLemma
  <2> HIDE DEF i
  <2>3. i \in 1 .. Len(k.list[l]) /\ k.waitq[t] = q
    BY <2>2 DEF Waiting
  <2>4. t \in Task
    BY <1>3, <2>3
  <2>5. ListOf(k.state[t]) = l
    BY <1>1, <1>2, <2>3 DEF Placed
  <2>6. k.state[t] = l
    BY <2>5 DEF ListOf, QueueWait
  <2> QED
    BY <2>3, <2>4, <2>6 DEF i
<1> QED
  BY <1>4, <1>5

(* The first of them is woken. *)
LEMMA WakeEffect ==
    ASSUME Core, NEW n \in {0, 1}, NEW m, Mid(m, None, n), NEW q \in Queue, NEW l \in QueueWait,
           Waiting(q, l) # {}
    PROVE  \E t \in Task :
             /\ k.state[t] = l /\ k.waitq[t] = q
             /\ LET x == WakeFirst(m, q, l) IN
                /\ Mid(x, t, n) /\ Same(m, x, {"waitq"})
                /\ x.state[t] \notin QueueState /\ x.waitq[t] = None
<1> DEFINE t == k.list[l][Min(Waiting(q, l))]
           y == [m EXCEPT !.waitq[t] = None]
           x == up_unblock_task(y, t)
<1>1. t \in Task /\ k.state[t] = l /\ k.waitq[t] = q
  BY WaitingLemma
<1>2. WakeFirst(m, q, l) = x
  BY DEF WakeFirst
<1> HIDE DEF t
<1>3. /\ SchedField \cup OwnField \subseteq DOMAIN m /\ Own(m)
      /\ m.waitq \in [Task -> Queue \cup {None}] /\ m.state \in [Task -> TState]
  BY MidFields
<1>4. Alike(m, y)
  BY <1>3 DEF Alike, SchedField
<1>5. y.waitq = [m.waitq EXCEPT ![t] = None] /\ Same(m, y, {"waitq"})
  BY <1>3 DEF OwnField, Same
<1> HIDE DEF y
<1>6. Own(y)
  <2>1. y.waitq \in [Task -> Queue \cup {None}]
    BY <1>3, <1>5
  <2>2. DOMAIN y = DOMAIN m /\ y.msgs = m.msgs /\ y.empty = m.empty /\ y.full = m.full
        /\ y.nt = m.nt /\ y.err = m.err /\ y.nfree = m.nfree /\ y.nirq = m.nirq /\ y.pend = m.pend
    BY <1>4, <1>5 DEF OwnField, Same, Alike
  <2> QED
    BY <1>3, <2>1, <2>2 DEF Own
<1>7. t # None
  BY <1>1, MQAssumption
<1>8. m.state[t] = l
  BY <1>1, <1>7 DEF Mid, Still, QueueState, QueueWait
<1>9. Mid(m, t, n)
  BY MQAssumption DEF Mid
<1>10. Mid(y, t, n)
  <2>1. \A u \in Task \ {t} : y.waitq[u] = m.waitq[u] /\ y.err[u] = m.err[u]
    BY <1>3, <1>5 DEF Same, OwnField
  <2> QED
    BY <1>4, <1>6, <1>9, <2>1, MidUpdate
<1>11. y.state[t] = l /\ l \in BlockedState
  BY <1>4, <1>8 DEF Alike, QueueWait, BlockedState
<1>12. Mid(x, t, n) /\ Same(y, x, {}) /\ x.state[t] \notin QueueState
  BY <1>1, <1>10, <1>11, MidUnblock
<1> HIDE DEF x
<1>13. x.waitq = y.waitq /\ Same(m, x, {"waitq"})
  BY <1>5, <1>12 DEF Same, OwnField
<1>14. x.waitq[t] = None
  BY <1>1, <1>3, <1>5, <1>13
<1> QED
  BY <1>1, <1>2, <1>12, <1>13, <1>14

(* mq_waitirq() ends the wait of t. *)
LEMMA WaitirqEffect ==
    ASSUME Core, NEW n \in {0, 1}, NEW m, Mid(m, None, n), Same(k, m, {}), NEW t \in Task,
           NEW e \in {"EINTR", "ETIMEDOUT"}, k.state[t] \in QueueWait
    PROVE  LET x == mq_waitirq(m, t, e)
               q == k.waitq[t]
           IN  /\ q \in Queue /\ Mid(x, t, n) /\ Same(m, x, {"waitq", "err", "empty", "full"})
               /\ x.state[t] \notin QueueState /\ x.waitq[t] = None /\ x.err[t] = e
               /\ x.empty = IF k.state[t] = "WAIT_MQNOTEMPTY" THEN [k.empty EXCEPT ![q] = @ - 1] ELSE k.empty
               /\ x.full = IF k.state[t] = "WAIT_MQNOTFULL" THEN [k.full EXCEPT ![q] = @ - 1] ELSE k.full
<1> DEFINE q == k.waitq[t]
           c == [m EXCEPT !.waitq[t] = None, !.err[t] = e]
           y == IF k.state[t] = "WAIT_MQNOTEMPTY" THEN [c EXCEPT !.empty[q] = @ - 1]
                ELSE [c EXCEPT !.full[q] = @ - 1]
           x == up_unblock_task(y, t)
<1>1. /\ SchedField \cup OwnField \subseteq DOMAIN m /\ Own(m)
      /\ m.waitq \in [Task -> Queue \cup {None}] /\ m.state \in [Task -> TState]
      /\ m.err \in [Task -> {"OK", "EINTR", "ETIMEDOUT"}]
  BY MidFields
<1>2. m.waitq = k.waitq /\ m.err = k.err /\ m.empty = k.empty /\ m.full = k.full
  BY DEF Same, OwnField
<1>3. t # None /\ q \in Queue
  BY MQAssumption DEF Core, WaitOK, QueueWait
<1>4. m.state[t] = k.state[t]
  BY <1>3 DEF Mid, Still, QueueState, QueueWait
<1>5. mq_waitirq(m, t, e) = x
  BY <1>2, <1>4 DEF mq_waitirq, QueueWait
<1> HIDE DEF q
<1>6. /\ Alike(m, c) /\ c.waitq = [m.waitq EXCEPT ![t] = None] /\ c.err = [m.err EXCEPT ![t] = e]
      /\ Same(m, c, {"waitq", "err"})
  BY <1>1 DEF Alike, SchedField, OwnField, Same
<1>7. SchedField \cup OwnField \subseteq DOMAIN c
  BY <1>1, <1>6 DEF Alike
<1> HIDE DEF c
<1>8. /\ Alike(c, y) /\ Same(c, y, {"empty", "full"})
      /\ y.empty = IF k.state[t] = "WAIT_MQNOTEMPTY" THEN [c.empty EXCEPT ![q] = @ - 1] ELSE c.empty
      /\ y.full = IF k.state[t] = "WAIT_MQNOTEMPTY" THEN c.full ELSE [c.full EXCEPT ![q] = @ - 1]
  <2>1. CASE k.state[t] = "WAIT_MQNOTEMPTY"
    BY <1>7, <2>1 DEF Alike, SchedField, OwnField, Same
  <2>2. CASE k.state[t] # "WAIT_MQNOTEMPTY"
    BY <1>7, <2>2 DEF Alike, SchedField, OwnField, Same
  <2> QED
    BY <2>1, <2>2
<1> HIDE DEF y
<1>9. /\ y.waitq = [m.waitq EXCEPT ![t] = None] /\ y.err = [m.err EXCEPT ![t] = e]
      /\ y.empty = IF k.state[t] = "WAIT_MQNOTEMPTY" THEN [k.empty EXCEPT ![q] = @ - 1] ELSE k.empty
      /\ y.full = IF k.state[t] = "WAIT_MQNOTFULL" THEN [k.full EXCEPT ![q] = @ - 1] ELSE k.full
      /\ Same(m, y, {"waitq", "err", "empty", "full"}) /\ Alike(m, y)
  <2>1. c.empty = m.empty /\ c.full = m.full /\ y.waitq = c.waitq /\ y.err = c.err
    BY <1>6, <1>8 DEF Same, OwnField
  <2>2. Same(m, y, {"waitq", "err", "empty", "full"})
    BY <1>6, <1>8 DEF Same
  <2>3. Alike(m, y)
    BY <1>6, <1>8 DEF Alike
  <2> QED
    BY <1>2, <1>6, <1>8, <2>1, <2>2, <2>3 DEF QueueWait
<1>10. Own(y)
  <2>1. k.empty \in [Queue -> Int] /\ k.full \in [Queue -> Int]
    BY DEF Core, Own
  <2>2. /\ y.waitq \in [Task -> Queue \cup {None}] /\ y.err \in [Task -> {"OK", "EINTR", "ETIMEDOUT"}]
    BY <1>1, <1>9
  <2>3. y.empty \in [Queue -> Int] /\ y.full \in [Queue -> Int]
    BY <1>3, <1>9, <2>1
  <2>4. DOMAIN y = DOMAIN m /\ y.msgs = m.msgs /\ y.nt = m.nt
        /\ y.nfree = m.nfree /\ y.nirq = m.nirq /\ y.pend = m.pend
    BY <1>9 DEF OwnField, Same, Alike
  <2> QED
    BY <1>1, <2>2, <2>3, <2>4 DEF Own
<1>11. Mid(y, t, n)
  <2>1. \A u \in Task \ {t} : y.waitq[u] = m.waitq[u] /\ y.err[u] = m.err[u]
    BY <1>1, <1>9
  <2>2. Mid(m, t, n)
    BY MQAssumption DEF Mid
  <2> QED
    BY <1>9, <1>10, <2>1, <2>2, MidUpdate
<1>12. y.state[t] \in BlockedState
  BY <1>4, <1>9 DEF Alike, QueueWait, BlockedState
<1>13. Mid(x, t, n) /\ Same(y, x, {}) /\ x.state[t] \notin QueueState
  BY <1>11, <1>12, MidUnblock
<1> HIDE DEF x
<1>14. x.waitq = y.waitq /\ x.err = y.err /\ x.empty = y.empty /\ x.full = y.full
       /\ Same(m, x, {"waitq", "err", "empty", "full"})
  BY <1>9, <1>13 DEF Same, OwnField
<1>15. x.waitq[t] = None /\ x.err[t] = e
  BY <1>1, <1>9, <1>14
<1> QED
  BY <1>3, <1>5, <1>9, <1>13, <1>14, <1>15 DEF q

LEMMA WaitirqNothing ==
    ASSUME NEW m, NEW t, m.state[t] \notin QueueWait, NEW e
    PROVE  mq_waitirq(m, t, e) = m
BY DEF mq_waitirq, QueueWait

(* The signal of mq_notify(). *)
LEMMA SignalEffect ==
    ASSUME Core, NEW n \in {0, 1}, NEW m, Mid(m, None, n), NEW t \in Task \cup {None}
    PROVE  LET x == sig_mqnotempty(m, t) IN
           /\ Mid(x, None, n) /\ Same(m, x, {"pend"})
           /\ x.pend = m.pend \/ x.pend = m.pend \cup {t}
           /\ m.state[t] \notin {"INVALID", "WAIT_SIG"} /\ t # None => t \in x.pend
<1> DEFINE x == sig_mqnotempty(m, t)
<1>1. CASE t = None \/ m.state[t] = "INVALID"
  <2>1. x = m
    BY <1>1 DEF sig_mqnotempty
  <2> QED
    BY <1>1, <2>1 DEF Same
<1>2. CASE t # None /\ m.state[t] = "WAIT_SIG"
  <2>1. x = up_unblock_task(m, t) /\ t \in Task
    BY <1>2 DEF sig_mqnotempty
  <2>2. Mid(x, None, n) /\ Same(m, x, {})
    BY <1>2, <2>1, MidUnblock DEF BlockedState
  <2> HIDE DEF x
  <2>3. x.pend = m.pend
    BY <2>2 DEF Same, OwnField
  <2>4. Same(m, x, {"pend"})
    BY <2>2 DEF Same
  <2> QED
    BY <1>2, <2>2, <2>3, <2>4 DEF x
<1>3. CASE t # None /\ m.state[t] \notin {"INVALID", "WAIT_SIG"}
  <2>1. x = [m EXCEPT !.pend = @ \cup {t}] /\ t \in Task
    BY <1>3 DEF sig_mqnotempty
  <2>2. SchedField \cup OwnField \subseteq DOMAIN m /\ Own(m)
    BY MidFields
  <2>3. Alike(m, x) /\ Same(m, x, {"pend"}) /\ x.pend = m.pend \cup {t}
    BY <2>1, <2>2 DEF Alike, SchedField, OwnField, Same
  <2> HIDE DEF x
  <2>4. Own(x)
    BY <2>1, <2>2, <2>3 DEF Own, Same, OwnField, Alike
  <2>5. x.waitq = m.waitq /\ x.err = m.err
    BY <2>3 DEF Same, OwnField
  <2>6. Mid(x, None, n)
    BY <2>3, <2>4, <2>5, MidUpdate
  <2> QED
    BY <2>3, <2>6 DEF x
<1> QED
  BY <1>1, <1>2, <1>3

-----------------------------------------------------------------------------
(* What each action does. *)
LEMMA PreparedEffect ==
    ASSUME Core, r # Idle, NEW m, Entry(m), NEW c, CallOK(c), c.q \in Queue, NEW p \in MsgPrio,
           Prepared(m, c, p)
    PROVE  \E d : /\ Acts(None, d) /\ d.op = "dosend" /\ d.q = c.q
                  /\ d.msg = [prio |-> p, pool |-> AllocPool(k), isr |-> FALSE]
                  /\ Same(k, k', {"nfree"})
                  /\ k'.nfree = IF k.nfree > 0 THEN k.nfree - 1 ELSE k.nfree
<1> DEFINE msg == [prio |-> p, pool |-> AllocPool(m), isr |-> FALSE]
           d == [c EXCEPT !.op = "dosend", !.dog = FALSE, !.msg = msg]
<1>1. Mid(m, None, 1) /\ Same(k, m, {}) /\ m.nfree = k.nfree
  <2>1. Mid(m, None, 1) /\ Same(k, m, {})
    BY MidEntry
  <2> QED
    BY <2>1 DEF Same, OwnField
<1>2. /\ SchedField \cup OwnField \subseteq DOMAIN m /\ Own(m)
  BY <1>1, MidFields
<1>3. k' = Alloc(m) /\ call' = [call EXCEPT ![r] = d]
  BY DEF Prepared, Goto
<1>4. /\ Alike(m, k') /\ Same(m, k', {"nfree"})
      /\ k'.nfree = IF m.nfree > 0 THEN m.nfree - 1 ELSE m.nfree
  <2>1. CASE m.nfree > 0
    BY <1>2, <1>3, <2>1 DEF Alloc, Alike, Same, SchedField, OwnField
  <2>2. CASE ~ (m.nfree > 0)
    BY <1>3, <2>2 DEF Alloc, Alike, Same
  <2> QED
    BY <2>1, <2>2
<1>5. Own(k')
  <2>1. k'.nfree \in Nat
    BY <1>2, <1>4 DEF Own
  <2> QED
    BY <1>2, <1>4, <2>1 DEF Own, Same, OwnField, Alike
<1>6. Mid(k', None, 1)
  <2>1. k'.waitq = m.waitq /\ k'.err = m.err
    BY <1>4 DEF Same, OwnField
  <2> QED
    BY <1>1, <1>4, <1>5, <2>1, MidUpdate
<1>7. AllocPool(m) = AllocPool(k) /\ AllocPool(m) \in {"FIXED", "DYN"}
  BY <1>1 DEF AllocPool
<1>8. msg \in Msg
  BY <1>7 DEF Msg
<1>9. d.op = "dosend" /\ d.q = c.q /\ d.msg = msg /\ d \in Call
  <2> HIDE DEF msg
  <2> QED
    BY <1>8 DEF CallOK, Call, Op
<1>10. CallOK(d)
  <2> HIDE DEF d, msg
  <2> QED
    BY <1>8, <1>9 DEF CallOK
<1>11. Acts(None, d)
  <2> HIDE DEF d
  <2> QED
    BY <1>3, <1>6, <1>9, <1>10, StayEffect
<1>12. Same(k, k', {"nfree"})
  BY <1>1, <1>4 DEF Same
<1> QED
  BY <1>1, <1>4, <1>7, <1>9, <1>11, <1>12

LEMMA TakenEffect ==
    ASSUME Core, r # Idle, NEW m, Entry(m), NEW c, CallOK(c), c.q \in Queue, k.msgs[c.q] # <<>>,
           Taken(m, c)
    PROVE  \E d : /\ Acts(None, d) /\ d.op = "doreceive" /\ d.q = c.q
                  /\ d.msg = Head(k.msgs[c.q]) /\ d.msg \in Msg
                  /\ Same(k, k', {"msgs"})
                  /\ k'.msgs = [k.msgs EXCEPT ![c.q] = Tail(@)]
<1> DEFINE msg == Head(m.msgs[c.q])
           d == [c EXCEPT !.op = "doreceive", !.msg = msg, !.dog = FALSE]
<1>1. Mid(m, None, 1) /\ Same(k, m, {}) /\ m.msgs = k.msgs
  <2>1. Mid(m, None, 1) /\ Same(k, m, {})
    BY MidEntry
  <2> QED
    BY <2>1 DEF Same, OwnField
<1>2. /\ SchedField \cup OwnField \subseteq DOMAIN m /\ Own(m)
  BY <1>1, MidFields
<1>3. k' = [m EXCEPT !.msgs[c.q] = Tail(@)] /\ call' = [call EXCEPT ![r] = d]
  BY DEF Taken, Goto
<1>4. /\ Alike(m, k') /\ Same(m, k', {"msgs"}) /\ k'.msgs = [m.msgs EXCEPT ![c.q] = Tail(@)]
  BY <1>2, <1>3 DEF Alike, Same, SchedField, OwnField
<1>5. m.msgs[c.q] \in Seq(Msg) /\ m.msgs[c.q] # <<>>
  BY <1>1, <1>2 DEF Own
<1>6. Own(k')
  <2>1. Tail(m.msgs[c.q]) \in Seq(Msg)
    BY <1>5
  <2>2. k'.msgs \in [Queue -> Seq(Msg)]
    BY <1>2, <1>4, <2>1 DEF Own
  <2> QED
    BY <1>2, <1>4, <2>2 DEF Own, Same, OwnField, Alike
<1>7. Mid(k', None, 1)
  <2>1. k'.waitq = m.waitq /\ k'.err = m.err
    BY <1>4 DEF Same, OwnField
  <2> QED
    BY <1>1, <1>4, <1>6, <2>1, MidUpdate
<1>8. msg \in Msg
  BY <1>5
<1>9. d.op = "doreceive" /\ d.q = c.q /\ d.msg = msg /\ d \in Call
  <2> HIDE DEF msg
  <2> QED
    BY <1>8 DEF CallOK, Call, Op
<1>10. CallOK(d)
  <2> HIDE DEF d, msg
  <2> QED
    BY <1>8, <1>9 DEF CallOK
<1>11. Acts(None, d)
  <2> HIDE DEF d
  <2> QED
    BY <1>3, <1>7, <1>9, <1>10, StayEffect
<1>12. Same(k, k', {"msgs"})
  BY <1>1, <1>4 DEF Same
<1> QED
  BY <1>1, <1>4, <1>8, <1>9, <1>11, <1>12

(* r steps on to op of the same call with fields F of the queues changed. *)
LEMMA StepEffect ==
    ASSUME Core, NEW op \in {"notify", "wake", "wakesend"}, Step(op), call[r].op \notin {"user", "delete"},
           Mid(k', None, 1)
    PROVE  \E d : Acts(None, d) /\ d.op = op /\ d.q = call[r].q
<1> DEFINE d == [call[r] EXCEPT !.op = op]
<1>1. CallOK(call[r])
  BY RunFacts
<1>2. CallOK(d) /\ d.op = op /\ d.q = call[r].q
  BY <1>1 DEF CallOK, Call, Op
<1>3. call' = [call EXCEPT ![r] = d]
  BY DEF Step, Goto
<1> HIDE DEF d
<1>4. Acts(None, d)
  BY <1>2, <1>3, StayEffect
<1> QED
  BY <1>2, <1>4

(* The queue with a message inserted. *)
InsertPos(s, msg, i) ==
    /\ i \in 1 .. Len(s) + 1
    /\ i <= Len(s) => msg.prio > s[i].prio
    /\ \A j \in 1 .. i - 1 : msg.prio <= s[j].prio

LEMMA InsertPosExists ==
    ASSUME NEW s \in Seq(Msg), NEW msg \in Msg
    PROVE  \E i : InsertPos(s, msg, i)
<1> DEFINE T == {i \in 1 .. Len(s) + 1 : i <= Len(s) => msg.prio > s[i].prio}
<1>1. Len(s) \in Nat /\ \A j \in 1 .. Len(s) : s[j].prio \in Nat
  <2>1. \A x \in Msg : x.prio \in Nat
    BY MQAssumption DEF Msg
  <2>2. Len(s) \in Nat /\ \A j \in 1 .. Len(s) : s[j] \in Msg
    OBVIOUS
  <2> QED
    BY <2>1, <2>2
<1>2. msg.prio \in Nat
  BY MQAssumption DEF Msg
<1>3. Len(s) + 1 \in T /\ T \subseteq Nat
  BY <1>1
<1>4. PICK i \in T : \A j \in T : i <= j
  BY <1>3, LeastNat
<1>5. ASSUME NEW j \in 1 .. i - 1 PROVE msg.prio <= s[j].prio
  <2>1. j \in 1 .. Len(s) /\ ~ (i <= j) /\ j \in 1 .. Len(s) + 1
    BY <1>1, <1>4
  <2>2. j \notin T
    BY <1>4, <2>1
  <2>3. ~ (msg.prio > s[j].prio) /\ s[j].prio \in Nat
    BY <1>1, <2>1, <2>2
  <2> QED
    BY <1>2, <2>3
<1>6. InsertPos(s, msg, i)
  BY <1>4, <1>5 DEF InsertPos
<1> QED
  BY <1>6

LEMMA InsertEffect ==
    ASSUME NEW m, SchedField \cup OwnField \subseteq DOMAIN m, Own(m), NEW q \in Queue, NEW msg \in Msg
    PROVE  LET x == Insert(m, q, msg) IN
           /\ Alike(m, x) /\ Own(x) /\ Same(m, x, {"msgs"})
           /\ \E i : /\ InsertPos(m.msgs[q], msg, i)
                     /\ x.msgs = [m.msgs EXCEPT ![q] = InsertAt(m.msgs[q], i, msg)]
<1> DEFINE s == m.msgs[q]
           i == CHOOSE i \in 1 .. Len(s) + 1 :
                   /\ i <= Len(s) => msg.prio > s[i].prio
                   /\ \A j \in 1 .. i - 1 : msg.prio <= s[j].prio
           x == [m EXCEPT !.msgs[q] = InsertAt(s, i, msg)]
<1>1. s \in Seq(Msg) /\ Len(s) \in Nat
  BY DEF Own
<1>2. \E j : InsertPos(s, msg, j)
  BY <1>1, InsertPosExists
<1>3. InsertPos(s, msg, i)
  BY <1>2 DEF InsertPos
<1>4. Insert(m, q, msg) = x
  BY DEF Insert
<1> HIDE DEF i
<1>5. InsertAt(s, i, msg) \in Seq(Msg)
  BY <1>1, <1>3, InsertLemma DEF InsertPos
<1>6. Alike(m, x) /\ Same(m, x, {"msgs"}) /\ x.msgs = [m.msgs EXCEPT ![q] = InsertAt(s, i, msg)]
  <2> HIDE DEF s
  <2> QED
    BY DEF Alike, Same, SchedField, OwnField
<1> HIDE DEF x
<1>7. Own(x)
  <2>1. x.msgs \in [Queue -> Seq(Msg)]
    BY <1>5, <1>6 DEF Own
  <2> QED
    BY <1>6, <2>1 DEF Own, Same, OwnField, Alike
<1> QED
  BY <1>3, <1>4, <1>6, <1>7

-----------------------------------------------------------------------------
(* The kinds of steps.  r takes a message structure for a send ... *)
Prepares(c) ==
    /\ Acts(None, c) /\ call[r].op \in {"user", "waitsend"} /\ r # Idle
    /\ call[r].op = "waitsend" => c.q = call[r].q
    /\ c.op = "dosend" /\ c.q \in Queue /\ Room(c.q)
    /\ c.msg.prio \in MsgPrio /\ c.msg = [prio |-> c.msg.prio, pool |-> AllocPool(k), isr |-> FALSE]
    /\ Same(k, k', {"nfree"}) /\ k'.nfree = IF k.nfree > 0 THEN k.nfree - 1 ELSE k.nfree
    /\ owed' = owed

(* ... waits for room ... *)
WaitsRoom(c) ==
    /\ Acts(r, c) /\ call[r].op \in {"user", "waitsend"} /\ r # Idle
    /\ call[r].op = "waitsend" => c.q = call[r].q
    /\ c.op = "waitsend" /\ c.q \in Queue /\ ~ Room(c.q)
    /\ k'.state[r] = "WAIT_MQNOTFULL" /\ k'.waitq[r] = c.q /\ k'.err[r] = "OK"
    /\ k'.full = [k.full EXCEPT ![c.q] = @ + 1] /\ Same(k, k', {"waitq", "full", "err"})
    /\ owed' = owed

(* ... takes a message ... *)
Takes(c) ==
    /\ Acts(None, c) /\ call[r].op \in {"user", "waitrecv"} /\ r # Idle
    /\ call[r].op = "waitrecv" => c.q = call[r].q
    /\ c.op = "doreceive" /\ c.q \in Queue /\ k.msgs[c.q] # <<>>
    /\ c.msg = Head(k.msgs[c.q]) /\ c.msg \in Msg
    /\ k'.msgs = [k.msgs EXCEPT ![c.q] = Tail(@)] /\ Same(k, k', {"msgs"})
    /\ owed' = owed

(* ... waits for one ... *)
WaitsMessage(c) ==
    /\ Acts(r, c) /\ call[r].op \in {"user", "waitrecv"} /\ r # Idle
    /\ call[r].op = "waitrecv" => c.q = call[r].q
    /\ c.op = "waitrecv" /\ c.q \in Queue /\ k.msgs[c.q] = <<>>
    /\ k'.state[r] = "WAIT_MQNOTEMPTY" /\ k'.waitq[r] = c.q /\ k'.err[r] = "OK"
    /\ k'.empty = [k.empty EXCEPT ![c.q] = @ + 1] /\ Same(k, k', {"waitq", "empty", "err"})
    /\ owed' = owed

(* ... or returns with an error. *)
GivesUp ==
    /\ Acts(None, UserCall) /\ call[r].op \in {"waitsend", "waitrecv"} /\ k.err[r] # "OK"
    /\ Same(k, k', {}) /\ owed' = owed

LEMMA SendKind ==
    ASSUME Core, NEW q \in Queue, NEW p \in MsgPrio, mq_send(q, p)
    PROVE  \E c : Prepares(c) \/ WaitsRoom(c)
<1> DEFINE msg == [prio |-> p, pool |-> "DYN", isr |-> FALSE]
           b == r \in Timed
           c == [UserCall EXCEPT !.q = q, !.dog = b, !.msg = msg]
<1>1. call[r].op = "user" /\ r # Idle /\ owed' = owed
  BY MQAssumption DEF mq_send, At
<1>2. Entry(Locked(k))
  BY <1>1, EntryLemma
<1>3. msg \in Msg
  BY DEF Msg
<1>4. c \in Call /\ c.op = "user" /\ c.q = q /\ c.msg = msg
  <2>1. b \in BOOLEAN
    OBVIOUS
  <2> HIDE DEF msg, b
  <2> QED
    BY <1>3, <2>1 DEF UserCall, Call, Op
<1>5. CallOK(c)
  <2> HIDE DEF c
  <2> QED
    BY <1>4 DEF CallOK
<1>6. IF Room(q) THEN Prepared(Locked(k), c, p) ELSE Full(Locked(k), c)
  BY DEF mq_send
<1> HIDE DEF c, msg
<1>7. CASE Room(q)
  <2>1. PICK d : /\ Acts(None, d) /\ d.op = "dosend" /\ d.q = c.q
                 /\ d.msg = [prio |-> p, pool |-> AllocPool(k), isr |-> FALSE]
                 /\ Same(k, k', {"nfree"})
                 /\ k'.nfree = IF k.nfree > 0 THEN k.nfree - 1 ELSE k.nfree
    BY <1>1, <1>2, <1>4, <1>5, <1>6, <1>7, PreparedEffect
  <2>2. Prepares(d)
    BY <1>1, <1>4, <1>7, <2>1 DEF Prepares
  <2> QED
    BY <2>2
<1>8. CASE ~ Room(q)
  <2> DEFINE d == [c EXCEPT !.op = "waitsend"]
  <2>1. /\ Acts(r, d) /\ d.op = "waitsend" /\ d.q = c.q
        /\ k'.state[r] = "WAIT_MQNOTFULL" /\ k'.waitq[r] = c.q /\ k'.err[r] = "OK"
        /\ k'.full = [k.full EXCEPT ![c.q] = @ + 1]
        /\ Keeps({"waitq", "full", "err"})
    BY <1>1, <1>2, <1>3, <1>4, <1>5, <1>6, <1>8, FullEffect
  <2> HIDE DEF d
  <2>2. WaitsRoom(d)
    BY <1>1, <1>4, <1>8, <2>1 DEF WaitsRoom, Keeps, Same
  <2> QED
    BY <2>2
<1> QED
  BY <1>7, <1>8

LEMMA SelfEntry ==
    ASSUME Core, call[r].op \notin {"user"}
    PROVE  Entry(k) /\ Mid(k, None, 1) /\ Same(k, k, {})
BY EntryLemma, MidEntry

LEMMA WaitSendKind ==
    ASSUME Core, mq_waitsend
    PROVE  (\E c : Prepares(c) \/ WaitsRoom(c)) \/ GivesUp
<1> DEFINE c == call[r]
<1>1. call[r].op = "waitsend" /\ r # Idle /\ owed' = owed
  <2>1. call[r].op = "waitsend" /\ owed' = owed
    BY DEF mq_waitsend, At
  <2> QED
    BY <2>1, RunFacts
<1>2. Entry(k) /\ Mid(k, None, 1)
  BY <1>1, SelfEntry
<1>3. CallOK(c) /\ c.q \in Queue /\ c.msg \in Msg
  BY <1>1, RunFacts DEF CallOK
<1>4. CASE k.err[r] # "OK" /\ Return(k)
  <2>1. Acts(None, UserCall) /\ Same(k, k', {})
    BY <1>2, <1>4, EndEffect
  <2> QED
    BY <1>1, <1>4, <2>1 DEF GivesUp
<1>5. CASE ~ Room(c.q) /\ Full(k, c)
  <2> DEFINE d == [c EXCEPT !.op = "waitsend"]
  <2> HIDE DEF c
  <2>1. /\ Acts(r, d) /\ d.op = "waitsend" /\ d.q = c.q
        /\ k'.state[r] = "WAIT_MQNOTFULL" /\ k'.waitq[r] = c.q /\ k'.err[r] = "OK"
        /\ k'.full = [k.full EXCEPT ![c.q] = @ + 1]
        /\ Keeps({"waitq", "full", "err"})
    BY <1>1, <1>2, <1>3, <1>5, FullEffect
  <2> HIDE DEF d
  <2>2. WaitsRoom(d)
    BY <1>1, <1>3, <1>5, <2>1 DEF WaitsRoom, Keeps, Same, c
  <2> QED
    BY <2>2
<1>6. CASE Room(c.q) /\ Prepared(k, c, c.msg.prio)
  <2> HIDE DEF c
  <2>1. c.msg.prio \in MsgPrio
    BY <1>3 DEF Msg
  <2>2. PICK d : /\ Acts(None, d) /\ d.op = "dosend" /\ d.q = c.q
                 /\ d.msg = [prio |-> c.msg.prio, pool |-> AllocPool(k), isr |-> FALSE]
                 /\ Same(k, k', {"nfree"})
                 /\ k'.nfree = IF k.nfree > 0 THEN k.nfree - 1 ELSE k.nfree
    BY <1>1, <1>2, <1>3, <1>6, <2>1, PreparedEffect
  <2>3. Prepares(d)
    BY <1>1, <1>3, <1>6, <2>1, <2>2 DEF Prepares, c
  <2> QED
    BY <2>3
<1> QED
  BY <1>4, <1>5, <1>6 DEF mq_waitsend

LEMMA ReceiveKind ==
    ASSUME Core, NEW q \in Queue, mq_receive(q)
    PROVE  \E c : Takes(c) \/ WaitsMessage(c)
<1> DEFINE b == r \in Timed
           c == [UserCall EXCEPT !.q = q, !.dog = b]
<1>1. call[r].op = "user" /\ r # Idle /\ owed' = owed
  BY MQAssumption DEF mq_receive, At
<1>2. Entry(Locked(k))
  BY <1>1, EntryLemma
<1>3. c \in Call /\ c.op = "user" /\ c.q = q
  <2>1. b \in BOOLEAN
    OBVIOUS
  <2> HIDE DEF b
  <2> QED
    BY <2>1 DEF UserCall, Call, Op
<1>4. CallOK(c)
  <2> HIDE DEF c
  <2> QED
    BY <1>3 DEF CallOK
<1>5. IF k.msgs[q] # <<>> THEN Taken(Locked(k), c) ELSE Empty(Locked(k), c)
  BY DEF mq_receive
<1> HIDE DEF c
<1>6. CASE k.msgs[q] # <<>>
  <2>1. PICK d : /\ Acts(None, d) /\ d.op = "doreceive" /\ d.q = c.q
                 /\ d.msg = Head(k.msgs[c.q]) /\ d.msg \in Msg
                 /\ Same(k, k', {"msgs"})
                 /\ k'.msgs = [k.msgs EXCEPT ![c.q] = Tail(@)]
    BY <1>1, <1>2, <1>3, <1>4, <1>5, <1>6, TakenEffect
  <2>2. Takes(d)
    BY <1>1, <1>3, <1>6, <2>1 DEF Takes
  <2> QED
    BY <2>2
<1>7. CASE k.msgs[q] = <<>>
  <2> DEFINE d == [c EXCEPT !.op = "waitrecv"]
  <2>1. /\ Acts(r, d) /\ d.op = "waitrecv" /\ d.q = c.q
        /\ k'.state[r] = "WAIT_MQNOTEMPTY" /\ k'.waitq[r] = c.q /\ k'.err[r] = "OK"
        /\ k'.empty = [k.empty EXCEPT ![c.q] = @ + 1]
        /\ Keeps({"waitq", "empty", "err"})
    BY <1>1, <1>2, <1>3, <1>4, <1>5, <1>7, EmptyEffect
  <2> HIDE DEF d
  <2>2. WaitsMessage(d)
    BY <1>1, <1>3, <1>7, <2>1 DEF WaitsMessage, Keeps, Same
  <2> QED
    BY <2>2
<1> QED
  BY <1>6, <1>7

LEMMA WaitReceiveKind ==
    ASSUME Core, mq_waitreceive
    PROVE  (\E c : Takes(c) \/ WaitsMessage(c)) \/ GivesUp
<1> DEFINE c == call[r]
<1>1. call[r].op = "waitrecv" /\ r # Idle /\ owed' = owed
  <2>1. call[r].op = "waitrecv" /\ owed' = owed
    BY DEF mq_waitreceive, At
  <2> QED
    BY <2>1, RunFacts
<1>2. Entry(k) /\ Mid(k, None, 1)
  BY <1>1, SelfEntry
<1>3. CallOK(c) /\ c.q \in Queue
  BY <1>1, RunFacts DEF CallOK
<1>4. CASE k.err[r] # "OK" /\ Return(k)
  <2>1. Acts(None, UserCall) /\ Same(k, k', {})
    BY <1>2, <1>4, EndEffect
  <2> QED
    BY <1>1, <1>4, <2>1 DEF GivesUp
<1>5. CASE k.msgs[c.q] = <<>> /\ Empty(k, c)
  <2> DEFINE d == [c EXCEPT !.op = "waitrecv"]
  <2> HIDE DEF c
  <2>1. /\ Acts(r, d) /\ d.op = "waitrecv" /\ d.q = c.q
        /\ k'.state[r] = "WAIT_MQNOTEMPTY" /\ k'.waitq[r] = c.q /\ k'.err[r] = "OK"
        /\ k'.empty = [k.empty EXCEPT ![c.q] = @ + 1]
        /\ Keeps({"waitq", "empty", "err"})
    BY <1>1, <1>2, <1>3, <1>5, EmptyEffect
  <2> HIDE DEF d
  <2>2. WaitsMessage(d)
    BY <1>1, <1>3, <1>5, <2>1 DEF WaitsMessage, Keeps, Same, c
  <2> QED
    BY <2>2
<1>6. CASE k.msgs[c.q] # <<>> /\ Taken(k, c)
  <2> HIDE DEF c
  <2>1. PICK d : /\ Acts(None, d) /\ d.op = "doreceive" /\ d.q = c.q
                 /\ d.msg = Head(k.msgs[c.q]) /\ d.msg \in Msg
                 /\ Same(k, k', {"msgs"})
                 /\ k'.msgs = [k.msgs EXCEPT ![c.q] = Tail(@)]
    BY <1>1, <1>2, <1>3, <1>6, TakenEffect
  <2>2. Takes(d)
    BY <1>1, <1>3, <1>6, <2>1 DEF Takes, c
  <2> QED
    BY <2>2
<1> QED
  BY <1>4, <1>5, <1>6 DEF mq_waitreceive

(* A sender inserts its message, looks up who is to be told ... *)
Inserts(c) ==
    /\ Acts(None, c) /\ call[r].op = "dosend" /\ c.op = "notify" /\ c.q = call[r].q
    /\ \E i : /\ InsertPos(k.msgs[c.q], call[r].msg, i)
              /\ k'.msgs = [k.msgs EXCEPT ![c.q] = InsertAt(k.msgs[c.q], i, call[r].msg)]
    /\ Same(k, k', {"msgs"}) /\ owed' = owed

LooksUp(c) ==
    /\ Acts(None, c) /\ call[r].op = "notify" /\ c.op \in {"wake", "detach"} /\ c.q = call[r].q
    /\ c.op = "detach" => c.tcb = k.nt[c.q]
    /\ Same(k, k', {}) /\ owed' = owed

(* ... and tells it ... *)
Tells(c) ==
    /\ Acts(None, c) /\ call[r].op = "detach" /\ c.op = "wake" /\ c.q = call[r].q
    /\ k'.nt = [k.nt EXCEPT ![c.q] = None] /\ Same(k, k', {"nt", "pend"})
    /\ k.pend \subseteq k'.pend
    /\ owed' = IF call[r].tcb \in k'.pend THEN owed ELSE owed \ {call[r].tcb}

(* ... and wakes a receiver, if one waits. *)
WakesReceiver(t) ==
    /\ Acts(t, UserCall) /\ call[r].op = "wake" /\ t \in Task
    /\ k.state[t] = "WAIT_MQNOTEMPTY" /\ k.waitq[t] = call[r].q
    /\ k'.state[t] \notin QueueState /\ k'.waitq[t] = None
    /\ k'.empty = [k.empty EXCEPT ![call[r].q] = @ - 1] /\ Same(k, k', {"waitq", "empty"})
    /\ owed' = owed

WakesNobody ==
    /\ Acts(None, UserCall) /\ call[r].op = "wake" /\ k.empty[call[r].q] <= 0
    /\ Same(k, k', {}) /\ owed' = owed

LEMMA InsertKind ==
    ASSUME Core, DoSend
    PROVE  \E c : Inserts(c)
<1> DEFINE q == call[r].q
           msg == call[r].msg
<1>1. call[r].op = "dosend" /\ k' = Insert(k, q, msg) /\ Step("notify") /\ owed' = owed
  BY DEF DoSend, At
<1>2. q \in Queue /\ msg \in Msg
  BY <1>1, RunFacts DEF CallOK
<1>3. Mid(k, None, 1)
  BY <1>1, SelfEntry
<1>4. SchedField \cup OwnField \subseteq DOMAIN k /\ Own(k)
  BY <1>3, MidFields
<1> HIDE DEF q, msg
<1>5. /\ Alike(k, k') /\ Own(k') /\ Same(k, k', {"msgs"})
      /\ \E i : /\ InsertPos(k.msgs[q], msg, i)
                /\ k'.msgs = [k.msgs EXCEPT ![q] = InsertAt(k.msgs[q], i, msg)]
  BY <1>1, <1>2, <1>4, InsertEffect
<1>6. Mid(k', None, 1)
  <2>1. k'.waitq = k.waitq /\ k'.err = k.err
    BY <1>5 DEF Same, OwnField
  <2> QED
    BY <1>3, <1>5, <2>1, MidUpdate
<1>7. PICK d : Acts(None, d) /\ d.op = "notify" /\ d.q = call[r].q
  BY <1>1, <1>6, StepEffect
<1>8. Inserts(d)
  BY <1>1, <1>5, <1>7 DEF Inserts, q, msg
<1> QED
  BY <1>8

LEMMA LookUpKind ==
    ASSUME Core, DoSendNotify
    PROVE  \E c : LooksUp(c)
<1> DEFINE n == k.nt[call[r].q]
           op == IF n = None THEN "wake" ELSE "detach"
           d == [call[r] EXCEPT !.tcb = n, !.op = op]
<1>1. call[r].op = "notify" /\ k' = k /\ call' = [call EXCEPT ![r] = d] /\ owed' = owed
  BY DEF DoSendNotify, At, Goto
<1>2. CallOK(call[r]) /\ call[r].q \in Queue
  BY <1>1, RunFacts DEF CallOK
<1>3. n \in Task \cup {None} /\ op \in {"wake", "detach"} /\ (op = "detach" => n \in Task)
  BY <1>2, RunFacts DEF Own
<1>4. Mid(k', None, 1) /\ Same(k, k', {})
  BY <1>1, SelfEntry
<1> HIDE DEF n, op
<1>5. d \in Call /\ d.tcb = n /\ d.op = op /\ d.q = call[r].q
  BY <1>2, <1>3 DEF CallOK, Call, Op
<1> HIDE DEF d
<1>6. CallOK(d)
  BY <1>2, <1>3, <1>5 DEF CallOK
<1>7. Acts(None, d)
  <2>1. d.op # "user"
    BY <1>3, <1>5
  <2> QED
    BY <1>1, <1>4, <1>6, <2>1, StayEffect
<1>8. LooksUp(d)
  BY <1>1, <1>3, <1>4, <1>5, <1>7 DEF LooksUp, n
<1> QED
  BY <1>8

(* Dropping a registration. *)
LEMMA MidDetach ==
    ASSUME Core, NEW n \in {0, 1}, NEW m, Mid(m, None, n), NEW q \in Queue
    PROVE  LET x == [m EXCEPT !.nt[q] = None] IN
           Mid(x, None, n) /\ Same(m, x, {"nt"}) /\ x.nt = [m.nt EXCEPT ![q] = None] /\ x.state = m.state
<1> DEFINE x == [m EXCEPT !.nt[q] = None]
<1>1. SchedField \cup OwnField \subseteq DOMAIN m /\ Own(m)
  BY MidFields
<1>2. Alike(m, x) /\ Same(m, x, {"nt"}) /\ x.nt = [m.nt EXCEPT ![q] = None]
  BY <1>1 DEF Alike, Same, SchedField, OwnField
<1> HIDE DEF x
<1>3. Own(x)
  <2>1. x.nt \in [Queue -> Task \cup {None}]
    BY <1>1, <1>2 DEF Own
  <2> QED
    BY <1>1, <1>2, <2>1 DEF Own, Same, OwnField, Alike
<1>4. x.waitq = m.waitq /\ x.err = m.err
  BY <1>2 DEF Same, OwnField
<1>5. Mid(x, None, n)
  BY <1>2, <1>3, <1>4, MidUpdate
<1> QED
  BY <1>2, <1>5 DEF x, Alike

LEMMA TellKind ==
    ASSUME Core, DoSendDetach
    PROVE  \E c : Tells(c)
<1> DEFINE q == call[r].q
           t == call[r].tcb
           m == [k EXCEPT !.nt[q] = None]
<1>1. call[r].op = "detach" /\ k' = sig_mqnotempty(m, t) /\ Step("wake")
      /\ owed' = IF t \in k'.pend THEN owed ELSE owed \ {t}
  BY DEF DoSendDetach, At
<1>2. q \in Queue /\ t \in Task
  BY <1>1, RunFacts DEF CallOK
<1>3. Mid(k, None, 1)
  BY <1>1, SelfEntry
<1> HIDE DEF q, t
<1>4. Mid(m, None, 1) /\ Same(k, m, {"nt"}) /\ m.nt = [k.nt EXCEPT ![q] = None]
  BY <1>2, <1>3, MidDetach
<1> HIDE DEF m
<1>5. /\ Mid(k', None, 1) /\ Same(m, k', {"pend"})
      /\ k'.pend = m.pend \/ k'.pend = m.pend \cup {t}
  BY <1>1, <1>2, <1>4, SignalEffect
<1>6. /\ k'.nt = [k.nt EXCEPT ![q] = None] /\ Same(k, k', {"nt", "pend"}) /\ k.pend \subseteq k'.pend
  BY <1>4, <1>5 DEF Same, OwnField
<1>7. PICK d : Acts(None, d) /\ d.op = "wake" /\ d.q = call[r].q
  BY <1>1, <1>5, StepEffect
<1>8. Tells(d)
  BY <1>1, <1>6, <1>7 DEF Tells, q, t
<1> QED
  BY <1>8

(* A count that is not 0 counts a task. *)
LEMMA CountedWaits ==
    ASSUME Core, WaitersCounted, NEW q \in Queue, NEW l \in QueueWait,
           (IF l = "WAIT_MQNOTEMPTY" THEN k.empty[q] ELSE k.full[q]) > 0
    PROVE  Waiting(q, l) # {}
<1>1. Cardinality(Blocked(q, l)) > 0
  BY DEF WaitersCounted, QueueWait
<1>2. Blocked(q, l) # {}
  BY <1>1, FS_EmptySet
<1>3. PICK t \in Task : k.state[t] = l /\ k.waitq[t] = q
  BY <1>2 DEF Blocked
<1> QED
  BY <1>3, WaitingLemma

(* A count that the code lowers. *)
LEMMA MidEmpty ==
    ASSUME Core, NEW n \in {0, 1}, NEW m, Mid(m, None, n), NEW q \in Queue
    PROVE  LET x == [m EXCEPT !.empty[q] = @ - 1] IN
           Mid(x, None, n) /\ Same(m, x, {"empty"}) /\ x.empty = [m.empty EXCEPT ![q] = @ - 1]
<1> DEFINE x == [m EXCEPT !.empty[q] = @ - 1]
<1>1. SchedField \cup OwnField \subseteq DOMAIN m /\ Own(m)
  BY MidFields
<1>2. Alike(m, x) /\ Same(m, x, {"empty"}) /\ x.empty = [m.empty EXCEPT ![q] = @ - 1]
  BY <1>1 DEF Alike, Same, SchedField, OwnField
<1> HIDE DEF x
<1>3. Own(x)
  <2>1. x.empty \in [Queue -> Int]
    BY <1>1, <1>2 DEF Own
  <2> QED
    BY <1>1, <1>2, <2>1 DEF Own, Same, OwnField, Alike
<1>4. x.waitq = m.waitq /\ x.err = m.err
  BY <1>2 DEF Same, OwnField
<1>5. Mid(x, None, n)
  BY <1>2, <1>3, <1>4, MidUpdate
<1> QED
  BY <1>2, <1>5 DEF x

LEMMA MidFull ==
    ASSUME Core, NEW n \in {0, 1}, NEW m, Mid(m, None, n), NEW q \in Queue
    PROVE  LET x == [m EXCEPT !.full[q] = @ - 1] IN
           Mid(x, None, n) /\ Same(m, x, {"full"}) /\ x.full = [m.full EXCEPT ![q] = @ - 1]
<1> DEFINE x == [m EXCEPT !.full[q] = @ - 1]
<1>1. SchedField \cup OwnField \subseteq DOMAIN m /\ Own(m)
  BY MidFields
<1>2. Alike(m, x) /\ Same(m, x, {"full"}) /\ x.full = [m.full EXCEPT ![q] = @ - 1]
  BY <1>1 DEF Alike, Same, SchedField, OwnField
<1> HIDE DEF x
<1>3. Own(x)
  <2>1. x.full \in [Queue -> Int]
    BY <1>1, <1>2 DEF Own
  <2> QED
    BY <1>1, <1>2, <2>1 DEF Own, Same, OwnField, Alike
<1>4. x.waitq = m.waitq /\ x.err = m.err
  BY <1>2 DEF Same, OwnField
<1>5. Mid(x, None, n)
  BY <1>2, <1>3, <1>4, MidUpdate
<1> QED
  BY <1>2, <1>5 DEF x

(* mq_dosend() and the interrupt handler wake a receiver where one waits. *)
LEMMA ReceiverEffect ==
    ASSUME Core, WaitersCounted, NEW n \in {0, 1}, NEW m, Mid(m, None, n), NEW q \in Queue,
           m.empty = k.empty
    PROVE  LET x == WakeReceiver(m, q) IN
           \/ k.empty[q] <= 0 /\ x = m
           \/ \E t \in Task :
                /\ k.state[t] = "WAIT_MQNOTEMPTY" /\ k.waitq[t] = q
                /\ Mid(x, t, n) /\ Same(m, x, {"waitq", "empty"})
                /\ x.state[t] \notin QueueState /\ x.waitq[t] = None
                /\ x.empty = [k.empty EXCEPT ![q] = @ - 1]
<1> DEFINE y == [m EXCEPT !.empty[q] = @ - 1]
           l == "WAIT_MQNOTEMPTY"
           x == WakeFirst(y, q, l)
<1>1. k.empty[q] \in Int
  BY DEF Core, Own
<1>2. CASE ~ (k.empty[q] > 0)
  BY <1>1, <1>2 DEF WakeReceiver
<1>3. CASE k.empty[q] > 0
  <2>1. Waiting(q, l) # {} /\ l \in QueueWait
    BY <1>3, CountedWaits DEF QueueWait
  <2>2. Mid(y, None, n) /\ Same(m, y, {"empty"}) /\ y.empty = [m.empty EXCEPT ![q] = @ - 1]
    BY MidEmpty
  <2>3. WakeReceiver(m, q) = x
    BY <1>3 DEF WakeReceiver
  <2> HIDE DEF y, l
  <2>4. PICK t \in Task :
           /\ k.state[t] = l /\ k.waitq[t] = q
           /\ Mid(x, t, n) /\ Same(y, x, {"waitq"})
           /\ x.state[t] \notin QueueState /\ x.waitq[t] = None
    BY <2>1, <2>2, WakeEffect
  <2> HIDE DEF x
  <2>5. Same(m, x, {"waitq", "empty"}) /\ x.empty = [k.empty EXCEPT ![q] = @ - 1]
    BY <2>2, <2>4 DEF Same, OwnField
  <2> QED
    BY <2>3, <2>4, <2>5 DEF l
<1> QED
  BY <1>2, <1>3

LEMMA WakeKind ==
    ASSUME Core, WaitersCounted, DoSendWake
    PROVE  WakesNobody \/ \E t \in Task : WakesReceiver(t)
<1> DEFINE q == call[r].q
           x == WakeReceiver(k, q)
<1>1. call[r].op = "wake" /\ Return(x) /\ owed' = owed
  BY DEF DoSendWake, At
<1>2. q \in Queue
  BY <1>1, RunFacts DEF CallOK
<1>3. Mid(k, None, 1)
  BY <1>1, SelfEntry
<1> HIDE DEF q
<1>4. \/ k.empty[q] <= 0 /\ x = k
      \/ \E t \in Task :
           /\ k.state[t] = "WAIT_MQNOTEMPTY" /\ k.waitq[t] = q
           /\ Mid(x, t, 1) /\ Same(k, x, {"waitq", "empty"})
           /\ x.state[t] \notin QueueState /\ x.waitq[t] = None
           /\ x.empty = [k.empty EXCEPT ![q] = @ - 1]
  BY <1>2, <1>3, ReceiverEffect
<1> HIDE DEF x
<1>5. CASE k.empty[q] <= 0 /\ x = k
  <2>1. Acts(None, UserCall) /\ Same(k, k', {})
    BY <1>1, <1>3, <1>5, EndEffect
  <2> QED
    BY <1>1, <1>5, <2>1 DEF WakesNobody, q
<1>6. ASSUME NEW t \in Task,
             /\ k.state[t] = "WAIT_MQNOTEMPTY" /\ k.waitq[t] = q
             /\ Mid(x, t, 1) /\ Same(k, x, {"waitq", "empty"})
             /\ x.state[t] \notin QueueState /\ x.waitq[t] = None
             /\ x.empty = [k.empty EXCEPT ![q] = @ - 1]
      PROVE  WakesReceiver(t)
  <2>1. Acts(t, UserCall) /\ Same(x, k', {}) /\ Still(x, k', t)
    BY <1>1, <1>6, EndEffect
  <2>2. k'.state[t] \notin QueueState
    BY <1>6, <2>1 DEF Still
  <2>3. k'.waitq[t] = None /\ k'.empty = [k.empty EXCEPT ![q] = @ - 1] /\ Same(k, k', {"waitq", "empty"})
    BY <1>6, <2>1 DEF Same, OwnField
  <2> QED
    BY <1>1, <1>6, <2>1, <2>2, <2>3 DEF WakesReceiver, q
<1> QED
  BY <1>4, <1>5, <1>6

(* An interrupt handler sends; it wakes t, unless t is None. *)
IsrSends(q, t) ==
    /\ Acts(t, call[r]) /\ call' = call /\ call[r].op \notin {"waitsend", "waitrecv", "delete"}
    /\ \E p \in MsgPrio, i \in Nat :
         LET msg == [prio |-> p, pool |-> AllocIsrPool(k), isr |-> TRUE] IN
         /\ msg \in Msg /\ InsertPos(k.msgs[q], msg, i)
         /\ k'.msgs = [k.msgs EXCEPT ![q] = InsertAt(k.msgs[q], i, msg)]
    /\ k.nfree + k.nirq > 0
    /\ k'.nfree = IF k.nfree > 0 THEN k.nfree - 1 ELSE k.nfree
    /\ k'.nirq = IF k.nfree > 0 THEN k.nirq ELSE k.nirq - 1
    /\ k'.nt = [k.nt EXCEPT ![q] = None] /\ k.pend \subseteq k'.pend
    /\ owed' = IF k.nt[q] \in k'.pend THEN owed ELSE owed \ {k.nt[q]}
    /\ Same(k, k', {"msgs", "nt", "pend", "nfree", "nirq", "waitq", "empty"})
    /\ IF t = None THEN k.empty[q] <= 0 /\ k'.empty = k.empty
       ELSE /\ k.state[t] = "WAIT_MQNOTEMPTY" /\ k.waitq[t] = q
            /\ k'.state[t] \notin QueueState /\ k'.waitq[t] = None /\ k'.err[t] = k.err[t]
            /\ k'.empty = [k.empty EXCEPT ![q] = @ - 1]

LEMMA AllocIsrEffect ==
    ASSUME Core, NEW n \in {0, 1}, Mid(k, None, n), k.nfree + k.nirq > 0
    PROVE  LET x == AllocIsr(k) IN
           /\ Mid(x, None, n) /\ Same(k, x, {"nfree", "nirq"})
           /\ x.nfree = IF k.nfree > 0 THEN k.nfree - 1 ELSE k.nfree
           /\ x.nirq = IF k.nfree > 0 THEN k.nirq ELSE k.nirq - 1
<1> DEFINE x == AllocIsr(k)
<1>1. SchedField \cup OwnField \subseteq DOMAIN k /\ Own(k)
  BY MidFields
<1>2. /\ Alike(k, x) /\ Same(k, x, {"nfree", "nirq"})
      /\ x.nfree = IF k.nfree > 0 THEN k.nfree - 1 ELSE k.nfree
      /\ x.nirq = IF k.nfree > 0 THEN k.nirq ELSE k.nirq - 1
  <2>1. CASE k.nfree > 0
    BY <1>1, <2>1 DEF AllocIsr, Alike, Same, SchedField, OwnField
  <2>2. CASE ~ (k.nfree > 0)
    BY <1>1, <2>2 DEF AllocIsr, Alike, Same, SchedField, OwnField
  <2> QED
    BY <2>1, <2>2
<1> HIDE DEF x
<1>3. Own(x)
  <2>1. k.nfree \in Nat /\ k.nirq \in Nat
    BY <1>1 DEF Own
  <2>2. x.nfree \in Nat /\ x.nirq \in Nat
    BY <1>2, <2>1
  <2> QED
    BY <1>1, <1>2, <2>2 DEF Own, Same, OwnField, Alike
<1>4. x.waitq = k.waitq /\ x.err = k.err
  BY <1>2 DEF Same, OwnField
<1>5. Mid(x, None, n)
  BY <1>2, <1>3, <1>4, MidUpdate
<1> QED
  BY <1>2, <1>5 DEF x

LEMMA IsrSendKind ==
    ASSUME Core, WaitersCounted, "window" \notin Api, NEW q \in Queue, NEW p \in MsgPrio, IsrSend(q, p)
    PROVE  \E t \in Task \cup {None} : IsrSends(q, t)
<1> DEFINE msg == [prio |-> p, pool |-> AllocIsrPool(k), isr |-> TRUE]
           a == AllocIsr(k)
           m == Insert(a, q, msg)
           b == [m EXCEPT !.nt[q] = None]
           x == sig_mqnotempty(b, m.nt[q])
           n == Held
<1>1. /\ call[r].op \notin {"waitsend", "waitrecv", "delete"} /\ k.nfree + k.nirq > 0
      /\ k' = WakeReceiver(x, q) /\ call' = call
      /\ owed' = IF k.nt[q] \in x.pend THEN owed ELSE owed \ {k.nt[q]}
  BY DEF IsrSend, Irq
<1>2. Mid(k, None, n) /\ n \in {0, 1}
  BY MidSelf
<1>3. msg \in Msg
  BY DEF Msg, AllocIsrPool
<1> HIDE DEF n, msg
<1>4. /\ Mid(a, None, n) /\ Same(k, a, {"nfree", "nirq"})
      /\ a.nfree = IF k.nfree > 0 THEN k.nfree - 1 ELSE k.nfree
      /\ a.nirq = IF k.nfree > 0 THEN k.nirq ELSE k.nirq - 1
  BY <1>1, <1>2, AllocIsrEffect
<1> HIDE DEF a
<1>5. /\ Alike(a, m) /\ Own(m) /\ Same(a, m, {"msgs"})
      /\ \E i : /\ InsertPos(a.msgs[q], msg, i)
                /\ m.msgs = [a.msgs EXCEPT ![q] = InsertAt(a.msgs[q], i, msg)]
  <2>1. SchedField \cup OwnField \subseteq DOMAIN a /\ Own(a)
    BY <1>4, MidFields
  <2> QED
    BY <1>3, <2>1, InsertEffect
<1> HIDE DEF m
<1>6. Mid(m, None, n)
  <2>1. m.waitq = a.waitq /\ m.err = a.err
    BY <1>5 DEF Same, OwnField
  <2> QED
    BY <1>4, <1>5, <2>1, MidUpdate
<1>7. Mid(b, None, n) /\ Same(m, b, {"nt"}) /\ b.nt = [m.nt EXCEPT ![q] = None]
  BY <1>2, <1>6, MidDetach
<1> HIDE DEF b
<1>8. /\ Mid(x, None, n) /\ Same(b, x, {"pend"})
      /\ x.pend = b.pend \/ x.pend = b.pend \cup {m.nt[q]}
  <2>1. m.nt[q] \in Task \cup {None}
    BY <1>5 DEF Own
  <2> QED
    BY <1>2, <1>7, <2>1, SignalEffect
<1> HIDE DEF x
<1>9. /\ x.nfree = a.nfree /\ x.nirq = a.nirq /\ x.msgs = m.msgs /\ x.nt = [k.nt EXCEPT ![q] = None]
      /\ k.pend \subseteq x.pend /\ x.empty = k.empty /\ a.msgs = k.msgs
      /\ Same(k, x, {"msgs", "nt", "pend", "nfree", "nirq"})
  BY <1>4, <1>5, <1>7, <1>8 DEF Same, OwnField
<1>10. \E i \in Nat : /\ InsertPos(k.msgs[q], msg, i)
                     /\ x.msgs = [k.msgs EXCEPT ![q] = InsertAt(k.msgs[q], i, msg)]
  <2>1. \A i : InsertPos(k.msgs[q], msg, i) => i \in Nat
    BY DEF InsertPos
  <2> QED
    BY <1>5, <1>9, <2>1
<1>11. \/ k.empty[q] <= 0 /\ k' = x
       \/ \E t \in Task :
            /\ k.state[t] = "WAIT_MQNOTEMPTY" /\ k.waitq[t] = q
            /\ Mid(k', t, n) /\ Same(x, k', {"waitq", "empty"})
            /\ k'.state[t] \notin QueueState /\ k'.waitq[t] = None
            /\ k'.empty = [k.empty EXCEPT ![q] = @ - 1]
  BY <1>1, <1>2, <1>8, <1>9, ReceiverEffect
<1>12. ASSUME Same(x, k', {"waitq", "empty"})
       PROVE  /\ \E i \in Nat :
                    /\ InsertPos(k.msgs[q], msg, i)
                    /\ k'.msgs = [k.msgs EXCEPT ![q] = InsertAt(k.msgs[q], i, msg)]
              /\ k'.nfree = IF k.nfree > 0 THEN k.nfree - 1 ELSE k.nfree
              /\ k'.nirq = IF k.nfree > 0 THEN k.nirq ELSE k.nirq - 1
              /\ k'.nt = [k.nt EXCEPT ![q] = None] /\ k.pend \subseteq k'.pend
              /\ owed' = IF k.nt[q] \in k'.pend THEN owed ELSE owed \ {k.nt[q]}
              /\ Same(k, k', {"msgs", "nt", "pend", "nfree", "nirq", "waitq", "empty"})
              /\ k'.err = k.err
  <2>1. /\ k'.msgs = x.msgs /\ k'.nfree = x.nfree /\ k'.nirq = x.nirq /\ k'.nt = x.nt
        /\ k'.pend = x.pend /\ k'.err = x.err /\ x.err = k.err
    BY <1>9, <1>12 DEF Same, OwnField
  <2>2. Same(k, k', {"msgs", "nt", "pend", "nfree", "nirq", "waitq", "empty"})
    BY <1>9, <1>12 DEF Same
  <2> QED
    BY <1>1, <1>4, <1>9, <1>10, <2>1, <2>2
<1>13. CASE k.empty[q] <= 0 /\ k' = x
  <2>1. Acts(None, call[r])
    BY <1>1, <1>8, <1>13, HeldEffect DEF n
  <2>2. Same(x, k', {"waitq", "empty"})
    BY <1>13 DEF Same
  <2>3. k'.empty = k.empty
    BY <1>9, <1>13
  <2>4. \E y \in MsgPrio, i \in Nat :
           LET z == [prio |-> y, pool |-> AllocIsrPool(k), isr |-> TRUE] IN
           /\ z \in Msg /\ InsertPos(k.msgs[q], z, i)
           /\ k'.msgs = [k.msgs EXCEPT ![q] = InsertAt(k.msgs[q], i, z)]
    BY <1>3, <1>12, <2>2 DEF msg
  <2>5. IsrSends(q, None)
    BY <1>1, <1>12, <1>13, <2>1, <2>2, <2>3, <2>4 DEF IsrSends
  <2> QED
    BY <2>5
<1>14. ASSUME NEW t \in Task,
              /\ k.state[t] = "WAIT_MQNOTEMPTY" /\ k.waitq[t] = q
              /\ Mid(k', t, n) /\ Same(x, k', {"waitq", "empty"})
              /\ k'.state[t] \notin QueueState /\ k'.waitq[t] = None
              /\ k'.empty = [k.empty EXCEPT ![q] = @ - 1]
       PROVE  IsrSends(q, t)
  <2>1. Acts(t, call[r])
    BY <1>1, <1>14, HeldEffect DEF n
  <2>2. t # None
    BY MQAssumption
  <2>3. k'.err[t] = k.err[t]
    BY <1>12, <1>14
  <2>4. \E y \in MsgPrio, i \in Nat :
           LET z == [prio |-> y, pool |-> AllocIsrPool(k), isr |-> TRUE] IN
           /\ z \in Msg /\ InsertPos(k.msgs[q], z, i)
           /\ k'.msgs = [k.msgs EXCEPT ![q] = InsertAt(k.msgs[q], i, z)]
    BY <1>3, <1>12, <1>14 DEF msg
  <2> QED
    BY <1>1, <1>12, <1>14, <2>1, <2>2, <2>3, <2>4 DEF IsrSends
<1> QED
  BY <1>11, <1>13, <1>14

(* A receiver frees the message, and goes on if a sender waits ... *)
Frees(c) ==
    /\ Acts(None, c) /\ call[r].op = "doreceive"
    /\ IF k.full[call[r].q] > 0 THEN c.op = "wakesend" /\ c.q = call[r].q ELSE c = UserCall
    /\ k'.nfree = IF call[r].msg.pool = "FIXED" THEN k.nfree + 1 ELSE k.nfree
    /\ k'.nirq = IF call[r].msg.pool = "IRQ" THEN k.nirq + 1 ELSE k.nirq
    /\ Same(k, k', {"nfree", "nirq"}) /\ owed' = owed

(* ... which it wakes, if it still waits. *)
WakesSender(t) ==
    /\ Acts(t, UserCall) /\ call[r].op = "wakesend" /\ t \in Task
    /\ k.state[t] = "WAIT_MQNOTFULL" /\ k.waitq[t] = call[r].q
    /\ k'.state[t] \notin QueueState /\ k'.waitq[t] = None
    /\ k'.full = [k.full EXCEPT ![call[r].q] = @ - 1] /\ Same(k, k', {"waitq", "full"})
    /\ owed' = owed

WakesNoSender ==
    /\ Acts(None, UserCall) /\ call[r].op = "wakesend"
    /\ \A t \in Task : ~ (k.state[t] = "WAIT_MQNOTFULL" /\ k.waitq[t] = call[r].q)
    /\ Same(k, k', {"panic"}) /\ owed' = owed

LEMMA FreeKind ==
    ASSUME Core, DoReceive
    PROVE  \E c : Frees(c)
<1> DEFINE msg == call[r].msg
           m == mq_msgfree(k, msg)
<1>1. call[r].op = "doreceive" /\ owed' = owed
      /\ IF k.full[call[r].q] > 0 THEN k' = m /\ Step("wakesend") ELSE Return(m)
  BY DEF DoReceive, At
<1>2. msg \in Msg /\ msg.pool \in {"FIXED", "IRQ", "DYN"}
  BY <1>1, RunFacts DEF CallOK, Msg
<1>3. Mid(k, None, 1)
  BY <1>1, SelfEntry
<1>4. SchedField \cup OwnField \subseteq DOMAIN k /\ Own(k)
  BY <1>3, MidFields
<1> HIDE DEF msg
<1>5. /\ Alike(k, m) /\ Same(k, m, {"nfree", "nirq"})
      /\ m.nfree = IF msg.pool = "FIXED" THEN k.nfree + 1 ELSE k.nfree
      /\ m.nirq = IF msg.pool = "IRQ" THEN k.nirq + 1 ELSE k.nirq
  <2>1. CASE msg.pool = "FIXED"
    <3>1. m = [k EXCEPT !.nfree = @ + 1]
      BY <2>1 DEF mq_msgfree
    <3> QED
      BY <1>4, <2>1, <3>1 DEF Alike, Same, SchedField, OwnField
  <2>2. CASE msg.pool = "IRQ"
    <3>1. m = [k EXCEPT !.nirq = @ + 1]
      BY <2>2 DEF mq_msgfree
    <3> QED
      BY <1>4, <2>2, <3>1 DEF Alike, Same, SchedField, OwnField
  <2>3. CASE msg.pool = "DYN"
    <3>1. m = k
      BY <2>3 DEF mq_msgfree
    <3> QED
      BY <2>3, <3>1 DEF Alike, Same
  <2> QED
    BY <1>2, <2>1, <2>2, <2>3
<1> HIDE DEF m
<1>6. Mid(m, None, 1)
  <2>1. k.nfree \in Nat /\ k.nirq \in Nat
    BY <1>4 DEF Own
  <2>2. m.nfree \in Nat /\ m.nirq \in Nat
    BY <1>5, <2>1
  <2>3. Own(m)
    BY <1>4, <1>5, <2>2 DEF Own, Same, OwnField, Alike
  <2>4. m.waitq = k.waitq /\ m.err = k.err
    BY <1>5 DEF Same, OwnField
  <2> QED
    BY <1>3, <1>5, <2>3, <2>4, MidUpdate
<1>7. CASE k.full[call[r].q] > 0
  <2>1. k' = m /\ Step("wakesend")
    BY <1>1, <1>7
  <2>2. PICK d : Acts(None, d) /\ d.op = "wakesend" /\ d.q = call[r].q
    BY <1>1, <1>6, <2>1, StepEffect
  <2>3. Frees(d)
    BY <1>1, <1>5, <1>7, <2>1, <2>2 DEF Frees, msg
  <2> QED
    BY <2>3
<1>8. CASE ~ (k.full[call[r].q] > 0)
  <2>1. Acts(None, UserCall) /\ Same(m, k', {})
    BY <1>1, <1>6, <1>8, EndEffect
  <2>2. k'.nfree = m.nfree /\ k'.nirq = m.nirq /\ Same(k, k', {"nfree", "nirq"})
    BY <1>5, <2>1 DEF Same, OwnField
  <2>3. Frees(UserCall)
    BY <1>1, <1>5, <1>8, <2>1, <2>2 DEF Frees, msg
  <2> QED
    BY <2>3
<1> QED
  BY <1>7, <1>8

LEMMA WakeSendKind ==
    ASSUME Core, DoReceiveWake
    PROVE  WakesNoSender \/ \E t \in Task : WakesSender(t)
<1> DEFINE q == call[r].q
           y == [k EXCEPT !.full[q] = @ - 1]
           l == "WAIT_MQNOTFULL"
           x == WakeFirst(y, q, l)
<1>1. call[r].op = "wakesend" /\ Return(x) /\ owed' = owed
  BY DEF DoReceiveWake, At
<1>2. q \in Queue /\ l \in QueueWait
  BY <1>1, RunFacts DEF CallOK, QueueWait
<1>3. Mid(k, None, 1)
  BY <1>1, SelfEntry
<1> HIDE DEF q
<1>4. CASE Waiting(q, l) = {}
  <2>1. x = [k EXCEPT !.panic = l]
    BY <1>4 DEF WakeFirst
  <2>2. SchedField \cup OwnField \subseteq DOMAIN k /\ Own(k)
    BY <1>3, MidFields
  <2>3. Alike(k, x) /\ Same(k, x, {"panic"})
    BY <2>1, <2>2 DEF Alike, Same, SchedField, OwnField
  <2>4. \A t \in Task : ~ (k.state[t] = l /\ k.waitq[t] = q)
    BY <1>2, <1>4, WaitingLemma
  <2> HIDE DEF x
  <2>5. Mid(x, None, 1)
    <3>1. Own(x)
      BY <2>2, <2>3 DEF Own, Same, OwnField, Alike
    <3>2. x.waitq = k.waitq /\ x.err = k.err
      BY <2>3 DEF Same, OwnField
    <3> QED
      BY <1>3, <2>3, <3>1, <3>2, MidUpdate
  <2>6. Acts(None, UserCall) /\ Same(x, k', {})
    BY <1>1, <2>5, EndEffect
  <2>7. Same(k, k', {"panic"})
    BY <2>3, <2>6 DEF Same
  <2>8. WakesNoSender
    BY <1>1, <2>4, <2>6, <2>7 DEF WakesNoSender, q
  <2> QED
    BY <2>8
<1>5. CASE Waiting(q, l) # {}
  <2>1. Mid(y, None, 1) /\ Same(k, y, {"full"}) /\ y.full = [k.full EXCEPT ![q] = @ - 1]
    BY <1>2, <1>3, MidFull
  <2> HIDE DEF y, l
  <2>2. PICK t \in Task :
           /\ k.state[t] = l /\ k.waitq[t] = q
           /\ Mid(x, t, 1) /\ Same(y, x, {"waitq"})
           /\ x.state[t] \notin QueueState /\ x.waitq[t] = None
    BY <1>2, <1>5, <2>1, WakeEffect
  <2> HIDE DEF x
  <2>3. Acts(t, UserCall) /\ Same(x, k', {}) /\ Still(x, k', t)
    BY <1>1, <2>2, EndEffect
  <2>4. k'.state[t] \notin QueueState
    BY <2>2, <2>3 DEF Still
  <2>5. k'.waitq[t] = None /\ k'.full = [k.full EXCEPT ![q] = @ - 1] /\ Same(k, k', {"waitq", "full"})
    BY <2>1, <2>2, <2>3 DEF Same, OwnField
  <2>6. WakesSender(t)
    BY <1>1, <2>2, <2>3, <2>4, <2>5 DEF WakesSender, q, l
  <2> QED
    BY <2>6
<1> QED
  BY <1>4, <1>5

(* The wait of t ends with an error ... *)
EndsWait(t) ==
    /\ Acts(t, call[r]) /\ call' = call /\ call[r].op \notin {"waitsend", "waitrecv", "delete"}
    /\ k.state[t] \in QueueWait /\ k.waitq[t] \in Queue
    /\ k'.state[t] \notin QueueState /\ k'.waitq[t] = None /\ k'.err[t] # "OK"
    /\ k'.empty = IF k.state[t] = "WAIT_MQNOTEMPTY" THEN [k.empty EXCEPT ![k.waitq[t]] = @ - 1] ELSE k.empty
    /\ k'.full = IF k.state[t] = "WAIT_MQNOTFULL" THEN [k.full EXCEPT ![k.waitq[t]] = @ - 1] ELSE k.full
    /\ Same(k, k', {"waitq", "err", "empty", "full"}) /\ owed' = owed

(* ... or nothing happens to the queues. *)
Quiet ==
    /\ Acts(None, call[r]) /\ call' = call /\ call[r].op # "delete"
    /\ Same(k, k', {}) /\ owed' = owed

LEMMA TimeoutKind ==
    ASSUME Core, "window" \notin Api, NEW t \in Task, Timeout(t)
    PROVE  Quiet \/ EndsWait(t)
<1>1. /\ call[r].op \notin {"waitsend", "waitrecv", "delete"} /\ call' = call /\ owed' = owed
      /\ k' = mq_waitirq(k, t, "ETIMEDOUT")
  BY DEF Timeout, Irq
<1> DEFINE n == Held
<1>2. Mid(k, None, n) /\ n \in {0, 1} /\ Same(k, k, {})
  BY MidSelf
<1> HIDE DEF n
<1>3. CASE k.state[t] \notin QueueWait
  <2>1. k' = k
    BY <1>1, <1>3, WaitirqNothing
  <2>2. Acts(None, call[r])
    BY <1>1, <1>2, <2>1, HeldEffect DEF n
  <2> QED
    BY <1>1, <1>2, <2>1, <2>2 DEF Quiet
<1>4. CASE k.state[t] \in QueueWait
  <2> DEFINE e == "ETIMEDOUT"
             q == k.waitq[t]
  <2>1. /\ q \in Queue /\ Mid(k', t, n) /\ Same(k, k', {"waitq", "err", "empty", "full"})
        /\ k'.state[t] \notin QueueState /\ k'.waitq[t] = None /\ k'.err[t] = e
        /\ k'.empty = IF k.state[t] = "WAIT_MQNOTEMPTY" THEN [k.empty EXCEPT ![q] = @ - 1] ELSE k.empty
        /\ k'.full = IF k.state[t] = "WAIT_MQNOTFULL" THEN [k.full EXCEPT ![q] = @ - 1] ELSE k.full
    BY <1>1, <1>2, <1>4, WaitirqEffect
  <2>2. Acts(t, call[r])
    BY <1>1, <2>1, HeldEffect DEF n
  <2> QED
    BY <1>1, <1>4, <2>1, <2>2 DEF EndsWait
<1> QED
  BY <1>3, <1>4

LEMMA KillKind ==
    ASSUME Core, NEW t \in Task, kill(t)
    PROVE  Quiet \/ EndsWait(t)
<1> DEFINE m == Locked(k)
           e == "EINTR"
           x == mq_waitirq(m, t, e)
           q == k.waitq[t]
<1>1. call[r].op = "user" /\ call' = call /\ owed' = owed /\ k' = Unlocked(x)
  BY DEF kill, At
<1>2. Entry(m)
  BY <1>1, EntryLemma
<1>3. Mid(m, None, 1) /\ Same(k, m, {}) /\ m.state = k.state
  BY <1>2, MidEntry DEF Entry
<1>4. CallOK(call[r]) /\ call' = [call EXCEPT ![r] = call[r]]
  BY <1>1, RunFacts
<1> HIDE DEF m
<1>5. CASE k.state[t] \notin QueueWait
  <2>1. x = m
    BY <1>3, <1>5, WaitirqNothing
  <2>2. Acts(None, call[r]) /\ Same(m, k', {})
    BY <1>1, <1>3, <1>4, <2>1, UnlockEffect
  <2>3. Same(k, k', {})
    BY <1>3, <2>2 DEF Same
  <2> QED
    BY <1>1, <2>2, <2>3 DEF Quiet
<1>6. CASE k.state[t] \in QueueWait
  <2>1. /\ q \in Queue /\ Mid(x, t, 1) /\ Same(m, x, {"waitq", "err", "empty", "full"})
        /\ x.state[t] \notin QueueState /\ x.waitq[t] = None /\ x.err[t] = e
        /\ x.empty = IF k.state[t] = "WAIT_MQNOTEMPTY" THEN [k.empty EXCEPT ![q] = @ - 1] ELSE k.empty
        /\ x.full = IF k.state[t] = "WAIT_MQNOTFULL" THEN [k.full EXCEPT ![q] = @ - 1] ELSE k.full
    BY <1>3, <1>6, WaitirqEffect
  <2> HIDE DEF x
  <2>2. Acts(t, call[r]) /\ Same(x, k', {}) /\ Still(x, k', t)
    BY <1>1, <1>4, <2>1, UnlockEffect
  <2>3. /\ k'.waitq = x.waitq /\ k'.err = x.err /\ k'.empty = x.empty /\ k'.full = x.full
        /\ Same(k, k', {"waitq", "err", "empty", "full"})
    BY <1>3, <2>1, <2>2 DEF Same, OwnField
  <2>4. k'.state[t] \notin QueueState
    BY <2>1, <2>2 DEF Still
  <2> QED
    BY <1>1, <1>6, <2>1, <2>2, <2>3, <2>4 DEF EndsWait
<1> QED
  BY <1>5, <1>6

(* r registers with q, or takes its registration back. *)
Registers(q, on) ==
    /\ Acts(None, call[r]) /\ call' = call /\ call[r].op = "user"
    /\ k.nt[q] = IF on THEN None ELSE r
    /\ k'.nt = [k.nt EXCEPT ![q] = IF on THEN r ELSE None] /\ Same(k, k', {"nt"})
    /\ owed' = IF on THEN owed \cup {r} ELSE owed \ {r}

(* r finds its signal pending. *)
FindsSignal ==
    /\ Acts(None, call[r]) /\ call' = call /\ call[r].op = "user"
    /\ k'.pend = k.pend \ {r} /\ Same(k, k', {"pend"}) /\ owed' = owed \ {r}

LEMMA RegisterKind ==
    ASSUME Core, NEW q \in Queue, NEW on \in BOOLEAN, mq_notify(q, on)
    PROVE  Registers(q, on)
<1> DEFINE v == IF on THEN r ELSE None
           n == Held
<1>1. /\ call[r].op = "user" /\ call' = call /\ k' = [k EXCEPT !.nt[q] = v]
      /\ k.nt[q] = IF on THEN None ELSE r
      /\ owed' = IF on THEN owed \cup {r} ELSE owed \ {r}
  BY DEF mq_notify, At
<1>2. Mid(k, None, n) /\ n \in {0, 1}
  BY MidSelf
<1>3. SchedField \cup OwnField \subseteq DOMAIN k /\ Own(k)
  BY <1>2, MidFields
<1>4. v \in Task \cup {None}
  BY RunFacts
<1> HIDE DEF n, v
<1>5. Alike(k, k') /\ Same(k, k', {"nt"}) /\ k'.nt = [k.nt EXCEPT ![q] = v]
  BY <1>1, <1>3 DEF Alike, Same, SchedField, OwnField
<1>6. Own(k')
  <2>1. k'.nt \in [Queue -> Task \cup {None}]
    BY <1>3, <1>4, <1>5 DEF Own
  <2> QED
    BY <1>3, <1>5, <2>1 DEF Own, Same, OwnField, Alike
<1>7. Mid(k', None, n)
  <2>1. k'.waitq = k.waitq /\ k'.err = k.err
    BY <1>5 DEF Same, OwnField
  <2> QED
    BY <1>2, <1>5, <1>6, <2>1, MidUpdate
<1>8. Acts(None, call[r])
  BY <1>1, <1>7, HeldEffect DEF n
<1> QED
  BY <1>1, <1>5, <1>8 DEF Registers, v

LEMMA SleepKind ==
    ASSUME Core, Sleep
    PROVE  Quiet \/ FindsSignal
<1> DEFINE n == Held
<1>1. /\ call[r].op = "user" /\ r # Idle /\ call' = call
      /\ k' = IF r \in k.pend THEN [k EXCEPT !.pend = @ \ {r}] ELSE up_block_task(k, r, "WAIT_SIG")
      /\ owed' = IF r \in k.pend THEN owed \ {r} ELSE owed
  BY DEF Sleep, At
<1>2. Mid(k, None, n) /\ n \in {0, 1} /\ (n > 0 => FALSE)
  BY <1>1, MidSelf DEF Held
<1>3. SchedField \cup OwnField \subseteq DOMAIN k /\ Own(k)
  BY <1>2, MidFields
<1> HIDE DEF n
<1>4. CASE r \in k.pend
  <2>1. Alike(k, k') /\ Same(k, k', {"pend"}) /\ k'.pend = k.pend \ {r}
    BY <1>1, <1>3, <1>4 DEF Alike, Same, SchedField, OwnField
  <2>2. Own(k')
    <3>1. k'.pend \subseteq Task
      BY <1>3, <2>1 DEF Own
    <3> QED
      BY <1>3, <2>1, <3>1 DEF Own, Same, OwnField, Alike
  <2>3. Mid(k', None, n)
    <3>1. k'.waitq = k.waitq /\ k'.err = k.err
      BY <2>1 DEF Same, OwnField
    <3> QED
      BY <1>2, <2>1, <2>2, <3>1, MidUpdate
  <2>4. Acts(None, call[r])
    BY <1>1, <2>3, HeldEffect DEF n
  <2> QED
    BY <1>1, <1>4, <2>1, <2>4 DEF FindsSignal
<1>5. CASE r \notin k.pend
  <2>1. Blocks(k, k', r, "WAIT_SIG")
    <3>1. Good(k) /\ Running(k) # Idle /\ "WAIT_SIG" \in BlockedState
      BY <1>1 DEF Core, r, BlockedState
    <3>2. Blocks(k, up_block_task(k, Running(k), "WAIT_SIG"), Running(k), "WAIT_SIG")
      BY <3>1, BlocksLemma
    <3> QED
      BY <1>1, <1>5, <3>2 DEF r
  <2>2. Own(k') /\ \A f \in OwnField : k'[f] = k[f]
    BY <1>3, <2>1, FrameOwn DEF Blocks
  <2>3. \A u \in Task : Still(k, k', u)
    <3>1. \A u \in Task \ {r} : Still(k, k', u)
      BY <2>1, StillShuffled DEF Blocks
    <3>2. k.state[r] = "RUNNING" /\ k'.state[r] = "WAIT_SIG"
      BY <2>1, RunFacts DEF Blocks
    <3>3. Still(k, k', r)
      BY <3>2 DEF Still, QueueState
    <3> QED
      BY <3>1, <3>3
  <2>4. k'.waitq = k.waitq /\ k'.err = k.err
    BY <2>2 DEF OwnField
  <2>5. Mid(k', None, n)
    BY <1>2, <2>1, <2>2, <2>3, <2>4 DEF Mid, Blocks
  <2>6. Acts(None, call[r])
    BY <1>1, <2>5, HeldEffect DEF n
  <2>7. owed' = owed
    BY <1>1, <1>5
  <2> QED
    BY <1>1, <2>2, <2>6, <2>7 DEF Quiet, Same
<1> QED
  BY <1>4, <1>5

LEMMA WakeUpKind ==
    ASSUME Core, "window" \notin Api, NEW t \in Task, Wake(t)
    PROVE  Quiet
<1> DEFINE n == Held
<1>1. /\ call[r].op # "delete" /\ call' = call /\ owed' = owed
      /\ k.state[t] = "WAIT_SIG" /\ k' = up_unblock_task(k, t)
  BY DEF Wake, Irq
<1>2. Mid(k, None, n) /\ n \in {0, 1}
  BY MidSelf
<1> HIDE DEF n
<1>3. Mid(k', None, n) /\ Same(k, k', {})
  <2>1. k.state[t] \in BlockedState
    BY <1>1 DEF BlockedState
  <2> QED
    BY <1>1, <1>2, <2>1, MidUnblock
<1>4. Acts(None, call[r])
  BY <1>1, <1>3, HeldEffect DEF n
<1> QED
  BY <1>1, <1>3, <1>4 DEF Quiet

(* task_terminate() takes t off the counts ... *)
Deletes(c, t) ==
    /\ Acts(None, c) /\ call[r].op = "user" /\ c.op = "delete" /\ c.tcb = t /\ r # Idle
    /\ t \in Task \ {r, Idle} /\ k.state[t] # "INVALID" /\ k'.state = k.state
    /\ call[t].op = "user" \/ k.waitq[t] # None
    /\ k'.empty = IF k.state[t] = "WAIT_MQNOTEMPTY" THEN [k.empty EXCEPT ![k.waitq[t]] = @ - 1] ELSE k.empty
    /\ k'.full = IF k.state[t] = "WAIT_MQNOTFULL" THEN [k.full EXCEPT ![k.waitq[t]] = @ - 1] ELSE k.full
    /\ Same(k, k', {"empty", "full"}) /\ owed' = owed

(* ... and unlinks it. *)
Buries(t) ==
    /\ Acts(t, UserCall) /\ call[r].op = "delete" /\ t = call[r].tcb /\ t \in Task
    /\ k'.state[t] = "INVALID" /\ k'.waitq[t] = None
    /\ k'.nt = [q \in Queue |-> IF k.nt[q] = t THEN None ELSE k.nt[q]]
    /\ k'.pend = k.pend \ {t} /\ Same(k, k', {"nt", "pend", "waitq"})
    /\ owed' = owed \ {t}

LEMMA DeleteKind ==
    ASSUME Core, NEW t \in Task, Delete(t)
    PROVE  \E c : Deletes(c, t)
<1> DEFINE m == Locked(k)
           d == [UserCall EXCEPT !.op = "delete", !.tcb = t]
           q == k.waitq[t]
<1>1. /\ call[r].op = "user" /\ r # Idle /\ owed' = owed
      /\ t \in Task \ {r, Idle} /\ k.state[t] # "INVALID" /\ (call[t].op = "user" \/ k.waitq[t] # None)
      /\ k' = mq_recover(m, t) /\ call' = [call EXCEPT ![r] = d]
  BY MQAssumption DEF Delete, At, Goto
<1>2. Entry(m)
  BY <1>1, EntryLemma
<1>3. Mid(m, None, 1) /\ Same(k, m, {}) /\ m.state = k.state
  BY <1>2, MidEntry DEF Entry
<1>4. /\ SchedField \cup OwnField \subseteq DOMAIN m /\ Own(m)
  BY <1>3, MidFields
<1> HIDE DEF m
<1>5. m.waitq = k.waitq /\ m.empty = k.empty /\ m.full = k.full
  BY <1>3 DEF Same, OwnField
<1>6. k.state[t] \in QueueWait => q \in Queue
  BY DEF Core, WaitOK, QueueWait
<1> HIDE DEF q
<1>7. /\ Alike(m, k') /\ Same(m, k', {"empty", "full"})
      /\ k'.empty = IF k.state[t] = "WAIT_MQNOTEMPTY" THEN [m.empty EXCEPT ![q] = @ - 1] ELSE m.empty
      /\ k'.full = IF k.state[t] = "WAIT_MQNOTFULL" THEN [m.full EXCEPT ![q] = @ - 1] ELSE m.full
  <2>1. CASE k.state[t] = "WAIT_MQNOTEMPTY"
    <3>1. k' = [m EXCEPT !.empty[q] = @ - 1]
      BY <1>1, <1>3, <1>5, <2>1 DEF mq_recover, q
    <3> QED
      BY <1>4, <2>1, <3>1 DEF Alike, Same, SchedField, OwnField
  <2>2. CASE k.state[t] = "WAIT_MQNOTFULL"
    <3>1. k' = [m EXCEPT !.full[q] = @ - 1]
      BY <1>1, <1>3, <1>5, <2>2 DEF mq_recover, q
    <3> QED
      BY <1>4, <2>2, <3>1 DEF Alike, Same, SchedField, OwnField
  <2>3. CASE k.state[t] \notin QueueWait
    <3>1. k' = m
      BY <1>1, <1>3, <2>3 DEF mq_recover, QueueWait
    <3> QED
      BY <2>3, <3>1 DEF Alike, Same, QueueWait
  <2> QED
    BY <2>1, <2>2, <2>3 DEF QueueWait
<1>8. Own(k')
  <2>1. k'.empty \in [Queue -> Int] /\ k'.full \in [Queue -> Int]
    BY <1>4, <1>6, <1>7 DEF Own, QueueWait
  <2> QED
    BY <1>4, <1>7, <2>1 DEF Own, Same, OwnField, Alike
<1>9. Mid(k', None, 1)
  <2>1. k'.waitq = m.waitq /\ k'.err = m.err
    BY <1>7 DEF Same, OwnField
  <2> QED
    BY <1>3, <1>7, <1>8, <2>1, MidUpdate
<1>10. d \in Call /\ d.op = "delete" /\ d.tcb = t
  BY DEF UserCall, Call, Op
<1> HIDE DEF d
<1>11. CallOK(d)
  BY <1>10 DEF CallOK
<1>12. Acts(None, d)
  BY <1>1, <1>9, <1>10, <1>11, StayEffect
<1>13. Same(k, k', {"empty", "full"}) /\ k'.state = k.state
  BY <1>3, <1>7 DEF Same, Alike
<1>14. Deletes(d, t)
  BY <1>1, <1>5, <1>7, <1>10, <1>12, <1>13 DEF Deletes, q
<1> QED
  BY <1>14

LEMMA UnlinkKind ==
    ASSUME Core, DeleteUnlink
    PROVE  \E t \in Task : Buries(t)
<1> DEFINE t == call[r].tcb
           nt == [q \in Queue |-> IF k.nt[q] = t THEN None ELSE k.nt[q]]
           m == [k EXCEPT !.nt = nt, !.pend = @ \ {t}, !.waitq[t] = None]
           x == [dq_rem(m, t, ListOf(m.state[t])) EXCEPT !.state[t] = "INVALID"]
<1>1. call[r].op = "delete" /\ owed' = owed \ {t}
  BY DEF DeleteUnlink, At
<1>2. t \in Task \ {Idle, r} /\ k.state[t] # "INVALID"
  <2>1. DeleteOK(k, call, r, call[r])
    BY RunFacts DEF Core
  <2> QED
    BY <1>1, <2>1 DEF DeleteOK
<1>3. Mid(k, None, 1)
  BY <1>1, SelfEntry
<1>4. SchedField \cup OwnField \subseteq DOMAIN k /\ Own(k)
  BY <1>3, MidFields
<1>5. nt \in [Queue -> Task \cup {None}]
  BY <1>4 DEF Own
<1>6. m.state = k.state
  BY <1>4 DEF SchedField
<1>7. Return(x)
  <2>1. Return([dq_rem(m, t, ListOf(k.state[t])) EXCEPT !.state[t] = "INVALID"])
    BY DEF DeleteUnlink
  <2> QED
    BY <1>6, <2>1
<1>8. /\ Alike(k, m) /\ Same(k, m, {"nt", "pend", "waitq"})
      /\ m.nt = nt /\ m.pend = k.pend \ {t} /\ m.waitq = [k.waitq EXCEPT ![t] = None]
  <2> HIDE DEF nt, t
  <2> QED
    BY <1>4 DEF Alike, Same, SchedField, OwnField
<1>9. nt = [q \in Queue |-> IF k.nt[q] = t THEN None ELSE k.nt[q]]
  OBVIOUS
<1> HIDE DEF m, nt, t
<1>10. Own(m)
  <2>1. m.waitq \in [Task -> Queue \cup {None}] /\ m.pend \subseteq Task
    BY <1>2, <1>4, <1>8 DEF Own
  <2> QED
    BY <1>4, <1>5, <1>8, <2>1 DEF Own, Same, OwnField, Alike
<1>11. Mid(m, t, 1)
  <2>1. Mid(k, t, 1)
    BY <1>3, MQAssumption DEF Mid
  <2>2. \A u \in Task \ {t} : m.waitq[u] = k.waitq[u] /\ m.err[u] = k.err[u]
    BY <1>4, <1>8 DEF Same, OwnField, Own
  <2> QED
    BY <1>8, <1>10, <2>1, <2>2, MidUpdate
<1>12. Ends(m, x, t)
  <2>1. m.state[t] \notin {"INVALID", "RUNNING"}
    BY <1>2, <1>6, RunFacts
  <2> QED
    BY <1>2, <1>11, <2>1, EndsLemma DEF Mid
<1> HIDE DEF x
<1>13. Own(x) /\ \A f \in OwnField : x[f] = m[f]
  BY <1>10, <1>12, FrameOwn DEF Ends
<1>14. Mid(x, t, 1) /\ x.state[t] = "INVALID"
  <2>1. x.waitq = m.waitq /\ x.err = m.err
    BY <1>13 DEF OwnField
  <2>2. m.state \in [Task -> TState]
    BY <1>11, MidFields
  <2>3. x.state[t] = "INVALID" /\ \A u \in Task \ {t} : x.state[u] = m.state[u]
    BY <1>2, <1>12, <2>2 DEF Ends
  <2>4. \A u \in Task \ {t} : Still(k, x, u)
    BY <1>11, <2>3 DEF Mid, Still
  <2> QED
    BY <1>11, <1>12, <1>13, <2>1, <2>3, <2>4 DEF Mid, Ends
<1>15. Acts(t, UserCall) /\ Same(x, k', {}) /\ Still(x, k', t)
  BY <1>2, <1>7, <1>14, EndEffect
<1>16. k'.state[t] = "INVALID"
  BY <1>14, <1>15 DEF Still, QueueState
<1>17. k'.nt = nt /\ k'.pend = k.pend \ {t} /\ k'.waitq = m.waitq
       /\ Same(k, k', {"nt", "pend", "waitq"})
  BY <1>8, <1>13, <1>15 DEF Same, OwnField
<1>18. k'.waitq[t] = None
  BY <1>2, <1>4, <1>8, <1>17 DEF Own
<1>19. Buries(t)
  BY <1>1, <1>2, <1>9, <1>15, <1>16, <1>17, <1>18 DEF Buries, t
<1> QED
  BY <1>2, <1>19

-----------------------------------------------------------------------------
Kind ==
    \/ \E c : \/ Prepares(c) \/ WaitsRoom(c) \/ Takes(c) \/ WaitsMessage(c)
              \/ Inserts(c) \/ LooksUp(c) \/ Tells(c) \/ Frees(c)
              \/ \E t \in Task : Deletes(c, t)
    \/ GivesUp \/ WakesNobody \/ WakesNoSender \/ Quiet \/ FindsSignal
    \/ \E t \in Task : WakesReceiver(t) \/ WakesSender(t) \/ EndsWait(t) \/ Buries(t)
    \/ \E q \in Queue : \/ \E t \in Task \cup {None} : IsrSends(q, t)
                        \/ \E on \in BOOLEAN : Registers(q, on)

LEMMA NextKind ==
    ASSUME Core, WaitersCounted, "window" \notin Api, Next
    PROVE  Kind
<1>1. ASSUME NEW q \in Queue, NEW p \in MsgPrio, mq_send(q, p) PROVE Kind
  BY <1>1, SendKind DEF Kind
<1>2. CASE mq_waitsend
  BY <1>2, WaitSendKind DEF Kind
<1>3. CASE DoSend
  BY <1>3, InsertKind DEF Kind
<1>4. CASE DoSendNotify
  BY <1>4, LookUpKind DEF Kind
<1>5. CASE DoSendDetach
  BY <1>5, TellKind DEF Kind
<1>6. CASE DoSendWake
  BY <1>6, WakeKind DEF Kind
<1>7. CASE mq_waitreceive
  BY <1>7, WaitReceiveKind DEF Kind
<1>8. CASE DoReceive
  BY <1>8, FreeKind DEF Kind
<1>9. CASE DoReceiveWake
  BY <1>9, WakeSendKind DEF Kind
<1>10. CASE Sleep
  BY <1>10, SleepKind DEF Kind
<1>11. CASE DeleteUnlink
  BY <1>11, UnlinkKind DEF Kind
<1>12. ASSUME NEW q \in Queue, mq_receive(q) PROVE Kind
  BY <1>12, ReceiveKind DEF Kind
<1>13. ASSUME NEW q \in Queue, NEW p \in MsgPrio, IsrSend(q, p) PROVE Kind
  BY <1>13, IsrSendKind DEF Kind
<1>14. ASSUME NEW q \in Queue, NEW on \in BOOLEAN, mq_notify(q, on) PROVE Kind
  BY <1>14, RegisterKind DEF Kind
<1>15. ASSUME NEW t \in Task, Timeout(t) PROVE Kind
  BY <1>15, TimeoutKind DEF Kind
<1>16. ASSUME NEW t \in Task, kill(t) PROVE Kind
  BY <1>16, KillKind DEF Kind
<1>17. ASSUME NEW t \in Task, Wake(t) PROVE Kind
  BY <1>17, WakeUpKind DEF Kind
<1>18. ASSUME NEW t \in Task, Delete(t) PROVE Kind
  BY <1>18, DeleteKind DEF Kind
<1> QED
  BY <1>1, <1>2, <1>3, <1>4, <1>5, <1>6, <1>7, <1>8, <1>9, <1>10, <1>11, <1>12, <1>13, <1>14,
     <1>15, <1>16, <1>17, <1>18 DEF Next

(* The calls, locks and waits stay in step. *)
LEMMA CoreStep ==
    ASSUME Core, NEW t \in Task \cup {None}, NEW c, Acts(t, c),
           t \in Task => WaitOK(k', call'[t], t),
           c.op # "delete" \/ DeleteOK(k', call', r, c),
           r = Idle => c.op = "user"
    PROVE  Core'
<1>1. /\ r \in Task /\ call \in [Task -> Call] /\ k.state[r] = "RUNNING" /\ k.waitq[r] = None
      /\ k.lock \in [Task -> Nat]
  BY RunFacts
<1>2. /\ Good(k') /\ Own(k')
      /\ \A u \in Task \ {t} : Still(k, k', u) /\ k'.waitq[u] = k.waitq[u] /\ k'.err[u] = k.err[u]
      /\ call' = [call EXCEPT ![r] = c] /\ CallOK(c)
      /\ k'.lock = [k.lock EXCEPT ![r] = IF c.op = "user" THEN 0 ELSE 1]
      /\ Running(k') = r \/ c.op \in OffCpu
  BY DEF Acts
<1>3. call'[r] = c /\ \A u \in Task \ {r} : call'[u] = call[u]
  BY <1>1, <1>2
<1>4. call' \in [Task -> Call]
  BY <1>1, <1>2 DEF CallOK
<1>5. ASSUME NEW u \in Task PROVE CallOK(call'[u])
  BY <1>2, <1>3 DEF Core
<1>6. ASSUME NEW u \in Task PROVE WaitOK(k', call'[u], u)
  <2>1. CASE u = t
    BY <2>1
  <2>2. CASE u # t /\ u = r
    <3>1. k'.state[r] \notin QueueState /\ k'.waitq[r] = None
      BY <1>1, <1>2, <2>2 DEF Still, QueueState
    <3> QED
      BY <2>2, <3>1 DEF WaitOK, QueueState
  <2>3. CASE u # t /\ u # r
    <3>1. WaitOK(k, call[u], u) /\ Still(k, k', u) /\ k'.waitq[u] = k.waitq[u] /\ k'.err[u] = k.err[u]
      BY <1>2, <2>3 DEF Core
    <3>2. call'[u] = call[u]
      BY <1>3, <2>3
    <3> QED
      BY <3>1, <3>2 DEF WaitOK, Still, QueueState
  <2> QED
    BY <2>1, <2>2, <2>3
<1>7. ASSUME NEW u \in Task PROVE DeleteOK(k', call', u, call'[u])
  <2>1. CASE u = r
    BY <1>3, <2>1 DEF DeleteOK
  <2>2. CASE u # r
    <3>1. call'[u].op \in OffCpu
      BY <1>3, <2>2 DEF Core
    <3> QED
      BY <3>1 DEF DeleteOK, OffCpu
  <2> QED
    BY <2>1, <2>2
<1>8. ASSUME NEW u \in Task PROVE k'.lock[u] = IF call'[u].op = "user" THEN 0 ELSE 1
  <2>1. CASE u = r
    BY <1>1, <1>2, <1>3, <2>1
  <2>2. CASE u # r
    BY <1>1, <1>2, <1>3, <2>2 DEF Core
  <2> QED
    BY <2>1, <2>2
<1>9. ASSUME NEW u \in Task PROVE u = Idle => call'[u].op = "user"
  BY <1>3 DEF Core
<1>10. ASSUME NEW u \in Task, u # Running(k') PROVE call'[u].op \in OffCpu
  <2>1. CASE u = r
    BY <1>2, <1>3, <1>10, <2>1
  <2>2. CASE u # r
    BY <1>3, <2>2 DEF Core
  <2> QED
    BY <2>1, <2>2
<1> QED
  BY <1>2, <1>4, <1>5, <1>6, <1>7, <1>8, <1>9, <1>10 DEF Core, r

LEMMA CoreKind ==
    ASSUME Core, Kind
    PROVE  Core'
<1>1. /\ r \in Task /\ call \in [Task -> Call] /\ (call[r].op # "user" => r # Idle)
      /\ None \notin Task /\ UserCall.op = "user"
  BY RunFacts, UserCallOK, MQAssumption
(* Nobody begins or ends a wait. *)
<1>2. ASSUME NEW c, Acts(None, c), c.op # "delete", r = Idle => c.op = "user" PROVE Core'
  BY <1>1, <1>2, CoreStep
(* A task stops waiting. *)
<1>3. ASSUME NEW t \in Task, NEW c, Acts(t, c), c.op # "delete", r = Idle => c.op = "user",
             k'.state[t] \notin QueueWait, k'.waitq[t] = None
      PROVE  Core'
  <2>1. WaitOK(k', call'[t], t)
    BY <1>3 DEF WaitOK, QueueWait
  <2> QED
    BY <1>3, <2>1, CoreStep
<1>4. \A s : s \notin QueueState => s \notin QueueWait
  BY DEF QueueState, QueueWait
<1>5. ASSUME NEW c, WaitsRoom(c) \/ WaitsMessage(c) PROVE Core'
  <2>1. Acts(r, c) /\ c.op # "delete" /\ r # Idle
    BY <1>5 DEF WaitsRoom, WaitsMessage
  <2>2. call'[r] = c
    BY <1>1, <2>1 DEF Acts
  <2>3. WaitOK(k', call'[r], r)
    BY <1>5, <2>2 DEF WaitOK, WaitsRoom, WaitsMessage
  <2> QED
    BY <1>1, <2>1, <2>3, CoreStep
<1>6. ASSUME NEW c, NEW t \in Task, Deletes(c, t) PROVE Core'
  <2>1. Acts(None, c) /\ r # Idle /\ c.tcb = t /\ t \in Task \ {r, Idle}
    BY <1>6 DEF Deletes
  <2>2. call'[t] = call[t]
    BY <1>1, <2>1 DEF Acts
  <2>3. k'.waitq = k.waitq
    BY <1>6 DEF Deletes, Same, OwnField
  <2>4. DeleteOK(k', call', r, c)
    BY <1>6, <2>1, <2>2, <2>3 DEF DeleteOK, Deletes
  <2> QED
    BY <1>1, <2>1, <2>4, CoreStep
<1>7. ASSUME NEW c, Prepares(c) \/ Takes(c) \/ Inserts(c) \/ LooksUp(c) \/ Tells(c) \/ Frees(c)
      PROVE  Core'
  <2>1. Acts(None, c) /\ r # Idle
    BY <1>1, <1>7 DEF Prepares, Takes, Inserts, LooksUp, Tells, Frees
  <2>2. c.op # "delete"
    BY <1>1, <1>7 DEF Prepares, Takes, Inserts, LooksUp, Tells, Frees
  <2> QED
    BY <1>2, <2>1, <2>2
<1>8. CASE GivesUp \/ WakesNobody \/ WakesNoSender
  BY <1>1, <1>2, <1>8 DEF GivesUp, WakesNobody, WakesNoSender
<1>9. ASSUME Acts(None, call[r]), call[r].op # "delete" PROVE Core'
  BY <1>1, <1>2, <1>9
<1>10. CASE Quiet \/ FindsSignal
  BY <1>9, <1>10 DEF Quiet, FindsSignal
<1>11. ASSUME NEW q \in Queue, NEW on \in BOOLEAN, Registers(q, on) PROVE Core'
  BY <1>9, <1>11 DEF Registers
<1>12. ASSUME NEW t \in Task, WakesReceiver(t) \/ WakesSender(t) PROVE Core'
  BY <1>1, <1>3, <1>4, <1>12 DEF WakesReceiver, WakesSender
<1>13. ASSUME NEW t \in Task, EndsWait(t) PROVE Core'
  BY <1>1, <1>3, <1>4, <1>13 DEF EndsWait
<1>14. ASSUME NEW t \in Task, Buries(t) PROVE Core'
  <2>1. k'.state[t] \notin QueueWait
    BY <1>14 DEF Buries, QueueWait
  <2> QED
    BY <1>1, <1>3, <1>14, <2>1 DEF Buries
<1>15. ASSUME NEW q \in Queue, NEW t \in Task \cup {None}, IsrSends(q, t) PROVE Core'
  <2>1. Acts(t, call[r]) /\ call[r].op # "delete"
    BY <1>15 DEF IsrSends
  <2>2. CASE t = None
    BY <1>9, <2>1, <2>2
  <2>3. CASE t # None
    BY <1>1, <1>3, <1>4, <1>15, <2>1, <2>3 DEF IsrSends
  <2> QED
    BY <2>2, <2>3
<1> QED
  BY <1>5, <1>6, <1>7, <1>8, <1>10, <1>11, <1>12, <1>13, <1>14, <1>15 DEF Kind

-----------------------------------------------------------------------------
(* The tasks that wait, and those on their way. *)
LEMMA DeletingLemma ==
    ASSUME Core
    PROVE  \A u \in Task : Deleting(u) <=> call[r].op = "delete" /\ call[r].tcb = u
<1>1. r \in Task /\ \A t \in Task \ {r} : call[t].op # "delete"
  BY RunFacts DEF Core, OffCpu
<1> QED
  BY <1>1 DEF Deleting

LEMMA DeletingNext ==
    ASSUME Core, NEW t, NEW c, Acts(t, c)
    PROVE  \A u \in Task : Deleting(u)' <=> c.op = "delete" /\ c.tcb = u
<1>1. r \in Task /\ call \in [Task -> Call] /\ \A v \in Task \ {r} : call[v].op # "delete"
  BY RunFacts DEF Core, OffCpu
<1>2. call'[r] = c /\ \A v \in Task \ {r} : call'[v] = call[v]
  BY <1>1 DEF Acts
<1> QED
  BY <1>1, <1>2 DEF Deleting

(* Blocked(q, l) can change only at t, and at the task that is deleted. *)
LEMMA BlockedFrame ==
    ASSUME Core, NEW t, NEW c, Acts(t, c), NEW q \in Queue, NEW l \in QueueWait,
           call[r].op # "delete", c.op # "delete"
    PROVE  /\ Blocked(q, l) = {u \in Task : k.state[u] = l /\ k.waitq[u] = q}
           /\ Blocked(q, l)' = {u \in Task : k'.state[u] = l /\ k'.waitq[u] = q}
           /\ \A u \in Task \ {t} : u \in Blocked(q, l)' <=> u \in Blocked(q, l)
<1>1. Blocked(q, l) = {u \in Task : k.state[u] = l /\ k.waitq[u] = q}
  BY DeletingLemma DEF Blocked
<1>2. Blocked(q, l)' = {u \in Task : k'.state[u] = l /\ k'.waitq[u] = q}
  BY DeletingNext DEF Blocked
<1>3. \A u \in Task \ {t} : u \in Blocked(q, l)' <=> u \in Blocked(q, l)
  BY <1>1, <1>2 DEF Acts, Still, QueueState, QueueWait
<1> QED
  BY <1>1, <1>2, <1>3

LEMMA BlockedFinite ==
    ASSUME NEW q, NEW l
    PROVE  /\ IsFiniteSet(Blocked(q, l)) /\ Cardinality(Blocked(q, l)) \in Nat
           /\ \A t : t \in Blocked(q, l) => Cardinality(Blocked(q, l)) > 0
<1>1. Blocked(q, l) \in SUBSET Task /\ IsFiniteSet(Task)
  BY MQAssumption DEF Blocked
<1>2. IsFiniteSet(Blocked(q, l)) /\ Cardinality(Blocked(q, l)) \in Nat
  BY <1>1, FS_Subset, FS_CardinalityType
<1>3. Cardinality(Blocked(q, l)) = 0 => Blocked(q, l) = {}
  BY <1>2, FS_EmptySet
<1> QED
  BY <1>2, <1>3

(* How the sets of waiting tasks change in a step. *)
NoMoves == \A q \in Queue, l \in QueueWait : Blocked(q, l)' = Blocked(q, l)
Joins(t, p, w) ==
    /\ t \notin Blocked(p, w)
    /\ \A q \in Queue, l \in QueueWait :
          Blocked(q, l)' = IF q = p /\ l = w THEN Blocked(q, l) \cup {t} ELSE Blocked(q, l)
Leaves(t, p, w) ==
    /\ t \in Blocked(p, w)
    /\ \A q \in Queue, l \in QueueWait :
          Blocked(q, l)' = IF q = p /\ l = w THEN Blocked(q, l) \ {t} ELSE Blocked(q, l)

LEMMA StayMoves ==
    ASSUME Core, NEW c, Acts(None, c), call[r].op # "delete", c.op # "delete"
    PROVE  NoMoves
<1>1. None \notin Task
  BY MQAssumption
<1> QED
  BY <1>1, BlockedFrame DEF NoMoves, Blocked

LEMMA JoinMoves ==
    ASSUME Core, NEW c, Acts(r, c), call[r].op # "delete", c.op # "delete",
           NEW p \in Queue, NEW w \in QueueWait, k'.state[r] = w, k'.waitq[r] = p
    PROVE  Joins(r, p, w)
<1>1. r \in Task /\ k.state[r] = "RUNNING"
  BY RunFacts
<1>2. ASSUME NEW q \in Queue, NEW l \in QueueWait
      PROVE  /\ r \notin Blocked(q, l) /\ (r \in Blocked(q, l)' <=> q = p /\ l = w)
             /\ \A u \in Task \ {r} : u \in Blocked(q, l)' <=> u \in Blocked(q, l)
             /\ Blocked(q, l) \subseteq Task /\ Blocked(q, l)' \subseteq Task
  <2>1. /\ Blocked(q, l) = {u \in Task : k.state[u] = l /\ k.waitq[u] = q}
        /\ Blocked(q, l)' = {u \in Task : k'.state[u] = l /\ k'.waitq[u] = q}
        /\ \A u \in Task \ {r} : u \in Blocked(q, l)' <=> u \in Blocked(q, l)
    BY BlockedFrame
  <2> QED
    BY <1>1, <2>1 DEF QueueWait
<1>3. ASSUME NEW q \in Queue, NEW l \in QueueWait
      PROVE  Blocked(q, l)' = IF q = p /\ l = w THEN Blocked(q, l) \cup {r} ELSE Blocked(q, l)
  <2> DEFINE A == Blocked(q, l)
             B == Blocked(q, l)'
  <2>1. /\ r \notin A /\ (r \in B <=> q = p /\ l = w)
        /\ \A u \in Task \ {r} : u \in B <=> u \in A
        /\ A \subseteq Task /\ B \subseteq Task
    BY <1>2
  <2> HIDE DEF A, B
  <2>2. CASE q = p /\ l = w
    BY <1>1, <2>1, <2>2 DEF A, B
  <2>3. CASE ~ (q = p /\ l = w)
    <3>1. B = A
      BY <2>1, <2>3
    <3> QED
      BY <2>3, <3>1 DEF A, B
  <2> QED
    BY <2>2, <2>3
<1> QED
  BY <1>2, <1>3 DEF Joins

LEMMA LeaveMoves ==
    ASSUME Core, NEW t \in Task, NEW c, Acts(t, c), call[r].op # "delete", c.op # "delete",
           k.state[t] \in QueueWait, k.waitq[t] \in Queue, k'.waitq[t] = None
    PROVE  Leaves(t, k.waitq[t], k.state[t])
<1>1. None \notin Queue
  BY MQAssumption
<1> DEFINE p == k.waitq[t]
           w == k.state[t]
<1>2. ASSUME NEW q \in Queue, NEW l \in QueueWait
      PROVE  /\ t \notin Blocked(q, l)' /\ (t \in Blocked(q, l) <=> q = p /\ l = w)
             /\ \A u \in Task \ {t} : u \in Blocked(q, l)' <=> u \in Blocked(q, l)
             /\ Blocked(q, l) \subseteq Task /\ Blocked(q, l)' \subseteq Task
  <2>1. /\ Blocked(q, l) = {u \in Task : k.state[u] = l /\ k.waitq[u] = q}
        /\ Blocked(q, l)' = {u \in Task : k'.state[u] = l /\ k'.waitq[u] = q}
        /\ \A u \in Task \ {t} : u \in Blocked(q, l)' <=> u \in Blocked(q, l)
    BY BlockedFrame
  <2> QED
    BY <1>1, <2>1
<1>3. ASSUME NEW q \in Queue, NEW l \in QueueWait
      PROVE  Blocked(q, l)' = IF q = p /\ l = w THEN Blocked(q, l) \ {t} ELSE Blocked(q, l)
  BY <1>2
<1> QED
  BY <1>2, <1>3 DEF Leaves

LEMMA DeleteMoves ==
    ASSUME Core, NEW t \in Task, NEW c, Deletes(c, t)
    PROVE  IF k.state[t] \in QueueWait THEN Leaves(t, k.waitq[t], k.state[t]) ELSE NoMoves
<1> DEFINE p == k.waitq[t]
           w == k.state[t]
<1>1. /\ Acts(None, c) /\ call[r].op = "user" /\ c.op = "delete" /\ c.tcb = t
      /\ k'.state = k.state /\ k'.waitq = k.waitq
  BY DEF Deletes, Same, OwnField
<1>2. w \in QueueWait => p \in Queue
  BY DEF Core, WaitOK, QueueWait
<1>3. ASSUME NEW q \in Queue, NEW l \in QueueWait
      PROVE  /\ t \notin Blocked(q, l)' /\ (t \in Blocked(q, l) <=> q = p /\ l = w)
             /\ \A u \in Task \ {t} : u \in Blocked(q, l)' <=> u \in Blocked(q, l)
             /\ Blocked(q, l) \subseteq Task /\ Blocked(q, l)' \subseteq Task
  <2>1. Blocked(q, l) = {u \in Task : k.state[u] = l /\ k.waitq[u] = q}
    BY <1>1, DeletingLemma DEF Blocked
  <2>2. Blocked(q, l)' = {u \in Task : k'.state[u] = l /\ k'.waitq[u] = q /\ u # t}
    BY <1>1, DeletingNext DEF Blocked
  <2> QED
    BY <1>1, <2>1, <2>2
<1>4. ASSUME NEW q \in Queue, NEW l \in QueueWait
      PROVE  Blocked(q, l)' = IF q = p /\ l = w THEN Blocked(q, l) \ {t} ELSE Blocked(q, l)
  BY <1>3
<1>5. CASE w \in QueueWait
  BY <1>2, <1>3, <1>4, <1>5 DEF Leaves
<1>6. CASE w \notin QueueWait
  BY <1>4, <1>6 DEF NoMoves
<1> QED
  BY <1>5, <1>6

LEMMA BuryMoves ==
    ASSUME Core, NEW t \in Task, Buries(t)
    PROVE  NoMoves
<1>1. /\ Acts(t, UserCall) /\ UserCall.op = "user" /\ call[r].op = "delete" /\ t = call[r].tcb
      /\ k'.state[t] = "INVALID"
  BY UserCallOK DEF Buries
<1>2. ASSUME NEW q \in Queue, NEW l \in QueueWait PROVE Blocked(q, l)' = Blocked(q, l)
  <2>1. Blocked(q, l) = {u \in Task : k.state[u] = l /\ k.waitq[u] = q /\ u # t}
    BY <1>1, DeletingLemma DEF Blocked
  <2>2. Blocked(q, l)' = {u \in Task : k'.state[u] = l /\ k'.waitq[u] = q}
    BY <1>1, DeletingNext DEF Blocked
  <2>3. \A u \in Task \ {t} : k'.waitq[u] = k.waitq[u] /\ (k'.state[u] = l <=> k.state[u] = l)
    BY <1>1 DEF Acts, Still, QueueState, QueueWait
  <2>4. k'.state[t] # l
    BY <1>1 DEF QueueWait
  <2> QED
    BY <2>1, <2>2, <2>3, <2>4
<1> QED
  BY <1>2 DEF NoMoves

(* The counts of waiting tasks follow. *)
Count(m, l) == IF l = "WAIT_MQNOTEMPTY" THEN m.empty ELSE m.full

LEMMA CountedLemma ==
    /\ WaitersCounted <=>
          \A q \in Queue, l \in QueueWait : Count(k, l)[q] = Cardinality(Blocked(q, l))
    /\ WaitersCounted' <=>
          \A q \in Queue, l \in QueueWait : Count(k', l)[q] = Cardinality(Blocked(q, l)')
BY DEF WaitersCounted, Count, QueueWait

LEMMA CountNone ==
    ASSUME WaitersCounted, NoMoves, k'.empty = k.empty, k'.full = k.full
    PROVE  WaitersCounted'
<1>1. \A l : Count(k', l) = Count(k, l)
  BY DEF Count
<1> QED
  BY <1>1, CountedLemma DEF NoMoves

LEMMA CountChange ==
    ASSUME Own(k), WaitersCounted, NEW p \in Queue, NEW w \in QueueWait, NEW n \in Int,
           \A q \in Queue, l \in QueueWait : ~ (q = p /\ l = w) => Blocked(q, l)' = Blocked(q, l),
           Cardinality(Blocked(p, w)') = Cardinality(Blocked(p, w)) + n,
           Count(k', w) = [Count(k, w) EXCEPT ![p] = @ + n],
           \A l \in QueueWait \ {w} : Count(k', l) = Count(k, l)
    PROVE  WaitersCounted'
<1>1. \A l : Count(k, l) \in [Queue -> Int]
  BY DEF Own, Count
<1>2. ASSUME NEW q \in Queue, NEW l \in QueueWait
      PROVE  Count(k', l)[q] = Cardinality(Blocked(q, l)')
  <2>1. Count(k, l)[q] = Cardinality(Blocked(q, l))
    BY CountedLemma
  <2>2. CASE q = p /\ l = w
    <3>1. Count(k', w)[p] = Count(k, w)[p] + n
      BY <1>1
    <3> QED
      BY <2>1, <2>2, <3>1
  <2>3. CASE ~ (q = p /\ l = w)
    <3>1. Count(k', l)[q] = Count(k, l)[q]
      BY <1>1, <2>3
    <3> QED
      BY <2>1, <2>3, <3>1
  <2> QED
    BY <2>2, <2>3
<1> QED
  BY <1>2, CountedLemma

LEMMA CountJoin ==
    ASSUME Own(k), WaitersCounted, NEW t, NEW p \in Queue, NEW w \in QueueWait, Joins(t, p, w),
           Count(k', w) = [Count(k, w) EXCEPT ![p] = @ + 1],
           \A l \in QueueWait \ {w} : Count(k', l) = Count(k, l)
    PROVE  WaitersCounted'
<1>1. Cardinality(Blocked(p, w)') = Cardinality(Blocked(p, w)) + 1
  <2>1. t \notin Blocked(p, w) /\ Blocked(p, w)' = Blocked(p, w) \cup {t}
    BY DEF Joins
  <2> QED
    BY <2>1, BlockedFinite, FS_AddElement
<1>2. \A q \in Queue, l \in QueueWait : ~ (q = p /\ l = w) => Blocked(q, l)' = Blocked(q, l)
  BY DEF Joins
<1> QED
  BY <1>1, <1>2, CountChange

LEMMA CountLeave ==
    ASSUME Own(k), WaitersCounted, NEW t, NEW p \in Queue, NEW w \in QueueWait, Leaves(t, p, w),
           Count(k', w) = [Count(k, w) EXCEPT ![p] = @ - 1],
           \A l \in QueueWait \ {w} : Count(k', l) = Count(k, l)
    PROVE  WaitersCounted'
<1>1. Cardinality(Blocked(p, w)') = Cardinality(Blocked(p, w)) + (-1)
  <2>1. t \in Blocked(p, w) /\ Blocked(p, w)' = Blocked(p, w) \ {t}
    BY DEF Leaves
  <2>2. Cardinality(Blocked(p, w) \ {t}) = Cardinality(Blocked(p, w)) - 1
    BY <2>1, BlockedFinite, FS_RemoveElement
  <2> QED
    BY <2>1, <2>2, BlockedFinite
<1>2. \A q \in Queue, l \in QueueWait : ~ (q = p /\ l = w) => Blocked(q, l)' = Blocked(q, l)
  BY DEF Leaves
<1>3. Count(k', w) = [Count(k, w) EXCEPT ![p] = @ + (-1)]
  <2>1. Count(k, w) \in [Queue -> Int]
    BY DEF Own, Count
  <2> QED
    BY <2>1
<1> QED
  BY <1>1, <1>2, <1>3, CountChange

(* The steps that keep every wait. *)
Busy(c) == Prepares(c) \/ Takes(c) \/ Inserts(c) \/ LooksUp(c) \/ Tells(c) \/ Frees(c)
Other == \/ GivesUp \/ WakesNobody \/ WakesNoSender \/ Quiet \/ FindsSignal
         \/ \E q \in Queue, on \in BOOLEAN : Registers(q, on)

LEMMA BusyMoves ==
    ASSUME Core, NEW c, Busy(c)
    PROVE  NoMoves /\ k'.empty = k.empty /\ k'.full = k.full
<1>1. Acts(None, c) /\ call[r].op # "delete"
  BY DEF Busy, Prepares, Takes, Inserts, LooksUp, Tells, Frees
<1>2. c.op # "delete"
  BY UserCallOK DEF Busy, Prepares, Takes, Inserts, LooksUp, Tells, Frees
<1>3. k'.empty = k.empty /\ k'.full = k.full
  BY DEF Busy, Prepares, Takes, Inserts, LooksUp, Tells, Frees, Same, OwnField
<1> QED
  BY <1>1, <1>2, <1>3, StayMoves

LEMMA OtherMoves ==
    ASSUME Core, Other
    PROVE  /\ NoMoves /\ k'.empty = k.empty /\ k'.full = k.full /\ k'.msgs = k.msgs
           /\ Acts(None, call[r]) \/ Acts(None, UserCall)
<1>1. (Acts(None, call[r]) \/ Acts(None, UserCall)) /\ call[r].op # "delete"
  BY DEF Other, GivesUp, WakesNobody, WakesNoSender, Quiet, FindsSignal, Registers
<1>2. k'.empty = k.empty /\ k'.full = k.full /\ k'.msgs = k.msgs
  BY DEF Other, GivesUp, WakesNobody, WakesNoSender, Quiet, FindsSignal, Registers, Same, OwnField
<1> QED
  BY <1>1, <1>2, StayMoves, UserCallOK

LEMMA RoomMoves ==
    ASSUME Core, NEW c, WaitsRoom(c)
    PROVE  Joins(r, c.q, "WAIT_MQNOTFULL") /\ k'.empty = k.empty
<1>1. /\ Acts(r, c) /\ call[r].op # "delete" /\ c.op # "delete" /\ c.q \in Queue
      /\ k'.state[r] = "WAIT_MQNOTFULL" /\ k'.waitq[r] = c.q
  BY DEF WaitsRoom
<1>2. "WAIT_MQNOTFULL" \in QueueWait /\ k'.empty = k.empty
  BY DEF QueueWait, WaitsRoom, Same, OwnField
<1> QED
  BY <1>1, <1>2, JoinMoves

LEMMA MessageMoves ==
    ASSUME Core, NEW c, WaitsMessage(c)
    PROVE  Joins(r, c.q, "WAIT_MQNOTEMPTY") /\ k'.full = k.full
<1>1. /\ Acts(r, c) /\ call[r].op # "delete" /\ c.op # "delete" /\ c.q \in Queue
      /\ k'.state[r] = "WAIT_MQNOTEMPTY" /\ k'.waitq[r] = c.q
  BY DEF WaitsMessage
<1>2. "WAIT_MQNOTEMPTY" \in QueueWait /\ k'.full = k.full
  BY DEF QueueWait, WaitsMessage, Same, OwnField
<1> QED
  BY <1>1, <1>2, JoinMoves

LEMMA ReceiverMoves ==
    ASSUME Core, NEW t \in Task, WakesReceiver(t)
    PROVE  /\ Leaves(t, call[r].q, "WAIT_MQNOTEMPTY") /\ call[r].q \in Queue
           /\ k'.full = k.full /\ k'.msgs = k.msgs
<1>1. /\ Acts(t, UserCall) /\ call[r].op # "delete" /\ UserCall.op # "delete"
      /\ k.state[t] = "WAIT_MQNOTEMPTY" /\ k.waitq[t] = call[r].q /\ k'.waitq[t] = None
  BY UserCallOK DEF WakesReceiver
<1>2. "WAIT_MQNOTEMPTY" \in QueueWait /\ k'.full = k.full /\ k'.msgs = k.msgs
  BY DEF QueueWait, WakesReceiver, Same, OwnField
<1>3. call[r].q \in Queue
  BY RunFacts DEF WakesReceiver, CallOK
<1> QED
  BY <1>1, <1>2, <1>3, LeaveMoves

LEMMA SenderMoves ==
    ASSUME Core, NEW t \in Task, WakesSender(t)
    PROVE  /\ Leaves(t, call[r].q, "WAIT_MQNOTFULL") /\ call[r].q \in Queue
           /\ k'.empty = k.empty /\ k'.msgs = k.msgs
<1>1. /\ Acts(t, UserCall) /\ call[r].op # "delete" /\ UserCall.op # "delete"
      /\ k.state[t] = "WAIT_MQNOTFULL" /\ k.waitq[t] = call[r].q /\ k'.waitq[t] = None
  BY UserCallOK DEF WakesSender
<1>2. "WAIT_MQNOTFULL" \in QueueWait /\ k'.empty = k.empty /\ k'.msgs = k.msgs
  BY DEF QueueWait, WakesSender, Same, OwnField
<1>3. call[r].q \in Queue
  BY RunFacts DEF WakesSender, CallOK
<1> QED
  BY <1>1, <1>2, <1>3, LeaveMoves

LEMMA EndMoves ==
    ASSUME Core, NEW t \in Task, EndsWait(t)
    PROVE  Leaves(t, k.waitq[t], k.state[t]) /\ k'.msgs = k.msgs
<1>1. /\ Acts(t, call[r]) /\ call[r].op # "delete" /\ k.state[t] \in QueueWait
      /\ k.waitq[t] \in Queue /\ k'.waitq[t] = None /\ k'.msgs = k.msgs
  BY DEF EndsWait, Same, OwnField
<1> QED
  BY <1>1, LeaveMoves

LEMMA IsrMoves ==
    ASSUME Core, NEW q \in Queue, NEW t \in Task \cup {None}, IsrSends(q, t)
    PROVE  /\ k'.full = k.full
           /\ IF t = None THEN NoMoves /\ k'.empty = k.empty
              ELSE /\ Leaves(t, q, "WAIT_MQNOTEMPTY")
                   /\ k'.empty = [k.empty EXCEPT ![q] = @ - 1]
<1>1. Acts(t, call[r]) /\ call[r].op # "delete"
  BY DEF IsrSends
<1>2. k'.full = k.full
  BY DEF IsrSends, Same, OwnField
<1>3. CASE t = None
  BY <1>1, <1>2, <1>3, StayMoves DEF IsrSends
<1>4. CASE t # None
  <2>1. /\ t \in Task /\ k.state[t] = "WAIT_MQNOTEMPTY" /\ k.waitq[t] = q /\ k'.waitq[t] = None
        /\ k'.empty = [k.empty EXCEPT ![q] = @ - 1]
    BY <1>4 DEF IsrSends
  <2>2. "WAIT_MQNOTEMPTY" \in QueueWait
    BY DEF QueueWait
  <2> QED
    BY <1>1, <1>2, <1>4, <2>1, <2>2, LeaveMoves
<1> QED
  BY <1>3, <1>4

(* WaitersCounted is preserved. *)
LEMMA CountedKind ==
    ASSUME Core, WaitersCounted, Kind
    PROVE  WaitersCounted'
<1>1. /\ Own(k) /\ "WAIT_MQNOTFULL" \in QueueWait /\ "WAIT_MQNOTEMPTY" \in QueueWait
      /\ \A l \in QueueWait : l = "WAIT_MQNOTEMPTY" \/ l = "WAIT_MQNOTFULL"
  BY DEF Core, QueueWait
<1>2. /\ Count(k, "WAIT_MQNOTEMPTY") = k.empty /\ Count(k', "WAIT_MQNOTEMPTY") = k'.empty
      /\ Count(k, "WAIT_MQNOTFULL") = k.full /\ Count(k', "WAIT_MQNOTFULL") = k'.full
  BY DEF Count
<1>3. ASSUME NEW c, Busy(c) PROVE WaitersCounted'
  BY <1>3, BusyMoves, CountNone
<1>4. CASE Other
  BY <1>4, OtherMoves, CountNone
<1>5. ASSUME NEW c, WaitsRoom(c) PROVE WaitersCounted'
  <2>1. Joins(r, c.q, "WAIT_MQNOTFULL") /\ k'.empty = k.empty
    BY <1>5, RoomMoves
  <2>2. k'.full = [k.full EXCEPT ![c.q] = @ + 1] /\ c.q \in Queue
    BY <1>5 DEF WaitsRoom
  <2> QED
    BY <1>1, <1>2, <2>1, <2>2, CountJoin
<1>6. ASSUME NEW c, WaitsMessage(c) PROVE WaitersCounted'
  <2>1. Joins(r, c.q, "WAIT_MQNOTEMPTY") /\ k'.full = k.full
    BY <1>6, MessageMoves
  <2>2. k'.empty = [k.empty EXCEPT ![c.q] = @ + 1] /\ c.q \in Queue
    BY <1>6 DEF WaitsMessage
  <2> QED
    BY <1>1, <1>2, <2>1, <2>2, CountJoin
<1>7. ASSUME NEW t \in Task, WakesReceiver(t) PROVE WaitersCounted'
  <2>1. Leaves(t, call[r].q, "WAIT_MQNOTEMPTY") /\ call[r].q \in Queue /\ k'.full = k.full
    BY <1>7, ReceiverMoves
  <2>2. k'.empty = [k.empty EXCEPT ![call[r].q] = @ - 1]
    BY <1>7 DEF WakesReceiver
  <2> QED
    BY <1>1, <1>2, <2>1, <2>2, CountLeave
<1>8. ASSUME NEW t \in Task, WakesSender(t) PROVE WaitersCounted'
  <2>1. Leaves(t, call[r].q, "WAIT_MQNOTFULL") /\ call[r].q \in Queue /\ k'.empty = k.empty
    BY <1>8, SenderMoves
  <2>2. k'.full = [k.full EXCEPT ![call[r].q] = @ - 1]
    BY <1>8 DEF WakesSender
  <2> QED
    BY <1>1, <1>2, <2>1, <2>2, CountLeave
<1>9. ASSUME NEW t \in Task, Leaves(t, k.waitq[t], k.state[t]), k.waitq[t] \in Queue,
             k.state[t] \in QueueWait,
             k'.empty = IF k.state[t] = "WAIT_MQNOTEMPTY" THEN [k.empty EXCEPT ![k.waitq[t]] = @ - 1] ELSE k.empty,
             k'.full = IF k.state[t] = "WAIT_MQNOTFULL" THEN [k.full EXCEPT ![k.waitq[t]] = @ - 1] ELSE k.full
      PROVE  WaitersCounted'
  <2>1. CASE k.state[t] = "WAIT_MQNOTEMPTY"
    BY <1>1, <1>2, <1>9, <2>1, CountLeave
  <2>2. CASE k.state[t] = "WAIT_MQNOTFULL"
    BY <1>1, <1>2, <1>9, <2>2, CountLeave
  <2> QED
    BY <1>1, <1>9, <2>1, <2>2
<1>10. ASSUME NEW t \in Task, EndsWait(t) PROVE WaitersCounted'
  BY <1>9, <1>10, EndMoves DEF EndsWait
<1>11. ASSUME NEW c, NEW t \in Task, Deletes(c, t) PROVE WaitersCounted'
  <2>1. CASE k.state[t] \in QueueWait
    <3>1. k.waitq[t] \in Queue
      BY <2>1 DEF Core, WaitOK, QueueWait
    <3> QED
      BY <1>9, <1>11, <2>1, <3>1, DeleteMoves DEF Deletes
  <2>2. CASE k.state[t] \notin QueueWait
    <3>1. k'.empty = k.empty /\ k'.full = k.full
      BY <1>1, <1>11, <2>2 DEF Deletes
    <3> QED
      BY <1>11, <2>2, <3>1, DeleteMoves, CountNone
  <2> QED
    BY <2>1, <2>2
<1>12. ASSUME NEW t \in Task, Buries(t) PROVE WaitersCounted'
  <2>1. k'.empty = k.empty /\ k'.full = k.full
    BY <1>12 DEF Buries, Same, OwnField
  <2> QED
    BY <1>12, <2>1, BuryMoves, CountNone
<1>13. ASSUME NEW q \in Queue, NEW t \in Task \cup {None}, IsrSends(q, t) PROVE WaitersCounted'
  <2>1. CASE t = None
    BY <1>13, <2>1, IsrMoves, CountNone
  <2>2. CASE t # None
    <3>1. /\ Leaves(t, q, "WAIT_MQNOTEMPTY") /\ k'.full = k.full
          /\ k'.empty = [k.empty EXCEPT ![q] = @ - 1]
      BY <1>13, <2>2, IsrMoves
    <3> QED
      BY <1>1, <1>2, <3>1, CountLeave
  <2> QED
    BY <2>1, <2>2
<1> QED
  BY <1>3, <1>4, <1>5, <1>6, <1>7, <1>8, <1>10, <1>11, <1>12, <1>13 DEF Kind, Busy, Other

-----------------------------------------------------------------------------
(* No wake-up is lost.  Both sides of a queue at once: the receivers wait  *)
(* in "WAIT_MQNOTEMPTY" for messages, the senders in "WAIT_MQNOTFULL" for  *)
(* room.                                                                   *)
WaitOp(l) == IF l = "WAIT_MQNOTEMPTY" THEN "waitrecv" ELSE "waitsend"
Ops(l) == IF l = "WAIT_MQNOTEMPTY" THEN {"notify", "detach", "wake"}
          ELSE {"dosend", "doreceive", "wakesend"}
Need(m, q, l) == IF l = "WAIT_MQNOTEMPTY" THEN Len(m.msgs[q]) ELSE MaxMsgs - Len(m.msgs[q])

(* A task on its way, in call c, with task state s and pterrno e. *)
OnWay(q, l, c, s, e) ==
    c.q = q /\ (c.op \in Ops(l) \/ (c.op = WaitOp(l) /\ s \notin {l, "INVALID"} /\ e = "OK"))
Coming(q, l) == {u \in Task : OnWay(q, l, call[u], k.state[u], k.err[u])}
Side(q, l) == Blocked(q, l) # {} => Need(k, q, l) <= Cardinality(Coming(q, l))

LEMMA SideLemma ==
    /\ NoLostWakeup <=> \A q \in Queue, l \in QueueWait : Side(q, l)
    /\ NoLostWakeup' <=> \A q \in Queue, l \in QueueWait : Side(q, l)'
<1>1. ASSUME NEW q
      PROVE  /\ Coming(q, "WAIT_MQNOTEMPTY") = Woken("waitrecv", q, "WAIT_MQNOTEMPTY")
                                                 \cup In({"notify", "detach", "wake"}, q)
             /\ Coming(q, "WAIT_MQNOTFULL") = Woken("waitsend", q, "WAIT_MQNOTFULL")
                                                \cup In({"dosend", "doreceive", "wakesend"}, q)
  BY DEF Coming, OnWay, Woken, In, Ops, WaitOp
<1>2. ASSUME NEW q
      PROVE  /\ Coming(q, "WAIT_MQNOTEMPTY")' = Woken("waitrecv", q, "WAIT_MQNOTEMPTY")'
                                                 \cup In({"notify", "detach", "wake"}, q)'
             /\ Coming(q, "WAIT_MQNOTFULL")' = Woken("waitsend", q, "WAIT_MQNOTFULL")'
                                                \cup In({"dosend", "doreceive", "wakesend"}, q)'
  BY DEF Coming, OnWay, Woken, In, Ops, WaitOp
<1>3. ASSUME NEW q
      PROVE  /\ Side(q, "WAIT_MQNOTEMPTY") <=>
                  (Blocked(q, "WAIT_MQNOTEMPTY") # {} =>
                     Len(k.msgs[q]) <= Cardinality(Woken("waitrecv", q, "WAIT_MQNOTEMPTY")
                                                 \cup In({"notify", "detach", "wake"}, q)))
             /\ Side(q, "WAIT_MQNOTFULL") <=>
                  (Blocked(q, "WAIT_MQNOTFULL") # {} =>
                     MaxMsgs - Len(k.msgs[q]) <= Cardinality(Woken("waitsend", q, "WAIT_MQNOTFULL")
                                                \cup In({"dosend", "doreceive", "wakesend"}, q)))
  BY <1>1 DEF Side, Need
<1>4. ASSUME NEW q
      PROVE  /\ Side(q, "WAIT_MQNOTEMPTY")' <=>
                  (Blocked(q, "WAIT_MQNOTEMPTY")' # {} =>
                     Len(k'.msgs[q]) <= Cardinality(Woken("waitrecv", q, "WAIT_MQNOTEMPTY")'
                                                 \cup In({"notify", "detach", "wake"}, q)'))
             /\ Side(q, "WAIT_MQNOTFULL")' <=>
                  (Blocked(q, "WAIT_MQNOTFULL")' # {} =>
                     MaxMsgs - Len(k'.msgs[q]) <= Cardinality(Woken("waitsend", q, "WAIT_MQNOTFULL")'
                                                \cup In({"dosend", "doreceive", "wakesend"}, q)'))
  BY <1>2 DEF Side, Need
<1>5. NoLostWakeup <=> \A q \in Queue, l \in QueueWait : Side(q, l)
  BY <1>3 DEF NoLostWakeup, QueueWait
<1>6. NoLostWakeup' <=> \A q \in Queue, l \in QueueWait : Side(q, l)'
  BY <1>4 DEF NoLostWakeup, QueueWait
<1> QED
  BY <1>5, <1>6

LEMMA ComingFinite ==
    ASSUME NEW q, NEW l
    PROVE  /\ IsFiniteSet(Coming(q, l)) /\ Cardinality(Coming(q, l)) \in Nat
           /\ IsFiniteSet(Coming(q, l)') /\ Cardinality(Coming(q, l)') \in Nat
<1>1. Coming(q, l) \in SUBSET Task /\ Coming(q, l)' \in SUBSET Task /\ IsFiniteSet(Task)
  BY MQAssumption DEF Coming
<1> QED
  BY <1>1, FS_Subset, FS_CardinalityType

(* Who is on the way can change only at t and at r. *)
LEMMA ComingFrame ==
    ASSUME Core, NEW t, NEW c, Acts(t, c), NEW q \in Queue, NEW l \in QueueWait
    PROVE  /\ \A u \in Task \ {r, t} : u \in Coming(q, l)' <=> u \in Coming(q, l)
           /\ r \in Coming(q, l) <=> OnWay(q, l, call[r], k.state[r], k.err[r])
           /\ r \in Coming(q, l)' <=> OnWay(q, l, c, k'.state[r], k'.err[r])
           /\ r # t => k'.state[r] \notin QueueState /\ k'.err[r] = k.err[r]
           /\ Coming(q, l) \subseteq Task
<1>1. r \in Task /\ call \in [Task -> Call] /\ k.state[r] = "RUNNING"
  BY RunFacts
<1>2. call'[r] = c /\ \A u \in Task \ {r} : call'[u] = call[u]
  BY <1>1 DEF Acts
<1>3. \A u \in Task \ {t} : Still(k, k', u) /\ k'.err[u] = k.err[u]
  BY DEF Acts
<1>4. ASSUME NEW u \in Task \ {r, t} PROVE u \in Coming(q, l)' <=> u \in Coming(q, l)
  <2>1. call'[u] = call[u] /\ Still(k, k', u) /\ k'.err[u] = k.err[u]
    BY <1>2, <1>3
  <2>2. k'.state[u] \in {l, "INVALID"} <=> k.state[u] \in {l, "INVALID"}
    BY <2>1 DEF Still, QueueState, QueueWait
  <2>3. OnWay(q, l, call'[u], k'.state[u], k'.err[u]) <=> OnWay(q, l, call[u], k.state[u], k.err[u])
    BY <2>1, <2>2 DEF OnWay
  <2> QED
    BY <2>3 DEF Coming
<1>5. r # t => k'.state[r] \notin QueueState /\ k'.err[r] = k.err[r]
  BY <1>1, <1>3 DEF Still, QueueState
<1> QED
  BY <1>1, <1>2, <1>4, <1>5 DEF Coming

(* A task that waits is not on its way, nor is one that is being deleted. *)
LEMMA WaitingStays ==
    ASSUME Core, NEW t \in Task, k.state[t] \in QueueWait, NEW q, NEW l \in QueueWait
    PROVE  t \notin Coming(q, l)
<1>1. WaitOK(k, call[t], t)
  BY DEF Core
<1>2. CASE k.state[t] = "WAIT_MQNOTEMPTY"
  BY <1>1, <1>2 DEF Coming, OnWay, WaitOK, QueueWait, Ops, WaitOp
<1>3. CASE k.state[t] = "WAIT_MQNOTFULL"
  BY <1>1, <1>3 DEF Coming, OnWay, WaitOK, QueueWait, Ops, WaitOp
<1> QED
  BY <1>2, <1>3 DEF QueueWait

LEMMA CardWithout ==
    ASSUME NEW A, IsFiniteSet(A), NEW x
    PROVE  /\ IsFiniteSet(A \ {x}) /\ Cardinality(A \ {x}) \in Nat
           /\ Cardinality(A) - 1 <= Cardinality(A \ {x})
<1>1. IsFiniteSet(A \ {x}) /\ Cardinality(A) \in Nat
  BY FS_RemoveElement, FS_CardinalityType
<1>2. Cardinality(A \ {x}) = IF x \in A THEN Cardinality(A) - 1 ELSE Cardinality(A)
  BY FS_RemoveElement
<1>3. Cardinality(A \ {x}) \in Nat
  BY <1>1, FS_CardinalityType
<1> QED
  BY <1>1, <1>2, <1>3

LEMMA SideChange ==
    ASSUME Core, Own(k'), NEW q \in Queue, NEW l \in QueueWait, Side(q, l), NEW n \in Int,
           Blocked(q, l)' # {} => Blocked(q, l) # {},
           Need(k', q, l) <= Need(k, q, l) + n,
           Cardinality(Coming(q, l)) + n <= Cardinality(Coming(q, l)')
    PROVE  Side(q, l)'
<1>1. Need(k, q, l) \in Int /\ Need(k', q, l) \in Int
  <2>1. k.msgs[q] \in Seq(Msg) /\ k'.msgs[q] \in Seq(Msg) /\ MaxMsgs \in Nat
    BY MQAssumption DEF Core, Own
  <2> QED
    BY <2>1 DEF Need
<1>2. Cardinality(Coming(q, l)) \in Nat /\ Cardinality(Coming(q, l)') \in Nat
  BY ComingFinite
<1> QED
  BY <1>1, <1>2 DEF Side

(* Nobody who is on the way leaves. *)
LEMMA SideKeep ==
    ASSUME Core, NEW q \in Queue, NEW l \in QueueWait, Side(q, l), NEW t, NEW c, Acts(t, c),
           Blocked(q, l)' # {} => Blocked(q, l) # {},
           Need(k', q, l) <= Need(k, q, l),
           OnWay(q, l, call[r], k.state[r], k.err[r]) => OnWay(q, l, c, k'.state[r], k'.err[r]),
           t # r => t \notin Coming(q, l)
    PROVE  Side(q, l)'
<1>1. Coming(q, l) \subseteq Coming(q, l)'
  BY ComingFrame
<1>2. Cardinality(Coming(q, l)) <= Cardinality(Coming(q, l)')
  BY <1>1, ComingFinite, FS_Subset
<1>3. Own(k') /\ Cardinality(Coming(q, l)) \in Nat /\ Need(k, q, l) \in Int
  <2>1. k.msgs[q] \in Seq(Msg) /\ MaxMsgs \in Nat
    BY MQAssumption DEF Core, Own
  <2> QED
    BY <2>1, ComingFinite DEF Need, Acts
<1>4. Need(k', q, l) <= Need(k, q, l) + 0 /\ Cardinality(Coming(q, l)) + 0 <= Cardinality(Coming(q, l)')
  BY <1>2, <1>3
<1> QED
  BY <1>3, <1>4, SideChange

(* One more comes with what it is to be used for. *)
LEMMA SideMore ==
    ASSUME Core, NEW q \in Queue, NEW l \in QueueWait, Side(q, l), NEW t, NEW c, Acts(t, c),
           Blocked(q, l)' # {} => Blocked(q, l) # {},
           Need(k', q, l) <= Need(k, q, l) + 1,
           OnWay(q, l, call[r], k.state[r], k.err[r]) => OnWay(q, l, c, k'.state[r], k'.err[r]),
           t # r => t \notin Coming(q, l),
           NEW x, x \notin Coming(q, l), x \in Coming(q, l)'
    PROVE  Side(q, l)'
<1>1. Coming(q, l) \cup {x} \subseteq Coming(q, l)'
  BY ComingFrame
<1>2. Cardinality(Coming(q, l)) + 1 <= Cardinality(Coming(q, l)')
  <2>1. Cardinality(Coming(q, l) \cup {x}) = Cardinality(Coming(q, l)) + 1
    BY ComingFinite, FS_AddElement
  <2> QED
    BY <1>1, <2>1, ComingFinite, FS_Subset
<1> QED
  BY <1>2, SideChange DEF Acts

(* r leaves, and one message or place that it came for is gone ... *)
LEMMA SideLess ==
    ASSUME Core, NEW q \in Queue, NEW l \in QueueWait, Side(q, l), NEW c, Acts(None, c),
           Blocked(q, l)' # {} => Blocked(q, l) # {},
           Need(k', q, l) <= Need(k, q, l) - 1
    PROVE  Side(q, l)'
<1>1. None \notin Task /\ Coming(q, l) \subseteq Task
  BY MQAssumption DEF Coming
<1>2. Coming(q, l) \ {r} \subseteq Coming(q, l)'
  BY <1>1, ComingFrame
<1>3. Cardinality(Coming(q, l)) + (-1) <= Cardinality(Coming(q, l)')
  <2> DEFINE A == Coming(q, l)
             B == Coming(q, l)'
  <2>1. IsFiniteSet(A) /\ IsFiniteSet(B) /\ Cardinality(A) \in Nat /\ Cardinality(B) \in Nat
        /\ A \ {r} \subseteq B
    BY <1>2, ComingFinite
  <2> HIDE DEF A, B
  <2>2. IsFiniteSet(A \ {r}) /\ Cardinality(A \ {r}) \in Nat
        /\ Cardinality(A) - 1 <= Cardinality(A \ {r})
    BY <2>1, CardWithout
  <2>3. Cardinality(A \ {r}) <= Cardinality(B)
    BY <2>1, FS_Subset
  <2>4. Cardinality(A) + (-1) <= Cardinality(B)
    BY <2>1, <2>2, <2>3
  <2> QED
    BY <2>4 DEF A, B
<1>4. Need(k', q, l) <= Need(k, q, l) + (-1)
  <2>1. k.msgs[q] \in Seq(Msg) /\ MaxMsgs \in Nat
    BY MQAssumption DEF Core, Own
  <2>2. Need(k, q, l) \in Int
    BY <2>1 DEF Need
  <2> QED
    BY <2>2
<1> QED
  BY <1>3, <1>4, SideChange DEF Acts

(* ... or r hands over to t. *)
LEMMA SideSwap ==
    ASSUME Core, NEW q \in Queue, NEW l \in QueueWait, Side(q, l), NEW t, NEW c, Acts(t, c), t # r,
           Blocked(q, l)' # {} => Blocked(q, l) # {},
           Need(k', q, l) <= Need(k, q, l),
           t \notin Coming(q, l), t \in Coming(q, l)'
    PROVE  Side(q, l)'
<1>1. (Coming(q, l) \ {r}) \cup {t} \subseteq Coming(q, l)'
  BY ComingFrame
<1>2. Cardinality(Coming(q, l)) <= Cardinality(Coming(q, l)')
  <2> DEFINE A == Coming(q, l)
             B == Coming(q, l)'
  <2>1. IsFiniteSet(A) /\ IsFiniteSet(B) /\ Cardinality(A) \in Nat /\ Cardinality(B) \in Nat
        /\ (A \ {r}) \cup {t} \subseteq B /\ t \notin A
    BY <1>1, ComingFinite
  <2> HIDE DEF A, B
  <2>2. IsFiniteSet(A \ {r}) /\ Cardinality(A \ {r}) \in Nat
        /\ Cardinality(A) - 1 <= Cardinality(A \ {r})
    BY <2>1, CardWithout
  <2>3. Cardinality((A \ {r}) \cup {t}) = Cardinality(A \ {r}) + 1
    BY <2>1, <2>2, FS_AddElement
  <2>4. Cardinality((A \ {r}) \cup {t}) <= Cardinality(B)
    BY <2>1, FS_Subset
  <2>5. Cardinality(A) <= Cardinality(B)
    BY <2>1, <2>2, <2>3, <2>4
  <2> QED
    BY <2>5 DEF A, B
<1>3. Own(k') /\ Cardinality(Coming(q, l)) \in Nat /\ Need(k, q, l) \in Int
  <2>1. k.msgs[q] \in Seq(Msg) /\ MaxMsgs \in Nat
    BY MQAssumption DEF Core, Own
  <2> QED
    BY <2>1, ComingFinite DEF Need, Acts
<1>4. Need(k', q, l) <= Need(k, q, l) + 0 /\ Cardinality(Coming(q, l)) + 0 <= Cardinality(Coming(q, l)')
  BY <1>2, <1>3
<1> QED
  BY <1>3, <1>4, SideChange

(* Where nobody waits, or nothing is there to be had. *)
LEMMA SideTrivial ==
    ASSUME NEW q \in Queue, NEW l \in QueueWait,
           Blocked(q, l)' = {} \/ (Need(k', q, l) \in Int /\ Need(k', q, l) <= 0)
    PROVE  Side(q, l)'
BY ComingFinite DEF Side

(* The queue p gets n messages longer. *)
Longer(p, n) ==
    \A q \in Queue : Len(k'.msgs[q]) = IF q = p THEN Len(k.msgs[q]) + n ELSE Len(k.msgs[q])

LEMMA NeedLemma ==
    ASSUME Core, Own(k'), NEW p, NEW n \in Int, Longer(p, n), NEW q \in Queue, NEW l \in QueueWait
    PROVE  /\ Need(k, q, l) \in Int
           /\ Need(k', q, l) = IF q # p THEN Need(k, q, l)
                               ELSE IF l = "WAIT_MQNOTEMPTY" THEN Need(k, q, l) + n
                               ELSE Need(k, q, l) - n
<1>1. k.msgs[q] \in Seq(Msg) /\ k'.msgs[q] \in Seq(Msg) /\ MaxMsgs \in Nat
  BY MQAssumption DEF Core, Own
<1>2. Len(k'.msgs[q]) = IF q = p THEN Len(k.msgs[q]) + n ELSE Len(k.msgs[q])
  BY DEF Longer
<1> QED
  BY <1>1, <1>2 DEF Need

LEMMA NeedSame ==
    ASSUME Core, k'.msgs = k.msgs, NEW q \in Queue, NEW l \in QueueWait
    PROVE  Need(k', q, l) <= Need(k, q, l)
<1>1. k.msgs[q] \in Seq(Msg) /\ MaxMsgs \in Nat
  BY MQAssumption DEF Core, Own
<1> QED
  BY <1>1 DEF Need

LEMMA InsertLonger ==
    ASSUME Core, NEW p \in Queue, NEW msg \in Msg, NEW i, InsertPos(k.msgs[p], msg, i),
           k'.msgs = [k.msgs EXCEPT ![p] = InsertAt(k.msgs[p], i, msg)]
    PROVE  Longer(p, 1)
<1>1. k.msgs \in [Queue -> Seq(Msg)]
  BY DEF Core, Own
<1>2. Len(InsertAt(k.msgs[p], i, msg)) = Len(k.msgs[p]) + 1
  BY <1>1, InsertLemma DEF InsertPos
<1> QED
  BY <1>1, <1>2 DEF Longer

LEMMA TakeShorter ==
    ASSUME Core, NEW p \in Queue, k.msgs[p] # <<>>, k'.msgs = [k.msgs EXCEPT ![p] = Tail(@)]
    PROVE  Longer(p, -1)
<1>1. k.msgs \in [Queue -> Seq(Msg)]
  BY DEF Core, Own
<1>2. Len(Tail(k.msgs[p])) = Len(k.msgs[p]) + (-1)
  BY <1>1
<1> QED
  BY <1>1, <1>2 DEF Longer

(* Which calls are on the way. *)
LEMMA OnWayOps ==
    ASSUME NEW q, NEW l \in QueueWait, NEW c, NEW s, NEW e
    PROVE  /\ OnWay(q, l, c, s, e) =>
                /\ c.q = q
                /\ IF l = "WAIT_MQNOTEMPTY" THEN c.op \in {"waitrecv", "notify", "detach", "wake"}
                   ELSE c.op \in {"waitsend", "dosend", "doreceive", "wakesend"}
                /\ c.op \in {"waitsend", "waitrecv"} => e = "OK"
           /\ c.q = q /\ l = "WAIT_MQNOTEMPTY" /\ c.op \in {"notify", "detach", "wake"} =>
                OnWay(q, l, c, s, e)
           /\ c.q = q /\ l = "WAIT_MQNOTFULL" /\ c.op \in {"dosend", "doreceive", "wakesend"} =>
                OnWay(q, l, c, s, e)
<1>1. CASE l = "WAIT_MQNOTEMPTY"
  BY <1>1 DEF OnWay, Ops, WaitOp
<1>2. CASE l = "WAIT_MQNOTFULL"
  BY <1>2 DEF OnWay, Ops, WaitOp
<1> QED
  BY <1>1, <1>2 DEF QueueWait

(* mq_send() up to the insertion, and mq_receive() up to the message. *)
LEMMA PrepareSide ==
    ASSUME Core, NEW q \in Queue, NEW l \in QueueWait, Side(q, l), NEW c, Prepares(c)
    PROVE  Side(q, l)'
<1>1. /\ Acts(None, c) /\ call[r].op \in {"user", "waitsend"} /\ c.op = "dosend"
      /\ call[r].op = "waitsend" => c.q = call[r].q
  BY DEF Prepares
<1>2. Blocked(q, l)' = Blocked(q, l) /\ Need(k', q, l) <= Need(k, q, l)
  <2>1. NoMoves
    BY BusyMoves DEF Busy
  <2>2. k'.msgs = k.msgs
    BY DEF Prepares, Same, OwnField
  <2> QED
    BY <2>1, <2>2, NeedSame DEF NoMoves
<1>3. OnWay(q, l, call[r], k.state[r], k.err[r]) => OnWay(q, l, c, k'.state[r], k'.err[r])
  <2>1. SUFFICES ASSUME OnWay(q, l, call[r], k.state[r], k.err[r])
                 PROVE  OnWay(q, l, c, k'.state[r], k'.err[r])
    OBVIOUS
  <2>2. call[r].op = "waitsend" /\ call[r].q = q /\ l = "WAIT_MQNOTFULL"
    BY <1>1, <2>1, OnWayOps DEF QueueWait
  <2> QED
    BY <1>1, <2>2, OnWayOps
<1>4. None \notin Coming(q, l)
  BY MQAssumption DEF Coming
<1> QED
  BY <1>1, <1>2, <1>3, <1>4, SideKeep

LEMMA RoomSide ==
    ASSUME Core, NEW q \in Queue, NEW l \in QueueWait, Side(q, l), NEW c, WaitsRoom(c)
    PROVE  Side(q, l)'
<1>1. /\ Acts(r, c) /\ call[r].op \in {"user", "waitsend"} /\ c.op = "waitsend"
      /\ call[r].op = "waitsend" => c.q = call[r].q
      /\ k'.msgs = k.msgs /\ ~ Room(c.q)
  BY DEF WaitsRoom, Same, OwnField
<1>2. CASE q = c.q /\ l = "WAIT_MQNOTFULL"
  <2>1. k'.msgs[q] \in Seq(Msg) /\ MaxMsgs \in Nat /\ ~ (Len(k'.msgs[q]) < MaxMsgs)
    BY <1>1, <1>2, MQAssumption DEF Core, Own, Room
  <2>2. Need(k', q, l) \in Int /\ Need(k', q, l) <= 0
    BY <1>2, <2>1 DEF Need
  <2> QED
    BY <2>2, SideTrivial
<1>3. CASE ~ (q = c.q /\ l = "WAIT_MQNOTFULL")
  <2>1. Blocked(q, l)' = Blocked(q, l)
    BY <1>3, RoomMoves DEF Joins
  <2>2. ~ OnWay(q, l, call[r], k.state[r], k.err[r])
    BY <1>1, <1>3, OnWayOps DEF QueueWait
  <2> QED
    BY <1>1, <2>1, <2>2, NeedSame, SideKeep
<1> QED
  BY <1>2, <1>3

LEMMA MessageSide ==
    ASSUME Core, NEW q \in Queue, NEW l \in QueueWait, Side(q, l), NEW c, WaitsMessage(c)
    PROVE  Side(q, l)'
<1>1. /\ Acts(r, c) /\ call[r].op \in {"user", "waitrecv"} /\ c.op = "waitrecv"
      /\ call[r].op = "waitrecv" => c.q = call[r].q
      /\ k'.msgs = k.msgs /\ k.msgs[c.q] = <<>>
  BY DEF WaitsMessage, Same, OwnField
<1>2. CASE q = c.q /\ l = "WAIT_MQNOTEMPTY"
  <2>1. Need(k', q, l) = 0
    BY <1>1, <1>2 DEF Need
  <2> QED
    BY <2>1, SideTrivial
<1>3. CASE ~ (q = c.q /\ l = "WAIT_MQNOTEMPTY")
  <2>1. Blocked(q, l)' = Blocked(q, l)
    BY <1>3, MessageMoves DEF Joins
  <2>2. ~ OnWay(q, l, call[r], k.state[r], k.err[r])
    BY <1>1, <1>3, OnWayOps DEF QueueWait
  <2> QED
    BY <1>1, <2>1, <2>2, NeedSame, SideKeep
<1> QED
  BY <1>2, <1>3

LEMMA TakeSide ==
    ASSUME Core, NEW q \in Queue, NEW l \in QueueWait, Side(q, l), NEW c, Takes(c)
    PROVE  Side(q, l)'
<1>1. /\ Acts(None, c) /\ call[r].op \in {"user", "waitrecv"} /\ c.op = "doreceive" /\ c.q \in Queue
      /\ call[r].op = "waitrecv" => c.q = call[r].q
      /\ k.msgs[c.q] # <<>> /\ k'.msgs = [k.msgs EXCEPT ![c.q] = Tail(@)] /\ Own(k')
  BY DEF Takes, Acts
<1>2. Blocked(q, l)' = Blocked(q, l)
  <2>1. NoMoves
    BY BusyMoves DEF Busy
  <2> QED
    BY <2>1 DEF NoMoves
<1>3. /\ Need(k, q, l) \in Int
      /\ Need(k', q, l) = IF q # c.q THEN Need(k, q, l)
                          ELSE IF l = "WAIT_MQNOTEMPTY" THEN Need(k, q, l) + (-1)
                          ELSE Need(k, q, l) - (-1)
  <2> DEFINE n == -1
  <2>1. n \in Int
    OBVIOUS
  <2>2. Longer(c.q, n)
    BY <1>1, TakeShorter, Zenon
  <2> HIDE DEF n
  <2>3. /\ Need(k, q, l) \in Int
        /\ Need(k', q, l) = IF q # c.q THEN Need(k, q, l)
                            ELSE IF l = "WAIT_MQNOTEMPTY" THEN Need(k, q, l) + n
                            ELSE Need(k, q, l) - n
    BY <1>1, <2>1, <2>2, NeedLemma
  <2> QED
    BY <2>3 DEF n
<1>4. None \notin Coming(q, l)
  BY MQAssumption DEF Coming
<1>5. CASE q = c.q /\ l = "WAIT_MQNOTEMPTY"
  <2>1. Need(k', q, l) <= Need(k, q, l) - 1
    BY <1>3, <1>5
  <2> QED
    BY <1>1, <1>2, <2>1, SideLess
<1>6. CASE q = c.q /\ l = "WAIT_MQNOTFULL"
  <2>1. ~ OnWay(q, l, call[r], k.state[r], k.err[r]) /\ OnWay(q, l, c, k'.state[r], k'.err[r])
    BY <1>1, <1>6, OnWayOps
  <2>2. r \notin Coming(q, l) /\ r \in Coming(q, l)'
    BY <1>1, <2>1, ComingFrame
  <2>3. Need(k', q, l) <= Need(k, q, l) + 1
    BY <1>3, <1>6
  <2> QED
    BY <1>1, <1>2, <1>4, <2>1, <2>2, <2>3, SideMore
<1>7. CASE q # c.q
  <2>1. ~ OnWay(q, l, call[r], k.state[r], k.err[r])
    BY <1>1, <1>7, OnWayOps DEF QueueWait
  <2>2. Need(k', q, l) <= Need(k, q, l)
    BY <1>3, <1>7
  <2> QED
    BY <1>1, <1>2, <1>4, <2>1, <2>2, SideKeep
<1> QED
  BY <1>5, <1>6, <1>7 DEF QueueWait

(* mq_dosend(), step by step. *)
LEMMA InsertSide ==
    ASSUME Core, NEW q \in Queue, NEW l \in QueueWait, Side(q, l), NEW c, Inserts(c)
    PROVE  Side(q, l)'
<1>1. Acts(None, c) /\ call[r].op = "dosend" /\ c.op = "notify" /\ c.q = call[r].q /\ Own(k')
  BY DEF Inserts, Acts
<1>2. Blocked(q, l)' = Blocked(q, l)
  <2>1. NoMoves
    BY BusyMoves DEF Busy
  <2> QED
    BY <2>1 DEF NoMoves
<1>3. /\ Need(k, q, l) \in Int
      /\ Need(k', q, l) = IF q # c.q THEN Need(k, q, l)
                          ELSE IF l = "WAIT_MQNOTEMPTY" THEN Need(k, q, l) + 1
                          ELSE Need(k, q, l) - 1
  <2>1. c.q \in Queue /\ call[r].msg \in Msg
    BY <1>1, RunFacts DEF CallOK
  <2>2. Longer(c.q, 1)
    BY <2>1, InsertLonger DEF Inserts
  <2> QED
    BY <1>1, <2>2, NeedLemma
<1>4. None \notin Coming(q, l)
  BY MQAssumption DEF Coming
<1>5. CASE q = c.q /\ l = "WAIT_MQNOTFULL"
  <2>1. Need(k', q, l) <= Need(k, q, l) - 1
    BY <1>3, <1>5
  <2> QED
    BY <1>1, <1>2, <2>1, SideLess
<1>6. CASE q = c.q /\ l = "WAIT_MQNOTEMPTY"
  <2>1. ~ OnWay(q, l, call[r], k.state[r], k.err[r]) /\ OnWay(q, l, c, k'.state[r], k'.err[r])
    BY <1>1, <1>6, OnWayOps
  <2>2. r \notin Coming(q, l) /\ r \in Coming(q, l)'
    BY <1>1, <2>1, ComingFrame
  <2>3. Need(k', q, l) <= Need(k, q, l) + 1
    BY <1>3, <1>6
  <2> QED
    BY <1>1, <1>2, <1>4, <2>1, <2>2, <2>3, SideMore
<1>7. CASE q # c.q
  <2>1. ~ OnWay(q, l, call[r], k.state[r], k.err[r])
    BY <1>1, <1>7, OnWayOps DEF QueueWait
  <2>2. Need(k', q, l) <= Need(k, q, l)
    BY <1>3, <1>7
  <2> QED
    BY <1>1, <1>2, <1>4, <2>1, <2>2, SideKeep
<1> QED
  BY <1>5, <1>6, <1>7 DEF QueueWait

LEMMA TellSide ==
    ASSUME Core, NEW q \in Queue, NEW l \in QueueWait, Side(q, l), NEW c, LooksUp(c) \/ Tells(c)
    PROVE  Side(q, l)'
<1>1. /\ Acts(None, c) /\ call[r].op \in {"notify", "detach"} /\ c.op \in {"detach", "wake"}
      /\ c.q = call[r].q
  BY DEF LooksUp, Tells
<1>2. Blocked(q, l)' = Blocked(q, l) /\ Need(k', q, l) <= Need(k, q, l)
  <2>1. NoMoves
    BY BusyMoves DEF Busy
  <2>2. k'.msgs = k.msgs
    BY DEF LooksUp, Tells, Same, OwnField
  <2> QED
    BY <2>1, <2>2, NeedSame DEF NoMoves
<1>3. OnWay(q, l, call[r], k.state[r], k.err[r]) => OnWay(q, l, c, k'.state[r], k'.err[r])
  <2>1. SUFFICES ASSUME OnWay(q, l, call[r], k.state[r], k.err[r])
                 PROVE  OnWay(q, l, c, k'.state[r], k'.err[r])
    OBVIOUS
  <2>2. call[r].q = q /\ l = "WAIT_MQNOTEMPTY"
    BY <1>1, <2>1, OnWayOps DEF QueueWait
  <2> QED
    BY <1>1, <2>2, OnWayOps
<1>4. None \notin Coming(q, l)
  BY MQAssumption DEF Coming
<1> QED
  BY <1>1, <1>2, <1>3, <1>4, SideKeep

(* A task that was woken without an error is on its way. *)
LEMMA WokenComes ==
    ASSUME Core, NEW t \in Task, t # r, NEW c, Acts(t, c), NEW l \in QueueWait, k.state[t] = l,
           k'.state[t] \notin QueueState, k'.err[t] = k.err[t], NEW q \in Queue, k.waitq[t] = q
    PROVE  t \in Coming(q, l)'
<1>1. r \in Task /\ call \in [Task -> Call] /\ WaitOK(k, call[t], t)
  BY RunFacts DEF Core
<1>2. call'[t] = call[t]
  BY <1>1 DEF Acts
<1>3. call[t].op = WaitOp(l) /\ call[t].q = q /\ k.err[t] = "OK"
  BY <1>1 DEF WaitOK, WaitOp, QueueWait
<1>4. k'.state[t] \notin {l, "INVALID"}
  BY DEF QueueState, QueueWait
<1>5. OnWay(q, l, call'[t], k'.state[t], k'.err[t])
  BY <1>2, <1>3, <1>4 DEF OnWay
<1> QED
  BY <1>5 DEF Coming

LEMMA ReceiverSide ==
    ASSUME Core, NEW q \in Queue, NEW l \in QueueWait, Side(q, l), NEW t \in Task, WakesReceiver(t)
    PROVE  Side(q, l)'
<1>1. /\ Acts(t, UserCall) /\ call[r].op = "wake" /\ UserCall.op = "user"
      /\ k.state[t] = "WAIT_MQNOTEMPTY" /\ k.waitq[t] = call[r].q
      /\ k'.state[t] \notin QueueState
  BY UserCallOK DEF WakesReceiver
<1>2. /\ Leaves(t, call[r].q, "WAIT_MQNOTEMPTY") /\ call[r].q \in Queue
      /\ k'.err = k.err /\ k'.msgs = k.msgs
  BY ReceiverMoves DEF WakesReceiver, Same, OwnField
<1>3. Blocked(q, l)' # {} => Blocked(q, l) # {}
  BY <1>2 DEF Leaves
<1>4. t \notin Coming(q, l) /\ t # r
  BY <1>1, RunFacts, WaitingStays DEF QueueWait
<1>5. CASE q = call[r].q /\ l = "WAIT_MQNOTEMPTY"
  <2>1. t \in Coming(q, l)'
    BY <1>1, <1>2, <1>4, <1>5, WokenComes
  <2> QED
    BY <1>1, <1>2, <1>3, <1>4, <2>1, NeedSame, SideSwap
<1>6. CASE ~ (q = call[r].q /\ l = "WAIT_MQNOTEMPTY")
  <2>1. ~ OnWay(q, l, call[r], k.state[r], k.err[r])
    BY <1>1, <1>6, OnWayOps DEF QueueWait
  <2> QED
    BY <1>1, <1>2, <1>3, <1>4, <2>1, NeedSame, SideKeep
<1> QED
  BY <1>5, <1>6

(* A count of 0 says that nobody waits. *)
LEMMA NoneWaits ==
    ASSUME WaitersCounted, NEW q \in Queue
    PROVE  /\ k.empty[q] <= 0 => Blocked(q, "WAIT_MQNOTEMPTY") = {}
           /\ ~ (k.full[q] > 0) => Blocked(q, "WAIT_MQNOTFULL") = {}
<1>1. ASSUME NEW l \in QueueWait, ~ (Cardinality(Blocked(q, l)) > 0) PROVE Blocked(q, l) = {}
  BY <1>1, BlockedFinite
<1>2. ASSUME k.empty[q] <= 0 PROVE Blocked(q, "WAIT_MQNOTEMPTY") = {}
  <2>1. /\ Cardinality(Blocked(q, "WAIT_MQNOTEMPTY")) <= 0
        /\ Cardinality(Blocked(q, "WAIT_MQNOTEMPTY")) \in Nat
    BY <1>2, BlockedFinite DEF WaitersCounted
  <2> QED
    BY <1>1, <2>1 DEF QueueWait
<1>3. ASSUME ~ (k.full[q] > 0) PROVE Blocked(q, "WAIT_MQNOTFULL") = {}
  BY <1>1, <1>3 DEF WaitersCounted, QueueWait
<1> QED
  BY <1>2, <1>3

LEMMA NobodySide ==
    ASSUME Core, WaitersCounted, NEW q \in Queue, NEW l \in QueueWait, Side(q, l), WakesNobody
    PROVE  Side(q, l)'
<1>1. /\ Acts(None, UserCall) /\ call[r].op = "wake" /\ UserCall.op = "user"
      /\ k.empty[call[r].q] <= 0
  BY UserCallOK DEF WakesNobody
<1>2. Blocked(q, l)' = Blocked(q, l) /\ k'.msgs = k.msgs
  BY OtherMoves DEF Other, NoMoves
<1>3. CASE q = call[r].q /\ l = "WAIT_MQNOTEMPTY"
  BY <1>1, <1>2, <1>3, NoneWaits, SideTrivial
<1>4. CASE ~ (q = call[r].q /\ l = "WAIT_MQNOTEMPTY")
  <2>1. ~ OnWay(q, l, call[r], k.state[r], k.err[r])
    BY <1>1, <1>4, OnWayOps DEF QueueWait
  <2>2. None \notin Coming(q, l)
    BY MQAssumption DEF Coming
  <2> QED
    BY <1>1, <1>2, <2>1, <2>2, NeedSame, SideKeep
<1> QED
  BY <1>3, <1>4

(* An interrupt handler that sends brings a receiver with the message. *)
LEMMA IsrSide ==
    ASSUME Core, WaitersCounted, NEW q \in Queue, NEW l \in QueueWait, Side(q, l),
           NEW p \in Queue, NEW t \in Task \cup {None}, IsrSends(p, t)
    PROVE  Side(q, l)'
<1>1. /\ Acts(t, call[r]) /\ call[r].op \notin {"waitsend", "waitrecv", "delete"} /\ Own(k')
      /\ k'.err = k.err
  BY DEF IsrSends, Acts, Same, OwnField
<1>2. /\ Need(k, q, l) \in Int
      /\ Need(k', q, l) = IF q # p THEN Need(k, q, l)
                          ELSE IF l = "WAIT_MQNOTEMPTY" THEN Need(k, q, l) + 1
                          ELSE Need(k, q, l) - 1
  <2>1. Longer(p, 1)
    BY InsertLonger DEF IsrSends
  <2> QED
    BY <1>1, <2>1, NeedLemma
<1>3. OnWay(q, l, call[r], k.state[r], k.err[r]) => OnWay(q, l, call[r], k'.state[r], k'.err[r])
  BY <1>1 DEF OnWay, WaitOp
<1>4. t \notin Coming(q, l)
  <2>1. CASE t = None
    BY <2>1, MQAssumption DEF Coming
  <2>2. CASE t # None
    BY <2>2, WaitingStays DEF IsrSends, QueueWait
  <2> QED
    BY <2>1, <2>2
<1>5. Blocked(q, l)' # {} => Blocked(q, l) # {}
  BY IsrMoves DEF NoMoves, Leaves
<1>6. CASE ~ (q = p /\ l = "WAIT_MQNOTEMPTY")
  <2>1. Need(k', q, l) <= Need(k, q, l)
    BY <1>2, <1>6
  <2> QED
    BY <1>1, <1>3, <1>4, <1>5, <2>1, SideKeep
<1>7. CASE q = p /\ l = "WAIT_MQNOTEMPTY" /\ t = None
  <2>1. k.empty[q] <= 0 /\ Blocked(q, l)' = Blocked(q, l)
    BY <1>7, IsrMoves DEF NoMoves, IsrSends
  <2>2. Blocked(q, l) = {}
    BY <1>7, <2>1, NoneWaits
  <2> QED
    BY <2>1, <2>2, SideTrivial
<1>8. CASE q = p /\ l = "WAIT_MQNOTEMPTY" /\ t # None
  <2>1. t \in Task /\ k.state[t] = l /\ k.waitq[t] = q /\ k'.state[t] \notin QueueState /\ k'.err[t] = k.err[t]
    BY <1>8 DEF IsrSends
  <2>2. t # r
    BY <2>1, RunFacts DEF QueueWait
  <2>3. t \in Coming(q, l)'
    BY <1>1, <2>1, <2>2, WokenComes
  <2>4. Need(k', q, l) <= Need(k, q, l) + 1
    BY <1>2, <1>8
  <2> QED
    BY <1>1, <1>3, <1>4, <1>5, <2>3, <2>4, SideMore
<1> QED
  BY <1>6, <1>7, <1>8

(* mq_doreceive(): nwaitnotfull is looked at with interrupts enabled. *)
LEMMA FreeSide ==
    ASSUME Core, WaitersCounted, NEW q \in Queue, NEW l \in QueueWait, Side(q, l), NEW c, Frees(c)
    PROVE  Side(q, l)'
<1>1. /\ Acts(None, c) /\ call[r].op = "doreceive" /\ k'.msgs = k.msgs
      /\ IF k.full[call[r].q] > 0 THEN c.op = "wakesend" /\ c.q = call[r].q ELSE c = UserCall
  BY DEF Frees, Same, OwnField
<1>2. Blocked(q, l)' = Blocked(q, l)
  <2>1. NoMoves
    BY BusyMoves DEF Busy
  <2> QED
    BY <2>1 DEF NoMoves
<1>3. None \notin Coming(q, l)
  BY MQAssumption DEF Coming
<1>4. CASE q = call[r].q /\ l = "WAIT_MQNOTFULL" /\ ~ (k.full[call[r].q] > 0)
  BY <1>2, <1>4, NoneWaits, SideTrivial
<1>5. CASE q = call[r].q /\ l = "WAIT_MQNOTFULL" /\ k.full[call[r].q] > 0
  <2>1. OnWay(q, l, c, k'.state[r], k'.err[r])
    BY <1>1, <1>5, OnWayOps
  <2> QED
    BY <1>1, <1>2, <1>3, <2>1, NeedSame, SideKeep
<1>6. CASE ~ (q = call[r].q /\ l = "WAIT_MQNOTFULL")
  <2>1. ~ OnWay(q, l, call[r], k.state[r], k.err[r])
    BY <1>1, <1>6, OnWayOps DEF QueueWait
  <2> QED
    BY <1>1, <1>2, <1>3, <2>1, NeedSame, SideKeep
<1> QED
  BY <1>4, <1>5, <1>6

LEMMA SenderSide ==
    ASSUME Core, NEW q \in Queue, NEW l \in QueueWait, Side(q, l), NEW t \in Task, WakesSender(t)
    PROVE  Side(q, l)'
<1>1. /\ Acts(t, UserCall) /\ call[r].op = "wakesend" /\ UserCall.op = "user"
      /\ k.state[t] = "WAIT_MQNOTFULL" /\ k.waitq[t] = call[r].q
      /\ k'.state[t] \notin QueueState
  BY UserCallOK DEF WakesSender
<1>2. /\ Leaves(t, call[r].q, "WAIT_MQNOTFULL") /\ call[r].q \in Queue
      /\ k'.err = k.err /\ k'.msgs = k.msgs
  BY SenderMoves DEF WakesSender, Same, OwnField
<1>3. Blocked(q, l)' # {} => Blocked(q, l) # {}
  BY <1>2 DEF Leaves
<1>4. t \notin Coming(q, l) /\ t # r
  BY <1>1, RunFacts, WaitingStays DEF QueueWait
<1>5. CASE q = call[r].q /\ l = "WAIT_MQNOTFULL"
  <2>1. t \in Coming(q, l)'
    BY <1>1, <1>2, <1>4, <1>5, WokenComes
  <2> QED
    BY <1>1, <1>2, <1>3, <1>4, <2>1, NeedSame, SideSwap
<1>6. CASE ~ (q = call[r].q /\ l = "WAIT_MQNOTFULL")
  <2>1. ~ OnWay(q, l, call[r], k.state[r], k.err[r])
    BY <1>1, <1>6, OnWayOps DEF QueueWait
  <2> QED
    BY <1>1, <1>2, <1>3, <1>4, <2>1, NeedSame, SideKeep
<1> QED
  BY <1>5, <1>6

LEMMA NoSenderSide ==
    ASSUME Core, NEW q \in Queue, NEW l \in QueueWait, Side(q, l), WakesNoSender
    PROVE  Side(q, l)'
<1>1. /\ Acts(None, UserCall) /\ call[r].op = "wakesend" /\ UserCall.op = "user"
      /\ \A t \in Task : ~ (k.state[t] = "WAIT_MQNOTFULL" /\ k.waitq[t] = call[r].q)
  BY UserCallOK DEF WakesNoSender
<1>2. Blocked(q, l)' = Blocked(q, l) /\ k'.msgs = k.msgs
  BY OtherMoves DEF Other, NoMoves
<1>3. CASE q = call[r].q /\ l = "WAIT_MQNOTFULL"
  <2>1. Blocked(q, l) = {}
    BY <1>1, <1>3 DEF Blocked
  <2> QED
    BY <1>2, <2>1, SideTrivial
<1>4. CASE ~ (q = call[r].q /\ l = "WAIT_MQNOTFULL")
  <2>1. ~ OnWay(q, l, call[r], k.state[r], k.err[r])
    BY <1>1, <1>4, OnWayOps DEF QueueWait
  <2>2. None \notin Coming(q, l)
    BY MQAssumption DEF Coming
  <2> QED
    BY <1>1, <1>2, <2>1, <2>2, NeedSame, SideKeep
<1> QED
  BY <1>3, <1>4

(* Calls that end with an error, and those of other services. *)
LEMMA EndSide ==
    ASSUME Core, NEW q \in Queue, NEW l \in QueueWait, Side(q, l), NEW t \in Task, EndsWait(t)
    PROVE  Side(q, l)'
<1>1. /\ Acts(t, call[r]) /\ call[r].op \notin {"waitsend", "waitrecv"} /\ k.state[t] \in QueueWait
  BY DEF EndsWait
<1>2. Leaves(t, k.waitq[t], k.state[t]) /\ k'.msgs = k.msgs
  BY EndMoves
<1>3. Blocked(q, l)' # {} => Blocked(q, l) # {}
  BY <1>2 DEF Leaves
<1>4. OnWay(q, l, call[r], k.state[r], k.err[r]) => OnWay(q, l, call[r], k'.state[r], k'.err[r])
  BY <1>1 DEF OnWay, WaitOp
<1> QED
  BY <1>1, <1>2, <1>3, <1>4, WaitingStays, NeedSame, SideKeep

LEMMA OtherSide ==
    ASSUME Core, NEW q \in Queue, NEW l \in QueueWait, Side(q, l),
           \/ GivesUp \/ Quiet \/ FindsSignal \/ \E p \in Queue, on \in BOOLEAN : Registers(p, on)
    PROVE  Side(q, l)'
<1>1. Blocked(q, l)' = Blocked(q, l) /\ k'.msgs = k.msgs
  BY OtherMoves DEF Other, NoMoves
<1>2. None \notin Coming(q, l) /\ r # None
  BY RunFacts, MQAssumption DEF Coming
<1>3. CASE GivesUp
  <2>1. /\ Acts(None, UserCall) /\ UserCall.op = "user" /\ k.err[r] # "OK"
        /\ call[r].op \in {"waitsend", "waitrecv"}
    BY <1>3, UserCallOK DEF GivesUp
  <2>2. ~ OnWay(q, l, call[r], k.state[r], k.err[r])
    BY <2>1, OnWayOps
  <2> QED
    BY <1>1, <1>2, <2>1, <2>2, NeedSame, SideKeep
<1>4. CASE ~ GivesUp
  <2>1. Acts(None, call[r])
    BY <1>4 DEF Quiet, FindsSignal, Registers
  <2>2. k'.state[r] \notin QueueState /\ k'.err[r] = k.err[r]
    BY <1>2, <2>1, ComingFrame
  <2>3. OnWay(q, l, call[r], k.state[r], k.err[r]) => OnWay(q, l, call[r], k'.state[r], k'.err[r])
    BY <2>2 DEF OnWay, QueueState, QueueWait
  <2> QED
    BY <1>1, <1>2, <2>1, <2>3, NeedSame, SideKeep
<1> QED
  BY <1>3, <1>4

LEMMA DeleteSide ==
    ASSUME Core, NEW q \in Queue, NEW l \in QueueWait, Side(q, l), NEW t \in Task,
           (\E c : Deletes(c, t)) \/ Buries(t)
    PROVE  Side(q, l)'
<1>1. ASSUME NEW c, Deletes(c, t) PROVE Side(q, l)'
  <2>1. /\ Acts(None, c) /\ call[r].op = "user" /\ k'.msgs = k.msgs
    BY <1>1 DEF Deletes, Same, OwnField
  <2>2. Blocked(q, l)' # {} => Blocked(q, l) # {}
    BY <1>1, DeleteMoves DEF NoMoves, Leaves
  <2>3. ~ OnWay(q, l, call[r], k.state[r], k.err[r]) /\ None \notin Coming(q, l)
    BY <2>1, OnWayOps, MQAssumption DEF Coming
  <2> QED
    BY <2>1, <2>2, <2>3, NeedSame, SideKeep
<1>2. CASE Buries(t)
  <2>1. /\ Acts(t, UserCall) /\ call[r].op = "delete" /\ t = call[r].tcb /\ k'.msgs = k.msgs
    BY <1>2 DEF Buries, Same, OwnField
  <2>2. Blocked(q, l)' # {} => Blocked(q, l) # {}
    BY <1>2, BuryMoves DEF NoMoves
  <2>3. ~ OnWay(q, l, call[r], k.state[r], k.err[r])
    BY <2>1, OnWayOps
  <2>4. t \notin Coming(q, l)
    <3>1. call[t].op = "user" \/ k.waitq[t] # None
      BY <2>1, RunFacts DEF Core, DeleteOK
    <3>2. CASE call[t].op = "user"
      BY <3>2, OnWayOps DEF Coming
    <3>3. CASE k.waitq[t] # None
      <4>1. k.state[t] \in QueueWait
        BY <3>3 DEF Core, WaitOK, QueueWait
      <4> QED
        BY <4>1, WaitingStays
    <3> QED
      BY <3>1, <3>2, <3>3
  <2> QED
    BY <2>1, <2>2, <2>3, <2>4, NeedSame, SideKeep
<1> QED
  BY <1>1, <1>2

(* NoLostWakeup is preserved. *)
LEMMA WakeupKind ==
    ASSUME Core, WaitersCounted, NoLostWakeup, Kind
    PROVE  NoLostWakeup'
<1>1. SUFFICES ASSUME NEW q \in Queue, NEW l \in QueueWait PROVE Side(q, l)'
  BY SideLemma
<1>2. Side(q, l)
  BY SideLemma
<1> QED
  BY <1>2, PrepareSide, RoomSide, MessageSide, TakeSide, InsertSide, TellSide, ReceiverSide,
     NobodySide, IsrSide, FreeSide, SenderSide, NoSenderSide, EndSide, OtherSide, DeleteSide DEF Kind

-----------------------------------------------------------------------------
(* The notification of mq_notify(). *)

(* Only the running task can be between the look-up and the signal. *)
Telling(c, t) == c.op = "detach" /\ c.tcb = t

LEMMA DetachStep ==
    ASSUME Core, NEW t, NEW c, Acts(t, c), c.op = "detach" => k'.nt[c.q] \in {None, c.tcb}
    PROVE  Detaching'
<1>1. r \in Task /\ call \in [Task -> Call] /\ \A u \in Task \ {r} : call[u].op # "detach"
  BY RunFacts DEF Core, OffCpu
<1>2. call'[r] = c /\ \A u \in Task \ {r} : call'[u] = call[u]
  BY <1>1 DEF Acts
<1> QED
  BY <1>1, <1>2 DEF Detaching

LEMMA DetachKind ==
    ASSUME Core, Detaching, Kind
    PROVE  Detaching'
<1>1. /\ r \in Task /\ UserCall.op = "user" /\ k.nt \in [Queue -> Task \cup {None}]
      /\ call[r].op = "detach" => k.nt[call[r].q] \in {None, call[r].tcb} /\ call[r].q \in Queue
  BY RunFacts, UserCallOK DEF Detaching, Own, CallOK
<1>2. ASSUME NEW c, NEW t, Acts(t, c), c.op # "detach" PROVE Detaching'
  BY <1>2, DetachStep
<1>3. ASSUME NEW c, \/ Prepares(c) \/ WaitsRoom(c) \/ Takes(c) \/ WaitsMessage(c)
                    \/ Inserts(c) \/ Tells(c) \/ Frees(c) \/ \E t \in Task : Deletes(c, t)
      PROVE  Detaching'
  <2>1. \E t : Acts(t, c)
    BY <1>3 DEF Prepares, WaitsRoom, Takes, WaitsMessage, Inserts, Tells, Frees, Deletes
  <2>2. c.op # "detach"
    BY <1>1, <1>3 DEF Prepares, WaitsRoom, Takes, WaitsMessage, Inserts, Tells, Frees, Deletes
  <2> QED
    BY <1>2, <2>1, <2>2
<1>4. ASSUME NEW c, LooksUp(c) PROVE Detaching'
  <2>1. Acts(None, c) /\ (c.op = "detach" => c.tcb = k.nt[c.q]) /\ k'.nt = k.nt
    BY <1>4 DEF LooksUp, Same, OwnField
  <2> QED
    BY <2>1, DetachStep
<1>5. CASE GivesUp \/ WakesNobody \/ WakesNoSender \/ \E t \in Task : WakesReceiver(t) \/ WakesSender(t) \/ Buries(t)
  <2>1. \E t : Acts(t, UserCall)
    BY <1>5 DEF GivesUp, WakesNobody, WakesNoSender, WakesReceiver, WakesSender, Buries
  <2> QED
    BY <1>1, <1>2, <2>1
<1>6. CASE Quiet \/ \E t \in Task : EndsWait(t)
  <2>1. (\E t : Acts(t, call[r])) /\ k'.nt = k.nt
    BY <1>6 DEF Quiet, EndsWait, Same, OwnField
  <2> QED
    BY <1>1, <2>1, DetachStep
<1>7. CASE FindsSignal \/ \E q \in Queue, on \in BOOLEAN : Registers(q, on)
  <2>1. Acts(None, call[r]) /\ call[r].op = "user"
    BY <1>7 DEF FindsSignal, Registers
  <2> QED
    BY <1>2, <2>1
<1>8. ASSUME NEW q \in Queue, NEW t \in Task \cup {None}, IsrSends(q, t) PROVE Detaching'
  <2>1. Acts(t, call[r]) /\ k'.nt = [k.nt EXCEPT ![q] = None]
    BY <1>8 DEF IsrSends
  <2> QED
    BY <1>1, <2>1, DetachStep
<1> QED
  BY <1>3, <1>4, <1>5, <1>6, <1>7, <1>8 DEF Kind

LEMMA TellingLemma ==
    ASSUME Core
    PROVE  NotifyNotLost <=>
             \A t \in owed : (\E q \in Queue : k.nt[q] = t) \/ t \in k.pend \/ Telling(call[r], t)
<1>1. r \in Task /\ \A u \in Task \ {r} : call[u].op # "detach"
  BY RunFacts DEF Core, OffCpu
<1> QED
  BY <1>1 DEF NotifyNotLost, Telling

LEMMA TellingStep ==
    ASSUME Core, NEW x, NEW c, Acts(x, c),
           \A t \in owed' : (\E q \in Queue : k'.nt[q] = t) \/ t \in k'.pend \/ Telling(c, t)
    PROVE  NotifyNotLost'
<1>1. r \in Task /\ call \in [Task -> Call]
  BY RunFacts
<1>2. call'[r] = c
  BY <1>1 DEF Acts
<1> QED
  BY <1>1, <1>2 DEF NotifyNotLost, Telling

LEMMA NotifyKind ==
    ASSUME Core, Detaching, NotifyNotLost, owed \subseteq Task, Kind
    PROVE  NotifyNotLost' /\ owed' \subseteq Task
<1>1. /\ r \in Task /\ UserCall.op = "user" /\ k.nt \in [Queue -> Task \cup {None}]
      /\ k.pend \subseteq Task /\ None \notin Task
      /\ call[r].op = "detach" => k.nt[call[r].q] \in {None, call[r].tcb} /\ call[r].q \in Queue
  BY RunFacts, UserCallOK, MQAssumption DEF Detaching, Own, CallOK
<1>2. \A t \in owed : (\E q \in Queue : k.nt[q] = t) \/ t \in k.pend \/ Telling(call[r], t)
  BY TellingLemma
(* Steps that leave the registrations alone. *)
<1>3. ASSUME NEW x, NEW c, Acts(x, c), k'.nt = k.nt, k'.pend = k.pend, owed' = owed,
             call[r].op # "detach" \/ c = call[r]
      PROVE  NotifyNotLost' /\ owed' \subseteq Task
  <2>1. \A t \in owed' : (\E q \in Queue : k'.nt[q] = t) \/ t \in k'.pend \/ Telling(c, t)
    BY <1>2, <1>3 DEF Telling
  <2> QED
    BY <1>3, <2>1, TellingStep
<1>4. ASSUME NEW c, \/ Prepares(c) \/ WaitsRoom(c) \/ Takes(c) \/ WaitsMessage(c)
                    \/ Inserts(c) \/ LooksUp(c) \/ Frees(c) \/ \E t \in Task : Deletes(c, t)
      PROVE  NotifyNotLost' /\ owed' \subseteq Task
  <2>1. (\E x : Acts(x, c)) /\ owed' = owed /\ call[r].op # "detach"
    BY <1>4 DEF Prepares, WaitsRoom, Takes, WaitsMessage, Inserts, LooksUp, Frees, Deletes
  <2>2. k'.nt = k.nt /\ k'.pend = k.pend
    BY <1>4 DEF Prepares, WaitsRoom, Takes, WaitsMessage, Inserts, LooksUp, Frees, Deletes,
                Same, OwnField
  <2> QED
    BY <1>3, <2>1, <2>2
<1>5. CASE GivesUp \/ WakesNobody \/ WakesNoSender \/ \E t \in Task : WakesReceiver(t) \/ WakesSender(t)
  <2>1. (\E x : Acts(x, UserCall)) /\ owed' = owed /\ call[r].op # "detach"
    BY <1>5 DEF GivesUp, WakesNobody, WakesNoSender, WakesReceiver, WakesSender
  <2>2. k'.nt = k.nt /\ k'.pend = k.pend
    BY <1>5 DEF GivesUp, WakesNobody, WakesNoSender, WakesReceiver, WakesSender, Same, OwnField
  <2> QED
    BY <1>3, <2>1, <2>2
<1>6. CASE Quiet \/ \E t \in Task : EndsWait(t)
  <2>1. (\E x : Acts(x, call[r])) /\ owed' = owed /\ k'.nt = k.nt /\ k'.pend = k.pend
    BY <1>6 DEF Quiet, EndsWait, Same, OwnField
  <2> QED
    BY <1>3, <2>1
(* A sender and an interrupt handler take a registration off. *)
<1>7. ASSUME NEW c, Tells(c) PROVE NotifyNotLost' /\ owed' \subseteq Task
  <2>1. /\ Acts(None, c) /\ call[r].op = "detach" /\ c.q = call[r].q
        /\ k'.nt = [k.nt EXCEPT ![c.q] = None] /\ k.pend \subseteq k'.pend
        /\ owed' = IF call[r].tcb \in k'.pend THEN owed ELSE owed \ {call[r].tcb}
    BY <1>7 DEF Tells
  <2>2. ASSUME NEW t \in owed'
        PROVE  (\E q \in Queue : k'.nt[q] = t) \/ t \in k'.pend \/ Telling(c, t)
    <3>1. t \in owed /\ t \in Task /\ (t = call[r].tcb => t \in k'.pend)
      BY <2>1
    <3>2. ASSUME NEW q \in Queue, k.nt[q] = t PROVE k'.nt[q] = t \/ t \in k'.pend
      BY <1>1, <2>1, <3>1, <3>2
    <3> QED
      BY <1>2, <2>1, <3>1, <3>2 DEF Telling
  <2> QED
    BY <2>1, <2>2, TellingStep
<1>8. ASSUME NEW p \in Queue, NEW x \in Task \cup {None}, IsrSends(p, x)
      PROVE  NotifyNotLost' /\ owed' \subseteq Task
  <2>1. /\ Acts(x, call[r])
        /\ k'.nt = [k.nt EXCEPT ![p] = None] /\ k.pend \subseteq k'.pend
        /\ owed' = IF k.nt[p] \in k'.pend THEN owed ELSE owed \ {k.nt[p]}
    BY <1>8 DEF IsrSends
  <2>2. ASSUME NEW t \in owed'
        PROVE  (\E q \in Queue : k'.nt[q] = t) \/ t \in k'.pend \/ Telling(call[r], t)
    <3>1. t \in owed /\ (t = k.nt[p] => t \in k'.pend)
      BY <2>1
    <3>2. ASSUME NEW q \in Queue, k.nt[q] = t PROVE k'.nt[q] = t \/ t \in k'.pend
      BY <1>1, <2>1, <3>1, <3>2
    <3> QED
      BY <1>2, <2>1, <3>1, <3>2
  <2> QED
    BY <2>1, <2>2, TellingStep
(* A task registers, finds its signal, or is deleted. *)
<1>9. ASSUME NEW p \in Queue, NEW on \in BOOLEAN, Registers(p, on)
      PROVE  NotifyNotLost' /\ owed' \subseteq Task
  <2>1. /\ Acts(None, call[r]) /\ call[r].op = "user"
        /\ k.nt[p] = IF on THEN None ELSE r
        /\ k'.nt = [k.nt EXCEPT ![p] = IF on THEN r ELSE None] /\ k'.pend = k.pend
        /\ owed' = IF on THEN owed \cup {r} ELSE owed \ {r}
    BY <1>9 DEF Registers, Same, OwnField
  <2>2. ASSUME NEW t \in owed'
        PROVE  (\E q \in Queue : k'.nt[q] = t) \/ t \in k'.pend \/ Telling(call[r], t)
    <3>1. CASE t = r
      BY <1>1, <2>1, <3>1
    <3>2. CASE t # r
      <4>1. t \in owed /\ t # None
        BY <1>1, <2>1, <3>2
      <4>2. ASSUME NEW q \in Queue, k.nt[q] = t PROVE k'.nt[q] = t
        BY <1>1, <2>1, <3>2, <4>1, <4>2
      <4> QED
        BY <1>2, <2>1, <4>1, <4>2
    <3> QED
      BY <3>1, <3>2
  <2> QED
    BY <1>1, <2>1, <2>2, TellingStep
<1>10. CASE FindsSignal
  <2>1. /\ Acts(None, call[r]) /\ k'.nt = k.nt /\ k'.pend = k.pend \ {r} /\ owed' = owed \ {r}
    BY <1>10 DEF FindsSignal, Same, OwnField
  <2>2. \A t \in owed' : (\E q \in Queue : k'.nt[q] = t) \/ t \in k'.pend \/ Telling(call[r], t)
    BY <1>2, <2>1
  <2> QED
    BY <2>1, <2>2, TellingStep
<1>11. ASSUME NEW x \in Task, Buries(x) PROVE NotifyNotLost' /\ owed' \subseteq Task
  <2>1. /\ Acts(x, UserCall) /\ call[r].op = "delete"
        /\ k'.nt = [q \in Queue |-> IF k.nt[q] = x THEN None ELSE k.nt[q]]
        /\ k'.pend = k.pend \ {x} /\ owed' = owed \ {x}
    BY <1>11 DEF Buries
  <2>2. ASSUME NEW t \in owed'
        PROVE  (\E q \in Queue : k'.nt[q] = t) \/ t \in k'.pend \/ Telling(UserCall, t)
    <3>1. t \in owed /\ t # x
      BY <2>1
    <3>2. ASSUME NEW q \in Queue, k.nt[q] = t PROVE k'.nt[q] = t
      BY <2>1, <3>1, <3>2
    <3> QED
      BY <1>2, <2>1, <3>1, <3>2 DEF Telling
  <2> QED
    BY <2>1, <2>2, TellingStep
<1> QED
  BY <1>4, <1>5, <1>6, <1>7, <1>8, <1>9, <1>10, <1>11 DEF Kind

-----------------------------------------------------------------------------
(* Inv is inductive where no interrupt comes between mq_recover() and the  *)
(* unlinking of the task that is deleted.                                  *)
LEMMA Inductive ==
    ASSUME "window" \notin Api, Inv, [Next]_vars
    PROVE  Inv'
<1>1. CASE Next
  <2>1. /\ Core /\ WaitersCounted /\ NoLostWakeup /\ Detaching /\ NotifyNotLost
        /\ owed \subseteq Task
    BY DEF Inv
  <2>2. Kind
    BY <1>1, <2>1, NextKind
  <2> QED
    BY <2>1, <2>2, CoreKind, CountedKind, WakeupKind, DetachKind, NotifyKind DEF Inv
<1>2. CASE UNCHANGED vars
  <2>1. k' = k /\ call' = call /\ owed' = owed
    BY <1>2 DEF vars
  <2>2. Core' <=> Core
    BY <2>1 DEF Core, r
  <2>3. ASSUME NEW q, NEW l PROVE Blocked(q, l)' = Blocked(q, l) /\ Coming(q, l)' = Coming(q, l)
    BY <2>1 DEF Blocked, Deleting, Coming
  <2>4. WaitersCounted' <=> WaitersCounted
    BY <2>1, <2>3 DEF WaitersCounted
  <2>5. NoLostWakeup' <=> NoLostWakeup
    BY <2>1, <2>3, SideLemma DEF Side
  <2>6. (Detaching' <=> Detaching) /\ (NotifyNotLost' <=> NotifyNotLost)
    BY <2>1 DEF Detaching, NotifyNotLost
  <2> QED
    BY <2>1, <2>2, <2>4, <2>5, <2>6 DEF Inv
<1> QED
  BY <1>1, <1>2

LEMMA Invariance == ASSUME "window" \notin Api PROVE Spec => []Inv
<1>1. Inv /\ [Next]_vars => Inv'
  BY Inductive
<1> QED
  BY <1>1, InitInv, PTL DEF Spec

(* nwaitnotempty and nwaitnotfull are the numbers of the tasks that wait,  *)
(* whoever ends their wait: mq_dosend(), mq_doreceive(), mq_waitirq() for  *)
(* a watchdog or a signal, mq_recover().  An interrupt between             *)
(* mq_recover() and the unlinking of the TCB could count a task twice.     *)
THEOREM WaitersCountedHolds == ASSUME "window" \notin Api PROVE Spec => []WaitersCounted
<1>1. Inv => WaitersCounted
  BY DEF Inv
<1> QED
  BY <1>1, Invariance, PTL

(* As long as a task waits in mq_receive(), each message of the queue has  *)
(* a task on its way to it: a receiver that was woken, or a sender that    *)
(* has not yet reached the end of mq_dosend().  As long as one waits in    *)
(* mq_send(), the same holds for each free place.  Timeouts, signals,      *)
(* other receivers that come first and messages of interrupt handlers      *)
(* included.                                                               *)
THEOREM NoLostWakeupHolds == ASSUME "window" \notin Api PROVE Spec => []NoLostWakeup
<1>1. Inv => NoLostWakeup
  BY DEF Inv
<1> QED
  BY <1>1, Invariance, PTL

(* mq_dosend() reads ntpid and clears it in two steps that an interrupt    *)
(* handler's mq_send() may come between: the task that registered with     *)
(* mq_notify() is told all the same.                                       *)
THEOREM NotifyNotLostHolds == ASSUME "window" \notin Api PROVE Spec => []NotifyNotLost
<1>1. Inv => NotifyNotLost
  BY DEF Inv
<1> QED
  BY <1>1, Invariance, PTL

-----------------------------------------------------------------------------
(* The refinement of MQueueSpec: the messages of a queue without the free  *)
(* lists, and what the tasks have in their hands.                          *)
PlainMsg == [prio : MsgPrio, isr : BOOLEAN]

LEMMA AbsLemma ==
    ASSUME NEW s \in Seq(Msg)
    PROVE  /\ Abs(s) \in Seq(PlainMsg) /\ Len(Abs(s)) = Len(s)
           /\ \A i \in 1 .. Len(s) : Abs(s)[i] = Plain(s[i]) /\ Plain(s[i]) \in PlainMsg
<1>1. \A i \in 1 .. Len(s) : s[i] \in Msg
  OBVIOUS
<1>2. \A i \in 1 .. Len(s) : Plain(s[i]) \in PlainMsg
  BY <1>1 DEF Msg, Plain, PlainMsg
<1>3. Abs(s) = [i \in 1 .. Len(s) |-> Plain(s[i])]
  BY DEF Abs
<1>4. Len(s) \in Nat
  OBVIOUS
<1> HIDE DEF Abs, Plain, PlainMsg
<1> QED
  BY <1>2, <1>3, <1>4

LEMMA SameSeq ==
    ASSUME NEW S, NEW s \in Seq(S), NEW u \in Seq(S), Len(s) = Len(u),
           \A i \in 1 .. Len(s) : s[i] = u[i]
    PROVE  s = u
OBVIOUS

LEMMA AbsInsert ==
    ASSUME NEW s \in Seq(Msg), NEW msg \in Msg, NEW i \in 1 .. Len(s) + 1
    PROVE  Abs(InsertAt(s, i, msg)) = InsertAt(Abs(s), i, Plain(msg))
<1> DEFINE u == InsertAt(s, i, msg)
           a == InsertAt(Abs(s), i, Plain(msg))
<1>1. /\ u \in Seq(Msg) /\ Len(u) = Len(s) + 1
      /\ \A j \in 1 .. Len(s) + 1 : u[j] = IF j < i THEN s[j] ELSE IF j = i THEN msg ELSE s[j - 1]
  BY InsertLemma
<1>2. Abs(s) \in Seq(PlainMsg) /\ Len(Abs(s)) = Len(s) /\ \A j \in 1 .. Len(s) : Abs(s)[j] = Plain(s[j])
  BY AbsLemma
<1>3. Plain(msg) \in PlainMsg
  BY DEF Plain, PlainMsg, Msg
<1>4. /\ a \in Seq(PlainMsg) /\ Len(a) = Len(s) + 1
      /\ \A j \in 1 .. Len(s) + 1 :
           a[j] = IF j < i THEN Abs(s)[j] ELSE IF j = i THEN Plain(msg) ELSE Abs(s)[j - 1]
  BY <1>2, <1>3, InsertLemma
<1> HIDE DEF u, a
<1>5. Abs(u) \in Seq(PlainMsg) /\ Len(Abs(u)) = Len(u) /\ \A j \in 1 .. Len(u) : Abs(u)[j] = Plain(u[j])
  BY <1>1, AbsLemma
<1>6. ASSUME NEW j \in 1 .. Len(s) + 1 PROVE Abs(u)[j] = a[j]
  <2>1. Len(s) \in Nat /\ Abs(u)[j] = Plain(u[j])
    BY <1>1, <1>5
  <2>2. CASE j < i
    <3>1. j \in 1 .. Len(s)
      BY <2>1, <2>2
    <3> QED
      BY <1>1, <1>2, <1>4, <2>1, <2>2, <3>1
  <2>3. CASE j = i
    BY <1>1, <1>4, <2>1, <2>3
  <2>4. CASE j > i
    <3>1. j - 1 \in 1 .. Len(s) /\ ~ (j < i) /\ j # i
      BY <2>1, <2>4
    <3>2. u[j] = s[j - 1] /\ a[j] = Abs(s)[j - 1]
      BY <1>1, <1>4, <3>1
    <3>3. Abs(s)[j - 1] = Plain(s[j - 1])
      BY <1>2, <3>1
    <3> QED
      BY <2>1, <3>2, <3>3
  <2> QED
    BY <2>2, <2>3, <2>4
<1>7. Abs(u) = a
  BY <1>1, <1>4, <1>5, <1>6, SameSeq
<1> QED
  BY <1>7 DEF u, a

LEMMA AbsTail ==
    ASSUME NEW s \in Seq(Msg), s # <<>>
    PROVE  Abs(s) # <<>> /\ Abs(Tail(s)) = Tail(Abs(s)) /\ Head(Abs(s)) = Plain(Head(s))
<1>1. Abs(s) \in Seq(PlainMsg) /\ Len(Abs(s)) = Len(s) /\ \A j \in 1 .. Len(s) : Abs(s)[j] = Plain(s[j])
  BY AbsLemma
<1>2. /\ Tail(s) \in Seq(Msg) /\ Len(s) \in Nat \ {0} /\ Len(Tail(s)) = Len(s) - 1
      /\ \A j \in 1 .. Len(s) - 1 : Tail(s)[j] = s[j + 1]
  OBVIOUS
<1>3. /\ Tail(Abs(s)) \in Seq(PlainMsg) /\ Len(Tail(Abs(s))) = Len(s) - 1 /\ Abs(s) # <<>>
      /\ \A j \in 1 .. Len(s) - 1 : Tail(Abs(s))[j] = Abs(s)[j + 1]
  <2> HIDE DEF Abs
  <2> QED
    BY <1>1, <1>2
<1>4. /\ Abs(Tail(s)) \in Seq(PlainMsg) /\ Len(Abs(Tail(s))) = Len(s) - 1
      /\ \A j \in 1 .. Len(s) - 1 : Abs(Tail(s))[j] = Plain(Tail(s)[j])
  BY <1>2, AbsLemma
<1>5. ASSUME NEW j \in 1 .. Len(s) - 1 PROVE Abs(Tail(s))[j] = Tail(Abs(s))[j]
  <2>1. j + 1 \in 1 .. Len(s)
    BY <1>2
  <2> QED
    BY <1>1, <1>2, <1>3, <1>4, <2>1
<1>6. Abs(Tail(s)) = Tail(Abs(s))
  BY <1>2, <1>3, <1>4, <1>5, SameSeq
<1>7. Head(Abs(s)) = Plain(Head(s))
  BY <1>1, <1>2, <1>3
<1> QED
  BY <1>3, <1>6, <1>7

(* The queues are in order, and a task that has begun to put a message     *)
(* into one has its place there.                                           *)
Ordered(s) == \A i, j \in 1 .. Len(s) : i < j => s[i].prio >= s[j].prio
OfTask(s) == {i \in 1 .. Len(s) : ~ s[i].isr}
Place(c) == c.op = "dosend" => ~ c.msg.isr /\ Cardinality(OfTask(k.msgs[c.q])) < MaxMsgs
InPlace == (\A q \in Queue : Ordered(k.msgs[q])) /\ \A t \in Task : Place(call[t])

LEMMA InsertOrdered ==
    ASSUME NEW s \in Seq(Msg), NEW msg \in Msg, NEW i, InsertPos(s, msg, i), Ordered(s)
    PROVE  /\ Ordered(InsertAt(s, i, msg))
           /\ \A j \in 1 .. i - 1 : s[j].prio >= msg.prio
           /\ \A j \in i .. Len(s) : s[j].prio < msg.prio
<1> DEFINE u == InsertAt(s, i, msg)
<1>1. /\ i \in 1 .. Len(s) + 1 /\ Len(s) \in Nat
      /\ i <= Len(s) => msg.prio > s[i].prio
      /\ \A j \in 1 .. i - 1 : msg.prio <= s[j].prio
  BY DEF InsertPos
<1>2. /\ Len(u) = Len(s) + 1
      /\ \A j \in 1 .. Len(s) + 1 : u[j] = IF j < i THEN s[j] ELSE IF j = i THEN msg ELSE s[j - 1]
  BY <1>1, InsertLemma
<1> HIDE DEF u
<1>3. msg.prio \in Nat /\ \A j \in 1 .. Len(s) : s[j].prio \in Nat
  <2>1. \A j \in 1 .. Len(s) : s[j] \in Msg
    OBVIOUS
  <2> QED
    BY <2>1, MQAssumption DEF Msg
<1>4. \A j \in 1 .. i - 1 : s[j].prio >= msg.prio
  BY <1>1, <1>3
<1>5. ASSUME NEW j \in i .. Len(s) PROVE s[j].prio < msg.prio
  <2>1. i \in 1 .. Len(s) /\ j \in 1 .. Len(s) /\ msg.prio > s[i].prio
    BY <1>1
  <2>2. s[i].prio >= s[j].prio
    <3>1. CASE i = j
      BY <1>3, <2>1, <3>1
    <3>2. CASE i < j
      BY <2>1, <3>2 DEF Ordered
    <3> QED
      BY <2>1, <3>1, <3>2
  <2> QED
    BY <1>3, <2>1, <2>2
<1>6. ASSUME NEW a \in 1 .. Len(s) + 1, NEW b \in 1 .. Len(s) + 1, a < b
      PROVE  u[a].prio >= u[b].prio
  <2>1. u[a] = (IF a < i THEN s[a] ELSE IF a = i THEN msg ELSE s[a - 1])
        /\ u[b] = (IF b < i THEN s[b] ELSE IF b = i THEN msg ELSE s[b - 1])
    BY <1>2
  <2>2. CASE b < i
    <3>1. a \in 1 .. Len(s) /\ b \in 1 .. Len(s) /\ a < i
      BY <1>1, <1>6, <2>2
    <3> QED
      BY <1>6, <2>1, <2>2, <3>1 DEF Ordered
  <2>3. CASE b = i
    <3>1. a \in 1 .. i - 1 /\ a < i
      BY <1>1, <1>6, <2>3
    <3> QED
      BY <1>4, <2>1, <2>3, <3>1
  <2>4. CASE b > i
    <3>1. b - 1 \in i .. Len(s) /\ u[b] = s[b - 1] /\ s[b - 1].prio < msg.prio /\ b - 1 \in 1 .. Len(s)
      BY <1>1, <1>5, <2>1, <2>4
    <3>2. CASE a < i
      <4>1. a \in 1 .. i - 1 /\ a \in 1 .. Len(s) /\ u[a] = s[a]
        BY <1>1, <1>6, <2>1, <3>2
      <4> QED
        BY <1>3, <1>4, <3>1, <4>1
    <3>3. CASE a = i
      BY <1>3, <2>1, <3>1, <3>3
    <3>4. CASE a > i
      <4>1. a - 1 \in 1 .. Len(s) /\ u[a] = s[a - 1] /\ a - 1 < b - 1
        BY <1>1, <1>6, <2>1, <3>4
      <4> QED
        BY <3>1, <4>1 DEF Ordered
    <3> QED
      BY <1>1, <3>2, <3>3, <3>4
  <2> QED
    BY <1>1, <2>2, <2>3, <2>4
<1>7. Ordered(u)
  BY <1>2, <1>6 DEF Ordered
<1> QED
  BY <1>4, <1>5, <1>7 DEF u

LEMMA TailOrdered ==
    ASSUME NEW s \in Seq(Msg), s # <<>>, Ordered(s)
    PROVE  Ordered(Tail(s))
<1>1. Len(Tail(s)) = Len(s) - 1 /\ Len(s) \in Nat /\ \A j \in 1 .. Len(s) - 1 : Tail(s)[j] = s[j + 1]
  OBVIOUS
<1>2. ASSUME NEW i \in 1 .. Len(s) - 1, NEW j \in 1 .. Len(s) - 1, i < j
      PROVE  Tail(s)[i].prio >= Tail(s)[j].prio
  <2>1. i + 1 \in 1 .. Len(s) /\ j + 1 \in 1 .. Len(s) /\ i + 1 < j + 1
    BY <1>1, <1>2
  <2> QED
    BY <1>1, <2>1 DEF Ordered
<1> QED
  BY <1>1, <1>2 DEF Ordered

(* An interrupt handler's message takes no place away from the tasks. *)
LEMMA IsrPlace ==
    ASSUME NEW s \in Seq(Msg), NEW msg \in Msg, NEW i \in 1 .. Len(s) + 1, msg.isr
    PROVE  Cardinality(OfTask(InsertAt(s, i, msg))) <= Cardinality(OfTask(s))
<1> DEFINE u == InsertAt(s, i, msg)
           A == OfTask(u)
           B == OfTask(s)
           f == [j \in A |-> IF j < i THEN j ELSE j - 1]
<1>1. /\ Len(u) = Len(s) + 1
      /\ \A j \in 1 .. Len(s) + 1 : u[j] = IF j < i THEN s[j] ELSE IF j = i THEN msg ELSE s[j - 1]
  BY InsertLemma
<1>2. Len(s) \in Nat /\ i \in Nat
  OBVIOUS
<1>3. IsFiniteSet(B)
  <2>1. IsFiniteSet(1 .. Len(s)) /\ B \in SUBSET (1 .. Len(s))
    BY <1>2, FS_Interval DEF OfTask
  <2> QED
    BY <2>1, FS_Subset
<1> HIDE DEF u
<1>4. ASSUME NEW j \in A PROVE j \in Nat /\ j # i /\ f[j] \in B
  <2>1. j \in 1 .. Len(s) + 1 /\ ~ u[j].isr
    BY <1>1 DEF OfTask
  <2>2. j # i
    BY <1>1, <2>1
  <2>3. CASE j < i
    <3>1. f[j] = j /\ j \in 1 .. Len(s) /\ u[j] = s[j]
      BY <1>1, <1>2, <2>1, <2>3
    <3> QED
      BY <2>1, <2>2, <3>1 DEF OfTask
  <2>4. CASE j > i
    <3>1. f[j] = j - 1 /\ j - 1 \in 1 .. Len(s) /\ u[j] = s[j - 1]
      BY <1>1, <1>2, <2>1, <2>4
    <3> QED
      BY <2>1, <2>2, <3>1 DEF OfTask
  <2> QED
    BY <1>2, <2>1, <2>2, <2>3, <2>4
<1>5. f \in Injection(A, B)
  <2>1. f \in [A -> B]
    BY <1>4
  <2>2. ASSUME NEW x \in A, NEW y \in A, f[x] = f[y] PROVE x = y
    <3>1. x \in Nat /\ y \in Nat /\ x # i /\ y # i
      BY <1>4
    <3>2. f[x] = (IF x < i THEN x ELSE x - 1) /\ f[y] = (IF y < i THEN y ELSE y - 1)
      OBVIOUS
    <3> QED
      BY <1>2, <2>2, <3>1, <3>2
  <2> HIDE DEF f, A, B
  <2> QED
    BY <2>1, <2>2 DEF Injection, IsInjective
<1> HIDE DEF f, A, B
<1>6. Cardinality(A) <= Cardinality(B)
  BY <1>3, <1>5, FS_Injection
<1> QED
  BY <1>6 DEF A, B, u

LEMMA RoomPlace ==
    ASSUME NEW s \in Seq(Msg), Len(s) < MaxMsgs
    PROVE  Cardinality(OfTask(s)) < MaxMsgs /\ Cardinality(OfTask(s)) \in Nat
<1>1. Len(s) \in Nat /\ MaxMsgs \in Nat
  BY MQAssumption
<1>2. IsFiniteSet(1 .. Len(s)) /\ Cardinality(1 .. Len(s)) = Len(s)
  <2> DEFINE n == Len(s)
  <2>1. n \in Nat /\ n \in Int /\ 1 \in Int
    BY <1>1
  <2> HIDE DEF n
  <2>2. IsFiniteSet(1 .. n) /\ Cardinality(1 .. n) = IF 1 > n THEN 0 ELSE n - 1 + 1
    BY <2>1, FS_Interval
  <2>3. Cardinality(1 .. n) = n
    BY <2>1, <2>2
  <2> QED
    BY <2>2, <2>3 DEF n
<1>3. OfTask(s) \in SUBSET (1 .. Len(s))
  BY DEF OfTask
<1>4. IsFiniteSet(OfTask(s)) /\ Cardinality(OfTask(s)) <= Len(s)
  BY <1>2, <1>3, FS_Subset
<1>5. Cardinality(OfTask(s)) \in Nat
  BY <1>4, FS_CardinalityType
<1> QED
  BY <1>1, <1>4, <1>5

LEMMA PlaceStep ==
    ASSUME Core, NEW t, NEW c, Acts(t, c), \A q \in Queue : Ordered(k'.msgs[q]),
           c.op = "dosend" => ~ c.msg.isr /\ Cardinality(OfTask(k'.msgs[c.q])) < MaxMsgs
    PROVE  InPlace'
<1>1. r \in Task /\ call \in [Task -> Call] /\ \A u \in Task \ {r} : call[u].op # "dosend"
  BY RunFacts DEF Core, OffCpu
<1>2. call'[r] = c /\ \A u \in Task \ {r} : call'[u] = call[u]
  BY <1>1 DEF Acts
<1>3. ASSUME NEW u \in Task
      PROVE  call'[u].op = "dosend" =>
                ~ call'[u].msg.isr /\ Cardinality(OfTask(k'.msgs[call'[u].q])) < MaxMsgs
  BY <1>1, <1>2
<1> QED
  BY <1>3 DEF InPlace, Place

(* Which steps change the queues, or who is about to put a message there. *)
Idles(t, c) ==
    /\ Acts(t, c) /\ k'.msgs = k.msgs /\ k'.nfree = k.nfree /\ k'.nirq = k.nirq
    /\ \/ c = call[r]
       \/ c.op \notin {"dosend", "doreceive"} /\ call[r].op \notin {"dosend", "doreceive"}

LEMMA KindIdles ==
    ASSUME Core, Kind
    PROVE  \/ \E c : Prepares(c) \/ Takes(c) \/ Inserts(c) \/ Frees(c)
           \/ \E q \in Queue, t \in Task \cup {None} : IsrSends(q, t)
           \/ \E t, c : Idles(t, c)
<1>1. UserCall.op = "user"
  BY UserCallOK
<1>2. ASSUME NEW c, WaitsRoom(c) \/ WaitsMessage(c) \/ LooksUp(c) \/ Tells(c) \/ \E t \in Task : Deletes(c, t)
      PROVE  \E t : Idles(t, c)
  <2>1. /\ \E t : Acts(t, c)
        /\ c.op \notin {"dosend", "doreceive"} /\ call[r].op \notin {"dosend", "doreceive"}
    BY <1>2 DEF WaitsRoom, WaitsMessage, LooksUp, Tells, Deletes
  <2>2. k'.msgs = k.msgs /\ k'.nfree = k.nfree /\ k'.nirq = k.nirq
    BY <1>2 DEF WaitsRoom, WaitsMessage, LooksUp, Tells, Deletes, Same, OwnField
  <2> QED
    BY <2>1, <2>2 DEF Idles
<1>3. CASE GivesUp \/ WakesNobody \/ WakesNoSender
           \/ \E t \in Task : WakesReceiver(t) \/ WakesSender(t) \/ Buries(t)
  <2>1. (\E t : Acts(t, UserCall)) /\ call[r].op \notin {"dosend", "doreceive"}
    BY <1>3 DEF GivesUp, WakesNobody, WakesNoSender, WakesReceiver, WakesSender, Buries
  <2>2. k'.msgs = k.msgs /\ k'.nfree = k.nfree /\ k'.nirq = k.nirq
    BY <1>3 DEF GivesUp, WakesNobody, WakesNoSender, WakesReceiver, WakesSender, Buries, Same, OwnField
  <2> QED
    BY <1>1, <2>1, <2>2 DEF Idles
<1>4. CASE Quiet \/ FindsSignal \/ (\E t \in Task : EndsWait(t)) \/ \E q \in Queue, on \in BOOLEAN : Registers(q, on)
  <2>1. (\E t : Acts(t, call[r])) /\ k'.msgs = k.msgs /\ k'.nfree = k.nfree /\ k'.nirq = k.nirq
    BY <1>4 DEF Quiet, FindsSignal, EndsWait, Registers, Same, OwnField
  <2> QED
    BY <2>1 DEF Idles
<1> QED
  BY <1>2, <1>3, <1>4 DEF Kind

LEMMA InPlaceKind ==
    ASSUME Core, InPlace, Kind
    PROVE  InPlace'
<1>1. /\ r \in Task /\ UserCall.op = "user" /\ k.msgs \in [Queue -> Seq(Msg)] /\ CallOK(call[r])
      /\ (\A q \in Queue : Ordered(k.msgs[q])) /\ Place(call[r])
  BY RunFacts, UserCallOK DEF InPlace, Own
<1>2. ASSUME NEW t, NEW c, Idles(t, c) PROVE InPlace'
  <2>1. c.op = "dosend" => ~ c.msg.isr /\ Cardinality(OfTask(k'.msgs[c.q])) < MaxMsgs
    BY <1>1, <1>2 DEF Idles, Place
  <2> QED
    BY <1>1, <1>2, <2>1, PlaceStep DEF Idles
<1>3. ASSUME NEW c, Prepares(c) PROVE InPlace'
  <2>1. /\ Acts(None, c) /\ c.op = "dosend" /\ c.q \in Queue /\ Room(c.q) /\ k'.msgs = k.msgs
    BY <1>3 DEF Prepares, Same, OwnField
  <2>2. ~ c.msg.isr
    BY <1>3 DEF Prepares
  <2>3. Cardinality(OfTask(k.msgs[c.q])) < MaxMsgs
    BY <1>1, <2>1, RoomPlace DEF Room
  <2> QED
    BY <1>1, <2>1, <2>2, <2>3, PlaceStep
<1>4. ASSUME NEW c, Takes(c) PROVE InPlace'
  <2>1. /\ Acts(None, c) /\ c.op = "doreceive" /\ c.q \in Queue /\ k.msgs[c.q] # <<>>
        /\ k'.msgs = [k.msgs EXCEPT ![c.q] = Tail(@)]
    BY <1>4 DEF Takes
  <2>2. Ordered(Tail(k.msgs[c.q]))
    BY <1>1, <2>1, TailOrdered
  <2>3. \A q \in Queue : Ordered(k'.msgs[q])
    BY <1>1, <2>1, <2>2
  <2> QED
    BY <2>1, <2>3, PlaceStep
<1>5. ASSUME NEW c, Inserts(c) PROVE InPlace'
  <2>1. Acts(None, c) /\ c.op = "notify" /\ c.q \in Queue /\ call[r].msg \in Msg
    BY <1>1, <1>5 DEF Inserts, CallOK
  <2>2. PICK i : /\ InsertPos(k.msgs[c.q], call[r].msg, i)
                 /\ k'.msgs = [k.msgs EXCEPT ![c.q] = InsertAt(k.msgs[c.q], i, call[r].msg)]
    BY <1>5 DEF Inserts
  <2>3. Ordered(InsertAt(k.msgs[c.q], i, call[r].msg))
    BY <1>1, <2>1, <2>2, InsertOrdered
  <2>4. \A q \in Queue : Ordered(k'.msgs[q])
    BY <1>1, <2>1, <2>2, <2>3
  <2> QED
    BY <2>1, <2>4, PlaceStep
<1>6. ASSUME NEW c, Frees(c) PROVE InPlace'
  <2>1. Acts(None, c) /\ c.op # "dosend" /\ k'.msgs = k.msgs
    BY <1>1, <1>6 DEF Frees, Same, OwnField
  <2> QED
    BY <1>1, <2>1, PlaceStep
<1>7. ASSUME NEW p \in Queue, NEW t \in Task \cup {None}, IsrSends(p, t) PROVE InPlace'
  <2>1. Acts(t, call[r])
    BY <1>7 DEF IsrSends
  <2>2. PICK msg \in Msg, i \in Nat : /\ msg.isr /\ InsertPos(k.msgs[p], msg, i)
                                      /\ k'.msgs = [k.msgs EXCEPT ![p] = InsertAt(k.msgs[p], i, msg)]
    BY <1>7 DEF IsrSends
  <2>3. Ordered(InsertAt(k.msgs[p], i, msg))
    BY <1>1, <2>2, InsertOrdered
  <2>4. \A q \in Queue : Ordered(k'.msgs[q])
    BY <1>1, <2>2, <2>3
  <2>5. ASSUME call[r].op = "dosend" PROVE Cardinality(OfTask(k'.msgs[call[r].q])) < MaxMsgs
    <3> DEFINE q == call[r].q
               s == k.msgs[q]
    <3>1. q \in Queue /\ s \in Seq(Msg) /\ Cardinality(OfTask(s)) < MaxMsgs
      BY <1>1, <2>5 DEF CallOK, Place
    <3>2. CASE q # p
      BY <1>1, <2>2, <3>1, <3>2
    <3>3. CASE q = p
      <4>1. k'.msgs[q] = InsertAt(s, i, msg)
        BY <1>1, <2>2, <3>1, <3>3
      <4>2. i \in 1 .. Len(s) + 1
        BY <2>2, <3>3 DEF InsertPos
      <4> HIDE DEF s
      <4>3. Cardinality(OfTask(InsertAt(s, i, msg))) <= Cardinality(OfTask(s))
        BY <2>2, <3>1, <4>2, IsrPlace
      <4>4. MaxMsgs \in Nat /\ Cardinality(OfTask(s)) \in Nat /\ Cardinality(OfTask(InsertAt(s, i, msg))) \in Nat
        <5>1. ASSUME NEW x \in Seq(Msg) PROVE Cardinality(OfTask(x)) \in Nat
          <6>1. OfTask(x) \in SUBSET (1 .. Len(x)) /\ IsFiniteSet(1 .. Len(x))
            BY FS_Interval DEF OfTask
          <6> QED
            BY <6>1, FS_Subset, FS_CardinalityType
        <5>2. InsertAt(s, i, msg) \in Seq(Msg)
          BY <2>2, <3>1, <4>2, InsertLemma
        <5> QED
          BY <3>1, <5>1, <5>2, MQAssumption
      <4> QED
        BY <3>1, <4>1, <4>3, <4>4
    <3> QED
      BY <3>2, <3>3
  <2>6. call[r].op = "dosend" => ~ call[r].msg.isr
    BY <1>1 DEF Place
  <2> QED
    BY <2>1, <2>4, <2>5, <2>6, PlaceStep
<1> QED
  BY <1>2, <1>3, <1>4, <1>5, <1>6, <1>7, KindIdles

(* The abstract state before and after a step. *)
LEMMA AbsCalls ==
    ASSUME Core, NEW t, NEW c, Acts(t, c)
    PROVE  /\ AbsSending' = [AbsSending EXCEPT ![r] = SendOf(c)]
           /\ AbsReceived' = [AbsReceived EXCEPT ![r] = RecvOf(c)]
           /\ AbsSending[r] = SendOf(call[r]) /\ AbsReceived[r] = RecvOf(call[r])
           /\ \A u \in Task \ {r} : AbsSending[u] = None
<1>1. r \in Task /\ call \in [Task -> Call] /\ \A u \in Task \ {r} : call[u].op # "dosend"
  BY RunFacts DEF Core, OffCpu
<1>2. call' = [call EXCEPT ![r] = c] /\ call'[r] = c /\ \A u \in Task \ {r} : call'[u] = call[u]
  BY <1>1 DEF Acts
<1>3. AbsSending' = [u \in Task |-> SendOf(call'[u])] /\ AbsReceived' = [u \in Task |-> RecvOf(call'[u])]
  BY DEF AbsSending, AbsReceived, SendOf, RecvOf
<1>4. /\ \A u \in Task : SendOf(call'[u]) = IF u = r THEN SendOf(c) ELSE AbsSending[u]
      /\ \A u \in Task : RecvOf(call'[u]) = IF u = r THEN RecvOf(c) ELSE AbsReceived[u]
  BY <1>2 DEF AbsSending, AbsReceived
<1>5. AbsSending[r] = SendOf(call[r]) /\ AbsReceived[r] = RecvOf(call[r])
  BY <1>1 DEF AbsSending, AbsReceived
<1>6. \A u \in Task \ {r} : AbsSending[u] = None
  BY <1>1 DEF AbsSending, SendOf
<1>7. DOMAIN AbsSending = Task /\ DOMAIN AbsReceived = Task
  BY DEF AbsSending, AbsReceived
<1>8. /\ AbsSending = [u \in Task |-> AbsSending[u]] /\ AbsReceived = [u \in Task |-> AbsReceived[u]]
  BY DEF AbsSending, AbsReceived
<1> HIDE DEF AbsSending, AbsReceived, SendOf, RecvOf
<1>9. AbsSending' = [AbsSending EXCEPT ![r] = SendOf(c)]
  BY <1>1, <1>3, <1>4, <1>7, <1>8
<1>10. AbsReceived' = [AbsReceived EXCEPT ![r] = RecvOf(c)]
  BY <1>1, <1>3, <1>4, <1>7, <1>8
<1> QED
  BY <1>5, <1>6, <1>9, <1>10

(* A record is not None. *)
LEMMA NotNone ==
    ASSUME NEW c, CallOK(c)
    PROVE  /\ c.op = "dosend" => SendOf(c) # None /\ SendOf(c) = [q |-> c.q, prio |-> c.msg.prio]
           /\ c.op = "doreceive" => RecvOf(c) # None /\ RecvOf(c) = Plain(c.msg)
           /\ c.op # "dosend" => SendOf(c) = None
           /\ c.op # "doreceive" => RecvOf(c) = None
<1>1. c.op = "dosend" => [q |-> c.q, prio |-> c.msg.prio] \in [q : Queue, prio : MsgPrio]
  BY DEF CallOK, Msg
<1>2. c.op = "doreceive" => [prio |-> c.msg.prio, isr |-> c.msg.isr] \in [prio : MsgPrio, isr : BOOLEAN]
  BY DEF CallOK, Msg
<1>3. None \notin [q : Queue, prio : MsgPrio] /\ None \notin [prio : MsgPrio, isr : BOOLEAN]
  BY MQAssumption
<1> QED
  BY <1>1, <1>2, <1>3 DEF SendOf, RecvOf, Plain

LEMMA AbsQueueStep ==
    ASSUME Core, Own(k'), NEW p \in Queue, NEW s \in Seq(Msg), k'.msgs = [k.msgs EXCEPT ![p] = s]
    PROVE  AbsQueue' = [AbsQueue EXCEPT ![p] = Abs(s)] /\ AbsQueue[p] = Abs(k.msgs[p])
<1>1. k.msgs \in [Queue -> Seq(Msg)]
  BY DEF Core, Own
<1>2. AbsQueue' = [q \in Queue |-> Abs(k'.msgs[q])]
  BY DEF AbsQueue, Abs
<1>3. \A q \in Queue : Abs(k'.msgs[q]) = IF q = p THEN Abs(s) ELSE AbsQueue[q]
  BY <1>1 DEF AbsQueue
<1>4. DOMAIN AbsQueue = Queue /\ AbsQueue[p] = Abs(k.msgs[p]) /\ AbsQueue = [q \in Queue |-> AbsQueue[q]]
  BY DEF AbsQueue
<1> HIDE DEF AbsQueue, Abs
<1> QED
  BY <1>2, <1>3, <1>4

(* The step that inserts a message is Enter. *)
AbsEnter(q, m) ==
    \E i \in 1 .. Len(AbsQueue[q]) + 1 :
        /\ \A j \in 1 .. i - 1 : AbsQueue[q][j].prio >= m.prio
        /\ \A j \in i .. Len(AbsQueue[q]) : AbsQueue[q][j].prio < m.prio
        /\ AbsQueue' = [AbsQueue EXCEPT ![q] = InsertAt(AbsQueue[q], i, m)]

LEMMA EnterStep ==
    ASSUME Core, InPlace, Own(k'), NEW p \in Queue, NEW msg \in Msg, NEW i, InsertPos(k.msgs[p], msg, i),
           k'.msgs = [k.msgs EXCEPT ![p] = InsertAt(k.msgs[p], i, msg)]
    PROVE  AbsEnter(p, Plain(msg))
<1> DEFINE s == k.msgs[p]
<1>1. s \in Seq(Msg) /\ i \in 1 .. Len(s) + 1 /\ Ordered(s)
  BY DEF Core, Own, InsertPos, InPlace
<1>2. InsertAt(s, i, msg) \in Seq(Msg)
  BY <1>1, InsertLemma
<1>3. (\A j \in 1 .. i - 1 : s[j].prio >= msg.prio) /\ (\A j \in i .. Len(s) : s[j].prio < msg.prio)
  BY <1>1, InsertOrdered
<1>4. AbsQueue' = [AbsQueue EXCEPT ![p] = Abs(InsertAt(s, i, msg))] /\ AbsQueue[p] = Abs(s)
  BY <1>2, AbsQueueStep
<1>5. Abs(InsertAt(s, i, msg)) = InsertAt(Abs(s), i, Plain(msg))
  BY <1>1, AbsInsert
<1>6. /\ Len(Abs(s)) = Len(s) /\ Len(s) \in Nat
      /\ \A j \in 1 .. Len(s) : Abs(s)[j].prio = s[j].prio
      /\ Plain(msg).prio = msg.prio
  <2>1. Len(Abs(s)) = Len(s) /\ \A j \in 1 .. Len(s) : Abs(s)[j] = Plain(s[j])
    BY <1>1, AbsLemma
  <2>2. \A m : Plain(m).prio = m.prio
    BY DEF Plain
  <2> QED
    BY <1>1, <2>1, <2>2
<1> HIDE DEF s
<1>7. /\ \A j \in 1 .. i - 1 : Abs(s)[j].prio >= Plain(msg).prio
      /\ \A j \in i .. Len(s) : Abs(s)[j].prio < Plain(msg).prio
  <2>1. ASSUME NEW j \in 1 .. i - 1 PROVE Abs(s)[j].prio >= Plain(msg).prio
    <3>1. j \in 1 .. Len(s)
      BY <1>1, <1>6
    <3> QED
      BY <1>3, <1>6, <3>1
  <2>2. ASSUME NEW j \in i .. Len(s) PROVE Abs(s)[j].prio < Plain(msg).prio
    <3>1. j \in 1 .. Len(s)
      BY <1>1, <1>6
    <3> QED
      BY <1>3, <1>6, <3>1
  <2> QED
    BY <2>1, <2>2
<1> HIDE DEF Abs, AbsQueue, Plain
<1> QED
  BY <1>1, <1>4, <1>5, <1>6, <1>7 DEF AbsEnter

LEMMA SameOperators ==
    /\ \A S : Abstract!Cardinality(S) = Cardinality(S)
    /\ \A s, i, e : Abstract!InsertAt(s, i, e) = InsertAt(s, i, e)
<1>1. ASSUME NEW S PROVE Abstract!Cardinality(S) = Cardinality(S)
  BY Zenon DEF Abstract!Cardinality, Cardinality
<1>2. ASSUME NEW s, NEW i, NEW e PROVE Abstract!InsertAt(s, i, e) = InsertAt(s, i, e)
  BY DEF Abstract!InsertAt, InsertAt
<1> QED
  BY <1>1, <1>2

(* The steps of MQueueSpec, in these terms. *)
LEMMA AbsForms ==
    /\ \A t, q, p : Abstract!Begin(t, q, p) <=>
          /\ AbsSending[t] = None
          /\ Len(AbsQueue[q]) + Cardinality({u \in Task : AbsSending[u] # None /\ AbsSending[u].q = q})
               < MaxMsgs
          /\ AbsSending' = [AbsSending EXCEPT ![t] = [q |-> q, prio |-> p]]
          /\ AbsQueue' = AbsQueue /\ AbsReceived' = AbsReceived
    /\ \A t : Abstract!Put(t) <=>
          /\ AbsSending[t] # None
          /\ Cardinality({i \in 1 .. Len(AbsQueue[AbsSending[t].q]) : ~ AbsQueue[AbsSending[t].q][i].isr})
               < MaxMsgs
          /\ AbsEnter(AbsSending[t].q, [prio |-> AbsSending[t].prio, isr |-> FALSE])
          /\ AbsSending' = [AbsSending EXCEPT ![t] = None]
          /\ AbsReceived' = AbsReceived
    /\ \A q, p : Abstract!PutByIsr(q, p) <=>
          /\ AbsEnter(q, [prio |-> p, isr |-> TRUE])
          /\ AbsSending' = AbsSending /\ AbsReceived' = AbsReceived
    /\ \A t, q : Abstract!Get(t, q) <=>
          /\ AbsQueue[q] # <<>> /\ AbsReceived[t] = None
          /\ AbsReceived' = [AbsReceived EXCEPT ![t] = Head(AbsQueue[q])]
          /\ AbsQueue' = [AbsQueue EXCEPT ![q] = Tail(AbsQueue[q])]
          /\ AbsSending' = AbsSending
    /\ \A t : Abstract!Deliver(t) <=>
          /\ AbsReceived[t] # None
          /\ AbsReceived' = [AbsReceived EXCEPT ![t] = None]
          /\ AbsQueue' = AbsQueue /\ AbsSending' = AbsSending
    /\ Abstract!vars = <<AbsQueue, AbsSending, AbsReceived>>
<1>1. ASSUME NEW t, NEW q, NEW p
      PROVE  Abstract!Begin(t, q, p) <=>
          /\ AbsSending[t] = None
          /\ Len(AbsQueue[q]) + Cardinality({u \in Task : AbsSending[u] # None /\ AbsSending[u].q = q})
               < MaxMsgs
          /\ AbsSending' = [AbsSending EXCEPT ![t] = [q |-> q, prio |-> p]]
          /\ AbsQueue' = AbsQueue /\ AbsReceived' = AbsReceived
  BY SameOperators, Zenon DEF Abstract!Begin
<1>2. ASSUME NEW t
      PROVE  Abstract!Put(t) <=>
          /\ AbsSending[t] # None
          /\ Cardinality({i \in 1 .. Len(AbsQueue[AbsSending[t].q]) : ~ AbsQueue[AbsSending[t].q][i].isr})
               < MaxMsgs
          /\ AbsEnter(AbsSending[t].q, [prio |-> AbsSending[t].prio, isr |-> FALSE])
          /\ AbsSending' = [AbsSending EXCEPT ![t] = None]
          /\ AbsReceived' = AbsReceived
  BY SameOperators, Zenon DEF Abstract!Put, Abstract!OfTasks, Abstract!Enter, AbsEnter
<1>3. ASSUME NEW q, NEW p
      PROVE  Abstract!PutByIsr(q, p) <=>
          /\ AbsEnter(q, [prio |-> p, isr |-> TRUE])
          /\ AbsSending' = AbsSending /\ AbsReceived' = AbsReceived
  BY SameOperators, Zenon DEF Abstract!PutByIsr, Abstract!Enter, AbsEnter
<1>4. ASSUME NEW t, NEW q
      PROVE  Abstract!Get(t, q) <=>
          /\ AbsQueue[q] # <<>> /\ AbsReceived[t] = None
          /\ AbsReceived' = [AbsReceived EXCEPT ![t] = Head(AbsQueue[q])]
          /\ AbsQueue' = [AbsQueue EXCEPT ![q] = Tail(AbsQueue[q])]
          /\ AbsSending' = AbsSending
  BY Zenon DEF Abstract!Get
<1>5. ASSUME NEW t
      PROVE  Abstract!Deliver(t) <=>
          /\ AbsReceived[t] # None
          /\ AbsReceived' = [AbsReceived EXCEPT ![t] = None]
          /\ AbsQueue' = AbsQueue /\ AbsSending' = AbsSending
  BY Zenon DEF Abstract!Deliver
<1>6. Abstract!vars = <<AbsQueue, AbsSending, AbsReceived>>
  BY Zenon DEF Abstract!vars
<1> QED
  BY <1>1, <1>2, <1>3, <1>4, <1>5, <1>6, Zenon

LEMMA AbsTasks ==
    ASSUME NEW s \in Seq(Msg)
    PROVE  {i \in 1 .. Len(Abs(s)) : ~ Abs(s)[i].isr} = OfTask(s)
<1>1. Len(Abs(s)) = Len(s) /\ \A j \in 1 .. Len(s) : Abs(s)[j] = Plain(s[j])
  BY AbsLemma
<1>2. \A m : Plain(m).isr = m.isr
  BY DEF Plain
<1> QED
  BY <1>1, <1>2 DEF OfTask

LEMMA AbsStays ==
    ASSUME Core, k'.msgs = k.msgs
    PROVE  AbsQueue' = AbsQueue
BY DEF AbsQueue, Abs

(* Every step is one of MQueueSpec, or changes nothing there. *)
LEMMA AbsStep ==
    ASSUME Core, InPlace, Kind
    PROVE  [Abstract!Next]_(Abstract!vars)
<1>1. /\ r \in Task /\ UserCall.op = "user" /\ k.msgs \in [Queue -> Seq(Msg)] /\ CallOK(call[r])
      /\ Place(call[r]) /\ CallOK(UserCall)
  BY RunFacts, UserCallOK DEF InPlace, Own
<1>2. AbsSending = [AbsSending EXCEPT ![r] = AbsSending[r]] /\ AbsReceived = [AbsReceived EXCEPT ![r] = AbsReceived[r]]
  BY DEF AbsSending, AbsReceived
<1>3. ASSUME NEW t, NEW c, Acts(t, c), SendOf(c) = SendOf(call[r]) PROVE AbsSending' = AbsSending
  BY <1>2, <1>3, AbsCalls
<1>4. ASSUME NEW t, NEW c, Acts(t, c), RecvOf(c) = RecvOf(call[r]) PROVE AbsReceived' = AbsReceived
  BY <1>2, <1>4, AbsCalls
<1>5. ASSUME NEW t, NEW c, Acts(t, c) PROVE CallOK(c)
  BY <1>5 DEF Acts
<1>6. ASSUME NEW t, NEW c, Idles(t, c) PROVE UNCHANGED Abstract!vars
  <2>1. Acts(t, c) /\ k'.msgs = k.msgs
    BY <1>6 DEF Idles
  <2>2. SendOf(c) = SendOf(call[r]) /\ RecvOf(c) = RecvOf(call[r])
    BY <1>1, <1>5, <1>6, <2>1, NotNone DEF Idles
  <2>3. AbsQueue' = AbsQueue /\ AbsSending' = AbsSending /\ AbsReceived' = AbsReceived
    BY <1>3, <1>4, <2>1, <2>2, AbsStays
  <2> QED
    BY <2>3 DEF Abstract!vars
<1>7. ASSUME NEW c, Prepares(c) PROVE \E t \in Task, q \in Queue, p \in MsgPrio : Abstract!Begin(t, q, p)
  <2>1. /\ Acts(None, c) /\ call[r].op \notin {"dosend", "doreceive"} /\ c.op = "dosend"
        /\ c.q \in Queue /\ Room(c.q) /\ c.msg.prio \in MsgPrio
    BY <1>7 DEF Prepares
  <2>2. k'.msgs = k.msgs
    BY <1>7 DEF Prepares, Same, OwnField
  <2>3. /\ SendOf(call[r]) = None /\ RecvOf(call[r]) = None /\ RecvOf(c) = None
        /\ SendOf(c) = [q |-> c.q, prio |-> c.msg.prio]
    BY <1>1, <1>5, <2>1, NotNone
  <2>4. AbsQueue' = AbsQueue /\ AbsReceived' = AbsReceived
    BY <1>4, <2>1, <2>2, <2>3, AbsStays
  <2>5. /\ AbsSending' = [AbsSending EXCEPT ![r] = [q |-> c.q, prio |-> c.msg.prio]]
        /\ \A u \in Task : AbsSending[u] = None
    BY <2>1, <2>3, AbsCalls
  <2>6. Len(AbsQueue[c.q]) + Cardinality({u \in Task : AbsSending[u] # None /\ AbsSending[u].q = c.q}) < MaxMsgs
    <3>1. {u \in Task : AbsSending[u] # None /\ AbsSending[u].q = c.q} = {}
      BY <2>5
    <3>2. Len(AbsQueue[c.q]) = Len(k.msgs[c.q]) /\ k.msgs[c.q] \in Seq(Msg)
      <4>1. AbsQueue[c.q] = Abs(k.msgs[c.q])
        BY <2>1 DEF AbsQueue
      <4> QED
        BY <1>1, <2>1, <4>1, AbsLemma
    <3>3. Cardinality({}) = 0
      BY FS_EmptySet
    <3>4. Len(k.msgs[c.q]) < MaxMsgs /\ Len(k.msgs[c.q]) \in Nat /\ MaxMsgs \in Nat
      BY <2>1, <3>2, MQAssumption DEF Room
    <3>5. Len(AbsQueue[c.q]) + 0 < MaxMsgs
      BY <3>2, <3>4
    <3> QED
      BY <3>1, <3>3, <3>5, Zenon
  <2>7. Abstract!Begin(r, c.q, c.msg.prio)
    BY <1>1, <2>4, <2>5, <2>6, AbsForms
  <2> QED
    BY <1>1, <2>1, <2>7
<1>8. ASSUME NEW c, Takes(c) PROVE \E t \in Task, q \in Queue : Abstract!Get(t, q)
  <2>1. /\ Acts(None, c) /\ call[r].op \notin {"dosend", "doreceive"} /\ c.op = "doreceive"
        /\ c.q \in Queue /\ k.msgs[c.q] # <<>> /\ c.msg = Head(k.msgs[c.q])
        /\ k'.msgs = [k.msgs EXCEPT ![c.q] = Tail(k.msgs[c.q])] /\ Own(k')
    BY <1>8 DEF Takes, Acts
  <2>2. /\ SendOf(call[r]) = None /\ RecvOf(call[r]) = None /\ SendOf(c) = None
        /\ RecvOf(c) = Plain(c.msg)
    BY <1>1, <1>5, <2>1, NotNone
  <2>3. k.msgs[c.q] \in Seq(Msg) /\ Tail(k.msgs[c.q]) \in Seq(Msg)
    BY <1>1, <2>1
  <2>4. /\ AbsQueue' = [AbsQueue EXCEPT ![c.q] = Abs(Tail(k.msgs[c.q]))]
        /\ AbsQueue[c.q] = Abs(k.msgs[c.q])
    BY <2>1, <2>3, AbsQueueStep
  <2>5. /\ Abs(k.msgs[c.q]) # <<>> /\ Abs(Tail(k.msgs[c.q])) = Tail(Abs(k.msgs[c.q]))
        /\ Head(Abs(k.msgs[c.q])) = Plain(c.msg)
    BY <2>1, <2>3, AbsTail
  <2>6. AbsSending' = AbsSending
    BY <1>3, <2>1, <2>2
  <2>7. AbsReceived' = [AbsReceived EXCEPT ![r] = Plain(c.msg)] /\ AbsReceived[r] = None
    BY <2>1, <2>2, AbsCalls
  <2>8. Abstract!Get(r, c.q)
    BY <2>4, <2>5, <2>6, <2>7, AbsForms
  <2> QED
    BY <1>1, <2>1, <2>8
<1>9. ASSUME NEW c, Inserts(c) PROVE \E t \in Task : Abstract!Put(t)
  <2>1. Acts(None, c) /\ c.op = "notify" /\ call[r].op = "dosend" /\ c.q = call[r].q /\ Own(k')
    BY <1>9 DEF Inserts, Acts
  <2>2. c.q \in Queue /\ call[r].msg \in Msg /\ k.msgs[c.q] \in Seq(Msg)
    BY <1>1, <2>1 DEF CallOK
  <2>3. PICK i : /\ InsertPos(k.msgs[c.q], call[r].msg, i)
                 /\ k'.msgs = [k.msgs EXCEPT ![c.q] = InsertAt(k.msgs[c.q], i, call[r].msg)]
    BY <1>9 DEF Inserts
  <2>4. AbsEnter(c.q, Plain(call[r].msg))
    BY <2>1, <2>2, <2>3, EnterStep
  <2>5. Plain(call[r].msg) = [prio |-> call[r].msg.prio, isr |-> FALSE]
    <3>1. ~ call[r].msg.isr /\ call[r].msg.isr \in BOOLEAN
      BY <1>1, <2>1, <2>2 DEF Place, Msg
    <3>2. call[r].msg.isr = FALSE
      BY <3>1
    <3> QED
      BY <3>2 DEF Plain
  <2>6. /\ SendOf(call[r]) # None /\ SendOf(call[r]) = [q |-> call[r].q, prio |-> call[r].msg.prio]
        /\ SendOf(c) = None /\ RecvOf(c) = None /\ RecvOf(call[r]) = None
    BY <1>1, <1>5, <2>1, NotNone
  <2>7. AbsReceived' = AbsReceived
    BY <1>4, <2>1, <2>6
  <2>8. AbsSending' = [AbsSending EXCEPT ![r] = None] /\ AbsSending[r] = SendOf(call[r])
    BY <2>1, <2>6, AbsCalls
  <2>9. AbsSending[r] # None /\ AbsSending[r].q = c.q /\ AbsSending[r].prio = call[r].msg.prio
    BY <2>1, <2>6, <2>8
  <2>10. Cardinality({j \in 1 .. Len(AbsQueue[c.q]) : ~ AbsQueue[c.q][j].isr}) < MaxMsgs
    <3>1. AbsQueue[c.q] = Abs(k.msgs[c.q])
      BY <2>2 DEF AbsQueue
    <3>2. {j \in 1 .. Len(AbsQueue[c.q]) : ~ AbsQueue[c.q][j].isr} = OfTask(k.msgs[c.q])
      BY <2>2, <3>1, AbsTasks
    <3> QED
      BY <1>1, <2>1, <3>2 DEF Place
  <2>11. Abstract!Put(r)
    <3>1. AbsEnter(AbsSending[r].q, [prio |-> AbsSending[r].prio, isr |-> FALSE])
      BY <2>4, <2>5, <2>9, Zenon
    <3>2. Cardinality({j \in 1 .. Len(AbsQueue[AbsSending[r].q]) : ~ AbsQueue[AbsSending[r].q][j].isr})
            < MaxMsgs
      BY <2>9, <2>10, Zenon
    <3> QED
      BY <2>7, <2>8, <2>9, <3>1, <3>2, AbsForms, Zenon
  <2> QED
    BY <1>1, <2>11
<1>10. ASSUME NEW c, Frees(c) PROVE \E t \in Task : Abstract!Deliver(t)
  <2>1. Acts(None, c) /\ call[r].op = "doreceive" /\ c.op \notin {"dosend", "doreceive"} /\ k'.msgs = k.msgs
    BY <1>1, <1>10 DEF Frees, Same, OwnField
  <2>2. /\ RecvOf(call[r]) # None /\ RecvOf(c) = None /\ SendOf(c) = None /\ SendOf(call[r]) = None
    BY <1>1, <1>5, <2>1, NotNone
  <2>3. AbsQueue' = AbsQueue /\ AbsSending' = AbsSending
    BY <1>3, <2>1, <2>2, AbsStays
  <2>4. AbsReceived' = [AbsReceived EXCEPT ![r] = None] /\ AbsReceived[r] # None
    BY <2>1, <2>2, AbsCalls
  <2>5. Abstract!Deliver(r)
    BY <2>3, <2>4, AbsForms
  <2> QED
    BY <1>1, <2>5
<1>11. ASSUME NEW q \in Queue, NEW t \in Task \cup {None}, IsrSends(q, t)
       PROVE  \E p \in MsgPrio : Abstract!PutByIsr(q, p)
  <2>1. Acts(t, call[r]) /\ Own(k')
    BY <1>11 DEF IsrSends, Acts
  <2>2. PICK p \in MsgPrio, i \in Nat :
           LET msg == [prio |-> p, pool |-> AllocIsrPool(k), isr |-> TRUE] IN
           /\ msg \in Msg /\ InsertPos(k.msgs[q], msg, i)
           /\ k'.msgs = [k.msgs EXCEPT ![q] = InsertAt(k.msgs[q], i, msg)]
    BY <1>11 DEF IsrSends
  <2> DEFINE msg == [prio |-> p, pool |-> AllocIsrPool(k), isr |-> TRUE]
  <2>3. Plain(msg) = [prio |-> p, isr |-> TRUE]
    BY DEF Plain
  <2> HIDE DEF msg
  <2>4. /\ msg \in Msg /\ InsertPos(k.msgs[q], msg, i)
        /\ k'.msgs = [k.msgs EXCEPT ![q] = InsertAt(k.msgs[q], i, msg)]
    BY <2>2 DEF msg
  <2>5. AbsEnter(q, [prio |-> p, isr |-> TRUE])
    BY <2>1, <2>3, <2>4, EnterStep
  <2>6. AbsSending' = AbsSending /\ AbsReceived' = AbsReceived
    BY <1>3, <1>4, <2>1
  <2>7. Abstract!PutByIsr(q, p)
    BY <2>5, <2>6, AbsForms
  <2> QED
    BY <2>7
<1>12. CASE \E t, c : Idles(t, c)
  BY <1>6, <1>12
<1>13. CASE \/ \E c : Prepares(c) \/ Takes(c) \/ Inserts(c) \/ Frees(c)
            \/ \E q \in Queue, t \in Task \cup {None} : IsrSends(q, t)
  <2>1. Abstract!Next
    BY <1>7, <1>8, <1>9, <1>10, <1>11, <1>13 DEF Abstract!Next
  <2> QED
    BY <2>1
<1> QED
  BY <1>12, <1>13, KindIdles

LEMMA InitAbs ==
    ASSUME Init
    PROVE  InPlace /\ Abstract!Init
<1>1. k.msgs = [q \in Queue |-> <<>>] /\ call = [t \in Task |-> UserCall] /\ UserCall.op = "user"
  BY UserCallOK DEF Init
<1>2. Ordered(<<>>) /\ Abs(<<>>) = <<>>
  BY DEF Ordered, Abs
<1>3. InPlace
  BY <1>1, <1>2 DEF InPlace, Place
<1>4. AbsQueue = [q \in Queue |-> <<>>]
  BY <1>1, <1>2 DEF AbsQueue
<1>5. AbsSending = [t \in Task |-> None] /\ AbsReceived = [t \in Task |-> None]
  BY <1>1 DEF AbsSending, AbsReceived, SendOf, RecvOf
<1> QED
  BY <1>3, <1>4, <1>5 DEF Abstract!Init

LEMMA Implements ==
    ASSUME "window" \notin Api, Inv, InPlace, [Next]_vars
    PROVE  InPlace' /\ [Abstract!Next]_(Abstract!vars)
<1>1. CASE Next
  <2>1. Core /\ Kind
    BY <1>1, NextKind DEF Inv
  <2> QED
    BY <2>1, InPlaceKind, AbsStep
<1>2. CASE UNCHANGED vars
  <2>1. k' = k /\ call' = call
    BY <1>2 DEF vars
  <2>2. InPlace'
    BY <2>1 DEF InPlace, Place
  <2>3. AbsQueue' = AbsQueue /\ AbsSending' = AbsSending /\ AbsReceived' = AbsReceived
    BY <2>1 DEF AbsQueue, AbsSending, AbsReceived, Abs, SendOf, RecvOf
  <2> QED
    BY <2>2, <2>3 DEF Abstract!vars
<1> QED
  BY <1>1, <1>2

(* A message queue is what MQueueSpec promises: a priority queue, first in *)
(* first out among equal priorities, each message received once, and at    *)
(* most mq_maxmsg messages of tasks, whatever timeouts, signals and        *)
(* interrupt handlers come between the steps of mq_send() and mq_receive(). *)
THEOREM IsQueueHolds == ASSUME "window" \notin Api PROVE Spec => IsQueue
<1>1. Init => InPlace /\ Abstract!Init
  BY InitAbs
<1>2. Inv /\ InPlace /\ [Next]_vars => InPlace' /\ [Abstract!Next]_(Abstract!vars)
  BY Implements
<1> QED
  BY <1>1, <1>2, Invariance, PTL DEF Spec, IsQueue, Abstract!Spec

-----------------------------------------------------------------------------
(* The message structures.  Where those of a free list are in the queues:  *)
(* queue and index.                                                        *)
Stored(ms, pool) == UNION {{q} \X {i \in 1 .. Len(ms[q]) : ms[q][i].pool = pool} : q \in Queue}

(* u is s with a message more, at i. *)
More(s, u, i, msg) ==
    /\ i \in 1 .. Len(s) + 1 /\ Len(u) = Len(s) + 1
    /\ \A j \in 1 .. Len(s) + 1 : u[j] = IF j < i THEN s[j] ELSE IF j = i THEN msg ELSE s[j - 1]

(* The queues b are the queues a with a message more, in q at i. *)
Grows(a, b, q, i, msg) == More(a[q], b[q], i, msg) /\ \A p \in Queue \ {q} : b[p] = a[p]

LEMMA StoredLemma ==
    ASSUME NEW ms, NEW pool
    PROVE  /\ \A q, i : <<q, i>> \in Stored(ms, pool) <=>
                 q \in Queue /\ i \in 1 .. Len(ms[q]) /\ ms[q][i].pool = pool
           /\ \A x \in Stored(ms, pool) : x = <<x[1], x[2]>>
<1>1. ASSUME NEW q, NEW i
      PROVE  <<q, i>> \in Stored(ms, pool) <=> q \in Queue /\ i \in 1 .. Len(ms[q]) /\ ms[q][i].pool = pool
  BY DEF Stored
<1>2. ASSUME NEW x \in Stored(ms, pool) PROVE x = <<x[1], x[2]>>
  BY DEF Stored
<1> QED
  BY <1>1, <1>2

LEMMA StoredMore ==
    ASSUME NEW a \in [Queue -> Seq(Msg)], NEW b \in [Queue -> Seq(Msg)], NEW q \in Queue,
           NEW i, NEW msg, NEW pool, Grows(a, b, q, i, msg)
    PROVE  /\ ExistsBijection(Stored(a, pool), Stored(b, pool) \ {<<q, i>>})
           /\ ExistsBijection(Stored(b, pool) \ {<<q, i>>}, Stored(a, pool))
           /\ <<q, i>> \in Stored(b, pool) <=> msg.pool = pool
<1> DEFINE A == Stored(a, pool)
           B == Stored(b, pool) \ {<<q, i>>}
           g(x) == <<x[1], IF x[1] = q /\ x[2] >= i THEN x[2] + 1 ELSE x[2]>>
           f == [x \in A |-> g(x)]
           h(y) == <<y[1], IF y[1] = q /\ y[2] > i THEN y[2] - 1 ELSE y[2]>>
<1>1. /\ \A p \in Queue : Len(a[p]) \in Nat /\ Len(b[p]) \in Nat
      /\ i \in 1 .. Len(a[q]) + 1 /\ Len(b[q]) = Len(a[q]) + 1
      /\ \A j \in 1 .. Len(a[q]) + 1 : b[q][j] = IF j < i THEN a[q][j] ELSE IF j = i THEN msg ELSE a[q][j - 1]
      /\ \A p \in Queue \ {q} : b[p] = a[p]
  BY DEF Grows, More
<1>2. <<q, i>> \in Stored(b, pool) <=> msg.pool = pool
  BY <1>1, StoredLemma
<1>3. ASSUME NEW x \in A PROVE g(x) \in B /\ x[2] \in Nat /\ x = <<x[1], x[2]>>
  <2>1. x = <<x[1], x[2]>> /\ x[1] \in Queue /\ x[2] \in 1 .. Len(a[x[1]]) /\ a[x[1]][x[2]].pool = pool
    BY StoredLemma
  <2>2. CASE x[1] # q
    <3>1. b[x[1]] = a[x[1]] /\ g(x) = <<x[1], x[2]>>
      BY <1>1, <2>1, <2>2
    <3>2. <<x[1], x[2]>> \in Stored(b, pool)
      BY <2>1, <3>1, StoredLemma
    <3> QED
      BY <1>1, <2>1, <2>2, <3>1, <3>2
  <2>3. CASE x[1] = q /\ x[2] >= i
    <3>1. x[2] + 1 \in 1 .. Len(b[q]) /\ b[q][x[2] + 1] = a[q][x[2]] /\ x[2] + 1 # i
      BY <1>1, <2>1, <2>3
    <3>2. <<q, x[2] + 1>> \in Stored(b, pool)
      BY <2>1, <2>3, <3>1, StoredLemma
    <3>3. g(x) = <<q, x[2] + 1>>
      BY <2>3
    <3> QED
      BY <1>1, <2>1, <2>3, <3>1, <3>2, <3>3
  <2>4. CASE x[1] = q /\ ~ (x[2] >= i)
    <3>1. x[2] \in 1 .. Len(b[q]) /\ b[q][x[2]] = a[q][x[2]] /\ x[2] # i
      BY <1>1, <2>1, <2>4
    <3>2. <<q, x[2]>> \in Stored(b, pool)
      BY <2>1, <2>4, <3>1, StoredLemma
    <3>3. g(x) = <<q, x[2]>>
      BY <2>4
    <3> QED
      BY <1>1, <2>1, <2>4, <3>1, <3>2, <3>3
  <2> QED
    BY <2>2, <2>3, <2>4
<1>4. ASSUME NEW y \in B PROVE h(y) \in A /\ g(h(y)) = y
  <2>1. y = <<y[1], y[2]>> /\ y[1] \in Queue /\ y[2] \in 1 .. Len(b[y[1]]) /\ b[y[1]][y[2]].pool = pool
    BY StoredLemma
  <2>2. CASE y[1] # q
    <3>1. b[y[1]] = a[y[1]] /\ h(y) = <<y[1], y[2]>>
      BY <1>1, <2>1, <2>2
    <3>2. <<y[1], y[2]>> \in A
      BY <2>1, <3>1, StoredLemma
    <3> QED
      BY <2>1, <2>2, <3>1, <3>2
  <2>3. y[1] = q => y[2] # i
    BY <2>1
  <2>4. CASE y[1] = q /\ y[2] > i
    <3>1. y[2] - 1 \in 1 .. Len(a[q]) /\ b[q][y[2]] = a[q][y[2] - 1] /\ y[2] - 1 >= i /\ (y[2] - 1) + 1 = y[2]
      BY <1>1, <2>1, <2>4
    <3>2. <<q, y[2] - 1>> \in A
      BY <2>1, <2>4, <3>1, StoredLemma
    <3>3. h(y) = <<q, y[2] - 1>>
      BY <2>4
    <3> QED
      BY <2>1, <2>4, <3>1, <3>2, <3>3
  <2>5. CASE y[1] = q /\ y[2] < i
    <3>1. y[2] \in 1 .. Len(a[q]) /\ b[q][y[2]] = a[q][y[2]] /\ ~ (y[2] >= i) /\ ~ (y[2] > i)
      BY <1>1, <2>1, <2>5
    <3>2. <<q, y[2]>> \in A
      BY <2>1, <2>5, <3>1, StoredLemma
    <3>3. h(y) = <<q, y[2]>>
      BY <2>5, <3>1
    <3> QED
      BY <2>1, <2>5, <3>1, <3>2, <3>3
  <2>6. y[1] = q => y[2] > i \/ y[2] < i
    BY <1>1, <2>1, <2>3
  <2> QED
    BY <2>2, <2>4, <2>5, <2>6
<1>5. f \in Bijection(A, B)
  <2>1. f \in [A -> B]
    BY <1>3
  <2>2. ASSUME NEW x \in A, NEW y \in A, f[x] = f[y] PROVE x = y
    <3>1. g(x) = g(y) /\ x = <<x[1], x[2]>> /\ y = <<y[1], y[2]>> /\ x[2] \in Nat /\ y[2] \in Nat /\ i \in Nat
      BY <1>1, <1>3, <2>2
    <3>2. x[1] = y[1]
      BY <3>1
    <3>3. (IF x[1] = q /\ x[2] >= i THEN x[2] + 1 ELSE x[2]) = (IF y[1] = q /\ y[2] >= i THEN y[2] + 1 ELSE y[2])
      BY <3>1
    <3>4. x[2] = y[2]
      BY <3>1, <3>2, <3>3
    <3> QED
      BY <3>1, <3>2, <3>4
  <2>3. \A y \in B : \E x \in A : f[x] = y
    BY <1>4
  <2> HIDE DEF f, A, B
  <2> QED
    BY <2>1, <2>2, <2>3 DEF Bijection, Injection, Surjection, IsInjective
<1> HIDE DEF f, A, B
<1>6. ExistsBijection(A, B) /\ ExistsBijection(B, A)
  <2>1. ExistsBijection(A, B)
    BY <1>5 DEF ExistsBijection
  <2> QED
    BY <2>1, Fun_ExistsBijSymmetric
<1> QED
  BY <1>2, <1>6 DEF A, B

(* b holds one message of pool more than a, if msg is one of them. *)
Counts(a, b, pool, msg) ==
    /\ IsFiniteSet(Stored(a, pool)) /\ IsFiniteSet(Stored(b, pool))
    /\ Cardinality(Stored(b, pool)) = Cardinality(Stored(a, pool)) + IF msg.pool = pool THEN 1 ELSE 0

LEMMA StoredCount ==
    ASSUME NEW a \in [Queue -> Seq(Msg)], NEW b \in [Queue -> Seq(Msg)], NEW q \in Queue,
           NEW i, NEW msg, NEW pool, Grows(a, b, q, i, msg),
           IsFiniteSet(Stored(a, pool)) \/ IsFiniteSet(Stored(b, pool))
    PROVE  Counts(a, b, pool, msg)
<1>1. /\ ExistsBijection(Stored(a, pool), Stored(b, pool) \ {<<q, i>>})
      /\ ExistsBijection(Stored(b, pool) \ {<<q, i>>}, Stored(a, pool))
      /\ <<q, i>> \in Stored(b, pool) <=> msg.pool = pool
  BY StoredMore
<1> DEFINE A == Stored(a, pool)
           B == Stored(b, pool)
           x == <<q, i>>
<1>2. /\ ExistsBijection(A, B \ {x}) /\ ExistsBijection(B \ {x}, A)
      /\ x \in B <=> msg.pool = pool
  BY <1>1, Zenon
<1>3. IsFiniteSet(A) \/ IsFiniteSet(B)
  OBVIOUS
<1> HIDE DEF A, B, x
<1>4. ASSUME IsFiniteSet(B) PROVE IsFiniteSet(A)
  <2>1. IsFiniteSet(B \ {x})
    BY <1>4, FS_RemoveElement
  <2> QED
    BY <1>2, <1>4, <2>1, FS_Bijection
<1>5. ASSUME IsFiniteSet(A) PROVE IsFiniteSet(B)
  <2>1. IsFiniteSet(B \ {x})
    BY <1>2, <1>5, FS_Bijection
  <2>2. IsFiniteSet((B \ {x}) \cup {x})
    BY <2>1, FS_AddElement
  <2>3. B = (IF x \in B THEN (B \ {x}) \cup {x} ELSE B \ {x})
    OBVIOUS
  <2> QED
    BY <1>5, <2>1, <2>2, <2>3
<1>6. IsFiniteSet(A) /\ IsFiniteSet(B) /\ IsFiniteSet(B \ {x})
  BY <1>3, <1>4, <1>5, FS_RemoveElement
<1>7. /\ Cardinality(A) = Cardinality(B \ {x})
      /\ Cardinality(B \ {x}) = IF x \in B THEN Cardinality(B) - 1 ELSE Cardinality(B)
      /\ Cardinality(A) \in Nat /\ Cardinality(B) \in Nat
  BY <1>2, <1>6, FS_Bijection, FS_RemoveElement, FS_CardinalityType
<1>8. Cardinality(B) = Cardinality(A) + IF msg.pool = pool THEN 1 ELSE 0
  BY <1>2, <1>7
<1> QED
  BY <1>6, <1>8 DEF A, B, Counts

(* What is on a free list, and what a call has in hand. *)
FreeOf(m, pool) == IF pool = "FIXED" THEN m.nfree ELSE m.nirq
InHand(c, pool) == IF c.op \in {"dosend", "doreceive"} /\ c.msg.pool = pool THEN 1 ELSE 0
Total(pool) == IF pool = "FIXED" THEN NFixed ELSE NIrq
Pool == {"FIXED", "IRQ"}

(* The conservation of the message structures, as it is inductive: only    *)
(* the running task has one in hand.                                       *)
Kept ==
    \A pool \in Pool :
        /\ IsFiniteSet(Stored(k.msgs, pool))
        /\ FreeOf(k, pool) + Cardinality(Stored(k.msgs, pool)) + InHand(call[r], pool) = Total(pool)

LEMMA InHandOnce ==
    ASSUME Core, NEW pool
    PROVE  Has({"dosend", "doreceive"}, pool) = InHand(call[r], pool)
<1> DEFINE H == {t \in Task : call[t].op \in {"dosend", "doreceive"} /\ call[t].msg.pool = pool}
<1>1. r \in Task /\ \A t \in Task : t # r => call[t].op \notin {"dosend", "doreceive"}
  BY RunFacts DEF Core, OffCpu
<1>2. Has({"dosend", "doreceive"}, pool) = Cardinality(H)
  BY DEF Has
<1>3. CASE call[r].op \in {"dosend", "doreceive"} /\ call[r].msg.pool = pool
  <2>1. H = {r}
    BY <1>1, <1>3
  <2>2. Cardinality({r}) = 1
    BY FS_Singleton
  <2> QED
    BY <1>2, <1>3, <2>1, <2>2 DEF InHand
<1>4. CASE ~ (call[r].op \in {"dosend", "doreceive"} /\ call[r].msg.pool = pool)
  <2>1. H = {}
    BY <1>1, <1>4
  <2>2. Cardinality({}) = 0
    BY FS_EmptySet
  <2> QED
    BY <1>2, <1>4, <2>1, <2>2 DEF InHand
<1> QED
  BY <1>3, <1>4

LEMMA KeptConserves ==
    ASSUME Core, Kept
    PROVE  PoolConserved /\ k.nfree \in 0 .. NFixed /\ k.nirq \in 0 .. NIrq
<1>1. ASSUME NEW pool \in Pool
      PROVE  /\ Queued(pool) = Cardinality(Stored(k.msgs, pool)) /\ Queued(pool) \in Nat
             /\ Has({"dosend", "doreceive"}, pool) = InHand(call[r], pool)
             /\ InHand(call[r], pool) \in Nat
             /\ FreeOf(k, pool) + Queued(pool) + InHand(call[r], pool) = Total(pool)
  <2>1. IsFiniteSet(Stored(k.msgs, pool))
    BY DEF Kept
  <2>2. Queued(pool) = Cardinality(Stored(k.msgs, pool))
    BY DEF Queued, Places, Stored
  <2> QED
    BY <2>1, <2>2, InHandOnce, FS_CardinalityType DEF Kept, InHand
<1>2. k.nfree \in Nat /\ k.nirq \in Nat /\ NFixed \in Nat /\ NIrq \in Nat
  BY MQAssumption DEF Core, Own
<1>3. "FIXED" \in Pool /\ "IRQ" \in Pool /\ "FIXED" # "IRQ"
  BY DEF Pool
<1>4. k.nfree + Queued("FIXED") + InHand(call[r], "FIXED") = NFixed
  BY <1>1, <1>3 DEF FreeOf, Total
<1>5. k.nirq + Queued("IRQ") + InHand(call[r], "IRQ") = NIrq
  BY <1>1, <1>3 DEF FreeOf, Total
<1>6. PoolConserved
  BY <1>1, <1>3, <1>4, <1>5, Zenon DEF PoolConserved
<1>7. /\ Queued("FIXED") \in Nat /\ InHand(call[r], "FIXED") \in Nat
      /\ Queued("IRQ") \in Nat /\ InHand(call[r], "IRQ") \in Nat
  BY <1>1, <1>3
<1>8. k.nfree <= NFixed /\ k.nirq <= NIrq
  BY <1>2, <1>4, <1>5, <1>7
<1> QED
  BY <1>2, <1>6, <1>8

(* The step, where what is free, queued and in hand adds up as before. *)
LEMMA KeptStep ==
    ASSUME Core, NEW t, NEW c, Acts(t, c), Kept,
           \A pool \in Pool :
              /\ IsFiniteSet(Stored(k'.msgs, pool))
              /\ FreeOf(k', pool) + Cardinality(Stored(k'.msgs, pool)) + InHand(c, pool) =
                 FreeOf(k, pool) + Cardinality(Stored(k.msgs, pool)) + InHand(call[r], pool)
    PROVE  Kept'
<1>1. r \in Task /\ call \in [Task -> Call] /\ \A u \in Task : u # r => call[u].op \notin {"dosend", "doreceive"}
  BY RunFacts DEF Core, OffCpu
<1>2. call'[r] = c /\ \A u \in Task \ {r} : call'[u] = call[u]
  BY <1>1 DEF Acts
<1>3. Running(k') \in Task /\ (Running(k') = r \/ c.op \in OffCpu)
  BY ReadyFacts DEF Acts
<1>4. ASSUME NEW pool PROVE InHand(call'[Running(k')], pool) = InHand(c, pool)
  <2>1. CASE Running(k') = r
    BY <1>2, <2>1
  <2>2. CASE Running(k') # r
    <3>1. c.op \notin {"dosend", "doreceive"} /\ call'[Running(k')].op \notin {"dosend", "doreceive"}
      BY <1>1, <1>2, <1>3, <2>2 DEF OffCpu
    <3> QED
      BY <3>1 DEF InHand
  <2> QED
    BY <2>1, <2>2
<1>5. ASSUME NEW pool \in Pool
      PROVE  /\ IsFiniteSet(Stored(k'.msgs, pool))
             /\ FreeOf(k', pool) + Cardinality(Stored(k'.msgs, pool)) + InHand(call'[Running(k')], pool) = Total(pool)
  BY <1>4 DEF Kept
<1> QED
  BY <1>5 DEF Kept, FreeOf, Stored, InHand, r

LEMMA InsertGrows ==
    ASSUME NEW a \in [Queue -> Seq(Msg)], NEW b, NEW q \in Queue, NEW msg \in Msg, NEW i,
           InsertPos(a[q], msg, i), b = [a EXCEPT ![q] = InsertAt(a[q], i, msg)]
    PROVE  Grows(a, b, q, i, msg)
<1>1. a[q] \in Seq(Msg) /\ i \in 1 .. Len(a[q]) + 1
  BY DEF InsertPos
<1>2. b[q] = InsertAt(a[q], i, msg) /\ \A p \in Queue \ {q} : b[p] = a[p]
  OBVIOUS
<1>3. More(a[q], b[q], i, msg)
  BY <1>1, <1>2, InsertLemma DEF More
<1> QED
  BY <1>2, <1>3 DEF Grows

LEMMA TailGrows ==
    ASSUME NEW a \in [Queue -> Seq(Msg)], NEW b, NEW q \in Queue, a[q] # <<>>,
           b = [a EXCEPT ![q] = Tail(a[q])]
    PROVE  Grows(b, a, q, 1, Head(a[q]))
<1>1. a[q] \in Seq(Msg) /\ Len(a[q]) \in Nat /\ Len(a[q]) > 0
  OBVIOUS
<1>2. b[q] = Tail(a[q]) /\ \A p \in Queue \ {q} : a[p] = b[p]
  OBVIOUS
<1>3. Len(Tail(a[q])) = Len(a[q]) - 1 /\ \A j \in 1 .. Len(a[q]) - 1 : Tail(a[q])[j] = a[q][j + 1]
  BY <1>1
<1>4. ASSUME NEW j \in 1 .. Len(a[q])
      PROVE  a[q][j] = IF j < 1 THEN b[q][j] ELSE IF j = 1 THEN Head(a[q]) ELSE b[q][j - 1]
  <2>1. CASE j = 1
    BY <1>1, <2>1
  <2>2. CASE j # 1
    <3>1. j - 1 \in 1 .. Len(a[q]) - 1 /\ (j - 1) + 1 = j /\ ~ (j < 1)
      BY <1>1, <2>2
    <3> QED
      BY <1>2, <1>3, <2>2, <3>1
  <2> QED
    BY <2>1, <2>2
<1>5. Len(b[q]) + 1 = Len(a[q]) /\ 1 \in 1 .. Len(b[q]) + 1
  BY <1>1, <1>2, <1>3
<1>6. More(b[q], a[q], 1, Head(a[q]))
  BY <1>4, <1>5 DEF More
<1> QED
  BY <1>2, <1>6 DEF Grows

LEMMA KeptKind ==
    ASSUME Core, Kept, Kind
    PROVE  Kept'
<1>1. /\ r \in Task /\ UserCall.op = "user" /\ k.msgs \in [Queue -> Seq(Msg)] /\ CallOK(call[r])
      /\ k.nfree \in Nat /\ k.nirq \in Nat
  BY RunFacts, UserCallOK DEF Own
<1>2. ASSUME NEW t, NEW c, Acts(t, c)
      PROVE  k'.msgs \in [Queue -> Seq(Msg)] /\ k'.nfree \in Nat /\ k'.nirq \in Nat /\ CallOK(c)
  BY <1>2 DEF Acts, Own
<1>3. ASSUME NEW pool \in Pool
      PROVE  IsFiniteSet(Stored(k.msgs, pool)) /\ Cardinality(Stored(k.msgs, pool)) \in Nat
  BY FS_CardinalityType DEF Kept
<1>4. ASSUME NEW c, NEW pool PROVE InHand(c, pool) \in {0, 1}
  BY DEF InHand
<1>5. ASSUME NEW t, NEW c, Idles(t, c) PROVE Kept'
  <2>1. /\ Acts(t, c) /\ k'.msgs = k.msgs /\ k'.nfree = k.nfree /\ k'.nirq = k.nirq
        /\ \A pool : InHand(c, pool) = InHand(call[r], pool)
    BY <1>5 DEF Idles, InHand
  <2>2. ASSUME NEW pool \in Pool
        PROVE /\ IsFiniteSet(Stored(k'.msgs, pool))
              /\ FreeOf(k', pool) + Cardinality(Stored(k'.msgs, pool)) + InHand(c, pool) =
                 FreeOf(k, pool) + Cardinality(Stored(k.msgs, pool)) + InHand(call[r], pool)
    BY <1>3, <2>1 DEF FreeOf
  <2> QED
    BY <2>1, <2>2, KeptStep
<1>6. ASSUME NEW c, Prepares(c) PROVE Kept'
  <2>1. /\ Acts(None, c) /\ call[r].op \in {"user", "waitsend"} /\ c.op = "dosend"
        /\ c.msg.pool = (IF k.nfree > 0 THEN "FIXED" ELSE "DYN")
        /\ k'.nfree = IF k.nfree > 0 THEN k.nfree - 1 ELSE k.nfree
    BY <1>6 DEF Prepares, AllocPool
  <2>2. k'.msgs = k.msgs /\ k'.nirq = k.nirq
    BY <1>6 DEF Prepares, Same, OwnField
  <2>3. ASSUME NEW pool \in Pool
        PROVE  /\ InHand(call[r], pool) = 0
               /\ InHand(c, pool) = IF pool = "FIXED" /\ k.nfree > 0 THEN 1 ELSE 0
    BY <2>1 DEF InHand, Pool
  <2>4. ASSUME NEW pool \in Pool
        PROVE  FreeOf(k', pool) + InHand(c, pool) = FreeOf(k, pool)
    BY <1>1, <2>1, <2>2, <2>3 DEF FreeOf
  <2>5. ASSUME NEW pool \in Pool
        PROVE /\ IsFiniteSet(Stored(k'.msgs, pool))
              /\ FreeOf(k', pool) + Cardinality(Stored(k'.msgs, pool)) + InHand(c, pool) =
                 FreeOf(k, pool) + Cardinality(Stored(k.msgs, pool)) + InHand(call[r], pool)
    <3>1. FreeOf(k', pool) \in Nat /\ FreeOf(k, pool) \in Nat
      BY <1>1, <1>2, <2>1 DEF FreeOf
    <3> QED
      BY <1>3, <1>4, <2>2, <2>3, <2>4, <3>1
  <2> QED
    BY <2>1, <2>5, KeptStep
<1>7. ASSUME NEW c, Frees(c) PROVE Kept'
  <2>1. /\ Acts(None, c) /\ call[r].op = "doreceive" /\ c.op \in {"wakesend", "user"}
        /\ k'.nfree = IF call[r].msg.pool = "FIXED" THEN k.nfree + 1 ELSE k.nfree
        /\ k'.nirq = IF call[r].msg.pool = "IRQ" THEN k.nirq + 1 ELSE k.nirq
    BY <1>1, <1>7 DEF Frees
  <2>2. k'.msgs = k.msgs
    BY <1>7 DEF Frees, Same, OwnField
  <2>3. ASSUME NEW pool \in Pool
        PROVE  /\ InHand(call[r], pool) = (IF call[r].msg.pool = pool THEN 1 ELSE 0)
               /\ InHand(c, pool) = 0
    BY <2>1 DEF InHand, Pool
  <2>4. ASSUME NEW pool \in Pool
        PROVE  FreeOf(k', pool) = FreeOf(k, pool) + InHand(call[r], pool)
    BY <1>1, <2>1, <2>2, <2>3 DEF FreeOf, Pool
  <2>5. ASSUME NEW pool \in Pool
        PROVE /\ IsFiniteSet(Stored(k'.msgs, pool))
              /\ FreeOf(k', pool) + Cardinality(Stored(k'.msgs, pool)) + InHand(c, pool) =
                 FreeOf(k, pool) + Cardinality(Stored(k.msgs, pool)) + InHand(call[r], pool)
    <3>1. FreeOf(k', pool) \in Nat /\ FreeOf(k, pool) \in Nat
      BY <1>1, <1>2, <2>1 DEF FreeOf
    <3> QED
      BY <1>3, <1>4, <2>2, <2>3, <2>4, <3>1
  <2> QED
    BY <2>1, <2>5, KeptStep
<1>8. ASSUME NEW c, Takes(c) PROVE Kept'
  <2>1. /\ Acts(None, c) /\ call[r].op \in {"user", "waitrecv"} /\ c.op = "doreceive"
        /\ c.q \in Queue /\ k.msgs[c.q] # <<>> /\ c.msg = Head(k.msgs[c.q])
        /\ k'.msgs = [k.msgs EXCEPT ![c.q] = Tail(k.msgs[c.q])]
    BY <1>8 DEF Takes
  <2>2. k'.nfree = k.nfree /\ k'.nirq = k.nirq
    BY <1>8 DEF Takes, Same, OwnField
  <2>3. k'.msgs \in [Queue -> Seq(Msg)] /\ Grows(k'.msgs, k.msgs, c.q, 1, c.msg)
    <3>1. Grows(k'.msgs, k.msgs, c.q, 1, Head(k.msgs[c.q]))
      BY <1>1, <2>1, TailGrows
    <3> QED
      BY <1>2, <2>1, <3>1
  <2>4. ASSUME NEW pool \in Pool
        PROVE  /\ InHand(call[r], pool) = 0
               /\ InHand(c, pool) = IF c.msg.pool = pool THEN 1 ELSE 0
    BY <2>1 DEF InHand
  <2>5. ASSUME NEW pool \in Pool
        PROVE  /\ IsFiniteSet(Stored(k'.msgs, pool)) /\ Cardinality(Stored(k'.msgs, pool)) \in Nat
               /\ Cardinality(Stored(k.msgs, pool)) = Cardinality(Stored(k'.msgs, pool)) + InHand(c, pool)
    <3>1. IsFiniteSet(Stored(k.msgs, pool)) \/ IsFiniteSet(Stored(k'.msgs, pool))
      BY <1>3
    <3>2. Counts(k'.msgs, k.msgs, pool, c.msg)
      BY <1>1, <2>1, <2>3, <3>1, StoredCount
    <3>3. /\ IsFiniteSet(Stored(k'.msgs, pool))
          /\ Cardinality(Stored(k.msgs, pool)) =
               Cardinality(Stored(k'.msgs, pool)) + IF c.msg.pool = pool THEN 1 ELSE 0
      BY <3>2 DEF Counts
    <3> QED
      BY <2>4, <3>3, FS_CardinalityType
  <2>6. ASSUME NEW pool \in Pool
        PROVE /\ IsFiniteSet(Stored(k'.msgs, pool))
              /\ FreeOf(k', pool) + Cardinality(Stored(k'.msgs, pool)) + InHand(c, pool) =
                 FreeOf(k, pool) + Cardinality(Stored(k.msgs, pool)) + InHand(call[r], pool)
    <3>1. FreeOf(k', pool) = FreeOf(k, pool) /\ FreeOf(k, pool) \in Nat
      BY <1>1, <2>2 DEF FreeOf
    <3> QED
      BY <1>3, <1>4, <2>4, <2>5, <3>1
  <2> QED
    BY <2>1, <2>6, KeptStep
<1>9. ASSUME NEW c, Inserts(c) PROVE Kept'
  <2>1. Acts(None, c) /\ c.op = "notify" /\ call[r].op = "dosend" /\ c.q = call[r].q
    BY <1>9 DEF Inserts
  <2>2. c.q \in Queue /\ call[r].msg \in Msg
    BY <1>1, <2>1 DEF CallOK
  <2>3. PICK i : /\ InsertPos(k.msgs[c.q], call[r].msg, i)
                 /\ k'.msgs = [k.msgs EXCEPT ![c.q] = InsertAt(k.msgs[c.q], i, call[r].msg)]
    BY <1>9 DEF Inserts
  <2>4. k'.nfree = k.nfree /\ k'.nirq = k.nirq
    BY <1>9 DEF Inserts, Same, OwnField
  <2>5. k'.msgs \in [Queue -> Seq(Msg)] /\ Grows(k.msgs, k'.msgs, c.q, i, call[r].msg)
    BY <1>1, <1>2, <2>1, <2>2, <2>3, InsertGrows
  <2>6. ASSUME NEW pool \in Pool
        PROVE  /\ InHand(call[r], pool) = (IF call[r].msg.pool = pool THEN 1 ELSE 0)
               /\ InHand(c, pool) = 0
    BY <2>1 DEF InHand
  <2>7. ASSUME NEW pool \in Pool
        PROVE  /\ IsFiniteSet(Stored(k'.msgs, pool)) /\ Cardinality(Stored(k'.msgs, pool)) \in Nat
               /\ Cardinality(Stored(k'.msgs, pool)) = Cardinality(Stored(k.msgs, pool)) + InHand(call[r], pool)
    <3>1. IsFiniteSet(Stored(k.msgs, pool)) \/ IsFiniteSet(Stored(k'.msgs, pool))
      BY <1>3
    <3>2. Counts(k.msgs, k'.msgs, pool, call[r].msg)
      BY <1>1, <2>2, <2>5, <3>1, StoredCount
    <3>3. /\ IsFiniteSet(Stored(k'.msgs, pool))
          /\ Cardinality(Stored(k'.msgs, pool)) =
               Cardinality(Stored(k.msgs, pool)) + IF call[r].msg.pool = pool THEN 1 ELSE 0
      BY <3>2 DEF Counts
    <3> QED
      BY <2>6, <3>3, FS_CardinalityType
  <2>8. ASSUME NEW pool \in Pool
        PROVE /\ IsFiniteSet(Stored(k'.msgs, pool))
              /\ FreeOf(k', pool) + Cardinality(Stored(k'.msgs, pool)) + InHand(c, pool) =
                 FreeOf(k, pool) + Cardinality(Stored(k.msgs, pool)) + InHand(call[r], pool)
    <3>1. FreeOf(k', pool) = FreeOf(k, pool) /\ FreeOf(k, pool) \in Nat
      BY <1>1, <2>4 DEF FreeOf
    <3> QED
      BY <1>3, <1>4, <2>6, <2>7, <3>1
  <2> QED
    BY <2>1, <2>8, KeptStep
<1>10. ASSUME NEW q \in Queue, NEW t \in Task \cup {None}, IsrSends(q, t) PROVE Kept'
  <2>1. /\ Acts(t, call[r]) /\ k.nfree + k.nirq > 0
        /\ k'.nfree = IF k.nfree > 0 THEN k.nfree - 1 ELSE k.nfree
        /\ k'.nirq = IF k.nfree > 0 THEN k.nirq ELSE k.nirq - 1
    BY <1>10 DEF IsrSends
  <2>2. PICK p \in MsgPrio, i \in Nat :
           LET msg == [prio |-> p, pool |-> AllocIsrPool(k), isr |-> TRUE] IN
           /\ msg \in Msg /\ InsertPos(k.msgs[q], msg, i)
           /\ k'.msgs = [k.msgs EXCEPT ![q] = InsertAt(k.msgs[q], i, msg)]
    BY <1>10 DEF IsrSends
  <2> DEFINE msg == [prio |-> p, pool |-> AllocIsrPool(k), isr |-> TRUE]
  <2>3. msg.pool = IF k.nfree > 0 THEN "FIXED" ELSE "IRQ"
    BY DEF AllocIsrPool
  <2> HIDE DEF msg
  <2>4. /\ msg \in Msg /\ InsertPos(k.msgs[q], msg, i)
        /\ k'.msgs = [k.msgs EXCEPT ![q] = InsertAt(k.msgs[q], i, msg)]
    BY <2>2 DEF msg
  <2>5. k'.msgs \in [Queue -> Seq(Msg)] /\ Grows(k.msgs, k'.msgs, q, i, msg)
    BY <1>1, <1>2, <2>1, <2>4, InsertGrows
  <2>6. ASSUME NEW pool \in Pool
        PROVE  FreeOf(k', pool) + (IF msg.pool = pool THEN 1 ELSE 0) = FreeOf(k, pool)
    BY <1>1, <2>1, <2>3 DEF FreeOf, Pool
  <2>7. ASSUME NEW pool \in Pool
        PROVE /\ IsFiniteSet(Stored(k'.msgs, pool))
              /\ FreeOf(k', pool) + Cardinality(Stored(k'.msgs, pool)) + InHand(call[r], pool) =
                 FreeOf(k, pool) + Cardinality(Stored(k.msgs, pool)) + InHand(call[r], pool)
    <3>1. IsFiniteSet(Stored(k.msgs, pool)) \/ IsFiniteSet(Stored(k'.msgs, pool))
      BY <1>3
    <3>2. Counts(k.msgs, k'.msgs, pool, msg)
      BY <1>1, <2>5, <3>1, StoredCount
    <3>3. /\ IsFiniteSet(Stored(k'.msgs, pool))
          /\ Cardinality(Stored(k'.msgs, pool)) =
               Cardinality(Stored(k.msgs, pool)) + IF msg.pool = pool THEN 1 ELSE 0
      BY <3>2 DEF Counts
    <3>4. FreeOf(k', pool) \in Nat /\ FreeOf(k, pool) \in Nat
      BY <1>1, <1>2, <2>1 DEF FreeOf
    <3> QED
      BY <1>3, <1>4, <2>6, <3>3, <3>4
  <2> QED
    BY <2>1, <2>7, KeptStep
<1> QED
  BY <1>5, <1>6, <1>7, <1>8, <1>9, <1>10, KindIdles

LEMMA InitKept == Init => Kept
<1> SUFFICES ASSUME Init PROVE Kept
  OBVIOUS
<1>1. /\ Core /\ k.msgs = [q \in Queue |-> <<>>] /\ call = [t \in Task |-> UserCall]
      /\ UserCall.op = "user" /\ k.nfree = NFixed /\ k.nirq = NIrq /\ NFixed \in Nat /\ NIrq \in Nat
  <2>1. Core
    BY InitInv DEF Inv
  <2>2. /\ k.msgs = [q \in Queue |-> <<>>] /\ call = [t \in Task |-> UserCall]
        /\ k.nfree = NFixed /\ k.nirq = NIrq
    BY DEF Init
  <2> QED
    BY <2>1, <2>2, UserCallOK, MQAssumption
<1>2. ASSUME NEW pool \in Pool PROVE Stored(k.msgs, pool) = {}
  BY <1>1 DEF Stored
<1>3. IsFiniteSet({}) /\ Cardinality({}) = 0
  BY FS_EmptySet
<1>4. ASSUME NEW pool \in Pool PROVE InHand(call[r], pool) = 0 /\ FreeOf(k, pool) = Total(pool) /\ Total(pool) \in Nat
  BY <1>1, RunFacts DEF InHand, FreeOf, Total
<1> QED
  BY <1>2, <1>3, <1>4 DEF Kept

LEMMA TimedType ==
    ASSUME Core, timed \subseteq Task, [Next]_vars
    PROVE  timed' \subseteq Task
<1>1. r \in Task
  BY RunFacts
<1>2. ASSUME NEW q, NEW p, mq_send(q, p) \/ mq_receive(q) \/ IsrSend(q, p) \/ mq_notify(q, p)
      PROVE  timed' \subseteq Task
  BY <1>1, <1>2 DEF mq_send, mq_receive, IsrSend, mq_notify
<1>3. ASSUME NEW t, Timeout(t) \/ kill(t) \/ Wake(t) \/ Delete(t) PROVE timed' \subseteq Task
  BY <1>3 DEF Timeout, kill, Wake, Delete
<1>4. CASE mq_waitsend \/ mq_waitreceive
  BY <1>4 DEF mq_waitsend, mq_waitreceive
<1>5. CASE \/ DoSend \/ DoSendNotify \/ DoSendDetach \/ DoSendWake \/ DoReceive \/ DoReceiveWake
           \/ Sleep \/ DeleteUnlink
  <2>1. timed' = timed
    BY <1>5, Zenon DEF DoSend, DoSendNotify, DoSendDetach, DoSendWake, DoReceive, DoReceiveWake, Sleep, DeleteUnlink
  <2> QED
    BY <2>1
<1>6. CASE UNCHANGED vars
  BY <1>6 DEF vars
<1> QED
  BY <1>2, <1>3, <1>4, <1>5, <1>6 DEF Next

(* mq_msgalloc() and mq_msgfree() lose no message structure: each of the   *)
(* CONFIG_PREALLOC_MQ_MSGS of g_msgfree and of the NUM_INTERRUPT_MSGS of   *)
(* g_msgfreeirq is free, in one place of one queue or in the hands of one  *)
(* task, and returns to the list it came from, whatever timeout, signal or *)
(* deletion ends a call.                                                   *)
THEOREM PoolSoundHolds == ASSUME "window" \notin Api PROVE Spec => []PoolSound
<1> DEFINE P == Kept /\ timed \subseteq Task
<1>1. Init => P
  BY InitKept DEF Init
<1>2. Inv /\ P /\ [Next]_vars => P'
  <2> SUFFICES ASSUME Inv, P, [Next]_vars PROVE P'
    OBVIOUS
  <2>1. Core
    BY DEF Inv
  <2>2. CASE Next
    <3>1. Kind
      BY <2>1, <2>2, NextKind DEF Inv
    <3> QED
      BY <2>1, <3>1, KeptKind, TimedType
  <2>3. CASE UNCHANGED vars
    <3>1. k' = k /\ call' = call /\ timed' = timed
      BY <2>3 DEF vars
    <3>2. ASSUME NEW pool \in Pool
          PROVE  /\ IsFiniteSet(Stored(k'.msgs, pool))
                 /\ FreeOf(k', pool) + Cardinality(Stored(k'.msgs, pool)) + InHand(call'[Running(k')], pool) = Total(pool)
      BY <3>1 DEF Kept, r
    <3>3. Kept'
      BY <3>2 DEF Kept, FreeOf, InHand, r, Stored
    <3> QED
      BY <3>1, <3>3
  <2> QED
    BY <2>2, <2>3
<1>3. Inv /\ P => PoolSound
  <2> SUFFICES ASSUME Inv, P PROVE PoolSound
    OBVIOUS
  <2>1. Core /\ WaitersCounted /\ owed \subseteq Task /\ Own(k)
    BY DEF Inv, Core
  <2>2. PoolConserved /\ k.nfree \in 0 .. NFixed /\ k.nirq \in 0 .. NIrq
    BY <2>1, KeptConserves
  <2>3. k.empty \in [Queue -> Nat] /\ k.full \in [Queue -> Nat]
    <3>1. \A q \in Queue : k.empty[q] \in Nat /\ k.full[q] \in Nat
      BY <2>1, BlockedFinite DEF WaitersCounted
    <3> QED
      BY <2>1, <3>1 DEF Own
  <2> QED
    BY <2>1, <2>2, <2>3 DEF PoolSound, TypeOK, Own
<1> HIDE DEF P
<1> QED
  BY <1>1, <1>2, <1>3, Invariance, PTL DEF Spec
=============================================================================
