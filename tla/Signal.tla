-------------------------------- MODULE Signal -------------------------------
(***************************************************************************)
(* Signals (os/kernel/signal, arm_schedulesigaction.c, arm_sigdeliver.c)   *)
(* sent to one task R, by another task S, by interrupt handlers and by R   *)
(* itself.                                                                 *)
(*                                                                         *)
(*   k      what the kernel keeps: R's sigprocmask (mask), sigpendingq     *)
(*          (pendq), sigpendactionq (actq), sigpostedq (posted),           *)
(*          xcp.sigdeliver (tramp), whether R is in TSTATE_WAIT_SIG,       *)
(*          sigwaitmask and sigunbinfo.si_signo (unb); the pools of sigq_t *)
(*          (qpool) and of sigpendq_t (ppool) and the si_signo in them     *)
(*   stack  the kernel functions R is in, the innermost last               *)
(*   snd    where S is in kill()                                           *)
(*   cpu    which of the two tasks has the CPU                             *)
(*   want   history: the mask R's program has asked for                    *)
(*                                                                         *)
(* Interleaving.  kill() and all functions R is in hold sched_lock(): the  *)
(* tasks do not get in each other's way but where R waits, while an        *)
(* interrupt may come wherever interrupts are not disabled.  A function    *)
(* called with interrupts disabled, and the handlers it calls, run without *)
(* them (off).  If a signal is sent to R by an interrupt handler, or while *)
(* it does not run, R goes on in up_sigdeliver() before anything else      *)
(* (tramp).                                                                *)
(*                                                                         *)
(* A released sigq_t that sig_deliver() still works on is a fault: k.panic *)
(* is set and the behaviour ends.  Handlers make no calls.  siginfo_t is   *)
(* reduced to the signal number.                                           *)
(***************************************************************************)
EXTENDS Integers, Sequences, SequencesExt, FiniteSets, FiniteSetsExt

CONSTANTS Sig,               \* signal numbers
          Handled,           \* those for which R has a sigaction
          SaMask,            \* ... and its sa_mask
          TaskSig, IsrSig,   \* those that S and interrupt handlers send
          Api,               \* the calls R makes
          Fixed, Irq, Dyn,   \* structures: preallocated, for interrupts, heap
          MaxNest,           \* bound on the depth of stack
          None

ASSUME SignalAssumption ==
    /\ Sig \subseteq Nat \ {0} /\ IsFiniteSet(Sig)
    /\ SaMask \in [Handled -> SUBSET Sig]
    /\ Handled \subseteq Sig /\ TaskSig \subseteq Sig /\ IsrSig \subseteq Sig
    /\ Api \subseteq {"procmask", "timedwait", "suspend", "kill"}
    /\ MaxNest \in Nat \ {0}
    /\ IsFiniteSet(Fixed) /\ IsFiniteSet(Irq)
    /\ Fixed \cap Irq = {} /\ Fixed \cap Dyn = {} /\ Irq \cap Dyn = {}
    /\ None \notin Fixed \cup Irq \cup Dyn

VARIABLES k, stack, snd, cpu, want

vars == <<k, stack, snd, cpu, want>>

Ent == Fixed \cup Irq \cup Dyn
Pool == [fix |-> SetToSeq(Fixed), irq |-> SetToSeq(Irq), dyn |-> Dyn]

Init ==
    /\ k = [mask |-> {}, pendq |-> <<>>, actq |-> <<>>, posted |-> <<>>, tramp |-> FALSE,
            waiting |-> FALSE, waitmask |-> {}, unb |-> 0, panic |-> FALSE,
            qpool |-> Pool, ppool |-> Pool,
            qsig |-> [e \in Ent |-> 0], psig |-> [e \in Ent |-> 0]]
    /\ stack = <<>>
    /\ snd = [at |-> "idle", sig |-> 0]
    /\ cpu = "R"
    /\ want = {}

-----------------------------------------------------------------------------
(* sig_allocatependingsigaction(), sig_allocatependingsignal(): a free     *)
(* structure, or what is kept for interrupt handlers or found in the heap. *)
(* Taken(p, isr) is the structure, Rest(p, isr) the pool afterwards.       *)
Taken(p, isr) ==
    IF p.fix # <<>> THEN Head(p.fix)
    ELSE IF isr THEN (IF p.irq # <<>> THEN Head(p.irq) ELSE None)
    ELSE IF p.dyn # {} THEN CHOOSE e \in p.dyn : TRUE ELSE None
Rest(p, isr) ==
    IF p.fix # <<>> THEN [p EXCEPT !.fix = Tail(@)]
    ELSE IF isr THEN [p EXCEPT !.irq = Tail(@)]
    ELSE [p EXCEPT !.dyn = @ \ {Taken(p, isr)}]

(* sig_releasependingsigaction(), sig_releasependingsignal() *)
ReleaseFixed(p, e) == [p EXCEPT !.fix = Append(@, e)]        \* mutation
Release(p, e) ==
    CASE e \in Fixed -> [p EXCEPT !.fix = Append(@, e)]
      [] e \in Irq -> [p EXCEPT !.irq = Append(@, e)]
      [] e \in Dyn -> [p EXCEPT !.dyn = @ \cup {e}]

(* sq_rem(), dq_rem(): the structure e is taken out of its queue. *)
sq_rem(q, e) ==
    IF e \in Range(q) THEN RemoveAt(q, CHOOSE n \in 1 .. Len(q) : q[n] = e) ELSE q

(* sig_queueaction().  Without a structure the sender gets ENOMEM. *)
sig_queueaction(x, s, isr) ==
    LET e == Taken(x.qpool, isr)
    IN  IF s \notin Handled \/ e = None THEN x
        ELSE [x EXCEPT !.qpool = Rest(@, isr), !.qsig[e] = s, !.actq = Append(@, e)]

(* sig_findpendingsignal(), and the rest of sig_addpendingsignal(), whose  *)
(* failure is an ASSERT in sig_tcbdispatch().                              *)
Pending(x) == {x.psig[e] : e \in Range(x.pendq)}
AddPending(x, s, isr) ==
    LET e == Taken(x.ppool, isr)
    IN  IF e = None THEN [x EXCEPT !.panic = TRUE]
        ELSE [x EXCEPT !.ppool = Rest(@, isr), !.psig[e] = s, !.pendq = Append(@, e)]

(* sig_removependingsignal(): the first of the list. *)
FirstOf(x, s) ==
    x.pendq[Min({n \in 1 .. Len(x.pendq) : x.psig[x.pendq[n]] = s})]
RemovePending(x, e) == [x EXCEPT !.pendq = sq_rem(@, e)]

Wake(x, s) == [x EXCEPT !.waiting = FALSE, !.waitmask = {}, !.unb = s]

(* up_schedule_sigaction(), but for a signal R sends itself. *)
NoSchedWaiting(x) == [x EXCEPT !.tramp = ~ x.waiting]        \* mutation
up_schedule_sigaction(x) == [x EXCEPT !.tramp = TRUE]

(* sig_tcbdispatch() without interruption. *)
Dispatch(x, s, isr) ==
    IF s \in x.mask
    THEN IF x.waiting /\ s \in x.waitmask THEN Wake(x, s)
         ELSE IF s \in Pending(x) THEN x ELSE AddPending(x, s, isr)
    ELSE LET y == up_schedule_sigaction(sig_queueaction(x, s, isr))
         IN  IF y.waiting THEN Wake(y, s) ELSE y

-----------------------------------------------------------------------------
(* S calls kill() or sigqueue().  Interrupts may come between the test of  *)
(* the mask, the search of the pending signals and the addition; between   *)
(* the queueing, the scheduling and the wakeup.                            *)
Idle == [at |-> "idle", sig |-> 0]
SendAt(a) == k.panic = FALSE /\ cpu = "S" /\ snd.at = a

SKill(s) ==
    /\ SendAt("idle")
    /\ \/ s \notin k.mask /\ snd' = [at |-> "queue", sig |-> s] /\ UNCHANGED k
       \/ s \in k.mask /\ k.waiting /\ s \in k.waitmask /\ k' = Wake(k, s) /\ UNCHANGED snd
       \/ /\ s \in k.mask /\ ~ (k.waiting /\ s \in k.waitmask)
          /\ snd' = [at |-> "find", sig |-> s] /\ UNCHANGED k
    /\ UNCHANGED <<stack, cpu, want>>

SFind ==
    /\ SendAt("find")
    /\ snd' = IF snd.sig \in Pending(k) THEN Idle ELSE [snd EXCEPT !.at = "add"]
    /\ UNCHANGED <<k, stack, cpu, want>>

SAdd ==
    /\ SendAt("add")
    /\ k' = AddPending(k, snd.sig, FALSE)
    /\ snd' = Idle
    /\ UNCHANGED <<stack, cpu, want>>

SQueue ==
    /\ SendAt("queue")
    /\ k' = sig_queueaction(k, snd.sig, FALSE)
    /\ snd' = [snd EXCEPT !.at = "sched"]
    /\ UNCHANGED <<stack, cpu, want>>

SSched ==
    /\ SendAt("sched")
    /\ k' = up_schedule_sigaction(k)
    /\ snd' = [snd EXCEPT !.at = "wake"]
    /\ UNCHANGED <<stack, cpu, want>>

SWake ==
    /\ SendAt("wake")
    /\ k' = IF k.waiting THEN Wake(k, snd.sig) ELSE k
    /\ snd' = Idle
    /\ UNCHANGED <<stack, cpu, want>>

-----------------------------------------------------------------------------
(* Interrupts: a handler sends a signal; the timeout of sigtimedwait().    *)
IrqsOn == cpu = "R" => \A n \in 1 .. Len(stack) : ~ stack[n].off

IsrKill(s) ==
    /\ ~ k.panic /\ IrqsOn /\ Len(stack) < MaxNest
    /\ cpu = "R" => ~ k.tramp
    /\ k' = Dispatch(k, s, TRUE)
    /\ UNCHANGED <<stack, snd, cpu, want>>

sig_timeout ==
    /\ ~ k.panic /\ k.waiting /\ Last(stack).timed
    /\ k' = Wake(k, 0)
    /\ UNCHANGED <<stack, snd, cpu, want>>

(* The CPU goes to the other task where neither holds sched_lock(), nor   *)
(* is on its way into up_sigdeliver() with interrupts disabled.            *)
Switch ==
    /\ ~ k.panic
    /\ \/ cpu = "R" /\ stack = <<>> /\ ~ k.tramp /\ cpu' = "S"
       \/ cpu = "S" /\ snd.at = "idle" /\ ~ k.waiting /\ cpu' = "R"
    /\ UNCHANGED <<k, stack, snd, want>>

-----------------------------------------------------------------------------
(* A function R is in.  sig_deliver(): sigq, next, saved (savesigprocmask, *)
(* as in sigsuspend()).  sig_unmaskpendingsignal(): set (unmaskedset),     *)
(* sigq (pendingsig).  sigtimedwait(): set, timed, sigq (sigpend).         *)
Frame(f, at) == [f |-> f, at |-> at, sigq |-> None, next |-> None, saved |-> {}, set |-> {},
                 timed |-> FALSE, off |-> FALSE]
Runs == ~ k.panic /\ cpu = "R" /\ ~ k.waiting /\ ~ k.tramp
At(f, at) == Runs /\ stack # <<>> /\ Last(stack).f = f /\ Last(stack).at = at
Top == Last(stack)
Becomes(fr) == stack' = [stack EXCEPT ![Len(stack)] = fr]
Return == stack' = Front(stack)

HeadOf(q) == IF q = <<>> THEN None ELSE Head(q)
Deliver(off) == [Frame("deliver", "loop") EXCEPT !.sigq = HeadOf(k.actq), !.off = off]

Unmask(x) == [Frame("unmask", "loop") EXCEPT !.set = Pending(x) \ x.mask]

(* up_sigdeliver() *)
up_sigdeliver ==
    /\ ~ k.panic /\ cpu = "R" /\ ~ k.waiting /\ k.tramp
    /\ k' = [k EXCEPT !.tramp = FALSE]
    /\ stack' = Append(stack, Deliver(~ IrqsOn))
    /\ UNCHANGED <<snd, cpu, want>>

(* sig_deliver().  next is read, then the structure is moved to sigpostedq *)
(* with interrupts disabled, then the mask is set and the handler called.  *)
(* A structure that is not in sigpendactionq any more was released.        *)
DeliverNext ==
    /\ At("deliver", "loop")
    /\ \/ Top.sigq = None /\ Return /\ UNCHANGED k
       \/ /\ Top.sigq \in Range(k.actq)
          /\ LET n == CHOOSE i \in 1 .. Len(k.actq) : k.actq[i] = Top.sigq
             IN  Becomes([Top EXCEPT !.at = "post",
                             !.next = IF n < Len(k.actq) THEN k.actq[n + 1] ELSE None])
          /\ UNCHANGED k
       \/ /\ Top.sigq \notin Range(k.actq) \cup {None}
          /\ k' = [k EXCEPT !.panic = TRUE] /\ UNCHANGED stack
    /\ UNCHANGED <<snd, cpu, want>>

DeliverPost ==
    /\ At("deliver", "post")
    /\ \/ /\ Top.sigq \in Range(k.actq)
          /\ k' = [k EXCEPT !.actq = sq_rem(@, Top.sigq),
                            !.posted = Append(@, Top.sigq)]
          /\ Becomes([Top EXCEPT !.at = "call"])
       \/ /\ Top.sigq \notin Range(k.actq)
          /\ k' = [k EXCEPT !.panic = TRUE] /\ UNCHANGED stack
    /\ UNCHANGED <<snd, cpu, want>>

DeliverCall ==
    /\ At("deliver", "call")
    /\ k' = [k EXCEPT !.mask = @ \cup SaMask[k.qsig[Top.sigq]] \cup {k.qsig[Top.sigq]}]
    /\ Becomes([Top EXCEPT !.at = "handler", !.saved = k.mask])
    /\ UNCHANGED <<snd, cpu, want>>

(* Mutation: the signal is unblocked, rather than the old mask restored. *)
ReturnUnblock ==
    /\ At("deliver", "handler")
    /\ LET x == [k EXCEPT !.mask = @ \ {k.qsig[Top.sigq]}]
       IN  /\ k' = x
           /\ stack' = Append([stack EXCEPT ![Len(stack)].at = "after"], Unmask(x))
    /\ UNCHANGED <<snd, cpu, want>>
DeliverReturn ==
    /\ At("deliver", "handler")
    /\ LET x == [k EXCEPT !.mask = Top.saved]
       IN  /\ k' = x
           /\ stack' = Append([stack EXCEPT ![Len(stack)].at = "after"], Unmask(x))
    /\ UNCHANGED <<snd, cpu, want>>

DeliverAfter ==
    /\ At("deliver", "after")
    /\ k' = [k EXCEPT !.posted = sq_rem(@, Top.sigq),
                      !.qpool = Release(@, Top.sigq)]
    /\ Becomes([Top EXCEPT !.at = "loop", !.sigq = Top.next, !.next = None])
    /\ UNCHANGED <<snd, cpu, want>>

(* sig_unmaskpendingsignal(): the lowest signal is removed and dispatched  *)
(* to R itself, whose handlers are called at once, with interrupts         *)
(* disabled (case 1 of up_schedule_sigaction()).                           *)
UnmaskNext ==
    /\ At("unmask", "loop")
    /\ \/ Top.set = {} /\ Return /\ UNCHANGED k
       \/ /\ Top.set # {}
          /\ LET s == Min(Top.set)
                 rest == [Top EXCEPT !.set = @ \ {s}]
             IN  \/ s \notin Pending(k) /\ Becomes(rest) /\ UNCHANGED k
                 \/ /\ s \in Pending(k)
                    /\ k' = sig_queueaction(RemovePending(k, FirstOf(k, s)), s, FALSE)
                    /\ Becomes([rest EXCEPT !.at = "sched", !.sigq = FirstOf(k, s)])
    /\ UNCHANGED <<snd, cpu, want>>

UnmaskSched ==
    /\ At("unmask", "sched")
    /\ stack' = Append([stack EXCEPT ![Len(stack)].at = "release"], Deliver(TRUE))
    /\ UNCHANGED <<k, snd, cpu, want>>

UnmaskRelease ==
    /\ At("unmask", "release")
    /\ k' = IF Top.sigq = None THEN k ELSE [k EXCEPT !.ppool = Release(@, Top.sigq)]
    /\ Becomes([Top EXCEPT !.at = "loop", !.sigq = None])
    /\ UNCHANGED <<snd, cpu, want>>

-----------------------------------------------------------------------------
(* Calls R's program makes. *)
Calls(a) == Runs /\ stack = <<>> /\ a \in Api

sigprocmask(m) ==
    /\ Calls("procmask")
    /\ k' = [k EXCEPT !.mask = m]
    /\ want' = m
    /\ stack' = <<Unmask(k')>>
    /\ UNCHANGED <<snd, cpu>>

(* kill() of R itself. *)
SelfKill(s) ==
    /\ Calls("kill")
    /\ \/ s \in k.mask /\ k' = Dispatch(k, s, FALSE) /\ UNCHANGED stack
       \/ /\ s \notin k.mask
          /\ k' = sig_queueaction(k, s, FALSE)
          /\ stack' = <<Frame("unmask", "sched")>>
    /\ UNCHANGED <<snd, cpu, want>>

(* sigtimedwait(), and with it sigwaitinfo() and nanosleep(): a pending    *)
(* signal of the set is taken, or R waits.  In the first case the result   *)
(* is read from the structure after its release.                           *)
Block(fr, m, wm) ==
    /\ k' = [k EXCEPT !.waiting = TRUE, !.mask = m, !.waitmask = wm]
    /\ stack' = <<[fr EXCEPT !.off = TRUE]>>
    /\ cpu' = "S"

sigtimedwait(set, timed) ==
    /\ Calls("timedwait")
    /\ LET found == set \cap Pending(k)
           e == FirstOf(k, Min(found))
           fr == [Frame("wait", "resumed") EXCEPT !.set = set, !.timed = timed]
       IN  \/ /\ found # {}
              /\ k' = [RemovePending(k, e) EXCEPT !.ppool = Release(@, e)]
              /\ stack' = <<[fr EXCEPT !.at = "ret", !.sigq = e, !.timed = FALSE]>>
              /\ UNCHANGED cpu
           \/ found = {} /\ Block(fr, k.mask, set)
    /\ UNCHANGED <<snd, want>>

WaitReturn ==
    /\ At("wait", "ret") \/ At("wait", "resumed")
    /\ k' = [k EXCEPT !.waitmask = {}, !.unb = 0]
    /\ Return
    /\ UNCHANGED <<snd, cpu, want>>

(* sigsuspend().  A pending signal that the mask unblocks ends it at once. *)
sigsuspend(m) ==
    /\ Calls("suspend")
    /\ LET found == Pending(k) \ m
           e == FirstOf(k, Min(found))
       IN  \/ /\ found # {}
              /\ k' = [RemovePending(k, e) EXCEPT !.ppool = Release(@, e)]
              /\ UNCHANGED <<stack, cpu>>
           \/ /\ found = {}
              /\ Block([Frame("suspend", "resumed") EXCEPT !.saved = k.mask], m, {})
    /\ UNCHANGED <<snd, want>>

SuspendReturn ==
    /\ At("suspend", "resumed")
    /\ k' = [k EXCEPT !.mask = Top.saved, !.unb = 0]
    /\ stack' = <<Unmask(k')>>
    /\ UNCHANGED <<snd, cpu, want>>

-----------------------------------------------------------------------------
RStep ==
    \/ up_sigdeliver
    \/ DeliverNext \/ DeliverPost \/ DeliverCall \/ DeliverReturn \/ DeliverAfter
    \/ UnmaskNext \/ UnmaskSched \/ UnmaskRelease
    \/ WaitReturn \/ SuspendReturn
SStep == SFind \/ SAdd \/ SQueue \/ SSched \/ SWake

Next ==
    \/ RStep \/ SStep \/ Switch \/ sig_timeout
    \/ \E s \in TaskSig : SKill(s) \/ SelfKill(s)
    \/ \E s \in IsrSig : IsrKill(s)
    \/ \E m \in SUBSET Sig :
         \/ sigprocmask(m) \/ sigsuspend(m)
         \/ \E timed \in BOOLEAN : sigtimedwait(m, timed)

Spec == Init /\ [][Next]_vars

(* Kernel code that has the CPU runs on, and R gets the CPU again when it  *)
(* is ready (strong: S gets it back as often as it likes).                 *)
FairSpec == Spec /\ WF_vars(RStep) /\ WF_vars(SStep) /\ SF_vars(cpu = "S" /\ Switch)

-----------------------------------------------------------------------------
(* Types of the state. *)
TypeOK ==
    /\ k.mask \subseteq Sig /\ k.waitmask \subseteq Sig /\ k.unb \in Sig \cup {0}
    /\ k.pendq \in Seq(Ent) /\ k.actq \in Seq(Ent) /\ k.posted \in Seq(Ent)
    /\ k.tramp \in BOOLEAN /\ k.waiting \in BOOLEAN /\ k.panic \in BOOLEAN
    /\ k.qsig \in [Ent -> Sig \cup {0}] /\ k.psig \in [Ent -> Sig \cup {0}]
    /\ snd.at \in {"idle", "find", "add", "queue", "sched", "wake"}
    /\ cpu \in {"R", "S"} /\ want \subseteq Sig

(* Every sigq_t and every sigpendq_t is in one place: in the free list of  *)
(* its kind, in a queue, or in the hands of one function.  The structures  *)
(* kept for interrupts come back to them.                                  *)
Free(p) == Range(p.fix) \cup Range(p.irq) \cup p.dyn
InHand == {n \in 1 .. Len(stack) : stack[n].f = "unmask" /\ stack[n].sigq # None}
OnePlace(p, q, rest) ==
    /\ IsInjective(p.fix) /\ IsInjective(p.irq) /\ IsInjective(q)
    /\ Range(p.fix) \subseteq Fixed /\ Range(p.irq) \subseteq Irq /\ p.dyn \subseteq Dyn
    /\ Free(p) \cap Range(q) = {} /\ rest \cap (Free(p) \cup Range(q)) = {}
    /\ Free(p) \cup Range(q) \cup rest = Ent
PoolsConserved ==
    /\ OnePlace(k.qpool, k.actq, Range(k.posted)) /\ IsInjective(k.posted)
    /\ OnePlace(k.ppool, k.pendq, {stack[n].sigq : n \in InHand})
    /\ \A m, n \in InHand : stack[m].sigq = stack[n].sigq => m = n

(* A queued handler is never forgotten: R is in sig_deliver(), or goes     *)
(* there next, or its sender is about to see to it.                        *)
DeliveryScheduled ==
    k.actq # <<>> =>
        \/ k.tramp \/ snd.at = "sched" \/ k.panic
        \/ \E n \in 1 .. Len(stack) : stack[n].f = "deliver" \/ stack[n].at = "sched"

(* The queues are sound and served. *)
QueuesSound == TypeOK /\ PoolsConserved /\ DeliveryScheduled

(* Whenever R's program runs, or waits, no signal that it does not block   *)
(* (or waits for) is left pending, and its mask is the one it asked for,   *)
(* however handlers were nested.                                           *)
NothingHeldBack ==
    /\ stack = <<>> => Pending(k) \subseteq k.mask
    /\ k.waiting => Pending(k) \subseteq k.mask \ k.waitmask
MaskRestored ==
    /\ stack = <<>> => k.mask = want
    /\ k.waiting /\ Last(stack).f = "wait" => k.mask = want

(* Handlers leave R as they found it. *)
Undisturbed == NothingHeldBack /\ MaskRestored

(* The handler of a signal is not entered again while it runs. *)
NotReentered ==
    \A n, m \in 1 .. Len(stack) :
        /\ stack[n].f = "deliver" /\ stack[n].at = "handler"
        /\ stack[m].f = "deliver" /\ stack[m].at = "handler"
        /\ k.qsig[stack[n].sigq] = k.qsig[stack[m].sigq]
        => n = m

(* "there should never be more than one signal in the sigpostedq"          *)
(* (sig_deliver()).                                                        *)
PostedOne == Len(k.posted) <= 1

(* sigtimedwait(): "The return value is the number of the signal that      *)
(* awakened us" is one of those it was called with.                        *)
ReturnsAwaited ==
    At("wait", "ret") => k.psig[Top.sigq] \in Top.set

(* Handlers that are queued get called. *)
HandlersRun == k.actq # <<>> ~> k.actq = <<>> \/ k.panic
=============================================================================
