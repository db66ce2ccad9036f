-------------------------------- MODULE Wdog ---------------------------------
(***************************************************************************)
(* Watchdog timers (os/kernel/wdog): the delta list g_wdactivelist, the    *)
(* timer interrupt that runs it, and the pool of preallocated watchdogs.   *)
(*                                                                         *)
(*   active   the watchdogs on g_wdactivelist, head first                  *)
(*   lag[w]   wdog->lag, ticks after the expiry of the one before it       *)
(*   flagged  the watchdogs with WDOGF_ACTIVE                              *)
(*   owner    who created a watchdog and has not deleted it                *)
(*   nfree    g_wdnfree; g_wdfreelist is abstracted to the set of          *)
(*            preallocated watchdogs without an owner                      *)
(*                                                                         *)
(* Interleaving.  Every function runs with interrupts disabled.  The loop  *)
(* of wd_expiration() runs in the timer interrupt and calls the watchdogs' *)
(* functions; while `expiring', the calls made are those of the function   *)
(* of fn, which may start, stop, create and delete any watchdog.           *)
(*                                                                         *)
(* This is the build without CONFIG_SCHED_TICKLESS.  Static watchdogs,     *)
(* which nothing in the repository has, are left out.                      *)
(***************************************************************************)
EXTENDS Integers, Sequences, SequencesExt, FiniteSets, FiniteSetsExt

CONSTANTS Pool,      \* g_wdpool, CONFIG_PREALLOC_WDOGS of them
          Heap,      \* watchdogs kmm_malloc() can give
          Reserve,   \* CONFIG_WDOG_INTRESERVE
          IntMax,    \* the largest int
          MaxDelay,  \* the longest delay asked for
          None

Dog == Pool \cup Heap

ASSUME WdogAssumption ==
    /\ IsFiniteSet(Pool) /\ Pool \cap Heap = {}
    /\ Reserve \in Nat /\ Reserve < Cardinality(Pool)
    /\ IntMax \in Nat \ {0} /\ MaxDelay \in 0 .. IntMax
    /\ None \notin Dog

VARIABLES active, lag, flagged, owner, nfree, expiring, fn

vars == <<active, lag, flagged, owner, nfree, expiring, fn>>

Init ==
    /\ active = <<>>
    /\ lag = [w \in Dog |-> 0]
    /\ flagged = {}
    /\ owner = [w \in Dog |-> "none"]
    /\ nfree = Cardinality(Pool)
    /\ expiring = FALSE
    /\ fn = None

(* Code that may call these functions runs: a task or an interrupt         *)
(* handler, or the function of an expired watchdog.                        *)
Runs == ~ expiring \/ fn # None

IndexOf(w) == CHOOSE i \in 1 .. Len(active) : active[i] = w

(* The running totals of the lags that the loops over the list compute:    *)
(* Elapsed(q, g)[i] is what is left of the i-th watchdog of q.             *)
Elapsed(q, g) ==
    LET now[i \in 0 .. Len(q)] == IF i = 0 THEN 0 ELSE now[i - 1] + g[q[i]]
    IN  now

(* wd_gettime(): the lags up to the i-th watchdog, the ticks it has left.  *)
Now(i) == Elapsed(active, lag)[i]
wd_gettime(w) == IF w \in flagged THEN Now(IndexOf(w)) ELSE 0

-----------------------------------------------------------------------------
(* The list after wd_cancel(w), as a pair: the next watchdog inherits the  *)
(* remaining ticks.                                                        *)
Inherit(q, g, w) ==
    LET i == CHOOSE j \in 1 .. Len(q) : q[j] = w
    IN  IF i < Len(q) THEN [g EXCEPT ![q[i + 1]] = @ + g[w]] ELSE g

Cancelled(q, g, w) ==
    IF w \in flagged
    THEN <<RemoveAt(q, CHOOSE j \in 1 .. Len(q) : q[j] = w), Inherit(q, g, w)>>
    ELSE <<q, g>>

(* delay + 1.  At IntMax the increment overflows before the test that is   *)
(* to catch it: the build has no -fwrapv, so that the test may be gone.    *)
Forced(delay) ==
    IF delay = 0 THEN {1}
    ELSE IF delay < IntMax THEN {delay + 1}
    ELSE {IntMax, - IntMax - 1}

(* Where the two loops of wd_start() end: the first watchdog that is not   *)
(* overdue and expires later than the new one, or the last of the list.    *)
Stop(q, g, d) ==
    LET now == Elapsed(q, g)
    IN  CHOOSE i \in 1 .. Len(q) :
            /\ i < Len(q) => now[i] >= 0 /\ now[i] > d
            /\ \A j \in 1 .. i - 1 : now[j] < 0 \/ now[j] <= d

(* The list with w put in to expire in d ticks; the one behind it then     *)
(* counts from w.                                                          *)
InsertedNoAdjust(q, g, w, d) ==                              \* mutation
    LET i == Stop(q, g, d)
        s == Elapsed(q, g)[i]
    IN  IF q = <<>> THEN <<<<w>>, [g EXCEPT ![w] = d]>>
        ELSE IF d < s
        THEN <<InsertAt(q, i, w), [g EXCEPT ![w] = d - (s - g[q[i]])]>>
        ELSE <<Append(q, w), [g EXCEPT ![w] = d - s]>>
InsertedBeforeEqual(q, g, w, d) ==                           \* mutation
    LET i == Stop(q, g, d)
        s == Elapsed(q, g)[i]
        e == d - (s - g[q[i]])
    IN  IF q = <<>> THEN <<<<w>>, [g EXCEPT ![w] = d]>>
        ELSE IF d <= s
        THEN <<InsertAt(q, i, w), [g EXCEPT ![w] = e, ![q[i]] = @ - e]>>
        ELSE <<Append(q, w), [g EXCEPT ![w] = d - s]>>
Inserted(q, g, w, d) ==
    LET i == Stop(q, g, d)
        s == Elapsed(q, g)[i]
        e == d - (s - g[q[i]])
    IN  IF q = <<>> THEN <<<<w>>, [g EXCEPT ![w] = d]>>
        ELSE IF d < s
        THEN <<InsertAt(q, i, w), [g EXCEPT ![w] = e, ![q[i]] = @ - e]>>
        ELSE <<Append(q, w), [g EXCEPT ![w] = d - s]>>

Install(l) == active' = l[1] /\ lag' = l[2]

(* Mutation: a watchdog that is running is not stopped first. *)
StartNoCancel(w, delay) ==
    /\ Runs /\ owner[w] # "none"
    /\ \E d \in Forced(delay) : Install(Inserted(active, lag, w, d))
    /\ flagged' = flagged \cup {w}
    /\ UNCHANGED <<owner, nfree, expiring, fn>>

wd_start(w, delay) ==
    /\ Runs /\ owner[w] # "none"
    /\ \E d \in Forced(delay) :
          LET c == Cancelled(active, lag, w) IN Install(Inserted(c[1], c[2], w, d))
    /\ flagged' = flagged \cup {w}
    /\ UNCHANGED <<owner, nfree, expiring, fn>>

wd_cancel(w) ==
    /\ Runs /\ owner[w] # "none"
    /\ Install(Cancelled(active, lag, w))
    /\ flagged' = flagged \ {w}
    /\ UNCHANGED <<owner, nfree, expiring, fn>>

-----------------------------------------------------------------------------
(* Mutation: the reserve is not kept. *)
CreateNoReserve(w, isr) ==
    /\ Runs /\ (expiring => isr)
    /\ w \in Pool /\ owner[w] = "none"
    /\ nfree' = nfree - 1
    /\ owner' = [owner EXCEPT ![w] = IF isr THEN "isr" ELSE "task"]
    /\ UNCHANGED <<active, lag, flagged, expiring, fn>>

(* A task takes from the heap what would touch the reserve for interrupt   *)
(* handlers.  (Without a free watchdog or memory it gets NULL: no step.)   *)
wd_create(w, isr) ==
    /\ Runs /\ (expiring => isr)
    /\ owner[w] = "none"
    /\ \/ w \in Pool /\ (nfree > Reserve \/ isr) /\ nfree' = nfree - 1
       \/ w \in Heap /\ nfree <= Reserve /\ ~ isr /\ UNCHANGED nfree
    /\ owner' = [owner EXCEPT ![w] = IF isr THEN "isr" ELSE "task"]
    /\ UNCHANGED <<active, lag, flagged, expiring, fn>>

wd_delete(w) ==
    /\ Runs /\ owner[w] # "none"
    /\ Install(Cancelled(active, lag, w))
    /\ flagged' = flagged \ {w}
    /\ owner' = [owner EXCEPT ![w] = "none"]
    /\ nfree' = IF w \in Pool THEN nfree + 1 ELSE nfree
    /\ UNCHANGED <<expiring, fn>>

-----------------------------------------------------------------------------
(* wd_timer() in the timer interrupt. *)
wd_timer ==
    /\ ~ expiring /\ active # <<>>
    /\ lag' = [lag EXCEPT ![active[1]] = @ - 1]
    /\ expiring' = (lag[active[1]] - 1 <= 0)
    /\ UNCHANGED <<active, flagged, owner, nfree, fn>>

(* Mutation: one watchdog per tick. *)
ExpireOne ==
    /\ expiring /\ fn = None
    /\ active' = Tail(active)
    /\ lag' = Inherit(active, lag, active[1])
    /\ flagged' = flagged \ {active[1]}
    /\ fn' = active[1]
    /\ UNCHANGED <<owner, nfree, expiring>>

(* One turn of the loop of wd_expiration(): the head is removed and its    *)
(* function called.                                                        *)
Expired == active # <<>> /\ lag[active[1]] <= 0
wd_expiration ==
    /\ expiring /\ Expired
    /\ active' = Tail(active)
    /\ lag' = Inherit(active, lag, active[1])
    /\ flagged' = flagged \ {active[1]}
    /\ fn' = active[1]
    /\ UNCHANGED <<owner, nfree, expiring>>

ExpirationEnd ==
    /\ expiring /\ ~ Expired
    /\ expiring' = FALSE
    /\ fn' = None
    /\ UNCHANGED <<active, lag, flagged, owner, nfree>>

Next ==
    \/ wd_timer \/ wd_expiration \/ ExpirationEnd
    \/ \E w \in Dog :
         \/ wd_cancel(w) \/ wd_delete(w)
         \/ \E delay \in 0 .. MaxDelay : wd_start(w, delay)
         \/ \E isr \in BOOLEAN : wd_create(w, isr)

Spec == Init /\ [][Next]_vars

(* The timer interrupt keeps coming and its handler ends. *)
FairSpec == Spec /\ WF_vars(wd_timer) /\ WF_vars(wd_expiration) /\ WF_vars(ExpirationEnd)

-----------------------------------------------------------------------------
(* Types of the state. *)
TypeOK ==
    /\ active \in Seq(Dog)
    /\ lag \in [Dog -> Int]
    /\ flagged \subseteq Dog
    /\ owner \in [Dog -> {"none", "task", "isr"}]
    /\ nfree \in Nat
    /\ expiring \in BOOLEAN
    /\ fn \in Dog \cup {None}

(* The WDOGF_ACTIVE flag says what is on the list, which holds a watchdog  *)
(* once (the ASSERT of wd_cancel), and none that was deleted.              *)
FlaggedIsListed ==
    /\ flagged = Range(active)
    /\ IsInjective(active)
    /\ \A w \in flagged : owner[w] # "none"

(* Without overflow no watchdog is overdue, and outside the timer          *)
(* interrupt none is due: "Advance to positive time" in wd_start() and     *)
(* the update in wd_expiration() that "shouldn't be necessary" have        *)
(* nothing to do.                                                          *)
LagsSound ==
    /\ \A w \in flagged : lag[w] >= 0
    /\ ~ expiring /\ active # <<>> => lag[active[1]] > 0

(* The list stays sound when the functions of expired watchdogs start,     *)
(* stop and delete others while wd_expiration() walks it.                  *)
ListSound == TypeOK /\ FlaggedIsListed /\ LagsSound

(* g_wdnfree counts the free list: the assertions of wd_create() and       *)
(* wd_delete().                                                            *)
FreeCounted == nfree = Cardinality({w \in Pool : owner[w] = "none"})

(* However many watchdogs the tasks create, CONFIG_WDOG_INTRESERVE of the  *)
(* pool are left to interrupt handlers.                                    *)
ReserveKept == Cardinality({w \in Pool : owner[w] = "task"}) <= Cardinality(Pool) - Reserve

(* The pool survives tasks and interrupt handlers that use it up together. *)
PoolSound == FreeCounted /\ ReserveKept

(* Each watchdog is a timer of its own: it expires after exactly the       *)
(* delay it was last started with, whatever the others and the functions   *)
(* of expired watchdogs do, and wd_gettime() says when.                    *)
Timer == INSTANCE WdogSpec WITH
    left <- [w \in Dog |-> IF w \in flagged THEN wd_gettime(w) ELSE -1]
IsTimer == Timer!Spec

(* Time passes for every running watchdog. *)
NoStall ==
    \A w \in Dog : \A n \in 0 .. MaxDelay + 1 :
        w \in flagged /\ wd_gettime(w) = n ~> ~ (w \in flagged /\ wd_gettime(w) = n)

(* Watchdogs that expire together do so in the order they were started in. *)
FifoExpiry ==
    [][ \A w \in flagged' :
          w \notin flagged \/ wd_gettime(w)' > wd_gettime(w) =>
            \A v \in flagged \ {w} :
                wd_gettime(v)' = wd_gettime(w)' => IndexOf(v)' < IndexOf(w)' ]_vars
=============================================================================
