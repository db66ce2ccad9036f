---------------------------- MODULE SemaphoreProof ----------------------------
(* The semaphores of module Semaphore, for every set of tasks and          *)
(* semaphores, every number of counts, holder structures and priorities.   *)
EXTENDS Semaphore, SchedOpsProof, FiniteSetTheorems, FunctionTheorems

-----------------------------------------------------------------------------
(* The inductive invariant. *)
(* The fields that Semaphore adds to the record of the scheduler. *)
OwnField == {"panic", "count", "holders", "free", "pend", "waitsem", "err", "live"}

(* The holder lists have one entry per task, and with the pool they make   *)
(* up the structures there are.                                            *)
Entry == [tcb : User, counts : Nat]
OneEach(q) == \A i, j \in 1 .. Len(q) : q[i].tcb = q[j].tcb => i = j
Lens(m) == [s \in Sem |-> Len(m.holders[s])]
HoldersOK(m) ==
    /\ m.holders \in [Sem -> Seq(Entry)]
    /\ \A s \in Sem : OneEach(m.holders[s])
    /\ m.free \in Nat /\ m.free + SumOver(Lens(m), Sem) = NHolders

(* The pending priorities are above the one the task was created with. *)
PendBag(t, b) ==
    b = [p \in DOMAIN b |-> b[p]] /\ \A p \in DOMAIN b : p \in Prio /\ p > Base[t]
PendOK(m) == m.pend = [t \in Task |-> m.pend[t]] /\ \A t \in Task : PendBag(t, m.pend[t])

Panics == {"none", "overrun", "nullsem"}
Own(m) ==
    /\ OwnField \subseteq DOMAIN m
    /\ m.count \in [Sem -> Int] /\ m.waitsem \in [Task -> Sem \cup {None}]
    /\ m.err \in [Task -> {"OK", "EINTR", "ETIMEDOUT"}]
    /\ m.live \subseteq Task /\ m.panic \in Panics
    /\ HoldersOK(m) /\ PendOK(m)

Above(m) == \A t \in Task : m.prio[t] >= Base[t]
Sound(m) == Good(m) /\ Own(m) /\ Above(m)

(* What a task that is in call c holds: its depth of sched_lock().         *)
Ending == {"delete", "release"}
Depth(c) ==
    IF c.op \in {"user", "dog", "release"} THEN {0} ELSE IF c.op = "wait" THEN {0, 1}
    ELSE IF c.op = "post" /\ c.then = "reset" THEN {2} ELSE {1}

CallOK(c) ==
    /\ c \in Call /\ c.op # "cancel"
    /\ c.op \in {"wait", "post", "reset"} => c.sem \in Sem
    /\ c.op \in Ending => c.tcb \in Task
    /\ c.op \notin Ending => c.tcb = None
    /\ c.op = "reset" => c.then = "reset"
    /\ c.op \in {"post", "reset"} /\ c.then = "reset" => "reset" \in Api

(* waitsem, the state and the call agree. *)
WaitOK(m, c, t) ==
    m.waitsem[t] # None =>
        /\ m.state[t] = "WAIT_SEM" /\ c.op = "wait" /\ c.sem = m.waitsem[t] /\ m.err[t] = "OK"
        /\ t \in User

TaskOK(m, c, t) == CallOK(c) /\ WaitOK(m, c, t) /\ m.lock[t] \in Depth(c)

(* A task between the two halves of its deletion. *)
TargetOK(m, f, t) ==
    /\ m.state[t] = "WAIT_SEM" /\ m.waitsem[t] = None =>
          \E u \in Task : f[u].op = "delete" /\ f[u].tcb = t
    /\ m.state[t] = "INVALID" /\ t \in m.live =>
          \E u \in Task : f[u].op = "release" /\ f[u].tcb = t

DeleteOK(m, c, u, d) ==
    /\ c.op = "delete" =>
          /\ u = Running(m) /\ u \in Deleter /\ c.tcb \in Task \ {Idle, u} /\ c.tcb \notin d
          /\ m.waitsem[c.tcb] = None /\ m.state[c.tcb] # "INVALID"
    /\ c.op = "release" => m.state[c.tcb] = "INVALID"

Core ==
    /\ Sound(k) /\ Calm(k)
    /\ call \in [Task -> Call] /\ timed \subseteq Task
    /\ \A t \in Task : TaskOK(k, call[t], t) /\ TargetOK(k, call, t) /\ DeleteOK(k, call[t], t, timed)

Counted ==
    /\ have \in [Task -> [Sem -> Nat]] /\ held \in [Task -> [Sem -> Nat]]
    /\ total \in [Sem -> Int]
    /\ WaitersCounted /\ CountsConserved

(* A task knows what it has, unless it has not yet seen the end of its     *)
(* wait.                                                                   *)
Knows(m, f, hv, hd, t) ==
    /\ f[t].op = "user" => hd[t] = hv[t]
    /\ (\A u \in Task : f[u].tcb # t) =>
          hv[t] = IF f[t].op = "wait" /\ m.waitsem[t] = None /\ m.err[t] = "OK"
                  THEN [hd[t] EXCEPT ![f[t].sem] = @ + 1] ELSE hd[t]
    /\ f[t].op = "reset" \/ (f[t].op = "post" /\ f[t].then = "reset") => hv[t][f[t].sem] = 0
Known == \A t \in k.live : Knows(k, call, have, held, t)

(* The window of sem_recover(). *)
Window == k.panic = "nullsem" => "isrkill" \in Api /\ Deleter # {}

Inv == Core /\ Counted /\ Known /\ Window

-----------------------------------------------------------------------------
(* Numbers. *)
LEMMA MaxZero ==
    ASSUME NEW a \in Int
    PROVE  Max({a, 0}) = IF a > 0 THEN a ELSE 0
<1> DEFINE b == IF a > 0 THEN a ELSE 0
<1>1. b \in {a, 0} /\ (\A y \in {a, 0} : b >= y)
  OBVIOUS
<1>2. \A x \in {a, 0} : (\A y \in {a, 0} : x >= y) => x = b
  OBVIOUS
<1> HIDE DEF b
<1>3. Max({a, 0}) = b
  BY <1>1, <1>2 DEF Max
<1> QED
  BY <1>3 DEF b

(* A non-empty set of priorities has a greatest one. *)
LEMMA MaxPrioLemma ==
    ASSUME NEW T, T \subseteq Prio, T # {}
    PROVE  Max(T) \in T
<1> DEFINE U == {MaxPrio - x : x \in T}
<1>0. MaxPrio \in Nat /\ \A x \in T : x \in Nat /\ x <= MaxPrio
  BY PrioAssumption DEF Prio
<1>1. U \subseteq Nat /\ U # {}
  BY <1>0
<1>2. PICK i \in U : \A j \in U : i <= j
  BY <1>1, LeastNat
<1>3. PICK x \in T : i = MaxPrio - x
  BY <1>2
<1>4. \A y \in T : x >= y
  BY <1>0, <1>2, <1>3
<1> QED
  BY <1>3, <1>4 DEF Max

(* The steps of a sum. *)
LEMMA SumsExists ==
    ASSUME NEW f, NEW q, Len(q) \in Nat
    PROVE  /\ Sums(f, q)[0] = 0
           /\ \A i \in 1 .. Len(q) : Sums(f, q)[i] = Sums(f, q)[i - 1] + f[q[i]]
<1> DEFINE n == Len(q)
           g(x, i) == x + f[q[i]]
           h(a, j) == [i \in 0 .. j |-> IF i = 0 THEN 0 ELSE g(a[i - 1], i)]
           T == {j \in 0 .. n : \E a : a = h(a, j)}
<1>1. n \in Nat
  OBVIOUS
<1>2. Sums(f, q) = CHOOSE a : a = h(a, n)
  BY DEF Sums
<1> HIDE DEF n, g
<1>3. 0 \in T
  <2> DEFINE y == [i \in 0 .. 0 |-> 0]
  <2>1. \A i \in 0 .. 0 : i = 0
    OBVIOUS
  <2>2. y = h(y, 0)
    BY <2>1
  <2>3. \E a : a = h(a, 0)
    <3> HIDE DEF h, y
    <3> QED
      BY <2>2
  <2> QED
    BY <1>1, <2>3
<1>4. ASSUME NEW j \in 0 .. n - 1, j \in T PROVE j + 1 \in T
  <2>1. PICK a : a = h(a, j)
    BY <1>4
  <2> DEFINE b == [i \in 0 .. j + 1 |-> IF i = j + 1 THEN g(a[j], j + 1) ELSE a[i]]
  <2>2. ASSUME NEW i \in 0 .. j + 1
        PROVE  b[i] = IF i = 0 THEN 0 ELSE g(b[i - 1], i)
    <3>1. CASE i = j + 1
      <4>1. i - 1 = j /\ j \in 0 .. j + 1 /\ j # j + 1 /\ i # 0
        BY <1>1, <3>1
      <4>2. b[i] = g(a[j], i) /\ b[i - 1] = a[j]
        BY <3>1, <4>1
      <4> QED
        BY <4>1, <4>2, Zenon
    <3>2. CASE i # j + 1
      <4>1. i \in 0 .. j /\ b[i] = a[i]
        BY <1>1, <3>2
      <4>2. a[i] = IF i = 0 THEN 0 ELSE g(a[i - 1], i)
        BY <2>1, <4>1
      <4>3. i # 0 => b[i - 1] = a[i - 1]
        BY <1>1, <4>1
      <4> HIDE DEF b
      <4> QED
        BY <4>1, <4>2, <4>3, Zenon
    <3> QED
      BY <3>1, <3>2
  <2>3. b = h(b, j + 1)
    BY <2>2
  <2>4. j + 1 \in 0 .. n
    BY <1>1
  <2> QED
    BY <2>3, <2>4
<1> HIDE DEF T
<1>5. \A i \in 0 .. n : i \in T
  BY <1>1, <1>3, <1>4, IntervalInduction
<1>6. \E a : a = h(a, n)
  <2>1. n \in T
    BY <1>1, <1>5
  <2> QED
    BY <2>1 DEF T
<1> DEFINE e == Sums(f, q)
<1>7. e = h(e, n)
  BY <1>2, <1>6
<1> HIDE DEF e
<1>8. e[0] = 0 /\ \A i \in 1 .. n : e[i] = g(e[i - 1], i)
  <2>1. 0 \in 0 .. n /\ \A i \in 1 .. n : i \in 0 .. n /\ i # 0
    BY <1>1
  <2> QED
    BY <1>7, <2>1
<1> QED
  BY <1>8 DEF e, n, g

(* A change of one summand changes the sum as much. *)
LEMMA SumChange ==
    ASSUME NEW S, IsFiniteSet(S), NEW f, NEW g, NEW x \in S, NEW d \in Int,
           \A y \in S : f[y] \in Int, g[x] = f[x] + d, \A y \in S \ {x} : g[y] = f[y]
    PROVE  SumOver(f, S) \in Int /\ SumOver(g, S) = SumOver(f, S) + d
<1> DEFINE q == SetToSeq(S)
           n == Cardinality(S)
           F == Sums(f, q)
           G == Sums(g, q)
<1>1. /\ n \in Nat /\ q \in Seq(S) /\ Len(q) = n
      /\ \A i, j \in 1 .. n : q[i] = q[j] => i = j
      /\ \A y \in S : \E i \in 1 .. n : q[i] = y
  BY Enumeration
<1>2. SumOver(f, S) = F[n] /\ SumOver(g, S) = G[n]
  BY DEF SumOver
<1>3. /\ F[0] = 0 /\ \A i \in 1 .. n : F[i] = F[i - 1] + f[q[i]]
      /\ G[0] = 0 /\ \A i \in 1 .. n : G[i] = G[i - 1] + g[q[i]]
  <2> HIDE DEF q, n
  <2>1. Len(q) \in Nat /\ Len(q) = n
    BY <1>1
  <2> QED
    BY <2>1, SumsExists
<1> HIDE DEF q, n, F, G
<1>4. PICK p \in 1 .. n : q[p] = x
  BY <1>1
<1>5. \A i \in 1 .. n : q[i] \in S /\ f[q[i]] \in Int /\ (i # p => g[q[i]] = f[q[i]])
  BY <1>1, <1>4
<1> DEFINE T == {j \in 0 .. n : F[j] \in Int /\ G[j] = F[j] + (IF j >= p THEN d ELSE 0)}
<1>6. 0 \in T
  BY <1>1, <1>3
<1>7. ASSUME NEW j \in 0 .. n - 1, j \in T PROVE j + 1 \in T
  <2>1. j + 1 \in 1 .. n /\ j + 1 \in 0 .. n /\ (j + 1) - 1 = j
    BY <1>1
  <2>2. F[j + 1] = F[j] + f[q[j + 1]] /\ G[j + 1] = G[j] + g[q[j + 1]]
    BY <1>3, <2>1
  <2>3. F[j] \in Int /\ G[j] = F[j] + (IF j >= p THEN d ELSE 0) /\ f[q[j + 1]] \in Int
    BY <1>5, <1>7, <2>1
  <2>4. CASE j + 1 = p
    <3>1. g[q[j + 1]] = f[q[j + 1]] + d
      BY <1>4, <2>4
    <3> QED
      BY <2>1, <2>2, <2>3, <2>4, <3>1
  <2>5. CASE j + 1 # p
    <3>1. g[q[j + 1]] = f[q[j + 1]] /\ (j + 1 >= p <=> j >= p)
      BY <1>5, <2>1, <2>5
    <3> QED
      BY <2>1, <2>2, <2>3, <3>1
  <2> QED
    BY <2>4, <2>5
<1>8. n \in T
  <2> HIDE DEF T
  <2>1. \A i \in 0 .. n : i \in T
    BY <1>1, <1>6, <1>7, IntervalInduction
  <2> QED
    BY <1>1, <2>1
<1> QED
  BY <1>1, <1>2, <1>4, <1>8

LEMMA SumNat ==
    ASSUME NEW S, IsFiniteSet(S), NEW f, \A y \in S : f[y] \in Nat
    PROVE  SumOver(f, S) \in Nat /\ ((\A y \in S : f[y] = 0) => SumOver(f, S) = 0)
<1> DEFINE q == SetToSeq(S)
           n == Cardinality(S)
           F == Sums(f, q)
<1>1. n \in Nat /\ q \in Seq(S) /\ Len(q) = n
  BY Enumeration
<1>2. SumOver(f, S) = F[n]
  BY DEF SumOver
<1>3. F[0] = 0 /\ \A i \in 1 .. n : F[i] = F[i - 1] + f[q[i]]
  BY <1>1, SumsExists
<1> HIDE DEF q, n, F
<1>4. \A i \in 1 .. n : q[i] \in S
  BY <1>1
<1> DEFINE T == {j \in 0 .. n : F[j] \in Nat /\ ((\A y \in S : f[y] = 0) => F[j] = 0)}
<1>5. 0 \in T
  BY <1>1, <1>3
<1>6. ASSUME NEW j \in 0 .. n - 1, j \in T PROVE j + 1 \in T
  <2>1. j + 1 \in 1 .. n /\ j + 1 \in 0 .. n /\ (j + 1) - 1 = j
    BY <1>1
  <2>2. F[j + 1] = F[j] + f[q[j + 1]] /\ f[q[j + 1]] \in Nat /\ q[j + 1] \in S
    BY <1>3, <1>4, <2>1
  <2> QED
    BY <1>6, <2>1, <2>2
<1>7. n \in T
  <2> HIDE DEF T
  <2>1. \A i \in 0 .. n : i \in T
    BY <1>1, <1>5, <1>6, IntervalInduction
  <2> QED
    BY <1>1, <2>1
<1> QED
  BY <1>2, <1>7

(* A sum depends on the summands only. *)
LEMMA SumSame ==
    ASSUME NEW S, IsFiniteSet(S), NEW f, NEW g, \A y \in S : f[y] \in Int, \A y \in S : g[y] = f[y]
    PROVE  SumOver(g, S) = SumOver(f, S)
<1>1. CASE S = {}
  <2>1. \A y \in S : f[y] \in Nat /\ g[y] \in Nat /\ f[y] = 0 /\ g[y] = 0
    BY <1>1
  <2> QED
    BY <2>1, SumNat
<1>2. CASE S # {}
  <2>1. PICK x \in S : TRUE
    BY <1>2
  <2>2. g[x] = f[x] + 0 /\ 0 \in Int
    BY <2>1
  <2>3. SumOver(f, S) \in Int /\ SumOver(g, S) = SumOver(f, S) + 0
    BY <2>2, SumChange
  <2> QED
    BY <2>3
<1> QED
  BY <1>1, <1>2

-----------------------------------------------------------------------------
(* Changes of the fields of Semaphore. *)
LEMMA UserFacts ==
    ASSUME NEW h \in User
    PROVE  h \in Task \ {Idle} /\ Base[h] \in Prio
<1>1. h \in Task /\ h # Idle /\ Base[h] \in 0 .. MaxPrio /\ Base[h] # 0
  BY SemAssumption
<1> QED
  BY <1>1, PrioAssumption DEF Prio

LEMMA FrameOwn ==
    ASSUME NEW m, NEW n, Own(m), Frame(m, n)
    PROVE  Own(n) /\ \A f \in OwnField : n[f] = m[f]
<1>1. \A f \in OwnField : f \in DOMAIN m \ SchedField
  BY DEF Own, OwnField, SchedField
<1>2. \A f \in OwnField : n[f] = m[f] /\ f \in DOMAIN n
  BY <1>1 DEF Frame
<1>3. /\ n.count = m.count /\ n.holders = m.holders /\ n.free = m.free /\ n.pend = m.pend
      /\ n.waitsem = m.waitsem /\ n.err = m.err /\ n.live = m.live /\ n.panic = m.panic
  BY <1>2 DEF OwnField
<1>4. HoldersOK(n) /\ PendOK(n)
  BY <1>3 DEF Own, HoldersOK, Lens, PendOK
<1> QED
  BY <1>2, <1>3, <1>4 DEF Own

(* Only what a pass over the holders may change is changed. *)
Books(m, n) ==
    /\ n.count = m.count /\ n.waitsem = m.waitsem /\ n.err = m.err /\ n.live = m.live
    /\ n.panic = m.panic \/ n.panic = "overrun"

(* The effect of a pass that changes no priorities but those of T. *)
Tuned(m, n, T) ==
    /\ Sound(n) /\ n.lock = m.lock /\ Shuffled(m, n, Task)
    /\ Calm(m) => Calm(n)
    /\ Books(m, n)
    /\ m.lock[Running(m)] > 0 /\ Running(m) \notin T => Running(n) = Running(m)

LEMMA TunedTrans ==
    ASSUME NEW m, NEW n, NEW x, NEW T, Tuned(m, n, T), Tuned(n, x, T)
    PROVE  Tuned(m, x, T)
<1>1. Shuffled(m, x, Task)
  BY ShuffledTrans DEF Tuned
<1>2. Books(m, x)
  BY DEF Tuned, Books
<1> QED
  BY <1>1, <1>2 DEF Tuned

LEMMA TunedSame ==
    ASSUME NEW m, NEW T, Sound(m)
    PROVE  Tuned(m, m, T)
BY DEF Tuned, Shuffled, Books

LEMMA AlikeCalm ==
    ASSUME NEW m, NEW n, Alike(m, n), Calm(m)
    PROVE  Calm(n)
BY DEF Alike, Calm, Running, Rtr, Pending

(* Changes outside the scheduler's fields. *)
LEMMA AlikeTuned ==
    ASSUME NEW m, NEW n, NEW T, Sound(m), Alike(m, n), Own(n), Books(m, n)
    PROVE  Tuned(m, n, T)
<1>1. Good(n) /\ Running(n) = Running(m) /\ Shuffled(m, n, Task)
  BY AlikeLemma DEF Sound
<1>2. Above(n) /\ n.lock = m.lock
  BY DEF Sound, Above, Alike
<1> QED
  BY <1>1, <1>2, AlikeCalm DEF Sound, Tuned

LEMMA HolderLemma ==
    ASSUME NEW m, HoldersOK(m), NEW s \in Sem, NEW h, Holds(m, h, s)
    PROVE  /\ HolderIndex(m, h, s) \in 1 .. Len(m.holders[s])
           /\ m.holders[s][HolderIndex(m, h, s)].tcb = h
           /\ m.holders[s][HolderIndex(m, h, s)] \in Entry /\ h \in User
<1>1. /\ HolderIndex(m, h, s) \in 1 .. Len(m.holders[s])
      /\ m.holders[s][HolderIndex(m, h, s)].tcb = h
  BY DEF Holds, HolderIndex
<1>2. m.holders[s] \in Seq(Entry)
  BY DEF HoldersOK
<1>3. m.holders[s][HolderIndex(m, h, s)] \in Entry
  BY <1>1, <1>2
<1> QED
  BY <1>1, <1>3 DEF Entry

(* A new list q for s, with d more entries from the pool. *)
LEMMA HoldersChange ==
    ASSUME NEW m, NEW n, Own(m), NEW s \in Sem, NEW q \in Seq(Entry), NEW d \in Int,
           OneEach(q),
           n.holders = [m.holders EXCEPT ![s] = q], Len(q) = Len(m.holders[s]) + d,
           n.free = m.free - d, n.free \in Nat
    PROVE  HoldersOK(n)
<1>1. m.holders \in [Sem -> Seq(Entry)] /\ m.free \in Nat /\ IsFiniteSet(Sem)
  BY SemAssumption DEF Own, HoldersOK
<1>2. n.holders \in [Sem -> Seq(Entry)] /\ n.holders[s] = q
  BY <1>1
<1>3. \A x \in Sem \ {s} : n.holders[x] = m.holders[x]
  BY <1>1
<1>4. \A x \in Sem : OneEach(n.holders[x])
  BY <1>2, <1>3 DEF Own, HoldersOK
<1>5. SumOver(Lens(m), Sem) \in Int /\ SumOver(Lens(n), Sem) = SumOver(Lens(m), Sem) + d
  <2>1. \A x \in Sem : Lens(m)[x] = Len(m.holders[x]) /\ Lens(n)[x] = Len(n.holders[x])
    BY DEF Lens
  <2>2. \A x \in Sem : Lens(m)[x] \in Int
    <3>1. \A x \in Sem : m.holders[x] \in Seq(Entry)
      BY <1>1
    <3>2. \A x \in Sem : Len(m.holders[x]) \in Int
      BY <3>1
    <3> QED
      BY <2>1, <3>2
  <2>3. Lens(n)[s] = Lens(m)[s] + d /\ \A x \in Sem \ {s} : Lens(n)[x] = Lens(m)[x]
    BY <1>2, <1>3, <2>1
  <2> DEFINE F == Lens(m)
             G == Lens(n)
  <2> HIDE DEF F, G
  <2>4. SumOver(F, Sem) \in Int /\ SumOver(G, Sem) = SumOver(F, Sem) + d
    <3>1. (\A x \in Sem : F[x] \in Int) /\ G[s] = F[s] + d /\ \A x \in Sem \ {s} : G[x] = F[x]
      BY <2>2, <2>3 DEF F, G
    <3> QED
      BY <1>1, <3>1, SumChange
  <2> QED
    BY <2>4 DEF F, G
<1>6. n.free + SumOver(Lens(n), Sem) = NHolders
  BY <1>1, <1>5 DEF Own, HoldersOK
<1> QED
  BY <1>2, <1>4, <1>6 DEF HoldersOK

LEMMA FreeholderLemma ==
    ASSUME NEW m, Sound(m), NEW s \in Sem, NEW h, Holds(m, h, s), NEW T
    PROVE  LET n == sem_freeholder(m, h, s) IN
           Tuned(m, n, T) /\ \A u : u # h /\ Holds(m, u, s) => Holds(n, u, s)
<1> DEFINE n == sem_freeholder(m, h, s)
           i == HolderIndex(m, h, s)
           p == m.holders[s]
           q == RemoveAt(p, i)
<1>1. Own(m) /\ HoldersOK(m) /\ p \in Seq(Entry) /\ m.free \in Nat
  BY DEF Sound, Own, HoldersOK
<1>2. i \in 1 .. Len(p) /\ p[i].tcb = h
  BY <1>1, HolderLemma
<1> HIDE DEF i
<1>3. /\ q \in Seq(Entry) /\ Len(q) = Len(p) - 1
      /\ \A j \in 1 .. Len(p) - 1 : q[j] = IF j < i THEN p[j] ELSE p[j + 1]
  BY <1>1, <1>2, RemoveLemma
<1>4. /\ n.holders = [m.holders EXCEPT ![s] = q] /\ n.free = m.free + 1
      /\ Alike(m, n) /\ Books(m, n) /\ n.pend = m.pend
  <2>1. OwnField \subseteq DOMAIN m
    BY <1>1 DEF Own
  <2>2. n = [m EXCEPT !.holders = [m.holders EXCEPT ![s] = q], !.free = m.free + 1]
    BY DEF sem_freeholder, i
  <2> HIDE DEF n, q
  <2> QED
    BY <2>1, <2>2 DEF OwnField, Alike, Books
<1> HIDE DEF q, n
<1>5. OneEach(p)
  BY <1>1 DEF HoldersOK
<1>6. OneEach(q)
  <2> HIDE DEF p
  <2>1. SUFFICES ASSUME NEW a \in 1 .. Len(q), NEW b \in 1 .. Len(q), q[a].tcb = q[b].tcb
                 PROVE  a = b
    BY DEF OneEach
  <2> DEFINE f(x) == IF x < i THEN x ELSE x + 1
  <2>2. Len(p) \in Nat
    BY <1>1
  <2>3. /\ f(a) \in 1 .. Len(p) /\ f(b) \in 1 .. Len(p)
        /\ q[a] = p[f(a)] /\ q[b] = p[f(b)]
    BY <1>2, <1>3, <2>2
  <2>4. f(a) = f(b)
    <3> HIDE DEF f
    <3> QED
      BY <1>5, <2>1, <2>3 DEF OneEach
  <2> QED
    BY <1>2, <1>3, <2>2, <2>4
<1>7. n.free = m.free - (-1) /\ n.free \in Nat /\ Len(q) = Len(m.holders[s]) + (-1)
  BY <1>1, <1>3, <1>4
<1>8. HoldersOK(n)
  BY <1>1, <1>3, <1>4, <1>6, <1>7, HoldersChange
<1>9. Own(n)
  <2>1. PendOK(n)
    BY <1>1, <1>4 DEF Own, PendOK
  <2> QED
    BY <1>1, <1>4, <1>8, <2>1 DEF Own, Alike, Books, Panics
<1>10. Tuned(m, n, T)
  BY <1>4, <1>9, AlikeTuned
<1>11. ASSUME NEW u, u # h, Holds(m, u, s) PROVE Holds(n, u, s)
  <2>1. PICK j \in 1 .. Len(p) : p[j].tcb = u
    BY <1>11 DEF Holds
  <2>2. n.holders[s] = q
    BY <1>1, <1>4 DEF Own, HoldersOK
  <2>3. CASE j < i
    <3>1. j \in 1 .. Len(q) /\ q[j] = p[j]
      <4>1. Len(p) \in Nat
        BY <1>1
      <4> HIDE DEF p
      <4> QED
        BY <1>2, <1>3, <2>1, <2>3, <4>1
    <3> QED
      BY <2>1, <2>2, <3>1 DEF Holds
  <2>4. CASE j > i
    <3>1. j - 1 \in 1 .. Len(q) /\ q[j - 1] = p[j]
      <4>1. Len(p) \in Nat
        BY <1>1
      <4> HIDE DEF p
      <4>2. j - 1 \in 1 .. Len(p) - 1 /\ ~(j - 1 < i) /\ (j - 1) + 1 = j
        BY <1>2, <2>1, <2>4, <4>1
      <4> QED
        BY <1>3, <4>1, <4>2
    <3> QED
      BY <2>1, <2>2, <3>1 DEF Holds
  <2> QED
    BY <1>2, <1>11, <2>1, <2>3, <2>4
<1> QED
  BY <1>10, <1>11 DEF n

(* The counts of an entry are changed. *)
LEMMA CountsChange ==
    ASSUME NEW m, Sound(m), NEW s \in Sem, NEW h, Holds(m, h, s), NEW c \in Nat, NEW T
    PROVE  LET n == [m EXCEPT !.holders[s][HolderIndex(m, h, s)].counts = c] IN
           Tuned(m, n, T) /\ \A u : Holds(n, u, s) <=> Holds(m, u, s)
<1> DEFINE i == HolderIndex(m, h, s)
           p == m.holders[s]
           q == [p EXCEPT ![i] = [p[i] EXCEPT !.counts = c]]
           n == [m EXCEPT !.holders[s][i].counts = c]
<1>1. Own(m) /\ HoldersOK(m) /\ p \in Seq(Entry) /\ m.free \in Nat /\ Len(p) \in Nat
  BY DEF Sound, Own, HoldersOK
<1>2. i \in 1 .. Len(p) /\ p[i] \in Entry
  BY <1>1, HolderLemma
<1>3. n = [m EXCEPT !.holders = [m.holders EXCEPT ![s] = q]]
  OBVIOUS
<1> HIDE DEF i, n, p
<1>4. [p[i] EXCEPT !.counts = c] \in Entry /\ [p[i] EXCEPT !.counts = c].tcb = p[i].tcb
  BY <1>2 DEF Entry
<1>5. /\ q \in Seq(Entry) /\ Len(q) = Len(p) /\ \A j \in 1 .. Len(p) : q[j].tcb = p[j].tcb
  BY <1>1, <1>2, <1>4
<1> HIDE DEF q
<1>6. n.holders = [m.holders EXCEPT ![s] = q] /\ n.free = m.free /\ Alike(m, n) /\ Books(m, n) /\ n.pend = m.pend
  <2>1. OwnField \subseteq DOMAIN m
    BY <1>1 DEF Own
  <2> QED
    BY <1>3, <2>1 DEF OwnField, Alike, Books
<1>7. OneEach(q)
  <2>1. OneEach(p)
    BY <1>1 DEF HoldersOK, p
  <2> QED
    BY <1>5, <2>1 DEF OneEach
<1>8. HoldersOK(n)
  <2>1. Len(q) = Len(m.holders[s]) + 0 /\ n.free = m.free - 0 /\ n.free \in Nat /\ 0 \in Int
    BY <1>1, <1>5, <1>6 DEF p
  <2> QED
    BY <1>1, <1>5, <1>6, <1>7, <2>1, HoldersChange
<1>9. Own(n)
  <2>1. PendOK(n)
    BY <1>1, <1>6 DEF Own, PendOK
  <2> QED
    BY <1>1, <1>6, <1>8, <2>1 DEF Own, Alike, Books, Panics
<1>10. Tuned(m, n, T)
  BY <1>6, <1>9, AlikeTuned
<1>11. \A u : Holds(n, u, s) <=> Holds(m, u, s)
  <2>1. n.holders[s] = q
    BY <1>1, <1>6 DEF Own, HoldersOK
  <2> QED
    BY <1>5, <2>1 DEF Holds, p
<1> QED
  BY <1>10, <1>11 DEF n, i

LEMMA ReleaseholderLemma ==
    ASSUME NEW m, Sound(m), NEW s \in Sem, NEW h, NEW T
    PROVE  Tuned(m, sem_releaseholder(m, h, s), T)
<1> DEFINE i == HolderIndex(m, h, s)
<1>1. CASE Holds(m, h, s) /\ m.holders[s][i].counts > 0
  <2> DEFINE c == m.holders[s][i].counts - 1
  <2>1. m.holders[s][i] \in Entry
    BY <1>1, HolderLemma DEF Sound, Own
  <2>2. c \in Nat
    BY <1>1, <2>1 DEF Entry
  <2>3. sem_releaseholder(m, h, s) = [m EXCEPT !.holders[s][i].counts = c]
    BY <1>1 DEF sem_releaseholder
  <2> HIDE DEF c
  <2>4. Tuned(m, [m EXCEPT !.holders[s][i].counts = c], T)
    BY <1>1, <2>2, CountsChange
  <2> QED
    BY <2>3, <2>4
<1>2. CASE ~(Holds(m, h, s) /\ m.holders[s][i].counts > 0)
  <2>1. sem_releaseholder(m, h, s) = m
    BY <1>2 DEF sem_releaseholder
  <2> QED
    BY <2>1, TunedSame
<1> QED
  BY <1>1, <1>2

LEMMA AddholderLemma ==
    ASSUME NEW m, Sound(m), NEW s \in Sem, NEW h \in User, NEW T
    PROVE  Tuned(m, sem_addholder_tcb(m, h, s), T)
<1> DEFINE i == HolderIndex(m, h, s)
           e == [tcb |-> h, counts |-> 1]
           p == m.holders[s]
           q == <<e>> \o p
           n == [m EXCEPT !.holders = [m.holders EXCEPT ![s] = q], !.free = m.free - 1]
<1>1. \/ sem_addholder_tcb(m, h, s) = m
      \/ /\ Holds(m, h, s)
         /\ sem_addholder_tcb(m, h, s) = [m EXCEPT !.holders[s][i].counts = m.holders[s][i].counts + 1]
      \/ ~ Holds(m, h, s) /\ m.free > 0 /\ sem_addholder_tcb(m, h, s) = n
  BY DEF sem_addholder_tcb
<1>2. CASE sem_addholder_tcb(m, h, s) = m
  BY <1>2, TunedSame
<1>3. CASE /\ Holds(m, h, s)
           /\ sem_addholder_tcb(m, h, s) = [m EXCEPT !.holders[s][i].counts = m.holders[s][i].counts + 1]
  <2> DEFINE c == m.holders[s][i].counts + 1
  <2>1. m.holders[s][i] \in Entry
    BY <1>3, HolderLemma DEF Sound, Own
  <2>2. c \in Nat
    BY <2>1 DEF Entry
  <2> HIDE DEF c
  <2>3. Tuned(m, [m EXCEPT !.holders[s][i].counts = c], T)
    BY <1>3, <2>2, CountsChange
  <2> QED
    BY <1>3, <2>3 DEF c
<1>4. CASE ~ Holds(m, h, s) /\ m.free > 0 /\ sem_addholder_tcb(m, h, s) = n
  <2>1. Own(m) /\ HoldersOK(m) /\ p \in Seq(Entry) /\ m.free \in Nat /\ Len(p) \in Nat /\ OneEach(p)
    BY DEF Sound, Own, HoldersOK
  <2>2. e \in Entry /\ e.tcb = h
    BY DEF Entry
  <2>3. \A j \in 1 .. Len(p) : p[j].tcb # h
    BY <1>4 DEF Holds
  <2> HIDE DEF p, e
  <2>4. /\ q \in Seq(Entry) /\ Len(q) = Len(p) + 1
        /\ \A j \in 1 .. Len(p) + 1 : q[j] = IF j = 1 THEN e ELSE p[j - 1]
    BY <2>1, <2>2
  <2> HIDE DEF q
  <2>5. OneEach(q)
    <3>1. SUFFICES ASSUME NEW a \in 1 .. Len(q), NEW b \in 1 .. Len(q), q[a].tcb = q[b].tcb
                   PROVE  a = b
      BY DEF OneEach
    <3>2. \A j \in 1 .. Len(q) : j # 1 => j - 1 \in 1 .. Len(p) /\ q[j] = p[j - 1] /\ q[j].tcb # h
      BY <2>1, <2>3, <2>4
    <3>3. a = 1 <=> b = 1
      BY <2>1, <2>2, <2>4, <3>1, <3>2
    <3>4. a # 1 => a - 1 = b - 1
      BY <2>1, <3>1, <3>2, <3>3 DEF OneEach
    <3> QED
      BY <3>3, <3>4
  <2>6. n.holders = [m.holders EXCEPT ![s] = q] /\ n.free = m.free - 1 /\ Alike(m, n) /\ Books(m, n) /\ n.pend = m.pend
    <3>1. OwnField \subseteq DOMAIN m
      BY <2>1 DEF Own
    <3> QED
      BY <3>1 DEF OwnField, Alike, Books
  <2> HIDE DEF n
  <2>7. HoldersOK(n)
    <3>1. Len(q) = Len(m.holders[s]) + 1 /\ n.free \in Nat /\ 1 \in Int
      BY <1>4, <2>1, <2>4, <2>6 DEF p
    <3> QED
      BY <2>1, <2>4, <2>5, <2>6, <3>1, HoldersChange
  <2>8. Own(n)
    <3>1. PendOK(n)
      BY <2>1, <2>6 DEF Own, PendOK
    <3> QED
      BY <2>1, <2>6, <2>7, <3>1 DEF Own, Alike, Books, Panics
  <2>9. Tuned(m, n, T)
    BY <2>6, <2>8, AlikeTuned
  <2> QED
    BY <1>4, <2>9
<1> QED
  BY <1>1, <1>2, <1>3, <1>4

(* The bag of pending priorities of h becomes b. *)
LEMMA PendChange ==
    ASSUME NEW m, Sound(m), NEW h \in Task, NEW b, PendBag(h, b), NEW T
    PROVE  LET n == [m EXCEPT !.pend[h] = b] IN
           Tuned(m, n, T) /\ n.holders = m.holders /\ n.prio = m.prio
<1> DEFINE n == [m EXCEPT !.pend[h] = b]
<1>1. Own(m) /\ OwnField \subseteq DOMAIN m /\ PendOK(m)
  BY DEF Sound, Own
<1>2. /\ n.pend = [m.pend EXCEPT ![h] = b] /\ n.holders = m.holders /\ n.free = m.free
      /\ Alike(m, n) /\ Books(m, n)
  BY <1>1 DEF OwnField, Alike, Books
<1> HIDE DEF n
<1>3. PendOK(n)
  <2>1. DOMAIN m.pend = Task
    BY <1>1 DEF PendOK
  <2>2. DOMAIN n.pend = Task /\ \A t \in Task : n.pend[t] = IF t = h THEN b ELSE m.pend[t]
    BY <1>2, <2>1
  <2>3. n.pend = [t \in Task |-> n.pend[t]]
    BY <1>2, <2>1
  <2> QED
    BY <1>1, <2>2, <2>3 DEF PendOK
<1>4. HoldersOK(n)
  BY <1>1, <1>2 DEF Own, HoldersOK, Lens
<1>5. Own(n)
  BY <1>1, <1>2, <1>3, <1>4 DEF Own, Alike, Books, Panics
<1>6. Tuned(m, n, T)
  BY <1>2, <1>5, AlikeTuned
<1> QED
  BY <1>2, <1>6 DEF n, Alike

LEMMA PushLemma ==
    ASSUME NEW m, Sound(m), NEW h \in Task, NEW p \in Prio, p > Base[h], NEW T
    PROVE  Tuned(m, Push(m, h, p), T) /\ Push(m, h, p).holders = m.holders
           /\ Push(m, h, p).prio = m.prio
<1> DEFINE a == m.pend[h]
           b == a (+) SetToBag({p})
<1>1. PendBag(h, a)
  BY DEF Sound, Own, PendOK
<1> HIDE DEF a
<1>2. DOMAIN b = DOMAIN a \cup {p} /\ b = [x \in DOMAIN b |-> b[x]]
  BY DEF (+), SetToBag
<1> HIDE DEF b
<1>3. PendBag(h, b)
  BY <1>1, <1>2 DEF PendBag
<1>4. Push(m, h, p) = [m EXCEPT !.pend[h] = b]
  BY DEF Push, a, b
<1> QED
  BY <1>3, <1>4, PendChange

LEMMA PopLemma ==
    ASSUME NEW m, Sound(m), NEW h \in Task, NEW p, NEW T
    PROVE  Tuned(m, Pop(m, h, p), T) /\ Pop(m, h, p).holders = m.holders
           /\ Pop(m, h, p).prio = m.prio
<1> DEFINE a == m.pend[h]
           b == a (-) SetToBag({p})
<1>1. PendBag(h, a)
  BY DEF Sound, Own, PendOK
<1> HIDE DEF a
<1>2. DOMAIN b \subseteq DOMAIN a /\ b = [x \in DOMAIN b |-> b[x]]
  BY DEF (-), SetToBag
<1> HIDE DEF b
<1>3. PendBag(h, b)
  BY <1>1, <1>2 DEF PendBag
<1>4. Pop(m, h, p) = [m EXCEPT !.pend[h] = b]
  BY DEF Pop, a, b
<1> QED
  BY <1>3, <1>4, PendChange

(* A priority is set that is not below the one of creation. *)
LEMMA SetPrioTuned ==
    ASSUME NEW m, Sound(m), NEW h \in User, NEW p \in Prio, p >= Base[h], NEW T, h \in T
    PROVE  Tuned(m, SetPrio(m, h, p), T) /\ SetPrio(m, h, p).holders = m.holders
<1> DEFINE n == SetPrio(m, h, p)
<1>1. h \in Task \ {Idle}
  BY UserFacts
<1>2. Reprioritizes(m, n, h, p)
  BY <1>1, SetPrioLemma DEF Sound
<1> HIDE DEF n
<1>3. Good(n) /\ n.lock = m.lock /\ Shuffled(m, n, Task) /\ (Calm(m) => Calm(n))
  BY <1>2 DEF Reprioritizes
<1>4. /\ n.prio = [m.prio EXCEPT ![h] = p] /\ Frame(m, n)
      /\ m.lock[Running(m)] > 0 /\ h # Running(m) => Running(n) = Running(m)
  BY <1>2 DEF Reprioritizes, OnePrio
<1>5. Own(n) /\ \A f \in OwnField : n[f] = m[f]
  BY <1>4, FrameOwn DEF Sound
<1>6. Books(m, n) /\ n.holders = m.holders
  BY <1>5 DEF Books, OwnField
<1>7. Above(n)
  <2>1. m.prio \in [Task -> 0 .. MaxPrio]
    BY DEF Sound, Good, Lists, KType
  <2> QED
    BY <1>1, <1>4, <2>1 DEF Sound, Above
<1>8. Tuned(m, n, T)
  BY <1>3, <1>4, <1>5, <1>6, <1>7 DEF Tuned, Sound
<1> QED
  BY <1>6, <1>8 DEF n

(* The other entries of s stay. *)
Others(m, n, s, h) == \A u : u # h /\ Holds(m, u, s) => Holds(n, u, s)

LEMMA OthersSame ==
    ASSUME NEW m, NEW n, NEW s, NEW h, n.holders = m.holders
    PROVE  Others(m, n, s, h)
BY DEF Others, Holds

LEMMA RestoreStep ==
    ASSUME NEW m, Sound(m), NEW s \in Sem, NEW h, Holds(m, h, s), NEW st, NEW T, h \in T
    PROVE  LET n == sem_restoreholderprio(m, h, s, st) IN Tuned(m, n, T) /\ Others(m, n, s, h)
<1> DEFINE n == sem_restoreholderprio(m, h, s, st)
           p == Max(BagToSet(m.pend[h]))
<1>1. h \in User
  BY HolderLemma DEF Sound, Own
<1>2. h \in Task \ {Idle} /\ Base[h] \in Prio /\ Base[h] >= Base[h]
  BY <1>1, UserFacts DEF Prio
<1>3. \/ n = sem_freeholder(m, h, s)
      \/ n = m
      \/ n = SetPrio(m, h, Base[h])
      \/ m.pend[h] # EmptyBag /\ n = SetPrio(Pop(m, h, p), h, p)
      \/ n = Pop(m, h, m.prio[st])
  BY DEF sem_restoreholderprio
<1>4. CASE n = sem_freeholder(m, h, s)
  <2>1. LET x == sem_freeholder(m, h, s) IN Tuned(m, x, T) /\ Others(m, x, s, h)
    BY FreeholderLemma DEF Others
  <2> QED
    BY <1>4, <2>1
<1>5. CASE n = m
  <2>1. Tuned(m, m, T) /\ Others(m, m, s, h)
    BY TunedSame, OthersSame
  <2> QED
    BY <1>5, <2>1
<1>6. CASE n = SetPrio(m, h, Base[h])
  <2> DEFINE x == SetPrio(m, h, Base[h])
  <2>1. Tuned(m, x, T) /\ x.holders = m.holders
    BY <1>1, <1>2, SetPrioTuned
  <2> HIDE DEF x
  <2>2. Tuned(m, x, T) /\ Others(m, x, s, h)
    BY <2>1, OthersSame
  <2> QED
    BY <1>6, <2>2 DEF x
<1>7. CASE m.pend[h] # EmptyBag /\ n = SetPrio(Pop(m, h, p), h, p)
  <2> DEFINE b == m.pend[h]
             a == Pop(m, h, p)
             x == SetPrio(a, h, p)
  <2>1. PendBag(h, b)
    BY <1>2 DEF Sound, Own, PendOK
  <2> HIDE DEF b
  <2>2. DOMAIN b # {} /\ DOMAIN b \subseteq Prio
    <3>1. SUFFICES ASSUME DOMAIN b = {} PROVE FALSE
      BY <2>1 DEF PendBag
    <3>2. b = [y \in {} |-> 1]
      BY <2>1, <3>1 DEF PendBag
    <3> QED
      BY <1>7, <3>2 DEF EmptyBag, SetToBag, b
  <2>3. p = Max(DOMAIN b)
    BY DEF BagToSet, b
  <2>4. p \in DOMAIN b
    BY <2>2, <2>3, MaxPrioLemma
  <2> HIDE DEF p
  <2>5. p \in Prio /\ p >= Base[h]
    BY <1>2, <2>1, <2>4 DEF PendBag, Prio
  <2>6. Tuned(m, a, T) /\ a.holders = m.holders
    BY <1>2, PopLemma
  <2> HIDE DEF a
  <2>7. Tuned(a, x, T) /\ x.holders = a.holders
    BY <1>1, <2>5, <2>6, SetPrioTuned DEF Tuned
  <2> HIDE DEF x
  <2>8. Tuned(m, x, T) /\ Others(m, x, s, h)
    BY <2>6, <2>7, TunedTrans, OthersSame
  <2> QED
    BY <1>7, <2>8 DEF x, a, p
<1>8. CASE n = Pop(m, h, m.prio[st])
  <2> DEFINE x == Pop(m, h, m.prio[st])
  <2>1. Tuned(m, x, T) /\ x.holders = m.holders
    BY <1>2, PopLemma
  <2> HIDE DEF x
  <2>2. Tuned(m, x, T) /\ Others(m, x, s, h)
    BY <2>1, OthersSame
  <2> QED
    BY <1>8, <2>2 DEF x
<1> QED
  BY <1>3, <1>4, <1>5, <1>6, <1>7, <1>8

LEMMA BoostStep ==
    ASSUME NEW m, Sound(m), NEW s \in Sem, NEW h, Holds(m, h, s), NEW t \in Task,
           NEW T, h # t => h \in T
    PROVE  LET n == sem_boostholderprio(m, h, s, t) IN Tuned(m, n, T) /\ Others(m, n, s, h)
<1> DEFINE n == sem_boostholderprio(m, h, s, t)
           p == m.prio[t]
           o == m.prio[h]
           a == IF o > Base[h] /\ BagCardinality(m.pend[h]) < NNest THEN Push(m, h, o) ELSE m
<1>1. h \in User
  BY HolderLemma DEF Sound, Own
<1>2. h \in Task \ {Idle} /\ Base[h] \in Prio
  BY <1>1, UserFacts
<1>3. p \in 0 .. MaxPrio /\ o \in 0 .. MaxPrio /\ MaxPrio \in Nat /\ Base[h] \in Nat
  BY <1>2, PrioAssumption DEF Sound, Good, Lists, KType, Prio
<1>4. \/ n = sem_freeholder(m, h, s)
      \/ n = m
      \/ p > Base[h] /\ p > o /\ n = SetPrio(a, h, p)
      \/ p > Base[h] /\ n = Push(m, h, p)
      \/ n = [m EXCEPT !.panic = "overrun"]
  <2>1. (p <= Base[h] \/ p > Base[h]) /\ (p <= o \/ p > o)
    BY <1>3
  <2>2. CASE h \notin m.live
    BY <2>2 DEF sem_boostholderprio
  <2>3. CASE h \in m.live /\ p <= Base[h]
    <3>1. ~(p > Base[h])
      BY <1>3, <2>3
    <3> QED
      BY <2>3, <3>1 DEF sem_boostholderprio
  <2>4. CASE h \in m.live /\ p > Base[h] /\ p > o
    <3>1. ~(p <= Base[h]) /\ ~(p <= o)
      BY <1>3, <2>4
    <3> QED
      BY <2>4, <3>1 DEF sem_boostholderprio
  <2>5. CASE h \in m.live /\ p > Base[h] /\ p <= o
    <3>1. ~(p <= Base[h]) /\ ~(p > o)
      BY <1>3, <2>5
    <3>2. n = IF BagCardinality(m.pend[h]) < NNest THEN Push(m, h, p) ELSE [m EXCEPT !.panic = "overrun"]
      BY <2>5, <3>1 DEF sem_boostholderprio
    <3> QED
      BY <2>5, <3>2
  <2> QED
    BY <2>1, <2>2, <2>3, <2>4, <2>5
<1>5. CASE n = sem_freeholder(m, h, s)
  <2>1. LET x == sem_freeholder(m, h, s) IN Tuned(m, x, T) /\ Others(m, x, s, h)
    BY FreeholderLemma DEF Others
  <2> QED
    BY <1>5, <2>1
<1>6. CASE n = m
  <2>1. Tuned(m, m, T) /\ Others(m, m, s, h)
    BY TunedSame, OthersSame
  <2> QED
    BY <1>6, <2>1
<1>7. CASE p > Base[h] /\ p > o /\ n = SetPrio(a, h, p)
  <2> DEFINE x == SetPrio(a, h, p)
  <2>1. h \in T /\ p \in Prio /\ p >= Base[h]
    BY <1>3, <1>7 DEF Prio
  <2>2. o > Base[h] => o \in Prio
    BY <1>3 DEF Prio
  <2> HIDE DEF o, p
  <2>3. Tuned(m, a, T) /\ a.holders = m.holders
    <3>1. CASE a = m
      <4>1. Tuned(m, m, T)
        BY TunedSame
      <4> QED
        BY <3>1, <4>1
    <3>2. CASE a = Push(m, h, o) /\ o > Base[h]
      <4>1. Tuned(m, Push(m, h, o), T) /\ Push(m, h, o).holders = m.holders
        BY <1>2, <2>2, <3>2, PushLemma
      <4> QED
        BY <3>2, <4>1
    <3> QED
      BY <3>1, <3>2
  <2> HIDE DEF a
  <2>4. Tuned(a, x, T) /\ x.holders = a.holders
    BY <1>1, <2>1, <2>3, SetPrioTuned DEF Tuned
  <2> HIDE DEF x
  <2>5. Tuned(m, x, T) /\ Others(m, x, s, h)
    BY <2>3, <2>4, TunedTrans, OthersSame
  <2> QED
    BY <1>7, <2>5 DEF x
<1>8. CASE p > Base[h] /\ n = Push(m, h, p)
  <2> DEFINE x == Push(m, h, p)
  <2>1. p \in Prio
    BY <1>3, <1>8 DEF Prio
  <2> HIDE DEF p
  <2>2. Tuned(m, x, T) /\ x.holders = m.holders
    BY <1>2, <1>8, <2>1, PushLemma
  <2> HIDE DEF x
  <2>3. Tuned(m, x, T) /\ Others(m, x, s, h)
    BY <2>2, OthersSame
  <2> QED
    BY <1>8, <2>3 DEF x
<1>9. CASE n = [m EXCEPT !.panic = "overrun"]
  <2> DEFINE x == [m EXCEPT !.panic = "overrun"]
  <2>1. OwnField \subseteq DOMAIN m /\ Own(m)
    BY DEF Sound, Own
  <2>2. /\ Alike(m, x) /\ Books(m, x) /\ x.holders = m.holders /\ x.free = m.free
        /\ x.pend = m.pend /\ x.panic = "overrun"
    BY <2>1 DEF OwnField, Alike, Books
  <2> HIDE DEF x
  <2>3. HoldersOK(x) /\ PendOK(x)
    BY <2>1, <2>2 DEF Own, HoldersOK, Lens, PendOK
  <2>4. Own(x)
    BY <2>1, <2>2, <2>3 DEF Own, Alike, Books, Panics
  <2>5. Tuned(m, x, T) /\ Others(m, x, s, h)
    BY <2>2, <2>4, AlikeTuned, OthersSame
  <2> QED
    BY <1>9, <2>5 DEF x
<1> QED
  BY <1>4, <1>5, <1>6, <1>7, <1>8, <1>9

-----------------------------------------------------------------------------
(* The passes over the holders. *)
LEMMA BoostsExists ==
    ASSUME NEW m, NEW hs, Len(hs) \in Nat, NEW s, NEW t
    PROVE  LET f == Boosts(m, hs, s, t) IN
           /\ f[0] = m
           /\ \A i \in 1 .. Len(hs) : f[i] = sem_boostholderprio(f[i - 1], hs[i], s, t)
<1> DEFINE n == Len(hs)
           g(x, i) == sem_boostholderprio(x, hs[i], s, t)
           h(a, j) == [i \in 0 .. j |-> IF i = 0 THEN m ELSE g(a[i - 1], i)]
           T == {j \in 0 .. n : \E a : a = h(a, j)}
<1>1. n \in Nat
  OBVIOUS
<1>2. Boosts(m, hs, s, t) = CHOOSE a : a = h(a, n)
  BY DEF Boosts
<1> HIDE DEF n, g
<1>3. 0 \in T
  <2> DEFINE y == [i \in 0 .. 0 |-> m]
  <2>1. \A i \in 0 .. 0 : i = 0
    OBVIOUS
  <2>2. y = h(y, 0)
    BY <2>1
  <2>3. \E a : a = h(a, 0)
    <3> HIDE DEF h, y
    <3> QED
      BY <2>2
  <2> QED
    BY <1>1, <2>3
<1>4. ASSUME NEW j \in 0 .. n - 1, j \in T PROVE j + 1 \in T
  <2>1. PICK a : a = h(a, j)
    BY <1>4
  <2> DEFINE b == [i \in 0 .. j + 1 |-> IF i = j + 1 THEN g(a[j], j + 1) ELSE a[i]]
  <2>2. ASSUME NEW i \in 0 .. j + 1
        PROVE  b[i] = IF i = 0 THEN m ELSE g(b[i - 1], i)
    <3>1. CASE i = j + 1
      <4>1. i - 1 = j /\ j \in 0 .. j + 1 /\ j # j + 1 /\ i # 0
        BY <1>1, <3>1
      <4>2. b[i] = g(a[j], i) /\ b[i - 1] = a[j]
        BY <3>1, <4>1
      <4> QED
        BY <4>1, <4>2, Zenon
    <3>2. CASE i # j + 1
      <4>1. i \in 0 .. j /\ b[i] = a[i]
        BY <1>1, <3>2
      <4>2. a[i] = IF i = 0 THEN m ELSE g(a[i - 1], i)
        BY <2>1, <4>1
      <4>3. i # 0 => b[i - 1] = a[i - 1]
        BY <1>1, <4>1
      <4> HIDE DEF b
      <4> QED
        BY <4>1, <4>2, <4>3, Zenon
    <3> QED
      BY <3>1, <3>2
  <2>3. b = h(b, j + 1)
    BY <2>2
  <2>4. j + 1 \in 0 .. n
    BY <1>1
  <2> QED
    BY <2>3, <2>4
<1> HIDE DEF T
<1>5. \A i \in 0 .. n : i \in T
  BY <1>1, <1>3, <1>4, IntervalInduction
<1>6. \E a : a = h(a, n)
  <2>1. n \in T
    BY <1>1, <1>5
  <2> QED
    BY <2>1 DEF T
<1> DEFINE e == Boosts(m, hs, s, t)
<1>7. e = h(e, n)
  BY <1>2, <1>6
<1> HIDE DEF e
<1>8. e[0] = m /\ \A i \in 1 .. n : e[i] = g(e[i - 1], i)
  <2>1. 0 \in 0 .. n /\ \A i \in 1 .. n : i \in 0 .. n /\ i # 0
    BY <1>1
  <2> QED
    BY <1>7, <2>1
<1> QED
  BY <1>8 DEF e, n, g

LEMMA RestoresExists ==
    ASSUME NEW m, NEW hs, Len(hs) \in Nat, NEW s, NEW st, NEW t
    PROVE  LET f == Restores(m, hs, s, st, t) IN
           /\ f[0] = m
           /\ \A i \in 1 .. Len(hs) : f[i] = 
                IF hs[i] = t THEN f[i - 1] ELSE sem_restoreholderprio(f[i - 1], hs[i], s, st)
<1> DEFINE n == Len(hs)
           g(x, i) == IF hs[i] = t THEN x ELSE sem_restoreholderprio(x, hs[i], s, st)
           h(a, j) == [i \in 0 .. j |-> IF i = 0 THEN m ELSE g(a[i - 1], i)]
           T == {j \in 0 .. n : \E a : a = h(a, j)}
<1>1. n \in Nat
  OBVIOUS
<1>2. Restores(m, hs, s, st, t) = CHOOSE a : a = h(a, n)
  BY DEF Restores
<1> HIDE DEF n, g
<1>3. 0 \in T
  <2> DEFINE y == [i \in 0 .. 0 |-> m]
  <2>1. \A i \in 0 .. 0 : i = 0
    OBVIOUS
  <2>2. y = h(y, 0)
    BY <2>1
  <2>3. \E a : a = h(a, 0)
    <3> HIDE DEF h, y
    <3> QED
      BY <2>2
  <2> QED
    BY <1>1, <2>3
<1>4. ASSUME NEW j \in 0 .. n - 1, j \in T PROVE j + 1 \in T
  <2>1. PICK a : a = h(a, j)
    BY <1>4
  <2> DEFINE b == [i \in 0 .. j + 1 |-> IF i = j + 1 THEN g(a[j], j + 1) ELSE a[i]]
  <2>2. ASSUME NEW i \in 0 .. j + 1
        PROVE  b[i] = IF i = 0 THEN m ELSE g(b[i - 1], i)
    <3>1. CASE i = j + 1
      <4>1. i - 1 = j /\ j \in 0 .. j + 1 /\ j # j + 1 /\ i # 0
        BY <1>1, <3>1
      <4>2. b[i] = g(a[j], i) /\ b[i - 1] = a[j]
        BY <3>1, <4>1
      <4> QED
        BY <4>1, <4>2, Zenon
    <3>2. CASE i # j + 1
      <4>1. i \in 0 .. j /\ b[i] = a[i]
        BY <1>1, <3>2
      <4>2. a[i] = IF i = 0 THEN m ELSE g(a[i - 1], i)
        BY <2>1, <4>1
      <4>3. i # 0 => b[i - 1] = a[i - 1]
        BY <1>1, <4>1
      <4> HIDE DEF b
      <4> QED
        BY <4>1, <4>2, <4>3, Zenon
    <3> QED
      BY <3>1, <3>2
  <2>3. b = h(b, j + 1)
    BY <2>2
  <2>4. j + 1 \in 0 .. n
    BY <1>1
  <2> QED
    BY <2>3, <2>4
<1> HIDE DEF T
<1>5. \A i \in 0 .. n : i \in T
  BY <1>1, <1>3, <1>4, IntervalInduction
<1>6. \E a : a = h(a, n)
  <2>1. n \in T
    BY <1>1, <1>5
  <2> QED
    BY <2>1 DEF T
<1> DEFINE e == Restores(m, hs, s, st, t)
<1>7. e = h(e, n)
  BY <1>2, <1>6
<1> HIDE DEF e
<1>8. e[0] = m /\ \A i \in 1 .. n : e[i] = g(e[i - 1], i)
  <2>1. 0 \in 0 .. n /\ \A i \in 1 .. n : i \in 0 .. n /\ i # 0
    BY <1>1
  <2> QED
    BY <1>7, <2>1
<1> QED
  BY <1>8 DEF e, n, g

LEMMA BoostsLemma ==
    ASSUME NEW m, Sound(m), NEW s \in Sem, NEW hs \in Seq(User), NEW t \in Task, NEW T,
           \A i, j \in 1 .. Len(hs) : hs[i] = hs[j] => i = j,
           \A i \in 1 .. Len(hs) : Holds(m, hs[i], s),
           \A i \in 1 .. Len(hs) : hs[i] # t => hs[i] \in T
    PROVE  Tuned(m, Boosts(m, hs, s, t)[Len(hs)], T)
<1> DEFINE n == Len(hs)
           F == Boosts(m, hs, s, t)
<1>1. n \in Nat
  OBVIOUS
<1>2. F[0] = m /\ \A i \in 1 .. n : F[i] = sem_boostholderprio(F[i - 1], hs[i], s, t)
  BY <1>1, BoostsExists
<1>3. Boosts(m, hs, s, t)[Len(hs)] = F[n]
  OBVIOUS
<1> HIDE DEF n, F
<1>4. /\ \A i, j \in 1 .. n : hs[i] = hs[j] => i = j
      /\ \A i \in 1 .. n : Holds(m, hs[i], s) /\ (hs[i] # t => hs[i] \in T)
  BY DEF n
<1> DEFINE U == {j \in 0 .. n : Tuned(m, F[j], T) /\ \A i \in j + 1 .. n : Holds(F[j], hs[i], s)}
<1>5. 0 \in U
  <2>1. Tuned(m, m, T)
    BY TunedSame
  <2> QED
    BY <1>1, <1>2, <1>4, <2>1
<1>6. ASSUME NEW j \in 0 .. n - 1, j \in U PROVE j + 1 \in U
  <2> DEFINE a == F[j]
             h == hs[j + 1]
             b == F[j + 1]
  <2>1. j + 1 \in 1 .. n /\ j + 1 \in 0 .. n /\ (j + 1) - 1 = j
    BY <1>1
  <2>2. Tuned(m, a, T) /\ Holds(a, h, s) /\ \A i \in j + 2 .. n : Holds(a, hs[i], s)
    BY <1>1, <1>6, <2>1
  <2>3. b = sem_boostholderprio(a, h, s, t)
    BY <1>2, <2>1
  <2>4. h # t => h \in T
    BY <1>4, <2>1
  <2>5. \A i \in j + 2 .. n : hs[i] # h
    BY <1>1, <1>4, <2>1
  <2> HIDE DEF a, b, h
  <2>6. Sound(a)
    BY <2>2 DEF Tuned
  <2>7. Tuned(a, b, T) /\ Others(a, b, s, h)
    BY <2>2, <2>3, <2>4, <2>6, BoostStep
  <2>8. Tuned(m, b, T)
    BY <2>2, <2>7, TunedTrans
  <2>9. \A i \in (j + 1) + 1 .. n : Holds(b, hs[i], s)
    <3>1. \A i \in (j + 1) + 1 .. n : i \in j + 2 .. n
      BY <1>1
    <3> QED
      BY <2>2, <2>5, <2>7, <3>1 DEF Others
  <2> QED
    BY <2>1, <2>8, <2>9 DEF b
<1>7. n \in U
  <2> HIDE DEF U
  <2>1. \A i \in 0 .. n : i \in U
    BY <1>1, <1>5, <1>6, IntervalInduction
  <2> QED
    BY <1>1, <2>1
<1> QED
  BY <1>3, <1>7

LEMMA RestoreLemma ==
    ASSUME NEW m, Sound(m), NEW s \in Sem, NEW hs \in Seq(User), NEW t, NEW st, NEW T,
           \A i, j \in 1 .. Len(hs) : hs[i] = hs[j] => i = j,
           \A i \in 1 .. Len(hs) : Holds(m, hs[i], s),
           \A i \in 1 .. Len(hs) : hs[i] # t => hs[i] \in T
    PROVE  Tuned(m, RestoreBut(m, hs, s, st, t), T)
<1> DEFINE n == Len(hs)
           F == Restores(m, hs, s, st, t)
<1>1. n \in Nat
  OBVIOUS
<1>2. F[0] = m /\ \A i \in 1 .. n : F[i] = IF hs[i] = t THEN F[i - 1] ELSE sem_restoreholderprio(F[i - 1], hs[i], s, st)
  BY <1>1, RestoresExists
<1>3. RestoreBut(m, hs, s, st, t) = F[n]
  BY DEF RestoreBut
<1> HIDE DEF n, F
<1>4. /\ \A i, j \in 1 .. n : hs[i] = hs[j] => i = j
      /\ \A i \in 1 .. n : Holds(m, hs[i], s) /\ (hs[i] # t => hs[i] \in T)
  BY DEF n
<1> DEFINE U == {j \in 0 .. n : Tuned(m, F[j], T) /\ \A i \in j + 1 .. n : Holds(F[j], hs[i], s)}
<1>5. 0 \in U
  <2>1. Tuned(m, m, T)
    BY TunedSame
  <2> QED
    BY <1>1, <1>2, <1>4, <2>1
<1>6. ASSUME NEW j \in 0 .. n - 1, j \in U PROVE j + 1 \in U
  <2> DEFINE a == F[j]
             h == hs[j + 1]
             b == F[j + 1]
  <2>1. j + 1 \in 1 .. n /\ j + 1 \in 0 .. n /\ (j + 1) - 1 = j
    BY <1>1
  <2>2. Tuned(m, a, T) /\ Holds(a, h, s) /\ \A i \in j + 2 .. n : Holds(a, hs[i], s)
    BY <1>1, <1>6, <2>1
  <2>3. b = IF h = t THEN a ELSE sem_restoreholderprio(a, h, s, st)
    BY <1>2, <2>1
  <2>4. h # t => h \in T
    BY <1>4, <2>1
  <2>5. \A i \in j + 2 .. n : hs[i] # h
    BY <1>1, <1>4, <2>1
  <2> HIDE DEF a, b, h
  <2>6. Sound(a)
    BY <2>2 DEF Tuned
  <2>7. Tuned(a, b, T) /\ Others(a, b, s, h)
    <3>1. CASE h = t
      <4>1. Tuned(a, a, T) /\ Others(a, a, s, h)
        BY <2>6, TunedSame, OthersSame
      <4> QED
        BY <2>3, <3>1, <4>1
    <3>2. CASE h # t
      <4>1. LET x == sem_restoreholderprio(a, h, s, st) IN Tuned(a, x, T) /\ Others(a, x, s, h)
        BY <2>2, <2>4, <2>6, <3>2, RestoreStep
      <4> QED
        BY <2>3, <3>2, <4>1
    <3> QED
      BY <3>1, <3>2
  <2>8. Tuned(m, b, T)
    BY <2>2, <2>7, TunedTrans
  <2>9. \A i \in (j + 1) + 1 .. n : Holds(b, hs[i], s)
    <3>1. \A i \in (j + 1) + 1 .. n : i \in j + 2 .. n
      BY <1>1
    <3> QED
      BY <2>2, <2>5, <2>7, <3>1 DEF Others
  <2> QED
    BY <2>1, <2>8, <2>9 DEF b
<1>7. n \in U
  <2> HIDE DEF U
  <2>1. \A i \in 0 .. n : i \in U
    BY <1>1, <1>5, <1>6, IntervalInduction
  <2> QED
    BY <1>1, <2>1
<1> QED
  BY <1>3, <1>7

(* The tasks on the holder list of s. *)
LEMMA HoldersSeq ==
    ASSUME NEW m, Sound(m), NEW s \in Sem
    PROVE  LET hs == Holders(m, s) IN
           /\ hs \in Seq(User) /\ Len(hs) = Len(m.holders[s])
           /\ \A i, j \in 1 .. Len(hs) : hs[i] = hs[j] => i = j
           /\ \A i \in 1 .. Len(hs) : Holds(m, hs[i], s)
<1> DEFINE p == m.holders[s]
           hs == Holders(m, s)
<1>1. p \in Seq(Entry) /\ OneEach(p) /\ Len(p) \in Nat
  BY DEF Sound, Own, HoldersOK
<1>2. hs = [i \in 1 .. Len(p) |-> p[i].tcb]
  BY DEF Holders
<1> HIDE DEF p, hs
<1>3. \A i \in 1 .. Len(p) : p[i] \in Entry /\ p[i].tcb \in User
  <2>1. \A i \in 1 .. Len(p) : p[i] \in Entry
    BY <1>1
  <2>2. \A e \in Entry : e.tcb \in User
    BY DEF Entry
  <2> QED
    BY <2>1, <2>2
<1>4. hs \in [1 .. Len(p) -> User]
  BY <1>2, <1>3
<1>5. hs \in Seq(User) /\ Len(hs) = Len(p)
  BY <1>1, <1>4
<1>6. \A i, j \in 1 .. Len(hs) : hs[i] = hs[j] => i = j
  BY <1>1, <1>2, <1>5 DEF OneEach
<1>7. \A i \in 1 .. Len(hs) : Holds(m, hs[i], s)
  BY <1>2, <1>5 DEF Holds, p
<1> QED
  BY <1>5, <1>6, <1>7 DEF hs, p

LEMMA BoostLemma ==
    ASSUME NEW m, Sound(m), NEW s \in Sem, NEW t \in Task
    PROVE  Tuned(m, sem_boostpriority(m, s, t), Task \ {t})
<1> DEFINE hs == Holders(m, s)
<1>1. /\ hs \in Seq(User) /\ Len(hs) = Len(m.holders[s])
      /\ \A i, j \in 1 .. Len(hs) : hs[i] = hs[j] => i = j
      /\ \A i \in 1 .. Len(hs) : Holds(m, hs[i], s)
  BY HoldersSeq
<1>2. sem_boostpriority(m, s, t) = Boosts(m, hs, s, t)[Len(hs)]
  BY <1>1 DEF sem_boostpriority
<1> HIDE DEF hs
<1>3. \A i \in 1 .. Len(hs) : hs[i] # t => hs[i] \in Task \ {t}
  BY <1>1, SemAssumption
<1>4. Tuned(m, Boosts(m, hs, s, t)[Len(hs)], Task \ {t})
  BY <1>1, <1>3, BoostsLemma
<1> QED
  BY <1>2, <1>4

LEMMA RestoreButLemma ==
    ASSUME NEW m, Sound(m), NEW s \in Sem, NEW st, NEW t
    PROVE  Tuned(m, RestoreBut(m, Holders(m, s), s, st, t), User \ {t})
<1> DEFINE hs == Holders(m, s)
<1>1. /\ hs \in Seq(User)
      /\ \A i, j \in 1 .. Len(hs) : hs[i] = hs[j] => i = j
      /\ \A i \in 1 .. Len(hs) : Holds(m, hs[i], s)
  BY HoldersSeq
<1> HIDE DEF hs
<1>2. \A i \in 1 .. Len(hs) : hs[i] # t => hs[i] \in User \ {t}
  BY <1>1
<1>3. Tuned(m, RestoreBut(m, hs, s, st, t), User \ {t})
  BY <1>1, <1>2, RestoreLemma
<1> QED
  BY <1>3 DEF hs

LEMMA RestoreAllLemma ==
    ASSUME NEW m, Sound(m), NEW s \in Sem, NEW st
    PROVE  Tuned(m, RestoreAll(m, Holders(m, s), s, st), User)
<1>1. User \ {None} = User
  BY SemAssumption
<1> QED
  BY <1>1, RestoreButLemma DEF RestoreAll

-----------------------------------------------------------------------------
(* What the calls of the scheduler do to the tasks.  A task that waits for *)
(* no semaphore may run, be ready or sleep: the semaphores do not tell     *)
(* these apart.                                                            *)
SemState == {"WAIT_SEM", "INVALID"}
Still(m, n, u) ==
    n.state[u] = m.state[u] \/ (m.state[u] \notin SemState /\ n.state[u] \notin SemState)

(* Nobody but w begins or ends a wait. *)
Goes(m, n, w) ==
    /\ Sound(n) /\ n.live = m.live
    /\ n.panic = m.panic \/ n.panic = "overrun"
    /\ \A u \in Task \ {w} : Still(m, n, u) /\ n.waitsem[u] = m.waitsem[u] /\ n.err[u] = m.err[u]

Keeps(m, n) == \A f \in OwnField : n[f] = m[f]

LEMMA KeepsFields ==
    ASSUME NEW m, NEW n, Keeps(m, n)
    PROVE  /\ n.count = m.count /\ n.holders = m.holders /\ n.free = m.free /\ n.pend = m.pend
           /\ n.waitsem = m.waitsem /\ n.err = m.err /\ n.live = m.live /\ n.panic = m.panic
BY DEF Keeps, OwnField

LEMMA StillShuffled ==
    ASSUME NEW m, NEW n, NEW T, Shuffled(m, n, T)
    PROVE  \A u \in T : Still(m, n, u)
BY DEF Shuffled, Still, ReadyState, SemState

LEMMA GoesTrans ==
    ASSUME NEW m, NEW n, NEW x, NEW w, Goes(m, n, w), Goes(n, x, w)
    PROVE  Goes(m, x, w)
BY DEF Goes, Still

LEMMA GoesSame ==
    ASSUME NEW m, NEW w, Sound(m)
    PROVE  Goes(m, m, w)
BY DEF Goes, Still

LEMMA GoesWider ==
    ASSUME NEW m, NEW n, NEW w, Goes(m, n, None)
    PROVE  Goes(m, n, w)
<1>1. \A u \in Task : u \in Task \ {None}
  BY SemAssumption
<1> QED
  BY <1>1 DEF Goes

LEMMA TunedGoes ==
    ASSUME NEW m, NEW n, NEW T, NEW w, Tuned(m, n, T)
    PROVE  Goes(m, n, w)
<1>1. \A u \in Task : Still(m, n, u)
  BY StillShuffled DEF Tuned
<1> QED
  BY <1>1 DEF Tuned, Books, Goes

LEMMA LockGoes ==
    ASSUME NEW m, Sound(m), NEW w
    PROVE  LET n == Locked(m) IN
           /\ Goes(m, n, w) /\ Calm(n) /\ Keeps(m, n) /\ Running(n) = Running(m)
           /\ n.state = m.state /\ n.list = m.list /\ n.prio = m.prio
           /\ n.lock = [m.lock EXCEPT ![Running(m)] = @ + 1] /\ n.lock[Running(m)] > 0
<1> DEFINE n == Locked(m)
<1>1. Locks(m, n)
  BY LocksLemma DEF Sound
<1>2. Calm(n)
  BY CalmLocked DEF Sound
<1>3. n.list = m.list
  BY DEF Locked
<1> HIDE DEF n
<1>4. Own(n) /\ Keeps(m, n)
  BY <1>1, FrameOwn DEF Sound, Locks, Keeps
<1>5. n.waitsem = m.waitsem /\ n.err = m.err /\ n.live = m.live /\ n.panic = m.panic
  BY <1>4, KeepsFields
<1>6. Sound(n)
  BY <1>1, <1>4 DEF Sound, Above, Locks
<1>7. Running(m) \in Task /\ m.lock \in [Task -> Nat]
  BY ReadyFacts DEF Sound, Good, Lists, KType
<1>8. n.lock[Running(m)] > 0
  BY <1>1, <1>7 DEF Locks
<1>9. Goes(m, n, w)
  BY <1>1, <1>5, <1>6 DEF Goes, Still, Locks
<1> QED
  BY <1>1, <1>2, <1>3, <1>4, <1>8, <1>9 DEF Locks, n

LEMMA UnlockGoes ==
    ASSUME NEW m, Sound(m), m.lock[Running(m)] > 0, NEW w
    PROVE  LET n == Unlocked(m) IN
           /\ Goes(m, n, w) /\ Calm(n) /\ Keeps(m, n) /\ \A u \in Task : Still(m, n, u)
           /\ n.lock = [m.lock EXCEPT ![Running(m)] = @ - 1]
           /\ m.lock[Running(m)] > 1 => Running(n) = Running(m)
<1> DEFINE n == Unlocked(m)
<1>1. Unlocks(m, n)
  BY UnlocksLemma DEF Sound
<1>2. Calm(n) /\ (m.lock[Running(m)] > 1 => Running(n) = Running(m))
  BY CalmUnlocked DEF Sound
<1> HIDE DEF n
<1>3. Own(n) /\ Keeps(m, n)
  BY <1>1, FrameOwn DEF Sound, Unlocks, Keeps
<1>4. n.waitsem = m.waitsem /\ n.err = m.err /\ n.live = m.live /\ n.panic = m.panic
  BY <1>3, KeepsFields
<1>5. Sound(n)
  BY <1>1, <1>3 DEF Sound, Above, Unlocks
<1>6. \A u \in Task : Still(m, n, u)
  BY <1>1, StillShuffled DEF Unlocks
<1>7. Goes(m, n, w)
  BY <1>4, <1>5, <1>6 DEF Goes
<1> QED
  BY <1>1, <1>2, <1>3, <1>6, <1>7 DEF Unlocks, n

LEMMA BlockGoes ==
    ASSUME NEW m, Sound(m), Running(m) # Idle, NEW s \in BlockedState
    PROVE  LET n == up_block_task(m, Running(m), s) IN
           /\ Goes(m, n, Running(m)) /\ Calm(n) /\ Keeps(m, n)
           /\ n.lock = m.lock /\ n.state[Running(m)] = s
<1> DEFINE n == up_block_task(m, Running(m), s)
           t == Running(m)
<1>1. Blocks(m, n, t, s)
  BY BlocksLemma DEF Sound
<1>2. Calm(n)
  BY CalmBlock DEF Sound
<1> HIDE DEF n, t
<1>3. Own(n) /\ Keeps(m, n)
  BY <1>1, FrameOwn DEF Sound, Blocks, Keeps
<1>4. n.waitsem = m.waitsem /\ n.err = m.err /\ n.live = m.live /\ n.panic = m.panic
  BY <1>3, KeepsFields
<1>5. Sound(n)
  BY <1>1, <1>3 DEF Sound, Above, Blocks
<1>6. \A u \in Task \ {t} : Still(m, n, u)
  BY <1>1, StillShuffled DEF Blocks
<1>7. Goes(m, n, t)
  BY <1>4, <1>5, <1>6 DEF Goes
<1> QED
  BY <1>1, <1>2, <1>3, <1>7 DEF Blocks, n, t

LEMMA UnblockGoes ==
    ASSUME NEW m, Sound(m), Calm(m), NEW t \in Task, m.state[t] \in BlockedState
    PROVE  LET n == up_unblock_task(m, t) IN
           /\ Goes(m, n, t) /\ Calm(n) /\ Keeps(m, n)
           /\ n.lock = m.lock /\ n.state[t] \in ReadyState
           /\ Running(n) = Running(m) \/ m.lock[Running(m)] = 0
<1> DEFINE n == up_unblock_task(m, t)
<1>1. Unblocks(m, n, t)
  BY UnblocksLemma DEF Sound
<1>2. Calm(n)
  BY CalmUnblock DEF Sound
<1> HIDE DEF n
<1>3. Own(n) /\ Keeps(m, n)
  BY <1>1, FrameOwn DEF Sound, Unblocks, Keeps
<1>4. n.waitsem = m.waitsem /\ n.err = m.err /\ n.live = m.live /\ n.panic = m.panic
  BY <1>3, KeepsFields
<1>5. Sound(n)
  BY <1>1, <1>3 DEF Sound, Above, Unblocks
<1>6. \A u \in Task \ {t} : Still(m, n, u)
  BY <1>1, StillShuffled DEF Unblocks
<1>7. Goes(m, n, t)
  BY <1>4, <1>5, <1>6 DEF Goes
<1> QED
  BY <1>1, <1>2, <1>3, <1>7 DEF Unblocks, n

(* A count, or what w waits for, is changed. *)
LEMMA EditGoes ==
    ASSUME NEW m, Sound(m), NEW n, Alike(m, n), NEW w,
           n.holders = m.holders, n.free = m.free, n.pend = m.pend, n.live = m.live,
           n.panic = m.panic, n.count \in [Sem -> Int],
           n.waitsem \in [Task -> Sem \cup {None}],
           n.err \in [Task -> {"OK", "EINTR", "ETIMEDOUT"}],
           \A u \in Task \ {w} : n.waitsem[u] = m.waitsem[u] /\ n.err[u] = m.err[u]
    PROVE  Goes(m, n, w) /\ Running(n) = Running(m) /\ (Calm(m) => Calm(n))
<1>1. Good(n) /\ Running(n) = Running(m)
  BY AlikeLemma DEF Sound
<1>2. HoldersOK(n) /\ PendOK(n)
  BY DEF Sound, Own, HoldersOK, Lens, PendOK
<1>3. Own(n)
  BY <1>2 DEF Sound, Own, Alike
<1>4. Sound(n)
  BY <1>1, <1>3 DEF Sound, Above, Alike
<1>5. \A u \in Task : Still(m, n, u)
  BY DEF Still, Alike
<1>6. Goes(m, n, w)
  BY <1>4, <1>5 DEF Goes
<1> QED
  BY <1>1, <1>6, AlikeCalm

-----------------------------------------------------------------------------
(* The running task. *)
LEMMA RunFacts ==
    ASSUME Core
    PROVE  /\ Sound(k) /\ Calm(k) /\ r \in Task /\ r = Running(k) /\ k.state[r] = "RUNNING"
           /\ k.lock \in [Task -> Nat] /\ k.state \in [Task -> TState]
           /\ call \in [Task -> Call] /\ CallOK(call[r]) /\ k.lock[r] \in Depth(call[r])
           /\ k.waitsem[r] = None
           /\ \A t \in Task : k.state[t] = "RUNNING" <=> t = r
           /\ \A u \in Task : call[u].op = "delete" => u = r
           /\ \A u \in Task : call[u].tcb # r
<1>1. Sound(k) /\ Calm(k) /\ call \in [Task -> Call] /\ Good(k)
  BY DEF Core, Sound
<1>2. r \in Task /\ r = Running(k) /\ k.state[r] = "RUNNING"
  BY <1>1, ReadyFacts DEF r
<1>3. /\ k.lock \in [Task -> Nat] /\ k.state \in [Task -> TState]
      /\ \A t \in Task : k.state[t] = "RUNNING" <=> t = r
  BY <1>1 DEF Good, Lists, HeadRuns, r, KType
<1>4. CallOK(call[r]) /\ k.lock[r] \in Depth(call[r]) /\ WaitOK(k, call[r], r)
  BY <1>2 DEF Core, TaskOK
<1>5. k.waitsem[r] = None
  BY <1>2, <1>4 DEF WaitOK
<1>6. \A u \in Task : CallOK(call[u]) /\ DeleteOK(k, call[u], u, timed)
  BY DEF Core, TaskOK
<1>7. ASSUME NEW u \in Task PROVE (call[u].op = "delete" => u = r) /\ call[u].tcb # r
  <2>1. CallOK(call[u]) /\ DeleteOK(k, call[u], u, timed)
    BY <1>6
  <2>2. CASE call[u].op = "delete"
    BY <1>2, <2>1, <2>2 DEF DeleteOK
  <2>3. CASE call[u].op = "release"
    BY <1>2, <2>1, <2>3 DEF DeleteOK
  <2>4. CASE call[u].op \notin Ending
    <3>1. call[u].tcb = None
      BY <2>1, <2>4 DEF CallOK
    <3> QED
      BY <1>2, <2>4, <3>1, SemAssumption DEF Ending
  <2> QED
    BY <2>2, <2>3, <2>4 DEF Ending
<1> QED
  BY <1>1, <1>2, <1>3, <1>4, <1>5, <1>7

(* A step of the running task, which goes on at c, or of a handler while   *)
(* it is there; nobody but w begins or ends a wait.                        *)
Acts(w, c) ==
    /\ Goes(k, k', w) /\ Calm(k')
    /\ call' = [call EXCEPT ![r] = c] /\ CallOK(c)
    /\ timed' \subseteq Task
    /\ \A u \in Task \ {r} : k'.lock[u] = k.lock[u]
    /\ k'.lock[r] \in Depth(c)

(* A step that deletes nobody. *)
Plain(w, c) ==
    /\ Acts(w, c)
    /\ c = call[r] \/ (call[r].op \notin Ending /\ c.op \notin Ending)
    /\ c.op = "delete" => Running(k') = r /\ timed' \subseteq timed
    /\ w # r /\ w \in Task =>
          k.waitsem[w] # None /\ k'.waitsem[w] = None /\ k'.state[w] \notin SemState
    /\ w = r => k'.waitsem[r] # None /\ WaitOK(k', c, r)

LEMMA PlainCore ==
    ASSUME Core, NEW w, NEW c, Plain(w, c)
    PROVE  Core'
<1>1. /\ r \in Task /\ k.state[r] = "RUNNING" /\ k.waitsem[r] = None
      /\ call \in [Task -> Call] /\ CallOK(call[r])
      /\ \A u \in Task : call[u].op = "delete" => u = r
      /\ \A u \in Task : call[u].tcb # r
  BY RunFacts
<1>2. /\ Goes(k, k', w) /\ Calm(k')
      /\ call' = [call EXCEPT ![r] = c] /\ CallOK(c)
      /\ timed' \subseteq Task
      /\ \A u \in Task \ {r} : k'.lock[u] = k.lock[u]
      /\ k'.lock[r] \in Depth(c)
  BY DEF Plain, Acts
<1>3. Sound(k') /\ k'.live = k.live
  BY <1>2 DEF Goes
<1>4. \A u \in Task \ {w} : Still(k, k', u) /\ k'.waitsem[u] = k.waitsem[u] /\ k'.err[u] = k.err[u]
  BY <1>2 DEF Goes
<1>5. call'[r] = c /\ \A u \in Task \ {r} : call'[u] = call[u]
  BY <1>1, <1>2
<1>6. call' \in [Task -> Call]
  <2>1. c \in Call
    BY <1>2 DEF CallOK
  <2> QED
    BY <1>1, <1>2, <2>1
<1>7. \A u \in Task : call'[u].op \in Ending => call'[u] = call[u]
  <2>1. c.op \in Ending => c = call[r]
    BY DEF Plain
  <2> QED
    BY <1>5, <2>1
<1>8. \A u \in Task : call[u].op \in Ending => call'[u] = call[u]
  <2>1. call[r].op \in Ending => c = call[r]
    BY DEF Plain
  <2> QED
    BY <1>5, <2>1
<1>9. \A u \in Task : TaskOK(k, call[u], u) /\ TargetOK(k, call, u) /\ DeleteOK(k, call[u], u, timed)
  BY DEF Core
<1>10. ASSUME NEW u \in Task PROVE TaskOK(k', call'[u], u)
  <2>1. CASE u = r
    <3>1. CallOK(c) /\ k'.lock[r] \in Depth(c)
      BY <1>2
    <3>2. CASE w = r
      <4>1. WaitOK(k', c, r)
        BY <3>2 DEF Plain
      <4> QED
        BY <1>5, <2>1, <3>1, <4>1 DEF TaskOK
    <3>3. CASE w # r
      <4>1. k'.waitsem[r] = None
        BY <1>1, <1>4, <3>3
      <4> QED
        BY <1>5, <2>1, <3>1, <4>1 DEF TaskOK, WaitOK
    <3> QED
      BY <3>2, <3>3
  <2>2. CASE u # r
    <3>1. call'[u] = call[u] /\ k'.lock[u] = k.lock[u] /\ CallOK(call[u]) /\ k.lock[u] \in Depth(call[u])
          /\ WaitOK(k, call[u], u)
      BY <1>2, <1>5, <1>9, <2>2 DEF TaskOK
    <3>2. CASE u = w
      <4>1. k'.waitsem[u] = None
        BY <2>2, <3>2 DEF Plain
      <4> QED
        BY <3>1, <4>1 DEF TaskOK, WaitOK
    <3>3. CASE u # w
      <4>1. Still(k, k', u) /\ k'.waitsem[u] = k.waitsem[u] /\ k'.err[u] = k.err[u]
        BY <1>4, <3>3
      <4>2. WaitOK(k', call[u], u)
        BY <3>1, <4>1 DEF WaitOK, Still, SemState
      <4> QED
        BY <3>1, <4>2 DEF TaskOK
    <3> QED
      BY <3>2, <3>3
  <2> QED
    BY <2>1, <2>2
<1>11. ASSUME NEW u \in Task PROVE TargetOK(k', call', u)
  <2>1. CASE u = w
    <3>1. CASE w = r
      <4>1. k'.waitsem[u] # None /\ k'.state[u] = "WAIT_SEM"
        BY <2>1, <3>1 DEF Plain, WaitOK
      <4> QED
        BY <4>1 DEF TargetOK
    <3>2. CASE w # r
      <4>1. k'.state[u] \notin SemState
        BY <2>1, <3>2 DEF Plain
      <4> QED
        BY <4>1 DEF TargetOK, SemState
    <3> QED
      BY <3>1, <3>2
  <2>2. CASE u # w
    <3>1. Still(k, k', u) /\ k'.waitsem[u] = k.waitsem[u]
      BY <1>4, <2>2
    <3>2. TargetOK(k, call, u)
      BY <1>9
    <3>3. ASSUME k'.state[u] = "WAIT_SEM", k'.waitsem[u] = None
          PROVE  \E v \in Task : call'[v].op = "delete" /\ call'[v].tcb = u
      <4>1. k.state[u] = "WAIT_SEM" /\ k.waitsem[u] = None
        BY <3>1, <3>3 DEF Still, SemState
      <4>2. PICK v \in Task : call[v].op = "delete" /\ call[v].tcb = u
        BY <3>2, <4>1 DEF TargetOK
      <4>3. call'[v] = call[v]
        BY <1>8, <4>2 DEF Ending
      <4> QED
        BY <4>2, <4>3
    <3>4. ASSUME k'.state[u] = "INVALID", u \in k'.live
          PROVE  \E v \in Task : call'[v].op = "release" /\ call'[v].tcb = u
      <4>1. k.state[u] = "INVALID" /\ u \in k.live
        BY <1>3, <3>1, <3>4 DEF Still, SemState
      <4>2. PICK v \in Task : call[v].op = "release" /\ call[v].tcb = u
        BY <3>2, <4>1 DEF TargetOK
      <4>3. call'[v] = call[v]
        BY <1>8, <4>2 DEF Ending
      <4> QED
        BY <4>2, <4>3
    <3> QED
      BY <3>3, <3>4 DEF TargetOK
  <2> QED
    BY <2>1, <2>2
<1>12. ASSUME NEW u \in Task PROVE DeleteOK(k', call'[u], u, timed')
  <2> DEFINE t == call[u].tcb
  <2>1. CASE call'[u].op \notin Ending
    BY <2>1 DEF DeleteOK, Ending
  <2>2. CASE call'[u].op \in Ending
    <3>1. call'[u] = call[u] /\ DeleteOK(k, call[u], u, timed) /\ CallOK(call[u])
      BY <1>7, <1>9, <2>2 DEF TaskOK
    <3>2. t \in Task /\ t # r
      BY <1>1, <2>2, <3>1 DEF CallOK
    <3>3. /\ k.waitsem[t] = None => k'.waitsem[t] = None
          /\ k.state[t] # "INVALID" => k'.state[t] # "INVALID"
      <4>1. CASE t = w
        BY <3>2, <4>1 DEF Plain, SemState
      <4>2. CASE t # w
        <5>1. Still(k, k', t) /\ k'.waitsem[t] = k.waitsem[t]
          BY <1>4, <3>2, <4>2
        <5> QED
          BY <5>1 DEF Still, SemState
      <4> QED
        BY <4>1, <4>2
    <3>4. CASE call[u].op = "delete"
      <4>1. u = r /\ c.op = "delete"
        BY <1>1, <1>5, <3>1, <3>4
      <4>2. u = Running(k') /\ timed' \subseteq timed
        BY <4>1 DEF Plain
      <4> QED
        BY <3>1, <3>3, <3>4, <4>2 DEF DeleteOK
    <3>5. CASE call[u].op = "release"
      <4>1. k.state[t] = "INVALID"
        BY <3>1, <3>5 DEF DeleteOK
      <4>2. t # w
        <5>1. SUFFICES ASSUME t = w PROVE FALSE
          OBVIOUS
        <5>2. k.waitsem[t] = None
          BY <1>9, <3>2, <4>1 DEF TaskOK, WaitOK
        <5> QED
          BY <3>2, <5>1, <5>2 DEF Plain
      <4>3. Still(k, k', t)
        BY <1>4, <3>2, <4>2
      <4>4. k'.state[t] = "INVALID"
        BY <4>1, <4>3 DEF Still, SemState
      <4> QED
        BY <3>1, <3>5, <4>4 DEF DeleteOK
    <3> QED
      BY <2>2, <3>1, <3>4, <3>5 DEF Ending
  <2> QED
    BY <2>1, <2>2
<1>13. \A u \in Task : TaskOK(k', call'[u], u) /\ TargetOK(k', call', u) /\ DeleteOK(k', call'[u], u, timed')
  BY <1>10, <1>11, <1>12
<1> QED
  BY <1>2, <1>3, <1>6, <1>13 DEF Core

-----------------------------------------------------------------------------
(* The parts of the calls. *)
LEMMA UserCallOK ==
    /\ UserCall \in Call /\ CallOK(UserCall) /\ Depth(UserCall) = {0}
    /\ UserCall.op = "user" /\ UserCall.tcb = None
<1>1. 0 \in 0 .. MaxCount
  BY SemAssumption
<1>2. <<>> \in Seq(Task)
  OBVIOUS
<1>3. UserCall \in Call
  BY <1>1, <1>2 DEF UserCall, Call
<1> QED
  BY <1>3 DEF UserCall, CallOK, Ending, Depth

LEMMA SameCall ==
    ASSUME Core, call' = call
    PROVE  call' = [call EXCEPT ![r] = call[r]] /\ CallOK(call[r])
BY RunFacts

(* sem_post.c takes the count and the place of the first waiter. *)
LEMMA PostedLemma ==
    ASSUME NEW m, Sound(m), NEW s \in Sem, NEW t, NEW w
    PROVE  LET n == Posted(m, t, s) IN
           /\ Goes(m, n, w) /\ (Calm(m) => Calm(n)) /\ Alike(m, n) /\ Running(n) = Running(m)
           /\ n.waitsem = m.waitsem /\ n.err = m.err /\ n.count = [m.count EXCEPT ![s] = @ + 1]
<1> DEFINE a == sem_releaseholder(m, t, s)
           n == Posted(m, t, s)
           c == [m.count EXCEPT ![s] = @ + 1]
<1>1. Tuned(m, a, {})
  BY ReleaseholderLemma
<1>2. Alike(m, a)
  <2> DEFINE q == [m.holders EXCEPT ![s][HolderIndex(m, t, s)].counts = @ - 1]
  <2>1. a = m \/ a = [m EXCEPT !.holders = q]
    BY DEF sem_releaseholder
  <2> HIDE DEF a, q
  <2>2. SchedField \subseteq DOMAIN m
    BY DEF Sound, Good, Lists, KType
  <2> QED
    BY <2>1, <2>2 DEF Alike, SchedField
<1>3. Books(m, a) /\ Sound(a) /\ (Calm(m) => Calm(a))
  BY <1>1 DEF Tuned
<1>4. n = [a EXCEPT !.count = c]
  <2>1. a.count = m.count
    BY <1>3 DEF Books
  <2> QED
    BY <2>1 DEF Posted
<1> HIDE DEF a, n
<1>5. OwnField \subseteq DOMAIN a
  BY <1>3 DEF Sound, Own
<1>6. /\ Alike(a, n) /\ n.holders = a.holders /\ n.free = a.free /\ n.pend = a.pend
      /\ n.live = a.live /\ n.panic = a.panic /\ n.waitsem = a.waitsem /\ n.err = a.err /\ n.count = c
  BY <1>4, <1>5 DEF OwnField, Alike
<1>7. c \in [Sem -> Int]
  BY DEF Sound, Own
<1>8. Goes(a, n, w) /\ Running(n) = Running(a) /\ (Calm(a) => Calm(n))
  <2>1. a.waitsem \in [Task -> Sem \cup {None}] /\ a.err \in [Task -> {"OK", "EINTR", "ETIMEDOUT"}]
    BY <1>3 DEF Sound, Own
  <2> HIDE DEF c
  <2> QED
    BY <1>3, <1>6, <1>7, <2>1, EditGoes
<1>9. Goes(m, a, w)
  BY <1>1, TunedGoes
<1>10. Goes(m, n, w)
  BY <1>8, <1>9, GoesTrans
<1>11. Alike(m, n) /\ Running(n) = Running(m)
  BY <1>2, <1>6 DEF Alike, Running, Rtr
<1> QED
  BY <1>3, <1>6, <1>8, <1>10, <1>11 DEF Books, n

(* Granted() picks a waiter, one of the highest priority. *)
LEMMA GrantedLemma ==
    ASSUME NEW m, Sound(m), NEW s \in Sem,
           \A t \in Task : m.waitsem[t] # None => m.state[t] = "WAIT_SEM"
    PROVE  LET st == Granted(m, s) IN
           /\ st # None => /\ st \in Task /\ m.waitsem[st] = s /\ m.count[s] <= 0
                           /\ \A u \in Task : m.waitsem[u] = s => m.prio[st] >= m.prio[u]
           /\ st = None => m.count[s] > 0 \/ \A u \in Task : m.waitsem[u] # s
<1> DEFINE st == Granted(m, s)
           q == WaitList(m)
           W == WaitPlaces(m, s)
<1>1. /\ q \in Seq(Task) /\ "WAIT_SEM" \in Prioritized /\ "WAIT_SEM" \in List
      /\ m.count[s] \in Int /\ Len(q) \in Nat
  <2>1. "WAIT_SEM" \in Prioritized /\ "WAIT_SEM" \in List
    BY DEF Prioritized, List, TState, BlockedState
  <2>2. m.list \in [List -> Seq(Task)] /\ m.count \in [Sem -> Int]
    BY DEF Sound, Good, Lists, KType, Own
  <2>3. q \in Seq(Task)
    BY <2>1, <2>2 DEF WaitList
  <2> HIDE DEF q
  <2> QED
    BY <2>1, <2>2, <2>3
<1>2. W = {i \in 1 .. Len(q) : m.waitsem[q[i]] = s}
  BY DEF WaitPlaces
<1>3. \A u \in Task : m.waitsem[u] = s => \E i \in W : q[i] = u
  <2>1. TAKE u \in Task
  <2>2. HAVE m.waitsem[u] = s
  <2>3. m.state[u] = "WAIT_SEM"
    BY <2>2, SemAssumption
  <2>4. \E i \in 1 .. Len(q) : q[i] = u
    BY <2>3 DEF Sound, Good, Lists, Present, ListOf, WaitList
  <2> QED
    BY <1>2, <2>2, <2>4
<1>4. \A i, j \in 1 .. Len(q) : i < j => m.prio[q[i]] >= m.prio[q[j]]
  BY <1>1 DEF Sound, Good, InOrder, WaitList
<1>5. FirstWaiter(m, s) = IF W = {} THEN None ELSE q[Min(W)]
  BY DEF FirstWaiter
<1>6. st = IF m.count[s] <= 0 THEN FirstWaiter(m, s) ELSE None
  BY DEF Granted
<1> HIDE DEF q, W, st
<1>7. CASE W = {} \/ ~(m.count[s] <= 0)
  <2>1. st = None
    BY <1>5, <1>6, <1>7
  <2>2. m.count[s] > 0 \/ \A u \in Task : m.waitsem[u] # s
    BY <1>1, <1>3, <1>7
  <2> QED
    BY <2>1, <2>2 DEF st
<1>8. CASE W # {} /\ m.count[s] <= 0
  <2> DEFINE i == Min(W)
  <2>1. W \subseteq Nat
    BY <1>2
  <2>2. i \in W /\ \A j \in W : i <= j
    BY <1>8, <2>1, MinLemma
  <2>3. st = q[i]
    BY <1>5, <1>6, <1>8
  <2> HIDE DEF i
  <2>4. st \in Task /\ m.waitsem[st] = s /\ i \in 1 .. Len(q)
    BY <1>1, <1>2, <2>2, <2>3
  <2>5. ASSUME NEW u \in Task, m.waitsem[u] = s PROVE m.prio[st] >= m.prio[u]
    <3>1. PICK j \in W : q[j] = u
      BY <1>3, <2>5
    <3>2. j \in 1 .. Len(q) /\ i <= j
      BY <1>2, <2>2, <3>1
    <3>3. CASE i < j
      BY <1>4, <2>3, <2>4, <3>1, <3>2, <3>3
    <3>4. CASE i = j
      <4>1. m.prio[u] \in 0 .. MaxPrio
        BY DEF Sound, Good, Lists, KType
      <4> QED
        BY <2>3, <3>1, <3>4, <4>1
    <3> QED
      BY <2>4, <3>2, <3>3, <3>4
  <2>6. st # None
    BY <2>4, SemAssumption
  <2> QED
    BY <1>8, <2>4, <2>5, <2>6 DEF st
<1> QED
  BY <1>7, <1>8

(* What unblocking t does when it ends the wait of t. *)
Frees(m, n, t) ==
    /\ Goes(m, n, t) /\ Calm(n) /\ n.lock = m.lock
    /\ n.waitsem[t] = None /\ n.state[t] \notin SemState
    /\ Running(n) = Running(m) \/ m.lock[Running(m)] = 0

(* The waiter is taken off the semaphore, with the result e ... *)
Edited(m, a, t, e) ==
    /\ Alike(m, a) /\ a.holders = m.holders /\ a.free = m.free /\ a.pend = m.pend
    /\ a.live = m.live /\ a.panic = m.panic /\ a.count \in [Sem -> Int]
    /\ a.waitsem = [m.waitsem EXCEPT ![t] = None]
    /\ e \in {"OK", "EINTR", "ETIMEDOUT"} /\ a.err = [m.err EXCEPT ![t] = e]

(* ... and made ready. *)
LEMMA FreesLemma ==
    ASSUME NEW m, Sound(m), Calm(m), NEW t \in Task, m.state[t] = "WAIT_SEM",
           NEW a, NEW e, Edited(m, a, t, e)
    PROVE  LET n == up_unblock_task(a, t) IN
           Frees(m, n, t) /\ n.count = a.count /\ n.err[t] = e
<1> DEFINE n == up_unblock_task(a, t)
<1>1. m.waitsem \in [Task -> Sem \cup {None}] /\ m.err \in [Task -> {"OK", "EINTR", "ETIMEDOUT"}]
  BY DEF Sound, Own
<1>2. /\ a.waitsem \in [Task -> Sem \cup {None}] /\ a.err \in [Task -> {"OK", "EINTR", "ETIMEDOUT"}]
      /\ a.waitsem[t] = None /\ a.err[t] = e
      /\ \A u \in Task \ {t} : a.waitsem[u] = m.waitsem[u] /\ a.err[u] = m.err[u]
  BY <1>1 DEF Edited
<1>3. Goes(m, a, t) /\ Running(a) = Running(m) /\ Calm(a)
  BY <1>2, EditGoes DEF Edited
<1>4. a.state[t] \in BlockedState /\ Sound(a) /\ a.lock = m.lock
  BY <1>3 DEF Alike, BlockedState, Goes, Edited
<1>5. /\ Goes(a, n, t) /\ Calm(n) /\ Keeps(a, n) /\ n.lock = a.lock /\ n.state[t] \in ReadyState
      /\ Running(n) = Running(a) \/ a.lock[Running(a)] = 0
  BY <1>3, <1>4, UnblockGoes
<1> HIDE DEF n
<1>6. n.waitsem = a.waitsem /\ n.err = a.err /\ n.count = a.count
  BY <1>5, KeepsFields
<1>7. Goes(m, n, t)
  BY <1>3, <1>5, GoesTrans
<1>8. Frees(m, n, t)
  BY <1>2, <1>3, <1>4, <1>5, <1>6, <1>7 DEF Frees, ReadyState, SemState
<1> QED
  BY <1>2, <1>6, <1>8 DEF n

LEMMA FreesTrans ==
    ASSUME NEW m, NEW a, NEW n, NEW t \in Task, Goes(m, a, t), a.lock = m.lock,
           Running(a) = Running(m) \/ m.lock[Running(m)] = 0, Frees(a, n, t)
    PROVE  Goes(m, n, t) /\ n.lock = m.lock
           /\ (Running(n) = Running(m) \/ m.lock[Running(m)] = 0)
<1>1. Goes(m, n, t)
  BY GoesTrans DEF Frees
<1> QED
  BY <1>1 DEF Frees

LEMMA GrantLemma ==
    ASSUME NEW m, Sound(m), Calm(m), NEW s \in Sem, NEW t \in User, m.state[t] = "WAIT_SEM",
           NEW pi
    PROVE  LET n == Grant(m, s, t, pi) IN
           Frees(m, n, t) /\ n.count = m.count /\ n.err[t] = m.err[t]
<1> DEFINE b == IF pi THEN sem_addholder_tcb(m, t, s) ELSE m
           a == [b EXCEPT !.waitsem[t] = None]
           n == Grant(m, s, t, pi)
<1>1. t \in Task /\ t # None
  BY SemAssumption
<1>2. n = up_unblock_task(a, t)
  BY <1>1 DEF Grant
<1>3. Tuned(m, b, {})
  <2>1. Tuned(m, sem_addholder_tcb(m, t, s), {}) /\ Tuned(m, m, {})
    BY AddholderLemma, TunedSame
  <2> QED
    BY <2>1
<1>4. Alike(m, b)
  <2> DEFINE x == sem_addholder_tcb(m, t, s)
             p == [m.holders EXCEPT ![s][HolderIndex(m, t, s)].counts = @ + 1]
             q == [m.holders EXCEPT ![s] = <<[tcb |-> t, counts |-> 1]>> \o @]
  <2>1. x = m \/ x = [m EXCEPT !.holders = p] \/ x = [m EXCEPT !.holders = q, !.free = m.free - 1]
    BY DEF sem_addholder_tcb
  <2>2. b = x \/ b = m
    OBVIOUS
  <2> HIDE DEF x, p, q, b
  <2>3. SchedField \subseteq DOMAIN m
    BY DEF Sound, Good, Lists, KType
  <2>4. Alike(m, x)
    BY <2>1, <2>3 DEF Alike, SchedField
  <2> QED
    BY <2>2, <2>4 DEF Alike
<1> HIDE DEF b
<1>5. Sound(b) /\ Books(m, b) /\ Calm(b) /\ Goes(m, b, t)
  BY <1>3, TunedGoes DEF Tuned
<1>6. OwnField \subseteq DOMAIN b
  BY <1>5 DEF Sound, Own
<1>7. /\ Alike(b, a) /\ a.holders = b.holders /\ a.free = b.free /\ a.pend = b.pend
      /\ a.live = b.live /\ a.panic = b.panic /\ a.count = b.count /\ a.err = b.err
      /\ a.waitsem = [b.waitsem EXCEPT ![t] = None]
  BY <1>6 DEF OwnField, Alike
<1> HIDE DEF a
<1> DEFINE e == b.err[t]
<1>8. /\ a.count \in [Sem -> Int] /\ b.err \in [Task -> {"OK", "EINTR", "ETIMEDOUT"}]
  BY <1>5, <1>7 DEF Sound, Own
<1>9. e \in {"OK", "EINTR", "ETIMEDOUT"} /\ a.err = [b.err EXCEPT ![t] = e]
  BY <1>1, <1>7, <1>8
<1> HIDE DEF e
<1>10. b.state[t] = "WAIT_SEM" /\ Edited(b, a, t, e)
  BY <1>4, <1>7, <1>8, <1>9 DEF Alike, Edited
<1>11. Frees(b, n, t) /\ n.count = a.count /\ n.err[t] = e
  BY <1>1, <1>2, <1>5, <1>10, FreesLemma
<1>12. b.lock = m.lock /\ Running(b) = Running(m) /\ b.count = m.count /\ b.err = m.err
  BY <1>4, <1>5 DEF Alike, Running, Rtr, Books
<1> HIDE DEF n
<1>13. Goes(m, n, t) /\ n.lock = m.lock /\ (Running(n) = Running(m) \/ m.lock[Running(m)] = 0)
  BY <1>1, <1>5, <1>11, <1>12, FreesTrans
<1>14. Frees(m, n, t)
  BY <1>11, <1>13 DEF Frees
<1> QED
  BY <1>7, <1>11, <1>12, <1>14 DEF n, e

LEMMA WokenLemma ==
    ASSUME NEW m, Sound(m), Calm(m), NEW s \in Sem, NEW t \in Task, m.state[t] = "WAIT_SEM",
           NEW e \in {"EINTR", "ETIMEDOUT"}
    PROVE  LET n == Woken(m, t, s, e) IN
           Frees(m, n, t) /\ n.count = [m.count EXCEPT ![s] = @ + 1] /\ n.err[t] = e
<1> DEFINE a == [CancelEnd(m, t, s) EXCEPT !.err[t] = e]
           c == [m.count EXCEPT ![s] = @ + 1]
<1>1. OwnField \subseteq DOMAIN m /\ m.count \in [Sem -> Int]
  BY DEF Sound, Own
<1>2. /\ Alike(m, a) /\ a.holders = m.holders /\ a.free = m.free /\ a.pend = m.pend
      /\ a.live = m.live /\ a.panic = m.panic /\ a.count = c /\ a.err = [m.err EXCEPT ![t] = e]
      /\ a.waitsem = [m.waitsem EXCEPT ![t] = None]
  BY <1>1 DEF OwnField, Alike, CancelEnd
<1>3. Woken(m, t, s, e) = up_unblock_task(a, t)
  BY DEF Woken
<1>4. c \in [Sem -> Int]
  BY <1>1
<1> HIDE DEF a, c
<1>5. Edited(m, a, t, e)
  BY <1>2, <1>4 DEF Edited
<1>6. Frees(m, up_unblock_task(a, t), t) /\ up_unblock_task(a, t).count = a.count
      /\ up_unblock_task(a, t).err[t] = e
  BY <1>5, FreesLemma
<1> QED
  BY <1>2, <1>3, <1>6 DEF c

(* The end of sem_post(). *)
LEMMA PostEndLemma ==
    ASSUME NEW m, Sound(m), m.lock[Running(m)] > 0, NEW s \in Sem, NEW zero
    PROVE  LET n == PostEnd(m, Running(m), s, zero) IN
           /\ Goes(m, n, None) /\ Calm(n)
           /\ n.count = m.count /\ n.lock = [m.lock EXCEPT ![Running(m)] = @ - 1]
           /\ m.lock[Running(m)] > 1 => Running(n) = Running(m)
<1> DEFINE t == Running(m)
           z == IF zero THEN [m EXCEPT !.pend[t] = EmptyBag] ELSE m
           f == IF Holds(z, t, s) /\ z.holders[s][HolderIndex(z, t, s)].counts <= 0
                THEN sem_freeholder(z, t, s) ELSE z
           n == PostEnd(m, t, s, zero)
<1>1. n = Unlocked(f)
  BY DEF PostEnd
<1>2. t \in Task
  BY ReadyFacts DEF Sound
<1>3. Tuned(m, z, {})
  <2>1. Tuned(m, m, {})
    BY TunedSame
  <2>2. PendBag(t, EmptyBag)
    BY DEF PendBag, EmptyBag, SetToBag
  <2>3. Tuned(m, [m EXCEPT !.pend[t] = EmptyBag], {})
    <3> HIDE DEF t
    <3> QED
      BY <1>2, <2>2, PendChange
  <2> QED
    BY <2>1, <2>3
<1> HIDE DEF z
<1>4. Tuned(z, f, {})
  <2>1. Sound(z)
    BY <1>3 DEF Tuned
  <2>2. Tuned(z, z, {})
    BY <2>1, TunedSame
  <2>3. Holds(z, t, s) => Tuned(z, sem_freeholder(z, t, s), {})
    BY <2>1, FreeholderLemma
  <2> QED
    BY <2>2, <2>3
<1> HIDE DEF f
<1>5. Tuned(m, f, {})
  BY <1>3, <1>4, TunedTrans
<1>6. Sound(f) /\ f.lock = m.lock /\ Running(f) = t /\ f.count = m.count /\ Goes(m, f, None)
  BY <1>5, TunedGoes DEF Tuned, Books
<1>7. /\ Goes(f, n, None) /\ Calm(n) /\ Keeps(f, n)
      /\ n.lock = [f.lock EXCEPT ![t] = @ - 1] /\ (f.lock[t] > 1 => Running(n) = t)
  BY <1>1, <1>6, UnlockGoes
<1> HIDE DEF n
<1>8. n.count = f.count
  BY <1>7, KeepsFields
<1>9. Goes(m, n, None)
  BY <1>6, <1>7, GoesTrans
<1> QED
  BY <1>6, <1>7, <1>8, <1>9 DEF n, t

(* The task that a count goes to. *)
Chosen(s, n, st) ==
    /\ st # None =>
          /\ st \in User /\ st \in Task \ {r} /\ k.waitsem[st] = s /\ n <= 0
          /\ k.state[st] = "WAIT_SEM" /\ k.err[st] = "OK" /\ call[st].op = "wait" /\ call[st].sem = s
          /\ \A u \in Task : k.waitsem[u] = s => k.prio[st] >= k.prio[u]
    /\ st = None => n > 0 \/ \A u \in Task : k.waitsem[u] # s

LEMMA ChosenLemma ==
    ASSUME Core, NEW s \in Sem, NEW m, Sound(m), Alike(k, m), m.waitsem = k.waitsem
    PROVE  Chosen(s, m.count[s], Granted(m, s))
<1> DEFINE st == Granted(m, s)
<1>1. \A t \in Task : WaitOK(k, call[t], t)
  BY DEF Core, TaskOK
<1>2. \A t \in Task : m.waitsem[t] # None => m.state[t] = "WAIT_SEM"
  BY <1>1 DEF WaitOK, Alike
<1>3. /\ st # None => /\ st \in Task /\ m.waitsem[st] = s /\ m.count[s] <= 0
                      /\ \A u \in Task : m.waitsem[u] = s => m.prio[st] >= m.prio[u]
      /\ st = None => m.count[s] > 0 \/ \A u \in Task : m.waitsem[u] # s
  BY <1>2, GrantedLemma
<1> HIDE DEF st
<1>4. ASSUME st # None
      PROVE  /\ st \in User /\ st \in Task \ {r} /\ k.waitsem[st] = s
             /\ k.state[st] = "WAIT_SEM" /\ k.err[st] = "OK" /\ call[st].op = "wait" /\ call[st].sem = s
  <2>1. st \in Task /\ k.waitsem[st] = s /\ s # None
    BY <1>3, <1>4, SemAssumption
  <2>2. /\ st \in User /\ k.state[st] = "WAIT_SEM" /\ k.err[st] = "OK"
        /\ call[st].op = "wait" /\ call[st].sem = s
    BY <1>1, <2>1 DEF WaitOK
  <2>3. st # r
    BY <2>2, RunFacts
  <2> QED
    BY <2>1, <2>2, <2>3
<1>5. \A u \in Task : m.prio[u] = k.prio[u]
  BY DEF Alike
<1>6. Chosen(s, m.count[s], st)
  BY <1>3, <1>4, <1>5 DEF Chosen
<1> QED
  BY <1>6 DEF st

(* From k to x a count was put into s, and st was given it. *)
Given(x, s, st) ==
    /\ Goes(k, x, st) /\ Calm(x) /\ x.count = [k.count EXCEPT ![s] = @ + 1]
    /\ Chosen(s, k.count[s] + 1, st)
    /\ st # None => x.waitsem[st] = None /\ x.err[st] = "OK" /\ x.state[st] \notin SemState

LEMMA GivenTrans ==
    ASSUME NEW x, NEW y, NEW s, NEW st, Given(x, s, st), Goes(x, y, None), Calm(y), y.count = x.count
    PROVE  Given(y, s, st)
<1>1. Goes(k, y, st)
  BY GoesWider, GoesTrans DEF Given
<1>2. st # None => y.waitsem[st] = None /\ y.err[st] = "OK" /\ y.state[st] \notin SemState
  <2>1. SUFFICES ASSUME st # None
                 PROVE  y.waitsem[st] = None /\ y.err[st] = "OK" /\ y.state[st] \notin SemState
    OBVIOUS
  <2>2. st \in Task \ {None}
    BY <2>1 DEF Given, Chosen
  <2>3. Still(x, y, st) /\ y.waitsem[st] = x.waitsem[st] /\ y.err[st] = x.err[st]
    BY <2>2 DEF Goes
  <2> QED
    BY <2>1, <2>3 DEF Given, Still
<1> QED
  BY <1>1, <1>2 DEF Given

LEMMA PostSelfLemma ==
    ASSUME Core, NEW s \in Sem
    PROVE  LET x == PostSelf(k, r, s) IN
           /\ Given(x, s, Granted(Posted(k, r, s), s))
           /\ x.lock = [k.lock EXCEPT ![r] = @ + 1]
<1> DEFINE p  == Posted(k, r, s)
           st == Granted(p, s)
           l  == Locked(p)
           g  == Grant(l, s, st, TRUE)
           o  == PostOthers(k, r, s)
           x  == PostSelf(k, r, s)
<1>1. Sound(k) /\ Calm(k) /\ r \in Task /\ r = Running(k) /\ k.lock \in [Task -> Nat]
  BY RunFacts
<1>2. /\ \A w : Goes(k, p, w)
      /\ Calm(p) /\ Alike(k, p) /\ Running(p) = r
      /\ p.waitsem = k.waitsem /\ p.err = k.err /\ p.count = [k.count EXCEPT ![s] = @ + 1]
  BY <1>1, PostedLemma
<1>3. o = IF st = None THEN g ELSE RestoreBut(g, Holders(g, s), s, st, r)
  BY DEF PostOthers
<1>4. x = IF st # None /\ Holds(o, r, s) THEN sem_restoreholderprio(o, r, s, st) ELSE o
  BY DEF PostSelf
<1> HIDE DEF p, o, x
<1>5. Sound(p) /\ p.count[s] = k.count[s] + 1
  <2>1. k.count \in [Sem -> Int]
    BY <1>1 DEF Sound, Own
  <2> QED
    BY <1>2, <2>1 DEF Goes
<1>6. Chosen(s, k.count[s] + 1, st)
  BY <1>2, <1>5, ChosenLemma
<1>7. /\ \A w : Goes(p, l, w)
      /\ Calm(l) /\ Keeps(p, l) /\ Running(l) = r
      /\ l.state = p.state /\ l.lock = [p.lock EXCEPT ![r] = @ + 1] /\ l.lock[r] > 0
  BY <1>2, <1>5, LockGoes
<1> HIDE DEF l, st
<1>8. l.count = p.count /\ l.waitsem = p.waitsem /\ l.err = p.err
  BY <1>7, KeepsFields
<1>9. Sound(l) /\ l.state = k.state /\ l.lock = [k.lock EXCEPT ![r] = @ + 1]
  BY <1>2, <1>7 DEF Goes, Alike
<1>10. \A w : Goes(k, l, w)
  BY <1>2, <1>7, GoesTrans
<1>11. CASE st = None
  <2>1. x = l
    BY <1>3, <1>4, <1>11 DEF Grant
  <2>2. Given(l, s, st)
    BY <1>2, <1>6, <1>7, <1>8, <1>10, <1>11 DEF Given
  <2> QED
    BY <1>9, <2>1, <2>2 DEF x, st, p
<1>12. CASE st # None
  <2>1. st \in User /\ st \in Task /\ k.state[st] = "WAIT_SEM" /\ k.err[st] = "OK"
    BY <1>6, <1>12 DEF Chosen
  <2>2. Frees(l, g, st) /\ g.count = l.count /\ g.err[st] = l.err[st]
    <3>1. l.state[st] = "WAIT_SEM"
      BY <1>9, <2>1
    <3> DEFINE y == TRUE
               z == Grant(l, s, st, y)
    <3> HIDE DEF y
    <3>2. Frees(l, z, st) /\ z.count = l.count /\ z.err[st] = l.err[st]
      BY <1>7, <1>9, <2>1, <3>1, GrantLemma
    <3> QED
      BY <3>2 DEF y
  <2> HIDE DEF g
  <2>3. Goes(k, g, st)
    BY <1>10, <2>2, GoesTrans DEF Frees
  <2>4. Given(g, s, st)
    BY <1>2, <1>6, <1>8, <2>1, <2>2, <2>3 DEF Given, Frees
  <2>5. Sound(g) /\ Running(g) = r /\ g.lock = l.lock
    BY <1>7, <2>2, <2>3 DEF Frees, Goes
  <2>6. Tuned(g, o, User \ {r})
    BY <1>3, <1>12, <2>5, RestoreButLemma
  <2>7. Tuned(o, x, {r})
    <3>1. Sound(o)
      BY <2>6 DEF Tuned
    <3>2. Tuned(o, o, {r})
      BY <3>1, TunedSame
    <3>3. Holds(o, r, s) => Tuned(o, sem_restoreholderprio(o, r, s, st), {r})
      BY <3>1, RestoreStep
    <3> QED
      BY <1>4, <3>2, <3>3
  <2>8. Goes(g, o, None) /\ Calm(o) /\ o.count = g.count /\ o.lock = g.lock
    BY <2>4, <2>6, TunedGoes DEF Tuned, Books, Given
  <2>9. Given(o, s, st)
    BY <2>4, <2>8, GivenTrans
  <2>10. Goes(o, x, None) /\ Calm(x) /\ x.count = o.count /\ x.lock = o.lock
    BY <2>7, <2>8, TunedGoes DEF Tuned, Books
  <2>11. Given(x, s, st)
    BY <2>9, <2>10, GivenTrans
  <2> QED
    BY <1>9, <2>5, <2>8, <2>10, <2>11 DEF x, st, p
<1> QED
  BY <1>11, <1>12

-----------------------------------------------------------------------------
(* What the steps do to the counts.  The abstract specification, the       *)
(* number of waiters and the sum of the counts depend on no more.          *)
BSame ==
    k'.count = k.count /\ k'.waitsem = k.waitsem /\ have' = have /\ total' = total
BTake(s) ==
    /\ k.count[s] > 0 /\ k'.count = [k.count EXCEPT ![s] = @ - 1] /\ k'.waitsem = k.waitsem
    /\ have' = Add(have, r, s, 1) /\ total' = total
BWait(s) ==
    /\ k.count[s] <= 0 /\ k'.count = [k.count EXCEPT ![s] = @ - 1]
    /\ k'.waitsem = [k.waitsem EXCEPT ![r] = s]
    /\ have' = have /\ total' = total
BGive(s, st) ==
    /\ Chosen(s, k.count[s] + 1, st)
    /\ k'.count = [k.count EXCEPT ![s] = @ + 1]
    /\ k'.waitsem = IF st = None THEN k.waitsem ELSE [k.waitsem EXCEPT ![st] = None]
BBring(s, st) ==
    BGive(s, st) /\ have' = Add(have, st, s, 1) /\ total' = [total EXCEPT ![s] = @ + 1]
BPost(s, st) ==
    /\ BGive(s, st) /\ have' = Add(Add(have, r, s, -1), st, s, 1)
    /\ total' = [total EXCEPT ![s] = IF have[r][s] = 0 THEN @ + 1 ELSE @]
BAbort(t, s) ==
    /\ t \in Task /\ k.waitsem[t] = s
    /\ k'.count = [k.count EXCEPT ![s] = @ + 1]
    /\ k'.waitsem = [k.waitsem EXCEPT ![t] = None]
    /\ have' = have /\ total' = total
BDie(t) ==
    /\ t \in Task /\ k.waitsem[t] = None
    /\ k'.count = k.count /\ k'.waitsem = k.waitsem
    /\ total' = [s \in Sem |-> total[s] - have[t][s]]
    /\ have' = [have EXCEPT ![t] = [s \in Sem |-> 0]]
BReset(s, n) ==
    /\ "reset" \in Api /\ k.count[s] >= 0 /\ n \in Nat
    /\ k'.count = [k.count EXCEPT ![s] = n] /\ k'.waitsem = k.waitsem
    /\ total' = [total EXCEPT ![s] = @ - k.count[s] + n]
    /\ have' = have

LEMMA WaitsemLemma ==
    ASSUME Core, NEW n, NEW w, Goes(k, n, w)
    PROVE  /\ w \notin Task => n.waitsem = k.waitsem
           /\ w \in Task => n.waitsem = [k.waitsem EXCEPT ![w] = n.waitsem[w]]
<1>1. k.waitsem \in [Task -> Sem \cup {None}] /\ n.waitsem \in [Task -> Sem \cup {None}]
  BY DEF Core, Sound, Own, Goes
<1>2. \A u \in Task \ {w} : n.waitsem[u] = k.waitsem[u]
  BY DEF Goes
<1> QED
  BY <1>1, <1>2

(* The steps of a task in its own code and of the handlers that do not     *)
(* touch a semaphore. *)
LEMMA StaysPlain ==
    ASSUME Core, NEW w, call' = call, Goes(k, k', w), Calm(k'), timed' \subseteq timed,
           k'.lock = k.lock, call[r].op = "delete" => Running(k') = r,
           w # r /\ w \in Task => k.waitsem[w] # None /\ k'.waitsem[w] = None /\ k'.state[w] \notin SemState,
           w # r
    PROVE  Plain(w, call[r])
<1>1. call' = [call EXCEPT ![r] = call[r]] /\ CallOK(call[r]) /\ timed \subseteq Task
  BY SameCall DEF Core
<1>2. k.lock[r] \in Depth(call[r])
  BY RunFacts
<1>3. Acts(w, call[r])
  BY <1>1, <1>2 DEF Acts
<1> QED
  BY <1>3 DEF Plain


TakeEff(s) ==
    /\ Plain(None, call[r]) /\ BTake(s) /\ held' = Add(held, r, s, 1) /\ call[r].op = "user"

LEMMA CountDown ==
    ASSUME Core, NEW s \in Sem
    PROVE  LET a == [k EXCEPT !.count[s] = @ - 1] IN
           /\ \A w : Goes(k, a, w)
           /\ Calm(a) /\ Running(a) = r /\ Sound(a) /\ Alike(k, a)
           /\ a.count = [k.count EXCEPT ![s] = @ - 1]
<1> DEFINE a == [k EXCEPT !.count[s] = @ - 1]
<1>1. Sound(k) /\ Calm(k) /\ r = Running(k)
  BY RunFacts
<1>2. OwnField \subseteq DOMAIN k /\ k.count \in [Sem -> Int]
      /\ k.waitsem \in [Task -> Sem \cup {None}] /\ k.err \in [Task -> {"OK", "EINTR", "ETIMEDOUT"}]
  BY <1>1 DEF Sound, Own
<1>3. /\ Alike(k, a) /\ a.holders = k.holders /\ a.free = k.free /\ a.pend = k.pend
      /\ a.live = k.live /\ a.panic = k.panic /\ a.waitsem = k.waitsem /\ a.err = k.err
      /\ a.count = [k.count EXCEPT ![s] = @ - 1]
  BY <1>2 DEF OwnField, Alike
<1> HIDE DEF a
<1>4. a.count \in [Sem -> Int]
  BY <1>2, <1>3
<1>5. ASSUME NEW w PROVE Goes(k, a, w) /\ Running(a) = r /\ Calm(a)
  BY <1>1, <1>2, <1>3, <1>4, EditGoes
<1>6. Sound(a)
  BY <1>5 DEF Goes
<1> QED
  BY <1>3, <1>5, <1>6 DEF a

LEMMA TakeEffect ==
    ASSUME Core, NEW s \in Sem, Take(s) \/ TakeForIsr(s)
    PROVE  TakeEff(s)
<1> DEFINE a == [k EXCEPT !.count[s] = @ - 1]
<1>1. /\ k.panic = "none" /\ call[r].op = "user" /\ r \in User /\ k.count[s] > 0
      /\ have' = Add(have, r, s, 1) /\ held' = Add(held, r, s, 1)
      /\ call' = call /\ timed' = timed /\ total' = total
      /\ k' = sem_addholder_tcb(a, r, s) \/ k' = a
  BY DEF Take, TakeForIsr, AtUser, At, Took
<1>2. /\ \A w : Goes(k, a, w)
      /\ Calm(a) /\ Running(a) = r /\ Sound(a) /\ Alike(k, a)
      /\ a.count = [k.count EXCEPT ![s] = @ - 1]
  BY CountDown
<1> HIDE DEF a
<1>3. Tuned(a, k', {})
  <2>1. Tuned(a, a, {}) /\ Tuned(a, sem_addholder_tcb(a, r, s), {})
    BY <1>1, <1>2, TunedSame, AddholderLemma
  <2> QED
    BY <1>1, <2>1
<1>4. Goes(k, k', None)
  <2>1. Goes(a, k', None)
    BY <1>3, TunedGoes
  <2> QED
    BY <1>2, <2>1, GoesTrans
<1>5. k'.lock = k.lock /\ Calm(k') /\ k'.count = a.count
  BY <1>2, <1>3 DEF Tuned, Books, Alike
<1>6. None # r /\ None \notin Task
  BY RunFacts, SemAssumption
<1>7. Plain(None, call[r])
  BY <1>1, <1>4, <1>5, <1>6, StaysPlain
<1>8. k'.waitsem = k.waitsem
  BY <1>4, <1>6, WaitsemLemma
<1> QED
  BY <1>1, <1>2, <1>5, <1>7, <1>8 DEF TakeEff, BTake

(* The end of sem_wait(): the running task leaves the CPU. *)
WaitCall(s) == [UserCall EXCEPT !.op = "wait", !.sem = s]
WaitEff(s) ==
    /\ Plain(r, WaitCall(s)) /\ BWait(s) /\ held' = held /\ call[r].op = "user"

LEMMA WaitCallOK ==
    ASSUME NEW s \in Sem
    PROVE  /\ CallOK(WaitCall(s)) /\ Depth(WaitCall(s)) = {0, 1}
           /\ WaitCall(s).op = "wait" /\ WaitCall(s).sem = s
<1>1. /\ WaitCall(s) \in Call
      /\ WaitCall(s).op = "wait" /\ WaitCall(s).sem = s /\ WaitCall(s).tcb = None
  BY UserCallOK DEF WaitCall, Call, UserCall
<1> HIDE DEF WaitCall
<1> QED
  BY <1>1 DEF CallOK, Depth, Ending

Begins(s, b) ==
    /\ Goes(k, b, r) /\ Running(b) = r /\ b.waitsem[r] = s /\ b.err[r] = "OK"
    /\ b.count = [k.count EXCEPT ![s] = @ - 1]
    /\ b.lock = k.lock \/ b.lock = [k.lock EXCEPT ![r] = @ + 1]

LEMMA WaitingLemma ==
    ASSUME Core, NEW s \in Sem
    PROVE  Begins(s, Waiting(s)) /\ Waiting(s).lock = k.lock
<1> DEFINE b == Waiting(s)
           c == [k.count EXCEPT ![s] = @ - 1]
           x == [k.waitsem EXCEPT ![r] = s]
           y == [k.err EXCEPT ![r] = "OK"]
<1>1. Sound(k) /\ r = Running(k) /\ r \in Task
  BY RunFacts
<1>2. OwnField \subseteq DOMAIN k /\ k.count \in [Sem -> Int]
      /\ k.waitsem \in [Task -> Sem \cup {None}] /\ k.err \in [Task -> {"OK", "EINTR", "ETIMEDOUT"}]
  BY <1>1 DEF Sound, Own
<1>3. /\ Alike(k, b) /\ b.holders = k.holders /\ b.free = k.free /\ b.pend = k.pend
      /\ b.live = k.live /\ b.panic = k.panic /\ b.waitsem = x /\ b.err = y /\ b.count = c
  BY <1>2 DEF OwnField, Alike, Waiting
<1> HIDE DEF b
<1>4. /\ c \in [Sem -> Int] /\ x \in [Task -> Sem \cup {None}]
      /\ y \in [Task -> {"OK", "EINTR", "ETIMEDOUT"}] /\ x[r] = s /\ y[r] = "OK"
      /\ \A u \in Task \ {r} : x[u] = k.waitsem[u] /\ y[u] = k.err[u]
  BY <1>1, <1>2
<1>5. Goes(k, b, r) /\ Running(b) = r
  <2> HIDE DEF c, x, y
  <2> QED
    BY <1>1, <1>3, <1>4, EditGoes
<1>6. b.lock = k.lock
  BY <1>3 DEF Alike
<1> QED
  BY <1>3, <1>4, <1>5, <1>6 DEF Begins, b

LEMMA BoostedLemma ==
    ASSUME Core, NEW s \in Sem
    PROVE  Begins(s, Boosted(s))
<1> DEFINE a == Waiting(s)
           l == Locked(a)
           b == Boosted(s)
<1>1. Begins(s, a) /\ a.lock = k.lock
  BY WaitingLemma
<1>2. r \in Task
  BY RunFacts
<1>3. b = sem_boostpriority(l, s, r)
  BY DEF Boosted
<1> HIDE DEF a, b
<1>4. Sound(a) /\ Running(a) = r
  BY <1>1 DEF Begins, Goes
<1>5. /\ Goes(a, l, r) /\ Keeps(a, l) /\ Running(l) = r
      /\ l.lock = [a.lock EXCEPT ![r] = @ + 1] /\ l.lock[r] > 0
  BY <1>4, LockGoes
<1> HIDE DEF l
<1>6. l.waitsem = a.waitsem /\ l.err = a.err /\ l.count = a.count /\ Sound(l)
  BY <1>5, KeepsFields DEF Goes
<1>7. Tuned(l, b, Task \ {r})
  BY <1>2, <1>3, <1>6, BoostLemma
<1>8. Goes(l, b, r) /\ Running(b) = r /\ b.lock = l.lock /\ b.waitsem = l.waitsem
      /\ b.err = l.err /\ b.count = l.count
  BY <1>5, <1>7, TunedGoes DEF Tuned, Books
<1>9. Goes(k, b, r)
  BY <1>1, <1>5, <1>8, GoesTrans DEF Begins
<1>10. Begins(s, b)
  BY <1>1, <1>5, <1>6, <1>8, <1>9 DEF Begins
<1> QED
  BY <1>10 DEF b

LEMMA WaitEffect ==
    ASSUME Core, NEW s \in Sem, (\E dog \in BOOLEAN : Wait(s, dog)) \/ WaitForIsr(s)
    PROVE  WaitEff(s)
<1> DEFINE c == WaitCall(s)
<1>1. /\ call[r].op = "user" /\ r \in User /\ k.count[s] <= 0
      /\ call' = [call EXCEPT ![r] = c] /\ timed' \subseteq timed \cup {r}
      /\ have' = have /\ held' = held /\ total' = total
      /\ \/ k' = up_block_task(Waiting(s), r, "WAIT_SEM")
         \/ k' = IF Switched(k, Boosted(s)) THEN [k EXCEPT !.panic = "boost"]
                 ELSE up_block_task(Boosted(s), r, "WAIT_SEM")
  BY DEF Wait, WaitForIsr, AtUser, At, Goto, WaitCall
<1>2. PICK b : Begins(s, b) /\ k' = up_block_task(b, r, "WAIT_SEM")
  <2>1. Begins(s, Waiting(s)) /\ Begins(s, Boosted(s))
    BY WaitingLemma, BoostedLemma
  <2>2. ~ Switched(k, Boosted(s))
    BY <2>1, RunFacts DEF Begins, Switched
  <2> QED
    BY <1>1, <2>1, <2>2
<1>3. /\ r \in Task /\ r # Idle /\ k.lock \in [Task -> Nat] /\ k.lock[r] \in Depth(call[r])
      /\ "WAIT_SEM" \in BlockedState /\ timed \subseteq Task
  BY <1>1, RunFacts, UserFacts DEF BlockedState, Core
<1>4. Sound(b) /\ Running(b) = r
  BY <1>2 DEF Begins, Goes
<1>5. /\ Goes(b, k', r) /\ Calm(k') /\ Keeps(b, k')
      /\ k'.lock = b.lock /\ k'.state[r] = "WAIT_SEM"
  BY <1>2, <1>3, <1>4, BlockGoes
<1>6. k'.waitsem = b.waitsem /\ k'.err = b.err /\ k'.count = b.count
  BY <1>5, KeepsFields
<1>7. Goes(k, k', r)
  BY <1>2, <1>5, GoesTrans DEF Begins
<1>8. k'.lock[r] \in {0, 1} /\ \A u \in Task \ {r} : k'.lock[u] = k.lock[u]
  <2>1. k.lock[r] = 0
    BY <1>1, <1>3 DEF Depth
  <2> QED
    BY <1>2, <1>3, <1>5, <2>1 DEF Begins
<1>9. CallOK(c) /\ Depth(c) = {0, 1} /\ c.op = "wait" /\ c.sem = s
  BY WaitCallOK
<1> HIDE DEF c
<1>10. Acts(r, c)
  BY <1>1, <1>3, <1>5, <1>7, <1>8, <1>9 DEF Acts
<1>11. s # None
  BY SemAssumption
<1>12. k'.waitsem[r] = s /\ WaitOK(k', c, r)
  BY <1>1, <1>2, <1>5, <1>6, <1>9 DEF Begins, WaitOK
<1>13. Plain(r, c)
  BY <1>1, <1>9, <1>10, <1>11, <1>12 DEF Plain, Ending
<1>14. k'.waitsem = [k.waitsem EXCEPT ![r] = s]
  BY <1>3, <1>7, <1>12, WaitsemLemma
<1> QED
  BY <1>1, <1>2, <1>6, <1>13, <1>14 DEF WaitEff, BWait, Begins, c

-----------------------------------------------------------------------------
(* What the tasks know after a step: the running task has learnt the end   *)
(* of its call, and w was given a count or the reason why it was not.      *)
Learns(w) ==
    /\ \A u \in Task \ {r, w} : have'[u] = have[u] /\ held'[u] = held[u]
    /\ w \in Task \ {r} =>
          /\ held'[w] = held[w]
          /\ have'[w] = IF k'.err[w] = "OK" THEN [have[w] EXCEPT ![k.waitsem[w]] = @ + 1]
                        ELSE have[w]
    /\ r \in k.live => Knows(k', call', have', held', r)

(* Nobody deletes the running task. *)
LEMMA RunKnows ==
    ASSUME Core, Known, r \in k.live
    PROVE  /\ have[r] = IF call[r].op = "wait" /\ k.err[r] = "OK"
                        THEN [held[r] EXCEPT ![call[r].sem] = @ + 1] ELSE held[r]
           /\ call[r].op = "reset" \/ (call[r].op = "post" /\ call[r].then = "reset")
                => have[r][call[r].sem] = 0
<1>1. k.waitsem[r] = None /\ \A u \in Task : call[u].tcb # r
  BY RunFacts
<1>2. Knows(k, call, have, held, r)
  BY DEF Known
<1> QED
  BY <1>1, <1>2 DEF Knows

LEMMA KnowsRun ==
    ASSUME NEW c, call'[r] = c, c.op # "wait" \/ k'.waitsem[r] # None, have'[r] = held'[r],
           c.op = "reset" \/ (c.op = "post" /\ c.then = "reset") => have'[r][c.sem] = 0
    PROVE  Knows(k', call', have', held', r)
BY DEF Knows

LEMMA KnownStep ==
    ASSUME Core, Known, NEW w, NEW c, Plain(w, c), Learns(w)
    PROVE  Known'
<1>1. /\ r \in Task /\ call \in [Task -> Call] /\ CallOK(call[r]) /\ k.live \subseteq Task
      /\ \A u \in Task : call[u].op = "delete" => u = r
  BY RunFacts DEF Sound, Own
<1>2. Goes(k, k', w) /\ call' = [call EXCEPT ![r] = c] /\ CallOK(c)
  BY DEF Plain, Acts
<1>3. call'[r] = c /\ \A u \in Task \ {r} : call'[u] = call[u]
  BY <1>1, <1>2
<1>4. c.tcb = call[r].tcb
  BY <1>1, <1>2 DEF Plain, CallOK
<1>5. \A u \in Task : call'[u].tcb = call[u].tcb
  BY <1>3, <1>4
<1>6. k'.live = k.live
  BY <1>2 DEF Goes
<1>7. ASSUME NEW t \in k.live PROVE Knows(k', call', have', held', t)
  <2>1. CASE t = r
    BY <2>1 DEF Learns
  <2>2. CASE t # r /\ t # w
    <3>1. /\ have'[t] = have[t] /\ held'[t] = held[t]
          /\ k'.waitsem[t] = k.waitsem[t] /\ k'.err[t] = k.err[t] /\ call'[t] = call[t]
      BY <1>1, <1>2, <1>3, <2>2 DEF Learns, Goes
    <3>2. Knows(k, call, have, held, t)
      BY DEF Known
    <3> QED
      BY <1>5, <3>1, <3>2 DEF Knows
  <2>3. CASE t # r /\ t = w
    <3>1. /\ held'[t] = held[t] /\ call'[t] = call[t]
          /\ have'[t] = IF k'.err[t] = "OK" THEN [have[t] EXCEPT ![k.waitsem[t]] = @ + 1]
                        ELSE have[t]
      BY <1>1, <1>3, <2>3 DEF Learns
    <3>2. k.waitsem[t] # None /\ k'.waitsem[t] = None
      BY <1>1, <2>3 DEF Plain
    <3>3. call[t].op = "wait" /\ call[t].sem = k.waitsem[t] /\ k.state[t] = "WAIT_SEM"
      BY <1>1, <3>2 DEF Core, TaskOK, WaitOK
    <3>4. \A u \in Task : call[u].tcb # t
      <4>1. SUFFICES ASSUME NEW u \in Task, call[u].tcb = t PROVE FALSE
        OBVIOUS
      <4>2. t # None /\ CallOK(call[u]) /\ DeleteOK(k, call[u], u, timed)
        BY <1>1, SemAssumption DEF Core, TaskOK
      <4>3. call[u].op \in Ending
        BY <4>1, <4>2 DEF CallOK
      <4> QED
        BY <3>2, <3>3, <4>1, <4>2, <4>3 DEF DeleteOK, Ending
    <3>5. have[t] = held[t]
      BY <3>2, <3>4 DEF Known, Knows
    <3> QED
      BY <3>1, <3>2, <3>3, <3>5 DEF Knows
  <2> QED
    BY <2>1, <2>2, <2>3
<1> QED
  BY <1>6, <1>7 DEF Known

-----------------------------------------------------------------------------
(* The steps that leave the semaphores alone. *)
RestEff(c) == Plain(None, c) /\ BSame /\ Learns(None)

LEMMA RestPlain ==
    ASSUME Core, NEW c, Goes(k, k', None), Calm(k'),
           call' = [call EXCEPT ![r] = c], CallOK(c), timed' \subseteq timed,
           \A u \in Task \ {r} : k'.lock[u] = k.lock[u], k'.lock[r] \in Depth(c),
           c = call[r] \/ (call[r].op \notin Ending /\ c.op \notin Ending),
           c.op = "delete" => Running(k') = r,
           have' = have, \A u \in Task \ {r} : held'[u] = held[u],
           r \in k.live => Knows(k', call', have', held', r)
    PROVE  Plain(None, c) /\ Learns(None) /\ k'.waitsem = k.waitsem
<1>1. None \notin Task /\ r \in Task /\ timed \subseteq Task
  BY SemAssumption, RunFacts DEF Core
<1>2. Acts(None, c)
  BY <1>1 DEF Acts
<1>3. Plain(None, c)
  BY <1>1, <1>2 DEF Plain
<1>4. k'.waitsem = k.waitsem
  BY <1>1, WaitsemLemma
<1> QED
  BY <1>1, <1>3, <1>4 DEF Learns

LEMMA RestLemma ==
    ASSUME Core, NEW c, Goes(k, k', None), Calm(k'), k'.count = k.count,
           call' = [call EXCEPT ![r] = c], CallOK(c), timed' \subseteq timed,
           \A u \in Task \ {r} : k'.lock[u] = k.lock[u], k'.lock[r] \in Depth(c),
           c = call[r] \/ (call[r].op \notin Ending /\ c.op \notin Ending),
           c.op = "delete" => Running(k') = r,
           have' = have, total' = total, \A u \in Task \ {r} : held'[u] = held[u],
           r \in k.live => Knows(k', call', have', held', r)
    PROVE  RestEff(c)
<1>1. Plain(None, c) /\ Learns(None) /\ k'.waitsem = k.waitsem
  BY RestPlain
<1> QED
  BY <1>1 DEF RestEff, BSame

LEMMA RestSame ==
    ASSUME Core, Known, Goes(k, k', None), Calm(k'), k'.count = k.count, call' = call,
           timed' \subseteq timed, k'.lock = k.lock, call[r].op = "delete" => Running(k') = r,
           have' = have, total' = total, held' = held
    PROVE  RestEff(call[r])
<1>1. call' = [call EXCEPT ![r] = call[r]] /\ CallOK(call[r])
  BY SameCall
<1>2. k.lock[r] \in Depth(call[r]) /\ r \in Task /\ r # None
  BY RunFacts, SemAssumption
<1>3. ASSUME r \in k.live PROVE Knows(k', call', have', held', r)
  <2>1. Knows(k, call, have, held, r)
    BY <1>3 DEF Known
  <2>2. k'.waitsem[r] = k.waitsem[r] /\ k'.err[r] = k.err[r]
    BY <1>2 DEF Goes
  <2> QED
    BY <2>1, <2>2 DEF Knows
<1> DEFINE c == call[r]
<1> HIDE DEF c
<1>4. RestEff(c)
  BY <1>1, <1>2, <1>3, RestLemma DEF c
<1> QED
  BY <1>4 DEF c

LEMMA GoesAll ==
    ASSUME NEW m, NEW n, NEW w \in Task, Goes(m, n, w), Still(m, n, w), Keeps(m, n)
    PROVE  Goes(m, n, None)
BY KeepsFields DEF Goes

LEMMA SleepEffect ==
    ASSUME Core, Known, Sleep \/ \E t \in Task : Wake(t)
    PROVE  RestEff(call[r])
<1>1. /\ Sound(k) /\ Calm(k) /\ r \in Task /\ r = Running(k) /\ k.state[r] = "RUNNING"
      /\ k.lock[r] \in Depth(call[r])
  BY RunFacts
<1>2. ASSUME NEW t \in Task, k.state[t] \notin SemState, k'.state[t] \notin SemState, Goes(k, k', t),
             Keeps(k, k'), Calm(k'), k'.lock = k.lock, call[r].op = "delete" => Running(k') = r,
             UNCHANGED <<call, timed, have, held, total>>
      PROVE  RestEff(call[r])
  <2>1. Goes(k, k', None)
    BY <1>2, GoesAll DEF Still
  <2>2. k'.count = k.count
    BY <1>2, KeepsFields
  <2> QED
    BY <1>2, <2>1, <2>2, RestSame
<1>3. CASE Sleep
  <2>1. /\ call[r].op = "user" /\ r # Idle /\ k' = up_block_task(k, r, "WAIT_SIG")
        /\ UNCHANGED <<call, timed, have, held, total>> /\ "WAIT_SIG" \in BlockedState
    BY <1>3 DEF Sleep, At, BlockedState
  <2>2. /\ Goes(k, k', r) /\ Calm(k') /\ Keeps(k, k') /\ k'.lock = k.lock
        /\ k'.state[r] = "WAIT_SIG"
    BY <1>1, <2>1, BlockGoes
  <2> QED
    BY <1>1, <1>2, <2>1, <2>2 DEF SemState
<1>4. ASSUME NEW t \in Task, Wake(t) PROVE RestEff(call[r])
  <2>1. /\ k.state[t] = "WAIT_SIG" /\ k' = up_unblock_task(k, t)
        /\ UNCHANGED <<call, timed, have, held, total>> /\ k.state[t] \in BlockedState
    BY <1>4 DEF Wake, BlockedState
  <2>2. /\ Goes(k, k', t) /\ Calm(k') /\ Keeps(k, k') /\ k'.lock = k.lock
        /\ k'.state[t] \in ReadyState /\ (Running(k') = r \/ k.lock[r] = 0)
    BY <1>1, <2>1, UnblockGoes
  <2>3. call[r].op = "delete" => Running(k') = r
    BY <1>1, <2>2 DEF Depth
  <2> QED
    BY <1>2, <2>1, <2>2, <2>3 DEF SemState, ReadyState
<1> QED
  BY <1>3, <1>4

(* sched_unlock() at the end of a call. *)
LEMMA UnlockEffect ==
    ASSUME Core, k.lock[r] > 0
    PROVE  LET n == Unlocked(k) IN
           /\ Goes(k, n, None) /\ Calm(n) /\ n.count = k.count
           /\ n.lock[r] = k.lock[r] - 1 /\ \A u \in Task \ {r} : n.lock[u] = k.lock[u]
<1> DEFINE n == Unlocked(k)
<1>1. Sound(k) /\ r = Running(k) /\ r \in Task /\ k.lock \in [Task -> Nat]
  BY RunFacts
<1>2. /\ Goes(k, n, None) /\ Calm(n) /\ Keeps(k, n)
      /\ n.lock = [k.lock EXCEPT ![r] = @ - 1]
  BY <1>1, UnlockGoes
<1> HIDE DEF n
<1>3. n.count = k.count
  BY <1>2, KeepsFields
<1> QED
  BY <1>1, <1>2, <1>3 DEF n

DogCall == [UserCall EXCEPT !.op = "dog"]
LEMMA DogCallOK ==
    CallOK(DogCall) /\ Depth(DogCall) = {0} /\ DogCall.op = "dog"
<1>1. DogCall \in Call /\ DogCall.op = "dog" /\ DogCall.tcb = None
  BY UserCallOK DEF DogCall, Call, UserCall
<1> HIDE DEF DogCall
<1> QED
  BY <1>1 DEF CallOK, Depth, Ending

LEMMA WaitEndEffect ==
    ASSUME Core, Known, have \in [Task -> [Sem -> Nat]], held \in [Task -> [Sem -> Nat]],
           WaitEnd \/ DogEnd
    PROVE  RestEff(call'[r])
<1> DEFINE c == call'[r]
           s == call[r].sem
<1>1. /\ Sound(k) /\ Calm(k) /\ r \in Task /\ k.lock \in [Task -> Nat] /\ call \in [Task -> Call]
      /\ CallOK(call[r]) /\ k.lock[r] \in Depth(call[r])
  BY RunFacts
<1>2. /\ call[r].op \in {"wait", "dog"} /\ timed' \subseteq timed
      /\ have' = have /\ total' = total
      /\ call' = [call EXCEPT ![r] = UserCall] \/ call' = [call EXCEPT ![r] = DogCall]
      /\ \/ call[r].op = "wait" /\ k' = (IF k.lock[r] > 0 THEN Unlocked(k) ELSE k)
            /\ held' = (IF k.err[r] = "OK" THEN Add(held, r, s, 1) ELSE held)
         \/ call[r].op = "dog" /\ k' = k /\ held' = held
  BY DEF WaitEnd, DogEnd, At, Return, Goto, DogCall
<1>3. call' = [call EXCEPT ![r] = c] /\ (c = UserCall \/ c = DogCall)
  BY <1>1, <1>2
<1>4. CallOK(c) /\ c.op \in {"user", "dog"} /\ Depth(c) = {0}
  BY <1>3, UserCallOK, DogCallOK
<1>5. /\ Goes(k, k', None) /\ Calm(k') /\ k'.count = k.count
      /\ k'.lock[r] = 0 /\ \A u \in Task \ {r} : k'.lock[u] = k.lock[u]
  <2>1. CASE k' = k
    <3>1. k.lock[r] = 0
      BY <1>1, <1>2, <2>1, UnlockEffect DEF Depth
    <3> QED
      BY <1>1, <2>1, <3>1, GoesSame
  <2>2. CASE call[r].op = "wait" /\ k.lock[r] > 0 /\ k' = Unlocked(k)
    <3>1. k.lock[r] = 1
      BY <1>1, <2>2 DEF Depth
    <3> QED
      BY <2>2, <3>1, UnlockEffect
  <2> QED
    BY <1>2, <2>1, <2>2
<1>6. /\ \A u \in Task \ {r} : held'[u] = held[u]
      /\ held'[r] = IF call[r].op = "wait" /\ k.err[r] = "OK"
                    THEN [held[r] EXCEPT ![s] = @ + 1] ELSE held[r]
  <2>1. CASE call[r].op = "wait" /\ k.err[r] = "OK"
    <3>1. s \in Sem /\ held[r][s] \in Nat /\ r # None
      BY <1>1, <2>1, SemAssumption DEF CallOK
    <3>2. Max({held[r][s] + 1, 0}) = held[r][s] + 1
      <4>1. held[r][s] + 1 \in Int /\ held[r][s] + 1 > 0
        BY <3>1
      <4> DEFINE x == held[r][s] + 1
      <4> HIDE DEF x
      <4>2. Max({x, 0}) = x
        BY <4>1, MaxZero DEF x
      <4> QED
        BY <4>2 DEF x
    <3>3. held' = [held EXCEPT ![r][s] = held[r][s] + 1]
      BY <1>2, <2>1, <3>1, <3>2 DEF Add
    <3> QED
      BY <1>1, <2>1, <3>1, <3>3
  <2>2. CASE ~(call[r].op = "wait" /\ k.err[r] = "OK")
    BY <1>2, <2>2
  <2> QED
    BY <2>1, <2>2
<1>7. ASSUME r \in k.live PROVE Knows(k', call', have', held', r)
  <2>1. have'[r] = held'[r]
    BY <1>2, <1>6, <1>7, RunKnows
  <2> QED
    BY <1>4, <2>1, KnowsRun
<1> HIDE DEF c
<1>8. RestEff(c)
  BY <1>2, <1>3, <1>4, <1>5, <1>6, <1>7, RestLemma DEF Ending
<1> QED
  BY <1>8 DEF c

LEMMA PostResumeEffect ==
    ASSUME Core, Known, PostResume
    PROVE  RestEff(call'[r])
<1> DEFINE o == call[r]
           c == call'[r]
           d == [o EXCEPT !.op = "reset", !.zero = FALSE]
<1>1. /\ Sound(k) /\ r \in Task /\ r = Running(k) /\ k.lock \in [Task -> Nat]
      /\ call \in [Task -> Call] /\ CallOK(o) /\ k.lock[r] \in Depth(o)
  BY RunFacts
<1>2. /\ o.op = "post" /\ k' = PostEnd(k, r, o.sem, o.zero)
      /\ call' = [call EXCEPT ![r] = IF o.then = "reset" THEN d ELSE UserCall]
      /\ UNCHANGED <<timed, have, held, total>>
  BY DEF PostResume, At, Goto
<1>3. c = (IF o.then = "reset" THEN d ELSE UserCall) /\ call' = [call EXCEPT ![r] = c]
  BY <1>1, <1>2
<1>4. k.lock[r] = (IF o.then = "reset" THEN 2 ELSE 1) /\ o.sem \in Sem
  BY <1>1, <1>2 DEF Depth, CallOK
<1>5. /\ Goes(k, k', None) /\ Calm(k') /\ k'.count = k.count
      /\ k'.lock = [k.lock EXCEPT ![r] = @ - 1]
  BY <1>1, <1>2, <1>4, PostEndLemma
<1>6. /\ CallOK(c) /\ c.op = (IF o.then = "reset" THEN "reset" ELSE "user")
      /\ Depth(c) = IF o.then = "reset" THEN {1} ELSE {0}
      /\ o.then = "reset" => c.sem = o.sem
  <2>1. CASE o.then = "reset"
    <3>1. o \in Call /\ o.tcb = None /\ o.sem \in Sem /\ "reset" \in Api
      BY <1>1, <1>2, <2>1 DEF CallOK, Ending
    <3>2. d \in Call /\ d.op = "reset" /\ d.then = "reset" /\ d.tcb = None /\ d.sem = o.sem
      <4> HIDE DEF o
      <4> QED
        BY <2>1, <3>1 DEF Call
    <3> HIDE DEF d
    <3>3. CallOK(d) /\ Depth(d) = {1}
      BY <3>1, <3>2 DEF CallOK, Depth, Ending
    <3> QED
      BY <1>3, <2>1, <3>2, <3>3
  <2>2. CASE o.then # "reset"
    BY <1>3, <2>2, UserCallOK
  <2> QED
    BY <2>1, <2>2
<1> HIDE DEF c
<1>7. ASSUME r \in k.live PROVE Knows(k', call', have', held', r)
  <2>1. have[r] = held[r] /\ (o.then = "reset" => have[r][o.sem] = 0)
    BY <1>2, <1>7, RunKnows
  <2>2. call'[r] = c
    BY DEF c
  <2>3. c.op # "wait" /\ have'[r] = held'[r] /\ c.op # "post"
    BY <1>2, <1>6, <2>1
  <2>4. c.op = "reset" => have'[r][c.sem] = 0
    BY <1>2, <1>6, <2>1
  <2> QED
    BY <2>2, <2>3, <2>4, KnowsRun
<1>8. k'.lock[r] \in Depth(c) /\ \A u \in Task \ {r} : k'.lock[u] = k.lock[u]
  BY <1>1, <1>4, <1>5, <1>6
<1>9. o.op \notin Ending /\ c.op \notin Ending /\ c.op # "delete"
  BY <1>2, <1>6 DEF Ending
<1>10. RestEff(c)
  BY <1>2, <1>3, <1>5, <1>6, <1>7, <1>8, <1>9, RestLemma
<1> QED
  BY <1>10 DEF c

ResetCall(s, n) == [UserCall EXCEPT !.op = "reset", !.sem = s, !.then = "reset", !.n = n]
LEMMA ResetEffect ==
    ASSUME Core, Known, NEW s \in Sem, NEW n \in 1 .. InitCount, Reset(s, n)
    PROVE  RestEff(ResetCall(s, n))
<1> DEFINE c == ResetCall(s, n)
<1>1. /\ Sound(k) /\ r \in Task /\ r = Running(k) /\ k.lock \in [Task -> Nat]
      /\ call \in [Task -> Call] /\ k.lock[r] \in Depth(call[r])
  BY RunFacts
<1>2. /\ "reset" \in Api /\ call[r].op = "user" /\ have[r][s] = 0 /\ k' = Locked(k)
      /\ call' = [call EXCEPT ![r] = c] /\ UNCHANGED <<timed, have, held, total>>
  BY <1>1 DEF Reset, AtUser, At, Goto, ResetCall
<1>3. /\ Goes(k, k', None) /\ Calm(k') /\ Keeps(k, k')
      /\ k'.lock = [k.lock EXCEPT ![r] = @ + 1]
  BY <1>1, <1>2, LockGoes
<1>4. k'.count = k.count /\ k.lock[r] = 0
  BY <1>1, <1>2, <1>3, KeepsFields DEF Depth
<1>5. c \in Call /\ c.op = "reset" /\ c.then = "reset" /\ c.tcb = None /\ c.sem = s
  <2>1. n \in 0 .. MaxCount
    BY SemAssumption
  <2> QED
    BY <2>1, UserCallOK DEF ResetCall, Call, UserCall
<1> HIDE DEF c
<1>6. CallOK(c) /\ Depth(c) = {1}
  BY <1>2, <1>5 DEF CallOK, Depth, Ending
<1>7. ASSUME r \in k.live PROVE Knows(k', call', have', held', r)
  <2>1. have[r] = held[r]
    BY <1>2, <1>7, RunKnows
  <2>2. call'[r] = c
    BY <1>1, <1>2
  <2> QED
    BY <1>2, <1>5, <2>1, <2>2, KnowsRun
<1>8. k'.lock[r] \in Depth(c) /\ \A u \in Task \ {r} : k'.lock[u] = k.lock[u]
  BY <1>1, <1>3, <1>4, <1>6
<1>9. RestEff(c)
  BY <1>2, <1>3, <1>4, <1>5, <1>6, <1>7, <1>8, RestLemma DEF Ending
<1> QED
  BY <1>9 DEF c

(* sem_reset() ends with a new count, or with what its posts have left. *)
ResetEff(s, n) == Plain(None, UserCall) /\ BReset(s, n) /\ Learns(None)

LEMMA ResetEndEffect ==
    ASSUME Core, Known, total \in [Sem -> Int], ResetEnd
    PROVE  RestEff(UserCall) \/ \E s \in Sem, n \in Nat : ResetEff(s, n)
<1> DEFINE s == call[r].sem
           n == call[r].n
           v == IF k.count[s] >= 0 THEN n ELSE k.count[s]
           a == [k EXCEPT !.count[s] = v]
<1>1. /\ Sound(k) /\ Calm(k) /\ r \in Task /\ r = Running(k) /\ k.lock \in [Task -> Nat]
      /\ call \in [Task -> Call] /\ CallOK(call[r]) /\ k.lock[r] \in Depth(call[r])
  BY RunFacts
<1>2. /\ call[r].op = "reset" /\ k' = Unlocked(a)
      /\ call' = [call EXCEPT ![r] = UserCall] /\ UNCHANGED <<timed, have, held>>
      /\ total' = [total EXCEPT ![s] = IF k.count[s] >= 0 THEN @ - k.count[s] + n ELSE @]
  BY DEF ResetEnd, At, Return, Goto
<1>3. s \in Sem /\ n \in Nat /\ k.lock[r] = 1 /\ "reset" \in Api
  <2>1. call[r] \in Call
    BY <1>1 DEF CallOK
  <2>2. n \in 0 .. MaxCount
    BY <2>1 DEF Call
  <2> QED
    BY <1>1, <1>2, <2>2, SemAssumption DEF CallOK, Depth
<1>4. OwnField \subseteq DOMAIN k /\ k.count \in [Sem -> Int]
      /\ k.waitsem \in [Task -> Sem \cup {None}] /\ k.err \in [Task -> {"OK", "EINTR", "ETIMEDOUT"}]
  BY <1>1 DEF Sound, Own
<1>5. v \in Int
  BY <1>3, <1>4
<1> HIDE DEF v
<1>6. /\ Alike(k, a) /\ a.holders = k.holders /\ a.free = k.free /\ a.pend = k.pend
      /\ a.live = k.live /\ a.panic = k.panic /\ a.waitsem = k.waitsem /\ a.err = k.err
      /\ a.count = [k.count EXCEPT ![s] = v]
  BY <1>4 DEF OwnField, Alike
<1> HIDE DEF a
<1>7. a.count \in [Sem -> Int]
  BY <1>4, <1>5, <1>6
<1>8. Goes(k, a, None) /\ Running(a) = r
  BY <1>1, <1>4, <1>6, <1>7, EditGoes
<1>9. Sound(a) /\ a.lock = k.lock
  BY <1>6, <1>8 DEF Goes, Alike
<1>10. /\ Goes(a, k', None) /\ Calm(k') /\ Keeps(a, k')
       /\ k'.lock = [k.lock EXCEPT ![r] = @ - 1]
  <2>1. a.lock[Running(a)] > 0
    BY <1>3, <1>8, <1>9
  <2> QED
    BY <1>2, <1>8, <1>9, <2>1, UnlockGoes
<1>11. Goes(k, k', None) /\ k'.count = [k.count EXCEPT ![s] = v]
  BY <1>6, <1>8, <1>10, GoesTrans, KeepsFields
<1>12. ASSUME r \in k.live PROVE Knows(k', call', have', held', r)
  <2>1. have[r] = held[r] /\ call'[r] = UserCall
    BY <1>1, <1>2, <1>12, RunKnows
  <2> QED
    BY <1>2, <2>1, UserCallOK, KnowsRun
<1>13. k'.lock[r] = 0 /\ \A u \in Task \ {r} : k'.lock[u] = k.lock[u]
  BY <1>1, <1>3, <1>10
<1> DEFINE c == UserCall
<1> HIDE DEF c
<1>14. Plain(None, c) /\ Learns(None) /\ k'.waitsem = k.waitsem
  <2>1. CallOK(c) /\ Depth(c) = {0} /\ c.op = "user"
    BY UserCallOK DEF c
  <2>2. call' = [call EXCEPT ![r] = c]
    BY <1>2 DEF c
  <2> QED
    BY <1>2, <1>10, <1>11, <1>12, <1>13, <2>1, <2>2, RestPlain DEF Ending
<1>15. CASE k.count[s] >= 0
  <2>1. BReset(s, n)
    BY <1>2, <1>3, <1>11, <1>14, <1>15 DEF BReset, v
  <2> QED
    BY <1>3, <1>14, <2>1 DEF ResetEff, c
<1>16. CASE ~(k.count[s] >= 0)
  <2>1. k'.count = k.count /\ total' = total
    BY <1>2, <1>3, <1>4, <1>11, <1>16 DEF v
  <2> QED
    BY <1>2, <1>14, <2>1 DEF RestEff, BSame, c
<1> QED
  BY <1>15, <1>16

-----------------------------------------------------------------------------
(* sem_post() *)
Tally == [Task -> [Sem -> Nat]]

(* g is f but for the number v of counts of s that t has. *)
Entered(f, g, t, s, v) ==
    g \in Tally /\ (\A u \in Task \ {t} : g[u] = f[u]) /\ g[t] = [f[t] EXCEPT ![s] = v]

LEMMA AddLemma ==
    ASSUME NEW f \in Tally, NEW t \in Task, NEW s \in Sem, NEW d \in {1, -1},
           NEW v, v = IF f[t][s] + d > 0 THEN f[t][s] + d ELSE 0
    PROVE  Entered(f, Add(f, t, s, d), t, s, v) /\ v \in Nat
<1> DEFINE x == f[t][s] + d
           g == Add(f, t, s, d)
<1>1. x \in Int /\ v = IF x > 0 THEN x ELSE 0
  BY DEF Tally
<1>2. t # None
  BY SemAssumption
<1> HIDE DEF x
<1>3. Max({x, 0}) = v /\ v \in Nat
  BY <1>1, MaxZero
<1>4. g = [f EXCEPT ![t][s] = v]
  BY <1>2, <1>3 DEF Add, x
<1>5. g = [f EXCEPT ![t] = [f[t] EXCEPT ![s] = v]]
  BY <1>4
<1>6. [f[t] EXCEPT ![s] = v] \in [Sem -> Nat]
  BY <1>3 DEF Tally
<1> HIDE DEF g
<1>7. g \in Tally /\ (\A u \in Task \ {t} : g[u] = f[u]) /\ g[t] = [f[t] EXCEPT ![s] = v]
  BY <1>5, <1>6 DEF Tally
<1> QED
  BY <1>3, <1>7 DEF g, Entered

LEMMA AddOne ==
    ASSUME NEW f \in Tally, NEW t \in Task, NEW s \in Sem
    PROVE  Entered(f, Add(f, t, s, 1), t, s, f[t][s] + 1)
<1> DEFINE d == 1
           v == f[t][s] + 1
<1>1. f[t][s] \in Nat
  BY DEF Tally
<1>2. d \in {1, -1} /\ v = IF f[t][s] + d > 0 THEN f[t][s] + d ELSE 0
  BY <1>1
<1> HIDE DEF d, v
<1>3. Entered(f, Add(f, t, s, d), t, s, v)
  BY <1>2, AddLemma
<1> QED
  BY <1>3 DEF d, v

LEMMA DropOne ==
    ASSUME NEW f \in Tally, NEW t \in Task, NEW s \in Sem
    PROVE  Entered(f, Add(f, t, s, -1), t, s, IF f[t][s] > 0 THEN f[t][s] - 1 ELSE 0)
<1> DEFINE d == -1
           v == IF f[t][s] > 0 THEN f[t][s] - 1 ELSE 0
<1>1. f[t][s] \in Nat
  BY DEF Tally
<1>2. d \in {1, -1} /\ v = IF f[t][s] + d > 0 THEN f[t][s] + d ELSE 0
  BY <1>1
<1> HIDE DEF d, v
<1>3. Entered(f, Add(f, t, s, d), t, s, v)
  BY <1>2, AddLemma
<1> QED
  BY <1>3 DEF d, v

LEMMA AddNone ==
    ASSUME NEW f, NEW s, NEW d
    PROVE  Add(f, None, s, d) = f
BY DEF Add

LEMMA GivePlain ==
    ASSUME Core, NEW s \in Sem, NEW st, Given(k', s, st), NEW c,
           call' = [call EXCEPT ![r] = c], CallOK(c), timed' \subseteq timed,
           \A u \in Task \ {r} : k'.lock[u] = k.lock[u], k'.lock[r] \in Depth(c),
           c = call[r] \/ (call[r].op \notin Ending /\ c.op \notin Ending),
           c.op = "delete" => Running(k') = r
    PROVE  Plain(st, c) /\ BGive(s, st)
<1>1. /\ Goes(k, k', st) /\ Calm(k') /\ k'.count = [k.count EXCEPT ![s] = @ + 1]
      /\ Chosen(s, k.count[s] + 1, st)
      /\ st # None => k'.waitsem[st] = None /\ k'.err[st] = "OK" /\ k'.state[st] \notin SemState
  BY DEF Given
<1>2. r \in Task /\ None \notin Task \cup Sem /\ timed \subseteq Task
  BY RunFacts, SemAssumption DEF Core
<1>3. st # None => st \in Task \ {r} /\ k.waitsem[st] = s
  BY <1>1 DEF Chosen
<1>4. Acts(st, c)
  BY <1>1, <1>2 DEF Acts
<1>5. Plain(st, c)
  BY <1>1, <1>2, <1>3, <1>4 DEF Plain
<1>6. k'.waitsem = IF st = None THEN k.waitsem ELSE [k.waitsem EXCEPT ![st] = None]
  <2>1. CASE st = None
    BY <1>1, <1>2, <2>1, WaitsemLemma
  <2>2. CASE st # None
    <3>1. st \in Task
      BY <1>3, <2>2
    <3>2. k'.waitsem = [k.waitsem EXCEPT ![st] = k'.waitsem[st]]
      BY <1>1, <3>1, WaitsemLemma
    <3> QED
      BY <1>1, <2>2, <3>2
  <2> QED
    BY <2>1, <2>2
<1> QED
  BY <1>1, <1>5, <1>6 DEF BGive

LEMMA GiveLearns ==
    ASSUME Core, NEW s \in Sem, NEW st, Given(k', s, st), NEW f \in Tally,
           \A u \in Task \ {r} : f[u] = have[u] /\ held'[u] = held[u],
           have' = Add(f, st, s, 1), r \in k.live => Knows(k', call', have', held', r)
    PROVE  Learns(st)
<1>1. r \in Task /\ None \notin Task \cup Sem
  BY RunFacts, SemAssumption
<1>2. CASE st = None
  BY <1>1, <1>2, AddNone DEF Learns
<1>3. CASE st # None
  <2>1. st \in Task \ {r} /\ k.waitsem[st] = s /\ k'.err[st] = "OK"
    BY <1>3 DEF Given, Chosen
  <2>2. Entered(f, have', st, s, f[st][s] + 1)
    BY <2>1, AddOne
  <2>3. (\A u \in Task \ {st} : have'[u] = f[u]) /\ have'[st] = [f[st] EXCEPT ![s] = f[st][s] + 1]
    BY <2>2 DEF Entered
  <2>5. have'[st] = [have[st] EXCEPT ![k.waitsem[st]] = @ + 1] /\ held'[st] = held[st]
    BY <2>1, <2>3
  <2> QED
    BY <2>1, <2>3, <2>5 DEF Learns
<1> QED
  BY <1>2, <1>3

(* A post by the running task, from its own code or from sem_reset(). *)
PostEff(s) == \E st, c : Plain(st, c) /\ BPost(s, st) /\ Learns(st)
PostCall(c, s, zero) == [c EXCEPT !.op = "post", !.sem = s, !.zero = zero]

(* c is where sem_post() returns to: the user's code, or the loop of       *)
(* sem_reset().                                                            *)
Returns(c, s) ==
    /\ CallOK(c) /\ c.op = call[r].op /\ c.op \in {"user", "reset"}
    /\ c.op = "user" => c.then = "none"
    /\ c.op = "reset" => c.sem = s /\ call[r].sem = s

LEMMA PostCallOK ==
    ASSUME NEW c, NEW s \in Sem, Returns(c, s), NEW zero \in BOOLEAN
    PROVE  LET d == PostCall(c, s, zero) IN
           /\ CallOK(d) /\ d.op = "post" /\ d.sem = s /\ d.then = c.then
           /\ Depth(d) = IF c.op = "reset" THEN {2} ELSE {1}
           /\ Depth(c) = IF c.op = "reset" THEN {1} ELSE {0}
<1> DEFINE d == PostCall(c, s, zero)
<1>1. c \in Call /\ c.tcb = None /\ CallOK(c) /\ (c.op = "reset" => c.then = "reset" /\ "reset" \in Api)
      /\ (c.op = "user" => c.then = "none") /\ c.op \in {"user", "reset"}
  BY DEF Returns, CallOK, Ending
<1>2. d \in Call /\ d.op = "post" /\ d.sem = s /\ d.then = c.then /\ d.tcb = None
  BY <1>1 DEF PostCall, Call
<1> HIDE DEF d
<1>3. CallOK(d)
  BY <1>1, <1>2 DEF CallOK, Ending
<1>4. Depth(d) = IF c.op = "reset" THEN {2} ELSE {1}
  BY <1>1, <1>2 DEF Depth
<1>5. Depth(c) = IF c.op = "reset" THEN {1} ELSE {0}
  BY <1>1 DEF Depth
<1> QED
  BY <1>2, <1>3, <1>4, <1>5 DEF d

LEMMA PostByEffect ==
    ASSUME Core, Known, have \in Tally, held \in Tally, NEW s \in Sem, NEW o, Returns(o, s),
           PostBy(s, o), timed' = timed,
           held' = IF o.op = "user" THEN Add(held, r, s, -1) ELSE held
    PROVE  PostEff(s)
<1> DEFINE x    == PostSelf(k, r, s)
           st   == Granted(Posted(k, r, s), s)
           zero == PostZeroes(k, r, s)
           d    == PostCall(o, s, zero)
           f    == Add(have, r, s, -1)
<1>1. /\ r \in Task /\ r = Running(k) /\ k.lock \in [Task -> Nat] /\ call \in [Task -> Call]
      /\ CallOK(call[r]) /\ k.lock[r] \in Depth(call[r])
  BY RunFacts
<1>2. /\ IF Switched(k, x) THEN k' = x /\ call' = [call EXCEPT ![r] = d]
         ELSE k' = PostEnd(x, r, s, zero) /\ call' = [call EXCEPT ![r] = o]
      /\ have' = Add(f, st, s, 1)
      /\ total' = [total EXCEPT ![s] = IF have[r][s] = 0 THEN @ + 1 ELSE @]
  BY DEF PostBy, Goto, PostCall
<1>3. Given(x, s, st) /\ x.lock = [k.lock EXCEPT ![r] = @ + 1]
  BY PostSelfLemma
<1>4. zero \in BOOLEAN
  BY DEF PostZeroes
<1>5. /\ CallOK(o) /\ CallOK(d) /\ d.op = "post" /\ d.sem = s /\ d.then = o.then
      /\ Depth(d) = IF o.op = "reset" THEN {2} ELSE {1}
      /\ Depth(o) = IF o.op = "reset" THEN {1} ELSE {0}
      /\ o.op = call[r].op /\ o.op \in {"user", "reset"}
      /\ o.op = "reset" => o.sem = s /\ call[r].sem = s
      /\ o.op = "user" => o.then = "none"
  <2> HIDE DEF zero
  <2> QED
    BY <1>4, PostCallOK DEF Returns
<1> HIDE DEF x, st, zero, d, f
<1>6. k.lock[r] = IF o.op = "reset" THEN 1 ELSE 0
  BY <1>1, <1>5 DEF Depth
<1>7. PICK c : /\ call' = [call EXCEPT ![r] = c] /\ Given(k', s, st) /\ (c = o \/ c = d)
               /\ k'.lock[r] \in Depth(c) /\ \A u \in Task \ {r} : k'.lock[u] = k.lock[u]
  <2>1. CASE Switched(k, x)
    <3>1. k' = x /\ call' = [call EXCEPT ![r] = d]
      BY <1>2, <2>1
    <3>2. k'.lock[r] \in Depth(d) /\ \A u \in Task \ {r} : k'.lock[u] = k.lock[u]
      BY <1>1, <1>3, <1>5, <1>6, <3>1
    <3> QED
      BY <1>3, <3>1, <3>2
  <2>2. CASE ~ Switched(k, x)
    <3>1. k' = PostEnd(x, r, s, zero) /\ call' = [call EXCEPT ![r] = o]
      BY <1>2, <2>2
    <3>2. Running(x) = r /\ Sound(x) /\ x.lock[r] > 0
      BY <1>1, <1>3, <1>6, <2>2 DEF Switched, Given, Goes
    <3>3. /\ Goes(x, k', None) /\ Calm(k') /\ k'.count = x.count
          /\ k'.lock = [x.lock EXCEPT ![r] = @ - 1]
      BY <3>1, <3>2, PostEndLemma
    <3>4. Given(k', s, st)
      BY <1>3, <3>3, GivenTrans
    <3>5. k'.lock[r] \in Depth(o) /\ \A u \in Task \ {r} : k'.lock[u] = k.lock[u]
      BY <1>1, <1>3, <1>5, <1>6, <3>3
    <3> QED
      BY <3>1, <3>4, <3>5
  <2> QED
    BY <2>1, <2>2
<1>8. CallOK(c) /\ c.op \in {"user", "reset", "post"} /\ c.op # "delete"
  BY <1>5, <1>7
<1>9. call[r].op \notin Ending /\ c.op \notin Ending
  BY <1>5, <1>8 DEF Ending
<1>10. Plain(st, c) /\ BGive(s, st)
  BY <1>7, <1>8, <1>9, GivePlain
<1>11. Entered(have, f, r, s, IF have[r][s] > 0 THEN have[r][s] - 1 ELSE 0)
  BY <1>1, DropOne DEF f
<1>12. /\ f \in Tally /\ \A u \in Task \ {r} : f[u] = have[u]
       /\ f[r] = [have[r] EXCEPT ![s] = IF have[r][s] > 0 THEN have[r][s] - 1 ELSE 0]
  BY <1>11 DEF Entered
<1>13. /\ \A u \in Task \ {r} : held'[u] = held[u]
       /\ held'[r] = IF o.op = "user" THEN [held[r] EXCEPT ![s] = IF held[r][s] > 0 THEN held[r][s] - 1 ELSE 0]
                     ELSE held[r]
  <2>1. Entered(held, Add(held, r, s, -1), r, s, IF held[r][s] > 0 THEN held[r][s] - 1 ELSE 0)
    BY <1>1, DropOne
  <2> QED
    BY <2>1 DEF Entered
<1>14. ASSUME r \in k.live PROVE Knows(k', call', have', held', r)
  <2>1. have[r] = held[r] /\ (o.op = "reset" => have[r][s] = 0)
    <3>1. have[r] = held[r] /\ (call[r].op = "reset" => have[r][call[r].sem] = 0)
      BY <1>5, <1>14, RunKnows
    <3> QED
      BY <1>5, <3>1
  <2>2. have'[r] = f[r]
    <3>1. CASE st = None
      BY <1>2, <3>1, AddNone
    <3>2. CASE st # None
      <4>1. st \in Task \ {r}
        BY <1>7, <3>2 DEF Given, Chosen
      <4>2. Entered(f, have', st, s, f[st][s] + 1)
        BY <1>2, <1>12, <4>1, AddOne
      <4> QED
        BY <1>1, <4>1, <4>2 DEF Entered
    <3> QED
      BY <3>1, <3>2
  <2>3. have'[r] = held'[r] /\ (o.op = "reset" => have'[r][s] = 0)
    <3>1. have[r] \in [Sem -> Nat]
      BY <1>1 DEF Tally
    <3>2. CASE o.op = "user"
      BY <1>12, <1>13, <2>1, <2>2, <3>2
    <3>3. CASE o.op = "reset"
      <4>1. have[r][s] = 0 /\ f[r] = have[r]
        BY <1>12, <2>1, <3>1, <3>3
      <4> QED
        BY <1>13, <2>1, <2>2, <3>3, <4>1
    <3> QED
      BY <1>5, <3>2, <3>3
  <2>4. call'[r] = c /\ c.op # "wait"
    BY <1>1, <1>7, <1>8
  <2>5. c.op = "reset" \/ (c.op = "post" /\ c.then = "reset") => have'[r][c.sem] = 0
    BY <1>5, <1>7, <2>3
  <2> QED
    BY <2>3, <2>4, <2>5, KnowsRun
<1>15. Learns(st)
  BY <1>2, <1>7, <1>12, <1>13, <1>14, GiveLearns
<1>16. BPost(s, st)
  BY <1>2, <1>10 DEF BPost, f
<1> QED
  BY <1>10, <1>15, <1>16 DEF PostEff

LEMMA PostEffect ==
    ASSUME Core, Known, have \in Tally, held \in Tally, NEW s \in Sem, Post(s)
    PROVE  PostEff(s)
<1> DEFINE o == UserCall
<1>1. /\ call[r].op = "user" /\ PostBy(s, o) /\ held' = Add(held, r, s, -1) /\ timed' = timed
  BY DEF Post, AtUser, At
<1>2. Returns(o, s)
  BY <1>1, UserCallOK DEF Returns, UserCall
<1>3. o.op = "user"
  BY UserCallOK
<1> HIDE DEF o
<1> QED
  BY <1>1, <1>2, <1>3, PostByEffect

LEMMA ResetPostEffect ==
    ASSUME Core, Known, have \in Tally, held \in Tally, ResetPost
    PROVE  \E s \in Sem : PostEff(s)
<1> DEFINE s == call[r].sem
           o == [call[r] EXCEPT !.n = @ - 1]
           e == call[r]
<1>1. /\ e.op = "reset" /\ e.n > 0 /\ PostBy(s, o) /\ held' = held /\ timed' = timed
  BY DEF ResetPost, At
<1>2. CallOK(e)
  BY RunFacts
<1>3. s \in Sem /\ e \in Call
  BY <1>1, <1>2 DEF CallOK
<1>4. /\ o \in Call /\ o.op = e.op /\ o.sem = e.sem /\ o.tcb = e.tcb /\ o.then = e.then
  <2> HIDE DEF e
  <2>1. e.n - 1 \in 0 .. MaxCount
    BY <1>1, <1>3, SemAssumption DEF Call
  <2> QED
    BY <1>3, <2>1 DEF Call, e
<1> HIDE DEF o
<1>5. CallOK(o)
  BY <1>2, <1>4 DEF CallOK
<1>6. Returns(o, s)
  BY <1>1, <1>4, <1>5 DEF Returns
<1>7. o.op # "user"
  BY <1>1, <1>4
<1>8. held' = IF o.op = "user" THEN Add(held, r, s, -1) ELSE held
  BY <1>1, <1>7
<1> HIDE DEF s
<1> QED
  BY <1>1, <1>3, <1>6, <1>8, PostByEffect

(* Posts by interrupt handlers.  The tasks that delete others hold nothing *)
(* that a handler could give away: they are not switched out.              *)
Apart == (Killer \cup Deleter) \cap User = {}
BringEff(s) == \E st : Plain(st, call[r]) /\ BBring(s, st) /\ Learns(st)

(* p is k with one count more. *)
Raised(p, s) ==
    /\ \A w : Goes(k, p, w)
    /\ Calm(p) /\ Alike(k, p) /\ p.waitsem = k.waitsem /\ p.err = k.err
    /\ p.count = [k.count EXCEPT ![s] = @ + 1]

LEMMA RaisedLemma ==
    ASSUME Core, NEW s \in Sem
    PROVE  Raised(Posted(k, r, s), s) /\ Raised([k EXCEPT !.count[s] = @ + 1], s)
<1>1. Sound(k) /\ Calm(k)
  BY RunFacts
<1>2. Raised(Posted(k, r, s), s)
  <2> DEFINE p == Posted(k, r, s)
  <2>1. /\ \A w : Goes(k, p, w)
        /\ Calm(p) /\ Alike(k, p)
        /\ p.waitsem = k.waitsem /\ p.err = k.err /\ p.count = [k.count EXCEPT ![s] = @ + 1]
    BY <1>1, PostedLemma
  <2> QED
    BY <2>1 DEF Raised
<1>3. Raised([k EXCEPT !.count[s] = @ + 1], s)
  <2> DEFINE a == [k EXCEPT !.count[s] = @ + 1]
  <2>1. OwnField \subseteq DOMAIN k /\ k.count \in [Sem -> Int]
        /\ k.waitsem \in [Task -> Sem \cup {None}] /\ k.err \in [Task -> {"OK", "EINTR", "ETIMEDOUT"}]
    BY <1>1 DEF Sound, Own
  <2>2. /\ Alike(k, a) /\ a.holders = k.holders /\ a.free = k.free /\ a.pend = k.pend
        /\ a.live = k.live /\ a.panic = k.panic /\ a.waitsem = k.waitsem /\ a.err = k.err
        /\ a.count = [k.count EXCEPT ![s] = @ + 1]
    BY <2>1 DEF OwnField, Alike
  <2> HIDE DEF a
  <2>3. a.count \in [Sem -> Int]
    BY <2>1, <2>2
  <2>4. ASSUME NEW w PROVE Goes(k, a, w) /\ Calm(a)
    BY <1>1, <2>1, <2>2, <2>3, EditGoes
  <2>5. Raised(a, s)
    BY <2>2, <2>4 DEF Raised
  <2> QED
    BY <2>5 DEF a
<1> QED
  BY <1>2, <1>3

LEMMA RaisedGiven ==
    ASSUME Core, NEW s \in Sem, NEW p, Raised(p, s), NEW pi
    PROVE  LET st == Granted(p, s)
               g  == Grant(p, s, st, pi) IN
           Given(g, s, st) /\ g.lock = k.lock /\ (k.lock[r] > 0 => Running(g) = r)
<1> DEFINE st == Granted(p, s)
           g  == Grant(p, s, st, pi)
<1>1. r \in Task /\ r = Running(k) /\ k.lock \in [Task -> Nat] /\ k.count \in [Sem -> Int]
  BY RunFacts DEF Sound, Own
<1>2. Sound(p) /\ p.count[s] = k.count[s] + 1 /\ Running(p) = r /\ p.lock = k.lock /\ p.state = k.state
  BY <1>1 DEF Raised, Goes, Alike, Running, Rtr
<1>3. Chosen(s, k.count[s] + 1, st)
  BY <1>2, ChosenLemma DEF Raised
<1> HIDE DEF st
<1>4. CASE st = None
  <2>1. g = p
    BY <1>4 DEF Grant
  <2>2. Given(p, s, st)
    BY <1>3, <1>4 DEF Given, Raised
  <2> QED
    BY <1>2, <2>1, <2>2 DEF st
<1>5. CASE st # None
  <2>1. st \in User /\ st \in Task /\ k.state[st] = "WAIT_SEM" /\ k.err[st] = "OK"
    BY <1>3, <1>5 DEF Chosen
  <2>2. Frees(p, g, st) /\ g.count = p.count /\ g.err[st] = p.err[st]
    BY <1>2, <2>1, GrantLemma DEF Raised
  <2> HIDE DEF g
  <2>3. Goes(k, g, st) /\ g.lock = k.lock /\ (Running(g) = r \/ k.lock[r] = 0)
    BY <1>1, <1>2, <2>1, <2>2, FreesTrans DEF Raised
  <2>4. Given(g, s, st)
    BY <1>3, <2>1, <2>2, <2>3 DEF Given, Frees, Raised
  <2>5. k.lock[r] > 0 => Running(g) = r
    BY <1>1, <2>3
  <2> QED
    BY <2>3, <2>4, <2>5 DEF g, st
<1> QED
  BY <1>4, <1>5

LEMMA BringLemma ==
    ASSUME Core, Known, have \in Tally, NEW s \in Sem, NEW st, Given(k', s, st),
           k'.lock = k.lock, call[r].op = "delete" => Running(k') = r, have' = Add(have, st, s, 1),
           total' = [total EXCEPT ![s] = @ + 1], UNCHANGED <<call, timed, held>>
    PROVE  BringEff(s)
<1>1. call' = [call EXCEPT ![r] = call[r]] /\ CallOK(call[r])
  BY SameCall
<1>2. k.lock[r] \in Depth(call[r]) /\ r \in Task /\ r # None
  BY RunFacts, SemAssumption
<1>3. st # r
  BY <1>2 DEF Given, Chosen
<1> DEFINE c == call[r]
<1>4. Plain(st, c) /\ BGive(s, st)
  <2> HIDE DEF c
  <2>1. /\ call' = [call EXCEPT ![r] = c] /\ CallOK(c) /\ k.lock[r] \in Depth(c)
        /\ c = call[r] /\ (c.op = "delete" => Running(k') = r)
    BY <1>1, <1>2 DEF c
  <2> QED
    BY <2>1, GivePlain
<1>5. have'[r] = have[r]
  <2>1. CASE st = None
    BY <2>1, AddNone
  <2>2. CASE st # None
    <3>1. st \in Task \ {r}
      BY <2>2 DEF Given, Chosen
    <3>2. Entered(have, have', st, s, have[st][s] + 1)
      BY <3>1, AddOne
    <3> QED
      BY <1>2, <3>1, <3>2 DEF Entered
  <2> QED
    BY <2>1, <2>2
<1>6. ASSUME r \in k.live PROVE Knows(k', call', have', held', r)
  <2>1. Knows(k, call, have, held, r)
    BY <1>6 DEF Known
  <2>2. k'.waitsem[r] = k.waitsem[r] /\ k'.err[r] = k.err[r]
    BY <1>2, <1>3 DEF Given, Goes
  <2> QED
    BY <1>5, <2>1, <2>2 DEF Knows
<1> DEFINE f == have
<1>7. f \in Tally /\ have' = Add(f, st, s, 1) /\ \A u \in Task \ {r} : f[u] = have[u] /\ held'[u] = held[u]
  OBVIOUS
<1>8. Learns(st)
  <2> HIDE DEF f
  <2> QED
    BY <1>6, <1>7, GiveLearns
<1>9. BBring(s, st)
  BY <1>4 DEF BBring
<1> QED
  BY <1>4, <1>8, <1>9 DEF BringEff

(* A task that is deleting another is not a user of the semaphores. *)
LEMMA DeleterFacts ==
    ASSUME Core, Apart, call[r].op = "delete"
    PROVE  r \notin User /\ k.lock[r] > 0
<1>1. r \in Task /\ k.lock[r] \in Depth(call[r])
  BY RunFacts
<1>2. r \in Deleter
  BY <1>1 DEF Core, DeleteOK
<1> QED
  BY <1>1, <1>2 DEF Apart, Depth

LEMMA IsrPostEffect ==
    ASSUME Core, Known, Apart, have \in Tally, NEW s \in Sem, IsrPost(s)
    PROVE  BringEff(s)
<1> DEFINE p  == Posted(k, r, s)
           st == Granted(p, s)
           y  == TRUE
           g  == Grant(p, s, st, y)
<1>1. /\ k' = (IF st = None THEN g ELSE RestoreAll(g, Holders(g, s), s, st))
      /\ have' = Add(have, st, s, 1) /\ total' = [total EXCEPT ![s] = @ + 1]
      /\ UNCHANGED <<call, timed, held>>
  BY DEF IsrPost
<1>2. Raised(p, s)
  BY RaisedLemma
<1> HIDE DEF p, y
<1>3. Given(g, s, st) /\ g.lock = k.lock /\ (k.lock[r] > 0 => Running(g) = r)
  BY <1>2, RaisedGiven
<1> HIDE DEF st, g
<1>4. Tuned(g, k', User)
  <2>1. Sound(g)
    BY <1>3 DEF Given, Goes
  <2>2. Tuned(g, g, User) /\ Tuned(g, RestoreAll(g, Holders(g, s), s, st), User)
    BY <2>1, TunedSame, RestoreAllLemma
  <2> QED
    BY <1>1, <2>2
<1>5. Goes(g, k', None) /\ Calm(k') /\ k'.count = g.count /\ k'.lock = g.lock
  BY <1>3, <1>4, TunedGoes DEF Tuned, Books, Given
<1>6. Given(k', s, st)
  BY <1>3, <1>5, GivenTrans
<1>7. ASSUME call[r].op = "delete" PROVE Running(k') = r
  <2>1. r \notin User /\ k.lock[r] > 0
    BY <1>7, DeleterFacts
  <2>2. Running(g) = r /\ g.lock[Running(g)] > 0
    BY <1>3, <2>1
  <2> QED
    BY <1>4, <2>1, <2>2 DEF Tuned
<1> QED
  BY <1>1, <1>3, <1>5, <1>6, <1>7, BringLemma

LEMMA PostFromIsrEffect ==
    ASSUME Core, Known, Apart, have \in Tally, NEW s \in Sem, sem_post_from_isr(s)
    PROVE  BringEff(s)
<1> DEFINE p  == [k EXCEPT !.count[s] = @ + 1]
           st == Granted(p, s)
           y  == FALSE
           g  == Grant(p, s, st, y)
<1>1. /\ k' = g
      /\ have' = Add(have, st, s, 1) /\ total' = [total EXCEPT ![s] = @ + 1]
      /\ UNCHANGED <<call, timed, held>>
  BY DEF sem_post_from_isr
<1>2. Raised(p, s)
  BY RaisedLemma
<1> HIDE DEF p, y
<1>3. Given(g, s, st) /\ g.lock = k.lock /\ (k.lock[r] > 0 => Running(g) = r)
  BY <1>2, RaisedGiven
<1> HIDE DEF st, g
<1>4. call[r].op = "delete" => Running(k') = r
  BY <1>1, <1>3, DeleterFacts
<1> QED
  BY <1>1, <1>3, <1>4, BringLemma

-----------------------------------------------------------------------------
(* A wait ends without a count: sem_waitirq(). *)
AbortEff(t) == \E s \in Sem : \E c : Plain(t, c) /\ BAbort(t, s) /\ Learns(t)

(* From k to x, t has stopped to wait for s, with an error. *)
Aborted(x, t, s) ==
    /\ Goes(k, x, t) /\ Calm(x) /\ x.count = [k.count EXCEPT ![s] = @ + 1]
    /\ x.waitsem[t] = None /\ x.state[t] \notin SemState /\ x.err[t] # "OK"

LEMMA AbortLemma ==
    ASSUME Core, Known, NEW t \in Task, NEW s \in Sem, k.waitsem[t] = s, Aborted(k', t, s), NEW c,
           call' = [call EXCEPT ![r] = c], CallOK(c), timed' \subseteq timed,
           \A u \in Task \ {r} : k'.lock[u] = k.lock[u], k'.lock[r] \in Depth(c),
           c = call[r] \/ (call[r].op = "user" /\ c.op = "user"),
           c.op = "delete" => Running(k') = r, UNCHANGED <<have, held, total>>
    PROVE  AbortEff(t)
<1>1. r \in Task /\ k.waitsem[r] = None /\ None \notin Sem /\ timed \subseteq Task /\ t # r
      /\ call \in [Task -> Call]
  BY RunFacts, SemAssumption DEF Core
<1>2. Acts(t, c)
  BY <1>1 DEF Acts, Aborted
<1>3. Plain(t, c)
  BY <1>1, <1>2 DEF Plain, Aborted, Ending
<1>4. k'.waitsem = [k.waitsem EXCEPT ![t] = None]
  <2>1. k'.waitsem = [k.waitsem EXCEPT ![t] = k'.waitsem[t]]
    BY WaitsemLemma DEF Aborted
  <2> QED
    BY <2>1 DEF Aborted
<1>5. BAbort(t, s)
  BY <1>4 DEF BAbort, Aborted
<1>6. ASSUME r \in k.live PROVE Knows(k', call', have', held', r)
  <2>1. Knows(k, call, have, held, r) /\ call'[r] = c
    BY <1>1, <1>6 DEF Known
  <2>2. k'.waitsem[r] = k.waitsem[r] /\ k'.err[r] = k.err[r]
    BY <1>1 DEF Aborted, Goes
  <2>3. CASE c = call[r]
    <3>1. call' = call
      BY <1>1, <2>3
    <3> QED
      BY <2>1, <2>2, <3>1 DEF Knows
  <2>4. CASE call[r].op = "user" /\ c.op = "user"
    <3>1. have'[r] = held'[r]
      BY <2>1, <2>4 DEF Knows
    <3> QED
      BY <2>1, <2>4, <3>1, KnowsRun
  <2> QED
    BY <2>3, <2>4
<1>7. Learns(t)
  BY <1>1, <1>6 DEF Learns, Aborted
<1> QED
  BY <1>3, <1>5, <1>7 DEF AbortEff

(* The priorities of the holders are restored, and the waiter is woken. *)
LEMMA AbortedLemma ==
    ASSUME Core, NEW t \in Task, NEW s \in Sem, k.waitsem[t] = s,
           NEW m, NEW a, NEW e \in {"EINTR", "ETIMEDOUT"},
           \A w : Goes(k, m, w), m.count = k.count, m.waitsem = k.waitsem, m.state = k.state,
           Calm(m), Tuned(m, a, User)
    PROVE  LET x == Woken(a, t, s, e) IN
           /\ Aborted(x, t, s) /\ x.lock = m.lock
           /\ m.lock[Running(m)] > 0 /\ Running(m) \notin User => Running(x) = Running(m)
<1> DEFINE x == Woken(a, t, s, e)
<1>1. k.state[t] = "WAIT_SEM"
  <2>1. s # None
    BY SemAssumption
  <2> QED
    BY <2>1 DEF Core, TaskOK, WaitOK
<1>2. a.state[t] = "WAIT_SEM" /\ Sound(a) /\ Calm(a) /\ a.lock = m.lock /\ a.count = m.count
  <2>1. Shuffled(m, a, Task) /\ Sound(a) /\ Calm(a) /\ a.lock = m.lock /\ a.count = m.count
    BY DEF Tuned, Books
  <2> QED
    BY <1>1, <2>1 DEF Shuffled, ReadyState
<1>3. Frees(a, x, t) /\ x.count = [a.count EXCEPT ![s] = @ + 1] /\ x.err[t] = e
  BY <1>2, WokenLemma
<1> HIDE DEF x
<1>4. Goes(k, x, t)
  <2>1. Goes(m, a, t)
    BY TunedGoes
  <2>2. Goes(k, a, t)
    BY <2>1, GoesTrans
  <2> QED
    BY <1>3, <2>2, GoesTrans DEF Frees
<1>5. Aborted(x, t, s) /\ x.lock = m.lock
  BY <1>2, <1>3, <1>4 DEF Aborted, Frees
<1>6. m.lock[Running(m)] > 0 /\ Running(m) \notin User => Running(x) = Running(m)
  <2>1. SUFFICES ASSUME m.lock[Running(m)] > 0, Running(m) \notin User PROVE Running(x) = Running(m)
    OBVIOUS
  <2>2. Running(a) = Running(m) /\ a.lock[Running(a)] # 0
    BY <1>2, <2>1 DEF Tuned
  <2> QED
    BY <1>3, <2>2 DEF Frees
<1> QED
  BY <1>5, <1>6 DEF x

(* The handler stops the system in the window of sem_recover(). *)
NullEff ==
    /\ k' = [k EXCEPT !.panic = "nullsem"] /\ "isrkill" \in Api /\ Deleter # {}
    /\ UNCHANGED <<call, timed, have, held, total>>

(* A task without waitsem that is still on the list is being deleted. *)
LEMMA WindowLemma ==
    ASSUME Core, NEW t \in Task, k.state[t] = "WAIT_SEM", k.waitsem[t] = None
    PROVE  \E u \in Task : call[u].op = "delete" /\ call[u].tcb = t /\ u \in Deleter /\ t \notin timed
BY DEF Core, TargetOK, DeleteOK

LEMMA WaitirqEffect ==
    ASSUME Core, Known, Apart, NEW t \in Task, NEW e \in {"EINTR", "ETIMEDOUT"},
           k.state[t] = "WAIT_SEM", k.waitsem[t] # None, k' = sem_waitirq(k, t, e),
           timed' \subseteq timed, UNCHANGED <<call, have, held, total>>
    PROVE  AbortEff(t)
<1> DEFINE s == k.waitsem[t]
           a == RestoreAll(k, Holders(k, s), s, t)
           c == call[r]
<1>1. /\ Sound(k) /\ Calm(k) /\ r = Running(k) /\ k.lock[r] \in Depth(c)
      /\ k.waitsem \in [Task -> Sem \cup {None}]
  BY RunFacts DEF Sound, Own
<1>2. s \in Sem
  BY <1>1
<1>3. k' = Woken(a, t, s, e)
  BY DEF sem_waitirq
<1> HIDE DEF s, a
<1>4. Tuned(k, a, User)
  BY <1>1, <1>2, RestoreAllLemma DEF a
<1>5. \A w : Goes(k, k, w)
  BY <1>1, GoesSame
<1> DEFINE m == k
<1>6. m = k
  OBVIOUS
<1> HIDE DEF m
<1>7. Aborted(k', t, s) /\ k'.lock = m.lock
      /\ (m.lock[Running(m)] > 0 /\ Running(m) \notin User => Running(k') = Running(m))
  <2>1. k.waitsem[t] = s
    BY DEF s
  <2> QED
    BY <1>1, <1>2, <1>3, <1>4, <1>5, <1>6, <2>1, AbortedLemma
<1>8. call[r].op = "delete" => Running(k') = r
  BY <1>1, <1>6, <1>7, DeleterFacts
<1>9. call' = [call EXCEPT ![r] = c] /\ CallOK(c) /\ c = call[r] /\ k'.lock[r] \in Depth(c)
  BY <1>1, <1>6, <1>7, SameCall
<1> HIDE DEF c
<1>10. c.op = "delete" => Running(k') = r
  BY <1>8, <1>9
<1>11. k'.lock = k.lock /\ k.waitsem[t] = s
  BY <1>6, <1>7 DEF s
<1> QED
  BY <1>2, <1>7, <1>9, <1>10, <1>11, AbortLemma

LEMMA HandlerEffect ==
    ASSUME Core, Known, Apart, NEW t \in Task, sem_timeout(t) \/ IsrKill(t)
    PROVE  AbortEff(t) \/ RestEff(call[r]) \/ NullEff
<1>1. Sound(k) /\ Calm(k) /\ r = Running(k)
  BY RunFacts
<1>2. CASE sem_timeout(t)
  <2>1. /\ t \in timed /\ timed' \subseteq timed /\ UNCHANGED <<call, have, held, total>>
        /\ k' = IF t \in k.live THEN sem_waitirq(k, t, "ETIMEDOUT") ELSE k
    BY <1>2 DEF sem_timeout
  <2>2. CASE t \in k.live /\ k.state[t] = "WAIT_SEM"
    <3>1. k.waitsem[t] # None
      BY <2>1, <2>2, WindowLemma
    <3> DEFINE e == "ETIMEDOUT"
    <3>2. e \in {"EINTR", "ETIMEDOUT"} /\ k' = sem_waitirq(k, t, e)
      BY <2>1, <2>2
    <3> HIDE DEF e
    <3> QED
      BY <2>1, <2>2, <3>1, <3>2, WaitirqEffect
  <2>3. CASE ~(t \in k.live /\ k.state[t] = "WAIT_SEM")
    <3>1. k' = k
      BY <2>1, <2>3 DEF sem_waitirq
    <3>2. Goes(k, k', None) /\ Calm(k')
      BY <1>1, <3>1, GoesSame
    <3> QED
      BY <1>1, <2>1, <3>1, <3>2, RestSame
  <2> QED
    BY <2>2, <2>3
<1>3. CASE IsrKill(t)
  <2>1. /\ "isrkill" \in Api /\ k.state[t] = "WAIT_SEM" /\ k' = sem_waitirq(k, t, "EINTR")
        /\ UNCHANGED <<call, timed, have, held, total>>
    BY <1>3 DEF IsrKill
  <2>2. CASE k.waitsem[t] # None
    <3> DEFINE e == "EINTR"
    <3>2. e \in {"EINTR", "ETIMEDOUT"} /\ k' = sem_waitirq(k, t, e)
      BY <2>1
    <3> HIDE DEF e
    <3> QED
      BY <2>1, <2>2, <3>2, WaitirqEffect
  <2>3. CASE k.waitsem[t] = None
    <3>1. k' = [k EXCEPT !.panic = "nullsem"]
      BY <2>1, <2>3 DEF sem_waitirq
    <3>2. Deleter # {}
      BY <2>1, <2>3, WindowLemma
    <3> QED
      BY <2>1, <3>1, <3>2 DEF NullEff
  <2> QED
    BY <2>2, <2>3
<1> QED
  BY <1>2, <1>3

-----------------------------------------------------------------------------
(* The task part of sem_waitirq() and sem_recover().  The task that does   *)
(* it holds no count, so that it is not switched out on the way.           *)
DeleteCall(t) == [UserCall EXCEPT !.op = "delete", !.tcb = t]

(* m is k with pre-emption disabled, and with the priorities restored. *)
Recovered(m) ==
    /\ \A w : Goes(k, m, w)
    /\ Tuned(Locked(k), m, User) /\ Calm(m) /\ Running(m) = r
    /\ m.lock = [k.lock EXCEPT ![r] = @ + 1] /\ m.lock[r] > 0
    /\ m.count = k.count /\ m.waitsem = k.waitsem /\ m.err = k.err

LEMMA RecoveredLemma ==
    ASSUME Core, Apart, r \in Killer \cup Deleter, NEW s \in Sem, NEW t
    PROVE  LET l == Locked(k) IN
           /\ ~ Holds(l, r, s) /\ UpTo(l, r, s) = Holders(l, s) /\ Rest(l, r, s) = <<>>
           /\ Recovered(RestoreAll(l, Holders(l, s), s, t))
<1> DEFINE l == Locked(k)
           m == RestoreAll(l, Holders(l, s), s, t)
<1>1. Sound(k) /\ r = Running(k) /\ r \in Task /\ r \notin User
  BY RunFacts DEF Apart
<1>2. /\ \A w : Goes(k, l, w)
      /\ Calm(l) /\ Keeps(k, l) /\ Running(l) = r
      /\ l.lock = [k.lock EXCEPT ![r] = @ + 1] /\ l.lock[r] > 0
  BY <1>1, LockGoes
<1> HIDE DEF l
<1>3. Sound(l) /\ l.count = k.count /\ l.waitsem = k.waitsem /\ l.err = k.err
  BY <1>2, KeepsFields DEF Goes
<1>4. ~ Holds(l, r, s)
  BY <1>1, <1>3, HolderLemma DEF Sound, Own
<1>5. UpTo(l, r, s) = Holders(l, s) /\ Rest(l, r, s) = <<>>
  BY <1>4 DEF UpTo, Rest
<1>6. Tuned(l, m, User)
  BY <1>3, RestoreAllLemma
<1> HIDE DEF m
<1>7. /\ Calm(m) /\ Running(m) = r /\ m.lock = l.lock
      /\ m.count = l.count /\ m.waitsem = l.waitsem /\ m.err = l.err
  BY <1>1, <1>2, <1>6 DEF Tuned, Books
<1>8. ASSUME NEW w PROVE Goes(k, m, w)
  <2>1. Goes(l, m, w)
    BY <1>6, TunedGoes
  <2> QED
    BY <1>2, <2>1, GoesTrans
<1>9. Recovered(m)
  BY <1>2, <1>3, <1>6, <1>7, <1>8 DEF Recovered, l
<1> QED
  BY <1>4, <1>5, <1>9 DEF l, m

LEMMA RestoreNothing ==
    ASSUME NEW m, NEW s, NEW st
    PROVE  RestoreAll(m, <<>>, s, st) = m
<1> DEFINE q == <<>>
<1>1. Len(q) = 0
  OBVIOUS
<1> HIDE DEF q
<1>2. Restores(m, q, s, st, None)[0] = m
  BY <1>1, RestoresExists
<1>3. RestoreAll(m, q, s, st) = m
  BY <1>1, <1>2 DEF RestoreAll, RestoreBut
<1> QED
  BY <1>3 DEF q

LEMMA CancelLemma ==
    ASSUME Core, Apart, r \in Killer \cup Deleter, NEW t \in Task, NEW s \in Sem, k.waitsem[t] = s,
           NEW next \in {"kill", "delete"}, Cancel(t, next)
    PROVE  \E m : /\ Recovered(m)
                  /\ IF next = "kill"
                     THEN k' = Unlocked(Woken(m, t, s, "EINTR")) /\ call' = [call EXCEPT ![r] = UserCall]
                     ELSE k' = CancelEnd(m, t, s) /\ call' = [call EXCEPT ![r] = DeleteCall(t)]
<1> DEFINE l == Locked(k)
           m == RestoreAll(l, Holders(l, s), s, t)
           c == [UserCall EXCEPT !.op = "cancel", !.sem = s, !.tcb = t,
                    !.zero = Holds(l, r, s) /\ Zeroes(l, r),
                    !.rest = Rest(l, r, s), !.then = next]
<1>1. /\ ~ Holds(l, r, s) /\ UpTo(l, r, s) = Holders(l, s) /\ Rest(l, r, s) = <<>>
      /\ Recovered(m)
  BY RecoveredLemma
<1>2. r = Running(k) /\ Running(m) = r
  BY <1>1, RunFacts DEF Recovered
<1>3. /\ k' = CancelRest(m, r, c)
      /\ call' = [call EXCEPT ![r] = IF next = "kill" THEN UserCall ELSE DeleteCall(t)]
  BY <1>1, <1>2 DEF Cancel, Switched, Goto, DeleteCall
<1>4. ~ c.zero /\ c.rest = <<>> /\ c.sem = s /\ c.tcb = t /\ c.then = next
  BY <1>1 DEF UserCall
<1> HIDE DEF m, c
<1>5. RestoreAll(m, c.rest, c.sem, c.tcb) = m
  BY <1>4, RestoreNothing
<1>6. ~ \E i \in 1 .. Len(c.rest) : ~ Holds(m, c.rest[i], c.sem)
  <2>1. Len(c.rest) = 0
    BY <1>4
  <2> QED
    BY <2>1
<1>7. CancelRest(m, r, c) = IF next = "kill" THEN Unlocked(Woken(m, t, s, "EINTR"))
                            ELSE CancelEnd(m, t, s)
  BY <1>4, <1>5, <1>6 DEF CancelRest
<1> QED
  BY <1>1, <1>3, <1>7

(* kill() *)
LEMMA KillEffect ==
    ASSUME Core, Known, Apart, NEW t \in Task, kill(t)
    PROVE  AbortEff(t)
<1> DEFINE s == k.waitsem[t]
           e == "EINTR"
           y == "kill"
           c == UserCall
<1>1. /\ call[r].op = "user" /\ r \in Killer /\ k.waitsem[t] # None /\ Cancel(t, y)
      /\ UNCHANGED <<timed, have, held, total>>
  BY DEF kill, At
<1>2. /\ Sound(k) /\ r \in Task /\ r = Running(k) /\ k.lock[r] \in Depth(call[r])
      /\ k.lock \in [Task -> Nat] /\ k.waitsem \in [Task -> Sem \cup {None}]
  BY RunFacts DEF Sound, Own
<1>3. s \in Sem
  BY <1>1, <1>2
<1>4. y \in {"kill", "delete"} /\ e \in {"EINTR", "ETIMEDOUT"} /\ r \notin User /\ r \in Killer \cup Deleter
  BY <1>1 DEF Apart
<1> HIDE DEF s, e, y
<1>5. PICK m : /\ Recovered(m)
               /\ IF y = "kill"
                  THEN k' = Unlocked(Woken(m, t, s, "EINTR")) /\ call' = [call EXCEPT ![r] = UserCall]
                  ELSE k' = CancelEnd(m, t, s) /\ call' = [call EXCEPT ![r] = DeleteCall(t)]
  <2>1. k.waitsem[t] = s
    BY DEF s
  <2> QED
    BY <1>1, <1>3, <1>4, <2>1, CancelLemma
<1> DEFINE x == Woken(m, t, s, e)
<1>6. k' = Unlocked(x) /\ call' = [call EXCEPT ![r] = c]
  BY <1>5 DEF e, y
<1>7. /\ Aborted(x, t, s) /\ x.lock = m.lock /\ Running(x) = r
  <2> DEFINE l == Locked(k)
  <2>1. /\ \A w : Goes(k, l, w)
        /\ Calm(l) /\ Keeps(k, l) /\ Running(l) = r /\ l.state = k.state
        /\ l.lock = [k.lock EXCEPT ![r] = @ + 1] /\ l.lock[r] > 0
    BY <1>2, LockGoes
  <2>2. Tuned(l, m, User) /\ m.lock = l.lock
    BY <1>5, <2>1 DEF Recovered
  <2> HIDE DEF l
  <2>3. l.count = k.count /\ l.waitsem = k.waitsem
    BY <2>1, KeepsFields
  <2>4. k.waitsem[t] = s
    BY DEF s
  <2>5. /\ Aborted(x, t, s) /\ x.lock = l.lock
        /\ l.lock[Running(l)] > 0 /\ Running(l) \notin User => Running(x) = Running(l)
    <3>1. (\A w : Goes(k, l, w)) /\ Calm(l) /\ l.state = k.state
      BY <2>1
    <3>2. e \in {"EINTR", "ETIMEDOUT"}
      BY <1>4
    <3> QED
      BY <1>3, <2>2, <2>3, <2>4, <3>1, <3>2, AbortedLemma
  <2> QED
    BY <1>4, <2>1, <2>2, <2>5
<1> HIDE DEF x
<1>8. Sound(x) /\ x.lock[r] > 0
  BY <1>5, <1>7 DEF Aborted, Goes, Recovered
<1>9. /\ Goes(x, k', t) /\ Calm(k') /\ Keeps(x, k') /\ (\A u \in Task : Still(x, k', u))
      /\ k'.lock = [x.lock EXCEPT ![r] = @ - 1]
  BY <1>6, <1>7, <1>8, UnlockGoes
<1>10. k'.count = x.count /\ k'.waitsem = x.waitsem /\ k'.err = x.err /\ Goes(k, k', t)
  BY <1>7, <1>9, KeepsFields, GoesTrans DEF Aborted
<1>11. Aborted(k', t, s)
  BY <1>7, <1>9, <1>10 DEF Aborted, Still
<1>12. k.lock[r] = 0
  BY <1>1, <1>2 DEF Depth
<1>13. k'.lock[r] = 0 /\ \A u \in Task \ {r} : k'.lock[u] = k.lock[u]
  BY <1>2, <1>5, <1>7, <1>9, <1>12 DEF Recovered
<1>14. CallOK(c) /\ Depth(c) = {0} /\ c.op = "user"
  BY UserCallOK
<1> HIDE DEF c
<1>15. k.waitsem[t] = s
  BY DEF s
<1> QED
  BY <1>1, <1>3, <1>6, <1>11, <1>13, <1>14, <1>15, AbortLemma

-----------------------------------------------------------------------------
(* The three steps of a deletion. *)
StepsOn(c) ==
    /\ Sound(k') /\ Calm(k') /\ timed' \subseteq timed
    /\ call' = [call EXCEPT ![r] = c] /\ CallOK(c)
    /\ k'.lock[r] \in Depth(c) /\ \A u \in Task \ {r} : k'.lock[u] = k.lock[u]
    /\ \A u \in Task : k'.waitsem[u] # None =>
          k'.waitsem[u] = k.waitsem[u] /\ k'.err[u] = k.err[u] /\ Still(k, k', u)

LEMMA StepsTasks ==
    ASSUME Core, NEW c, StepsOn(c),
           \A u \in Task : TargetOK(k', call', u) /\ DeleteOK(k', call'[u], u, timed')
    PROVE  Core'
<1>1. r \in Task /\ call \in [Task -> Call] /\ k.waitsem[r] = None /\ timed \subseteq Task
  BY RunFacts DEF Core
<1>2. call'[r] = c /\ (\A u \in Task \ {r} : call'[u] = call[u]) /\ c \in Call
  BY <1>1 DEF StepsOn, CallOK
<1>3. call' \in [Task -> Call]
  BY <1>1, <1>2 DEF StepsOn
<1>4. ASSUME NEW u \in Task PROVE TaskOK(k', call'[u], u)
  <2>1. TaskOK(k, call[u], u)
    BY DEF Core
  <2>2. CASE u = r
    BY <1>1, <1>2, <2>2 DEF StepsOn, TaskOK, WaitOK
  <2>3. CASE u # r
    <3>1. call'[u] = call[u] /\ k'.lock[u] = k.lock[u]
      BY <1>2, <2>3 DEF StepsOn
    <3>2. WaitOK(k', call[u], u)
      <4>1. SUFFICES ASSUME k'.waitsem[u] # None
                     PROVE  /\ k'.state[u] = "WAIT_SEM" /\ call[u].op = "wait" /\ call[u].sem = k'.waitsem[u]
                            /\ k'.err[u] = "OK" /\ u \in User
        BY DEF WaitOK
      <4>2. k'.waitsem[u] = k.waitsem[u] /\ k'.err[u] = k.err[u] /\ Still(k, k', u)
        BY <4>1 DEF StepsOn
      <4> QED
        BY <2>1, <4>1, <4>2 DEF TaskOK, WaitOK, Still, SemState
    <3> QED
      BY <2>1, <3>1, <3>2 DEF TaskOK
  <2> QED
    BY <2>2, <2>3
<1> QED
  BY <1>1, <1>3, <1>4 DEF Core, StepsOn

LEMMA DeleteCallOK ==
    ASSUME NEW t \in Task
    PROVE  LET c == DeleteCall(t) IN
           CallOK(c) /\ Depth(c) = {1} /\ c.op = "delete" /\ c.tcb = t
<1> DEFINE c == DeleteCall(t)
<1>1. c \in Call /\ c.op = "delete" /\ c.tcb = t
  BY UserCallOK DEF DeleteCall, Call, UserCall
<1> HIDE DEF c
<1>2. CallOK(c) /\ Depth(c) = {1}
  BY <1>1 DEF CallOK, Depth, Ending
<1> QED
  BY <1>1, <1>2 DEF c

(* task_recover() has taken t off its semaphore. *)
LEMMA DeleteCore ==
    ASSUME Core, NEW t \in k.live \ {Idle, r}, r \in Deleter, call[r].op = "user",
           \A u \in Task : call[u].tcb # t, timed' = timed \ {t},
           Goes(k, k', t), Still(k, k', t), k'.waitsem[t] = None, Running(k') = r,
           StepsOn(DeleteCall(t))
    PROVE  Core'
<1> DEFINE c == DeleteCall(t)
<1>1. /\ r \in Task /\ call \in [Task -> Call] /\ t \in Task
      /\ \A u \in Task : call[u].op = "delete" => u = r
  BY RunFacts DEF Sound, Own
<1>2. c.op = "delete" /\ c.tcb = t /\ CallOK(c)
  BY <1>1, DeleteCallOK
<1> HIDE DEF c
<1>3. call'[r] = c /\ \A u \in Task \ {r} : call'[u] = call[u]
  BY <1>1 DEF StepsOn, c
<1>4. \A u \in Task : TargetOK(k, call, u) /\ DeleteOK(k, call[u], u, timed) /\ CallOK(call[u])
  BY DEF Core, TaskOK
<1>5. k.state[t] # "INVALID" /\ k'.state[t] # "INVALID" /\ k'.live = k.live
  <2>1. k.state[t] # "INVALID"
    BY <1>1, <1>4 DEF TargetOK
  <2> QED
    BY <2>1 DEF Still, SemState, Goes
<1>6. \A u \in Task \ {t} : Still(k, k', u) /\ k'.waitsem[u] = k.waitsem[u]
  BY DEF Goes
<1>7. ASSUME NEW u \in Task PROVE TargetOK(k', call', u)
  <2>1. CASE u = t
    BY <1>1, <1>2, <1>3, <1>5, <2>1 DEF TargetOK
  <2>2. CASE u # t
    <3>1. Still(k, k', u) /\ k'.waitsem[u] = k.waitsem[u]
      BY <1>6, <2>2
    <3>2. \A v \in Task : call[v].op \in Ending => call'[v] = call[v]
      BY <1>3 DEF Ending
    <3> QED
      BY <1>4, <1>5, <3>1, <3>2 DEF TargetOK, Still, SemState, Ending
  <2> QED
    BY <2>1, <2>2
<1>8. ASSUME NEW u \in Task PROVE DeleteOK(k', call'[u], u, timed')
  <2>1. CASE u = r
    BY <1>1, <1>2, <1>3, <1>5, <2>1 DEF DeleteOK
  <2>2. CASE u # r
    <3>1. call'[u] = call[u] /\ call[u].op # "delete" /\ call[u].tcb # t /\ DeleteOK(k, call[u], u, timed)
      BY <1>1, <1>3, <1>4, <2>2
    <3>2. call[u].op = "release" => call[u].tcb \in Task
      BY <1>4 DEF CallOK, Ending
    <3>3. call[u].op = "release" => k'.state[call[u].tcb] = "INVALID"
      BY <1>6, <3>1, <3>2 DEF DeleteOK, Still, SemState
    <3> QED
      BY <3>1, <3>3 DEF DeleteOK
  <2> QED
    BY <2>1, <2>2
<1>9. StepsOn(c)
  BY DEF c
<1> QED
  BY <1>7, <1>8, <1>9, StepsTasks

LEMMA DeleteKnown ==
    ASSUME Core, Known, NEW t \in Task \ {r}, call[r].op = "user",
           Goes(k, k', t), call' = [call EXCEPT ![r] = DeleteCall(t)], have' = have, held' = held
    PROVE  Known'
<1> DEFINE c == DeleteCall(t)
<1>1. /\ r \in Task /\ call \in [Task -> Call] /\ k.live \subseteq Task /\ CallOK(call[r])
  BY RunFacts DEF Sound, Own
<1>2. c.op = "delete" /\ c.tcb = t
  BY DeleteCallOK
<1> HIDE DEF c
<1>3. call'[r] = c /\ \A u \in Task \ {r} : call'[u] = call[u]
  BY <1>1 DEF c
<1>4. call[r].tcb = None /\ None \notin Task
  BY <1>1, SemAssumption DEF CallOK, Ending
<1>5. ASSUME NEW u \in k.live PROVE Knows(k', call', have', held', u)
  <2>1. Knows(k, call, have, held, u) /\ u \in Task
    BY <1>1 DEF Known
  <2>2. CASE u = r
    BY <1>2, <1>3, <2>1, <2>2 DEF Knows
  <2>3. CASE u = t
    BY <1>1, <1>2, <1>3, <2>1, <2>3 DEF Knows
  <2>4. CASE u \notin {r, t}
    <3>1. k'.waitsem[u] = k.waitsem[u] /\ k'.err[u] = k.err[u] /\ call'[u] = call[u]
      BY <1>3, <2>1, <2>4 DEF Goes
    <3>2. (\A v \in Task : call'[v].tcb # u) => (\A v \in Task : call[v].tcb # u)
      BY <1>1, <1>3, <1>4, <2>1
    <3> QED
      BY <2>1, <3>1, <3>2 DEF Knows
  <2> QED
    BY <2>2, <2>3, <2>4
<1>6. k'.live = k.live
  BY DEF Goes
<1> QED
  BY <1>5, <1>6 DEF Known

(* A step that keeps the invariant, and what it does to the counts. *)
Quiet == k'.panic = k.panic \/ k'.panic = "overrun"
DeleteEff ==
    /\ Core' /\ Known' /\ Quiet
    /\ BSame \/ (\E t \in Task, s \in Sem : BAbort(t, s)) \/ \E t \in Task : BDie(t)

LEMMA DeleteEffect ==
    ASSUME Core, Known, Apart, NEW t \in Task, Delete(t)
    PROVE  DeleteEff
<1> DEFINE c == DeleteCall(t)
           s == k.waitsem[t]
           y == "delete"
<1>1. /\ call[r].op = "user" /\ r \in Deleter /\ t \in k.live \ {Idle, r} /\ timed' = timed \ {t}
      /\ \A u \in Task : call[u].tcb # t
      /\ IF k.state[t] = "WAIT_SEM" THEN Cancel(t, y) ELSE k' = Locked(k) /\ call' = [call EXCEPT ![r] = c]
      /\ UNCHANGED <<have, held, total>>
  BY DEF Delete, At, Goto, DeleteCall
<1>2. /\ Sound(k) /\ r \in Task /\ r = Running(k) /\ k.lock[r] \in Depth(call[r])
      /\ k.lock \in [Task -> Nat] /\ k.waitsem \in [Task -> Sem \cup {None}]
  BY RunFacts DEF Sound, Own
<1>3. k.lock[r] = 0 /\ CallOK(c) /\ Depth(c) = {1}
  BY <1>1, <1>2, DeleteCallOK DEF Depth
<1> HIDE DEF y
<1>4. ASSUME Goes(k, k', t), Still(k, k', t), k'.waitsem[t] = None, Running(k') = r,
             k'.lock = [k.lock EXCEPT ![r] = @ + 1], Calm(k'), call' = [call EXCEPT ![r] = c]
      PROVE  Core' /\ Known' /\ Quiet
  <2>1. k'.lock[r] \in Depth(c) /\ \A u \in Task \ {r} : k'.lock[u] = k.lock[u]
    BY <1>2, <1>3, <1>4
  <2>2. StepsOn(c)
    <3> HIDE DEF c
    <3> QED
      BY <1>1, <1>3, <1>4, <2>1 DEF StepsOn, Goes
  <2>3. Core'
    BY <1>1, <1>4, <2>2, DeleteCore
  <2>4. Known'
    BY <1>1, <1>4, DeleteKnown
  <2> QED
    BY <1>4, <2>3, <2>4 DEF Quiet, Goes
<1>5. CASE k.state[t] # "WAIT_SEM"
  <2>1. k' = Locked(k) /\ call' = [call EXCEPT ![r] = c] /\ k.waitsem[t] = None
    BY <1>1, <1>5 DEF Core, TaskOK, WaitOK
  <2>2. /\ Goes(k, k', t) /\ Calm(k') /\ Keeps(k, k') /\ Running(k') = r /\ k'.state = k.state
        /\ k'.lock = [k.lock EXCEPT ![r] = @ + 1]
    BY <1>2, <2>1, LockGoes
  <2>3. k'.waitsem = k.waitsem /\ k'.count = k.count
    BY <2>2, KeepsFields
  <2>4. Core' /\ Known' /\ Quiet
    <3> HIDE DEF c
    <3> QED
      BY <1>4, <2>1, <2>2, <2>3 DEF Still
  <2>5. BSame
    BY <1>1, <2>3 DEF BSame
  <2> QED
    BY <2>4, <2>5 DEF DeleteEff
<1>6. CASE k.state[t] = "WAIT_SEM"
  <2>1. s \in Sem
    <3>1. k.waitsem[t] # None
      BY <1>1, <1>6, WindowLemma
    <3> QED
      BY <1>2, <3>1
  <2>2. y \in {"kill", "delete"} /\ r \in Killer \cup Deleter /\ Cancel(t, y)
    BY <1>1, <1>6 DEF y
  <2>3. PICK m : /\ Recovered(m)
                 /\ IF y = "kill"
                    THEN k' = Unlocked(Woken(m, t, s, "EINTR")) /\ call' = [call EXCEPT ![r] = UserCall]
                    ELSE k' = CancelEnd(m, t, s) /\ call' = [call EXCEPT ![r] = c]
    <3> HIDE DEF s
    <3>1. k.waitsem[t] = s
      BY DEF s
    <3> QED
      BY <2>1, <2>2, <3>1, CancelLemma
  <2>4. k' = CancelEnd(m, t, s) /\ call' = [call EXCEPT ![r] = c]
    BY <2>3 DEF y
  <2>5. Sound(m) /\ m.state[t] = "WAIT_SEM"
    <3>1. Sound(m) /\ Still(k, m, t)
      BY <2>3, SemAssumption DEF Recovered, Goes
    <3> QED
      BY <1>6, <3>1 DEF Still, SemState
  <2>6. OwnField \subseteq DOMAIN m /\ m.count \in [Sem -> Int]
        /\ m.waitsem \in [Task -> Sem \cup {None}] /\ m.err \in [Task -> {"OK", "EINTR", "ETIMEDOUT"}]
    BY <2>5 DEF Sound, Own
  <2>7. /\ Alike(m, k') /\ k'.holders = m.holders /\ k'.free = m.free /\ k'.pend = m.pend
        /\ k'.live = m.live /\ k'.panic = m.panic /\ k'.err = m.err
        /\ k'.count = [m.count EXCEPT ![s] = @ + 1] /\ k'.waitsem = [m.waitsem EXCEPT ![t] = None]
    BY <2>4, <2>6 DEF OwnField, Alike, CancelEnd
  <2>8. /\ k'.count \in [Sem -> Int] /\ k'.waitsem \in [Task -> Sem \cup {None}]
        /\ k'.waitsem[t] = None /\ \A u \in Task \ {t} : k'.waitsem[u] = m.waitsem[u]
    BY <2>1, <2>6, <2>7
  <2>9. Goes(m, k', t) /\ Running(k') = Running(m) /\ (Calm(m) => Calm(k'))
    BY <2>5, <2>6, <2>7, <2>8, EditGoes
  <2>10. Goes(k, k', t) /\ Running(k') = r /\ Calm(k') /\ k'.lock = [k.lock EXCEPT ![r] = @ + 1]
    BY <2>3, <2>7, <2>9, GoesTrans DEF Recovered, Alike
  <2>11. Still(k, k', t)
    BY <1>6, <2>5, <2>7 DEF Alike, Still
  <2>12. Core' /\ Known' /\ Quiet
    <3> HIDE DEF c
    <3> QED
      BY <1>4, <2>4, <2>8, <2>10, <2>11
  <2>13. BAbort(t, s)
    BY <1>1, <2>3, <2>7 DEF BAbort, Recovered
  <2> QED
    BY <2>1, <2>12, <2>13 DEF DeleteEff
<1> QED
  BY <1>5, <1>6

(* The TCB leaves its list. *)
LEMMA UnlinkEffect ==
    ASSUME Core, Known, have \in Tally, held \in Tally, DeleteUnlink
    PROVE  DeleteEff
<1> DEFINE o == call[r]
           t == o.tcb
           c == [o EXCEPT !.op = "release"]
           a == [dq_rem(k, t, ListOf(k.state[t])) EXCEPT !.state[t] = "INVALID"]
           z == [s \in Sem |-> 0]
<1>1. /\ o.op = "delete" /\ k' = Unlocked(a) /\ call' = [call EXCEPT ![r] = c]
      /\ total' = [s \in Sem |-> total[s] - have[t][s]]
      /\ have' = [have EXCEPT ![t] = z] /\ held' = [held EXCEPT ![t] = z] /\ timed' = timed
  BY DEF DeleteUnlink, At, Goto
<1>2. /\ Sound(k) /\ r \in Task /\ r = Running(k) /\ k.lock[r] \in Depth(o) /\ CallOK(o)
      /\ k.lock \in [Task -> Nat] /\ call \in [Task -> Call] /\ k.live \subseteq Task
      /\ (\A u \in Task : k.state[u] = "RUNNING" <=> u = r)
      /\ \A u \in Task : call[u].op = "delete" => u = r
  BY RunFacts DEF Sound, Own
<1>3. /\ t \in Task \ {Idle, r} /\ k.waitsem[t] = None /\ k.state[t] \notin {"INVALID", "RUNNING"}
      /\ k.lock[r] = 1
  <2>1. DeleteOK(k, o, r, timed)
    BY <1>2 DEF Core
  <2> QED
    BY <1>1, <1>2, <2>1 DEF DeleteOK, Depth
<1>4. Ends(k, a, t)
  <2>1. Good(k)
    BY <1>2 DEF Sound
  <2> HIDE DEF t
  <2> QED
    BY <1>3, <2>1, EndsLemma
<1> HIDE DEF a
<1>5. /\ Sound(a) /\ a.lock = k.lock /\ Running(a) = r /\ Keeps(k, a)
      /\ a.state = [k.state EXCEPT ![t] = "INVALID"]
  <2>1. Good(a) /\ a.prio = k.prio /\ Own(a)
    BY <1>2, <1>4, FrameOwn DEF Ends, Sound
  <2>2. Sound(a)
    BY <1>2, <2>1 DEF Sound, Above
  <2>3. Keeps(k, a)
    BY <1>2, <1>4, FrameOwn DEF Ends, Sound, Keeps
  <2> QED
    BY <1>2, <1>4, <2>2, <2>3 DEF Ends
<1>6. /\ Goes(a, k', None) /\ Calm(k') /\ Keeps(a, k') /\ (\A u \in Task : Still(a, k', u))
      /\ k'.lock = [k.lock EXCEPT ![r] = @ - 1]
  <2>1. a.lock[Running(a)] > 0
    BY <1>3, <1>5
  <2> QED
    BY <1>1, <1>5, <2>1, UnlockGoes
<1>7. /\ k'.count = k.count /\ k'.waitsem = k.waitsem /\ k'.err = k.err /\ k'.live = k.live
      /\ k'.panic = k.panic
  <2>1. a.count = k.count /\ a.waitsem = k.waitsem /\ a.err = k.err /\ a.live = k.live /\ a.panic = k.panic
    BY <1>5, KeepsFields
  <2>2. k'.count = a.count /\ k'.waitsem = a.waitsem /\ k'.err = a.err /\ k'.live = a.live
        /\ k'.panic = a.panic
    BY <1>6, KeepsFields
  <2> QED
    BY <2>1, <2>2
<1>8. k'.state[t] = "INVALID" /\ \A u \in Task \ {t} : Still(k, k', u)
  <2>1. k.state \in [Task -> TState]
    BY RunFacts
  <2>2. a.state[t] = "INVALID" /\ \A u \in Task \ {t} : a.state[u] = k.state[u]
    BY <1>3, <1>5, <2>1
  <2> QED
    BY <1>3, <1>6, <2>2 DEF Still, SemState
<1>9. c \in Call /\ c.op = "release" /\ c.tcb = t
  <2>1. o \in Call
    BY <1>2 DEF CallOK
  <2> HIDE DEF o
  <2> QED
    BY <2>1 DEF Call, t
<1> HIDE DEF c
<1>10. CallOK(c) /\ Depth(c) = {0}
  BY <1>3, <1>9 DEF CallOK, Depth, Ending
<1>11. k'.lock[r] = 0 /\ \A u \in Task \ {r} : k'.lock[u] = k.lock[u]
  BY <1>2, <1>3, <1>6
<1>12. StepsOn(c)
  <2>1. Sound(k')
    BY <1>6 DEF Goes
  <2>2. ASSUME NEW u \in Task, k'.waitsem[u] # None
        PROVE  k'.waitsem[u] = k.waitsem[u] /\ k'.err[u] = k.err[u] /\ Still(k, k', u)
    BY <1>3, <1>7, <1>8, <2>2
  <2> QED
    BY <1>1, <1>6, <1>10, <1>11, <2>1, <2>2 DEF StepsOn
<1>13. call'[r] = c /\ \A u \in Task \ {r} : call'[u] = call[u]
  BY <1>1, <1>2
<1>14. \A u \in Task : TargetOK(k, call, u) /\ DeleteOK(k, call[u], u, timed) /\ CallOK(call[u])
  BY DEF Core, TaskOK
<1>15. ASSUME NEW u \in Task PROVE TargetOK(k', call', u)
  <2>1. CASE u = t
    BY <1>2, <1>8, <1>9, <1>13, <2>1 DEF TargetOK
  <2>2. CASE u # t
    <3>1. Still(k, k', u) /\ TargetOK(k, call, u)
      BY <1>8, <1>14, <2>2
    <3>2. ~(k.state[u] = "WAIT_SEM" /\ k.waitsem[u] = None)
      BY <1>2, <2>2, <3>1 DEF TargetOK
    <3>3. \A v \in Task : call[v].op = "release" => call'[v] = call[v]
      BY <1>1, <1>13
    <3> QED
      BY <1>7, <3>1, <3>2, <3>3 DEF TargetOK, Still, SemState
  <2> QED
    BY <2>1, <2>2
<1>16. ASSUME NEW u \in Task PROVE DeleteOK(k', call'[u], u, timed')
  <2>1. CASE u = r
    BY <1>8, <1>9, <1>13, <2>1 DEF DeleteOK
  <2>2. CASE u # r
    <3>1. call'[u] = call[u] /\ call[u].op # "delete" /\ DeleteOK(k, call[u], u, timed)
      BY <1>2, <1>13, <1>14, <2>2
    <3>2. call[u].op = "release" => call[u].tcb \in Task
      BY <1>14 DEF CallOK, Ending
    <3>3. call[u].op = "release" => k'.state[call[u].tcb] = "INVALID"
      BY <1>8, <3>1, <3>2 DEF DeleteOK, Still, SemState
    <3> QED
      BY <3>1, <3>3 DEF DeleteOK
  <2> QED
    BY <2>1, <2>2
<1>17. Core'
  BY <1>12, <1>15, <1>16, StepsTasks
<1>18. ASSUME NEW u \in k.live PROVE Knows(k', call', have', held', u)
  <2>1. Knows(k, call, have, held, u) /\ u \in Task
    BY <1>2, <1>18 DEF Known
  <2>2. CASE u = t
    <3>1. have'[u] = z /\ held'[u] = z
      BY <1>1, <2>1, <2>2 DEF Tally
    <3>2. ~ \A v \in Task : call'[v].tcb # u
      BY <1>2, <1>9, <1>13, <2>2
    <3>3. call'[u] = call[u] /\ (call[u].op \in {"reset", "post"} => call[u].sem \in Sem)
      BY <1>3, <1>13, <1>14, <2>2 DEF CallOK
    <3> QED
      BY <3>1, <3>2, <3>3 DEF Knows
  <2>3. CASE u # t
    <3>1. have'[u] = have[u] /\ held'[u] = held[u]
      BY <1>1, <2>1, <2>3 DEF Tally
    <3>2. \A v \in Task : call'[v].tcb = call[v].tcb
      BY <1>9, <1>13
    <3>3. CASE u = r
      BY <1>1, <1>9, <1>13, <2>1, <3>1, <3>2, <3>3 DEF Knows
    <3>4. CASE u # r
      BY <1>7, <1>13, <2>1, <3>1, <3>2, <3>4 DEF Knows
    <3> QED
      BY <3>3, <3>4
  <2> QED
    BY <2>2, <2>3
<1>19. Known'
  BY <1>7, <1>18 DEF Known
<1>20. BDie(t)
  BY <1>1, <1>3, <1>7 DEF BDie
<1> QED
  BY <1>3, <1>7, <1>17, <1>19, <1>20 DEF DeleteEff, Quiet

(* The TCB is released. *)
LEMMA ReleaseEffect ==
    ASSUME Core, Known, DeleteRelease
    PROVE  DeleteEff
<1> DEFINE t == call[r].tcb
           c == UserCall
           n == k.live \ {t}
<1>1. /\ call[r].op = "release" /\ k' = [k EXCEPT !.live = n] /\ call' = [call EXCEPT ![r] = c]
      /\ UNCHANGED <<timed, have, held, total>>
  BY DEF DeleteRelease, At, Return, Goto
<1>2. /\ Sound(k) /\ Calm(k) /\ r \in Task /\ k.lock[r] \in Depth(call[r]) /\ CallOK(call[r])
      /\ call \in [Task -> Call] /\ k.live \subseteq Task
      /\ \A u \in Task : call[u].op = "delete" => u = r
  BY RunFacts DEF Sound, Own
<1>3. OwnField \subseteq DOMAIN k
  BY <1>2 DEF Sound, Own
<1>4. /\ Alike(k, k') /\ k'.holders = k.holders /\ k'.free = k.free /\ k'.pend = k.pend
      /\ k'.live = n /\ k'.panic = k.panic /\ k'.err = k.err
      /\ k'.count = k.count /\ k'.waitsem = k.waitsem /\ OwnField \subseteq DOMAIN k'
  BY <1>1, <1>3 DEF OwnField, Alike
<1>5. Sound(k')
  <2>1. Good(k') /\ Above(k')
    BY <1>2, <1>4, AlikeLemma DEF Sound, Above, Alike
  <2>2. HoldersOK(k')
    <3>1. Lens(k') = Lens(k)
      BY <1>4 DEF Lens
    <3> QED
      BY <1>2, <1>4, <3>1 DEF Sound, Own, HoldersOK
  <2>3. PendOK(k')
    BY <1>2, <1>4 DEF Sound, Own, PendOK
  <2>4. Own(k')
    BY <1>2, <1>4, <2>2, <2>3 DEF Sound, Own
  <2> QED
    BY <2>1, <2>4 DEF Sound
<1>6. Calm(k')
  BY <1>2, <1>4, AlikeCalm
<1>7. CallOK(c) /\ Depth(c) = {0} /\ c.op = "user" /\ c.tcb = None
  BY UserCallOK
<1> HIDE DEF c
<1>8. StepsOn(c)
  <2>1. k'.lock = k.lock /\ k.lock[r] = 0 /\ \A u \in Task : Still(k, k', u)
    BY <1>1, <1>2, <1>4 DEF Alike, Depth, Still
  <2> QED
    BY <1>1, <1>4, <1>5, <1>6, <1>7, <2>1 DEF StepsOn
<1>9. call'[r] = c /\ \A u \in Task \ {r} : call'[u] = call[u]
  BY <1>1, <1>2
<1>10. \A u \in Task : TargetOK(k, call, u) /\ DeleteOK(k, call[u], u, timed)
  BY DEF Core
<1>11. ASSUME NEW u \in Task PROVE TargetOK(k', call', u)
  <2>1. k'.state[u] = k.state[u] /\ k'.waitsem[u] = k.waitsem[u] /\ TargetOK(k, call, u)
    BY <1>4, <1>10 DEF Alike
  <2>2. \A v \in Task : call[v].op = "delete" => call'[v] = call[v]
    BY <1>1, <1>9
  <2>3. u \in n => u # t /\ u \in k.live
    OBVIOUS
  <2>4. u # t => \A v \in Task : call[v].tcb = u => call'[v] = call[v]
    BY <1>9
  <2> QED
    BY <1>4, <2>1, <2>2, <2>3, <2>4 DEF TargetOK
<1>12. ASSUME NEW u \in Task PROVE DeleteOK(k', call'[u], u, timed')
  <2>1. CASE u = r
    BY <1>7, <1>9, <2>1 DEF DeleteOK
  <2>2. CASE u # r
    <3>1. call'[u] = call[u] /\ call[u].op # "delete" /\ DeleteOK(k, call[u], u, timed)
      BY <1>2, <1>9, <1>10, <2>2
    <3> QED
      BY <1>4, <3>1 DEF DeleteOK, Alike
  <2> QED
    BY <2>1, <2>2
<1>13. Core'
  BY <1>8, <1>11, <1>12, StepsTasks
<1>14. ASSUME NEW u \in n PROVE Knows(k', call', have', held', u)
  <2>1. Knows(k, call, have, held, u) /\ u \in Task /\ u # t
    BY <1>2 DEF Known
  <2>2. CASE u = r
    <3>1. have[r] = held[r]
      BY <1>1, <2>2, RunKnows
    <3> QED
      BY <1>1, <1>7, <1>9, <2>2, <3>1 DEF Knows
  <2>3. CASE u # r
    <3>1. (\A v \in Task : call'[v].tcb # u) => \A v \in Task : call[v].tcb # u
      BY <1>9, <2>1
    <3> QED
      BY <1>1, <1>4, <1>9, <2>1, <2>3, <3>1 DEF Knows
  <2> QED
    BY <2>2, <2>3
<1>15. Known'
  BY <1>4, <1>14 DEF Known
<1>16. BSame
  BY <1>1, <1>4 DEF BSame
<1> QED
  BY <1>4, <1>13, <1>15, <1>16 DEF DeleteEff, Quiet

-----------------------------------------------------------------------------
(* Every step. *)
Booked ==
    \/ BSame
    \/ \E s \in Sem : \/ BTake(s) \/ BWait(s)
                      \/ \E st : BBring(s, st) \/ BPost(s, st)
                      \/ \E n \in Nat : BReset(s, n)
    \/ \E t \in Task, s \in Sem : BAbort(t, s)
    \/ \E t \in Task : BDie(t)
StepEff == Core' /\ Known' /\ (Quiet \/ NullEff) /\ Booked

LEMMA PlainStep ==
    ASSUME Core, Known, NEW w, NEW c, Plain(w, c), Learns(w), Booked
    PROVE  StepEff
<1>1. Core' /\ Known'
  BY PlainCore, KnownStep
<1>2. Quiet
  BY DEF Plain, Acts, Goes, Quiet
<1> QED
  BY <1>1, <1>2 DEF StepEff

LEMMA TakeLearns ==
    ASSUME Core, Known, have \in Tally, held \in Tally, NEW s \in Sem, TakeEff(s)
    PROVE  Learns(None)
<1>1. /\ Plain(None, call[r]) /\ have' = Add(have, r, s, 1) /\ held' = Add(held, r, s, 1)
      /\ call[r].op = "user"
  BY DEF TakeEff, BTake
<1>2. r \in Task /\ None \notin Task /\ call \in [Task -> Call]
  BY RunFacts, SemAssumption
<1>3. call'[r] = call[r]
  BY <1>1, <1>2 DEF Plain, Acts
<1>4. /\ Entered(have, have', r, s, have[r][s] + 1)
      /\ Entered(held, held', r, s, held[r][s] + 1)
  BY <1>1, <1>2, AddOne
<1>5. ASSUME r \in k.live PROVE Knows(k', call', have', held', r)
  <2>1. have[r] = held[r]
    BY <1>1, <1>5, RunKnows
  <2>2. have'[r] = held'[r]
    BY <1>4, <2>1 DEF Entered
  <2> QED
    BY <1>1, <1>3, <2>2, KnowsRun
<1> QED
  BY <1>2, <1>4, <1>5 DEF Learns, Entered

LEMMA WaitLearns ==
    ASSUME Core, Known, NEW s \in Sem, WaitEff(s)
    PROVE  Learns(r)
<1> DEFINE c == WaitCall(s)
<1>1. Plain(r, c) /\ have' = have /\ held' = held /\ call[r].op = "user"
  BY DEF WaitEff, BWait
<1>2. c.op = "wait"
  BY WaitCallOK
<1>3. r \in Task /\ call \in [Task -> Call]
  BY RunFacts
<1> HIDE DEF c
<1>4. call'[r] = c /\ k'.waitsem[r] # None
  BY <1>1, <1>3 DEF Plain, Acts
<1>5. ASSUME r \in k.live PROVE Knows(k', call', have', held', r)
  <2>1. have'[r] = held'[r]
    BY <1>1, <1>5, RunKnows
  <2> QED
    BY <1>2, <1>4, <2>1, KnowsRun
<1> QED
  BY <1>1, <1>5 DEF Learns

LEMMA RestStep ==
    ASSUME Core, Known, NEW c, RestEff(c)
    PROVE  StepEff
<1>1. Plain(None, c) /\ Learns(None) /\ Booked
  BY DEF RestEff, Booked
<1> QED
  BY <1>1, PlainStep

LEMMA AbortStep ==
    ASSUME Core, Known, NEW t, AbortEff(t)
    PROVE  StepEff
<1>1. PICK s, c : s \in Sem /\ Plain(t, c) /\ BAbort(t, s) /\ Learns(t)
  BY DEF AbortEff
<1>2. Booked
  BY <1>1 DEF Booked, BAbort
<1> QED
  BY <1>1, <1>2, PlainStep

LEMMA NullStep ==
    ASSUME Core, Known, NullEff
    PROVE  StepEff
<1>1. k' = [k EXCEPT !.panic = "nullsem"] /\ UNCHANGED <<call, timed, have, held, total>>
  BY DEF NullEff
<1>2. Sound(k) /\ Calm(k) /\ OwnField \subseteq DOMAIN k
  BY DEF Core, Sound, Own
<1>3. /\ Alike(k, k') /\ k'.holders = k.holders /\ k'.free = k.free /\ k'.pend = k.pend
      /\ k'.live = k.live /\ k'.panic \in Panics /\ k'.err = k.err
      /\ k'.count = k.count /\ k'.waitsem = k.waitsem /\ OwnField \subseteq DOMAIN k'
  BY <1>1, <1>2 DEF OwnField, Alike, Panics
<1>4. Sound(k')
  <2>1. Good(k') /\ Above(k')
    BY <1>2, <1>3, AlikeLemma DEF Sound, Above, Alike
  <2>2. HoldersOK(k')
    <3>1. Lens(k') = Lens(k)
      BY <1>3 DEF Lens
    <3> QED
      BY <1>2, <1>3, <3>1 DEF Sound, Own, HoldersOK
  <2>3. PendOK(k')
    BY <1>2, <1>3 DEF Sound, Own, PendOK
  <2>4. Own(k')
    BY <1>2, <1>3, <2>2, <2>3 DEF Sound, Own
  <2> QED
    BY <2>1, <2>4 DEF Sound
<1>5. Calm(k')
  BY <1>2, <1>3, AlikeCalm
<1>6. Running(k') = Running(k) /\ k'.state = k.state /\ k'.lock = k.lock
  BY <1>3 DEF Alike, Running, Rtr
<1>7. ASSUME NEW u \in Task
      PROVE  TaskOK(k', call'[u], u) /\ TargetOK(k', call', u) /\ DeleteOK(k', call'[u], u, timed')
  <2>1. TaskOK(k, call[u], u) /\ TargetOK(k, call, u) /\ DeleteOK(k, call[u], u, timed)
    BY DEF Core
  <2> QED
    BY <1>1, <1>3, <1>6, <2>1 DEF TaskOK, WaitOK, TargetOK, DeleteOK
<1>8. Core'
  BY <1>1, <1>4, <1>5, <1>7 DEF Core
<1>9. Known'
  BY <1>1, <1>3 DEF Known, Knows
<1>10. Booked
  BY <1>1, <1>3 DEF Booked, BSame
<1> QED
  BY <1>8, <1>9, <1>10 DEF StepEff

LEMMA NextStep ==
    ASSUME Core, Known, Apart, have \in Tally, held \in Tally, total \in [Sem -> Int], Next
    PROVE  StepEff
<1>1. CASE WaitEnd \/ DogEnd
  <2>1. RestEff(call'[r])
    BY <1>1, WaitEndEffect DEF Tally
  <2> DEFINE c == call'[r]
  <2> HIDE DEF c
  <2>2. RestEff(c)
    BY <2>1 DEF c
  <2> QED
    BY <2>2, RestStep
<1>2. CASE PostResume
  <2> DEFINE c == call'[r]
  <2>1. RestEff(c)
    BY <1>2, PostResumeEffect
  <2> HIDE DEF c
  <2> QED
    BY <2>1, RestStep
<1>3. CASE CancelResume
  BY <1>3, RunFacts DEF CancelResume, At, CallOK
<1>4. CASE DeleteUnlink \/ DeleteRelease \/ \E t \in Task : Delete(t)
  <2>1. DeleteEff
    BY <1>4, UnlinkEffect, ReleaseEffect, DeleteEffect
  <2> QED
    BY <2>1 DEF DeleteEff, StepEff, Booked
<1>5. CASE ResetPost
  <2>1. PICK s \in Sem : PostEff(s)
    BY <1>5, ResetPostEffect
  <2>2. PICK st, c : Plain(st, c) /\ BPost(s, st) /\ Learns(st)
    BY <2>1 DEF PostEff
  <2>3. Booked
    BY <2>2 DEF Booked
  <2> QED
    BY <2>2, <2>3, PlainStep
<1>6. CASE ResetEnd
  <2>1. CASE RestEff(UserCall)
    <3> DEFINE c == UserCall
    <3>1. RestEff(c)
      BY <2>1
    <3> HIDE DEF c
    <3> QED
      BY <3>1, RestStep
  <2>2. CASE \E s \in Sem, n \in Nat : ResetEff(s, n)
    <3>1. PICK s \in Sem, n \in Nat : ResetEff(s, n)
      BY <2>2
    <3> DEFINE c == UserCall
    <3>2. Plain(None, c) /\ Learns(None) /\ Booked
      BY <3>1 DEF ResetEff, Booked
    <3> HIDE DEF c
    <3> QED
      BY <3>2, PlainStep
  <2> QED
    BY <1>6, <2>1, <2>2, ResetEndEffect
<1>7. CASE Sleep \/ \E t \in Task : Wake(t)
  <2> DEFINE c == call[r]
  <2>1. RestEff(c)
    BY <1>7, SleepEffect
  <2> HIDE DEF c
  <2> QED
    BY <2>1, RestStep
<1>8. ASSUME NEW s \in Sem, Take(s) \/ TakeForIsr(s) PROVE StepEff
  <2> DEFINE c == call[r]
  <2>1. TakeEff(s)
    BY <1>8, TakeEffect
  <2>2. Plain(None, c) /\ Booked /\ Learns(None)
    BY <2>1, TakeLearns DEF TakeEff, Booked
  <2> HIDE DEF c
  <2> QED
    BY <2>2, PlainStep
<1>9. ASSUME NEW s \in Sem, (\E dog \in BOOLEAN : Wait(s, dog)) \/ WaitForIsr(s) PROVE StepEff
  <2> DEFINE c == WaitCall(s)
             w == r
  <2>1. WaitEff(s)
    BY <1>9, WaitEffect
  <2>2. Plain(w, c) /\ Booked /\ Learns(w)
    BY <2>1, WaitLearns DEF WaitEff, Booked
  <2> HIDE DEF c, w
  <2> QED
    BY <2>2, PlainStep
<1>10. ASSUME NEW s \in Sem, Post(s) PROVE StepEff
  <2>1. PICK st, c : Plain(st, c) /\ BPost(s, st) /\ Learns(st)
    BY <1>10, PostEffect DEF PostEff
  <2>2. Booked
    BY <2>1 DEF Booked
  <2> QED
    BY <2>1, <2>2, PlainStep
<1>11. ASSUME NEW s \in Sem, IsrPost(s) \/ sem_post_from_isr(s) PROVE StepEff
  <2> DEFINE c == call[r]
  <2>1. PICK st : Plain(st, c) /\ BBring(s, st) /\ Learns(st)
    BY <1>11, IsrPostEffect, PostFromIsrEffect DEF BringEff
  <2>2. Booked
    BY <2>1 DEF Booked
  <2> HIDE DEF c
  <2> QED
    BY <2>1, <2>2, PlainStep
<1>12. ASSUME NEW s \in Sem, NEW n \in 1 .. InitCount, Reset(s, n) PROVE StepEff
  <2> DEFINE c == ResetCall(s, n)
  <2>1. RestEff(c)
    BY <1>12, ResetEffect
  <2> HIDE DEF c
  <2> QED
    BY <2>1, RestStep
<1>13. ASSUME NEW t \in Task, sem_timeout(t) \/ IsrKill(t) PROVE StepEff
  <2> DEFINE c == call[r]
  <2>1. AbortEff(t) \/ RestEff(c) \/ NullEff
    BY <1>13, HandlerEffect
  <2> HIDE DEF c
  <2> QED
    BY <2>1, AbortStep, RestStep, NullStep
<1>14. ASSUME NEW t \in Task, kill(t) PROVE StepEff
  BY <1>14, KillEffect, AbortStep
<1> QED
  BY <1>1, <1>2, <1>3, <1>4, <1>5, <1>6, <1>7, <1>8, <1>9, <1>10, <1>11, <1>12, <1>13, <1>14 DEF Next

LEMMA HeldStep ==
    ASSUME Core, held \in Tally, Next
    PROVE  held' \in Tally
<1>1. r \in Task /\ CallOK(call[r])
  BY RunFacts
<1>2. ASSUME NEW s \in Sem, held' = Add(held, r, s, 1) PROVE held' \in Tally
  BY <1>1, <1>2, AddOne DEF Entered
<1>3. ASSUME NEW s \in Sem, held' = Add(held, r, s, -1) PROVE held' \in Tally
  BY <1>1, <1>3, DropOne DEF Entered
<1>4. CASE WaitEnd
  <2>1. call[r].sem \in Sem
    BY <1>1, <1>4 DEF WaitEnd, At, CallOK
  <2> QED
    BY <1>2, <1>4, <2>1 DEF WaitEnd
<1>5. CASE DeleteUnlink
  <2>1. held' = [held EXCEPT ![call[r].tcb] = [s \in Sem |-> 0]]
    BY <1>5 DEF DeleteUnlink
  <2> QED
    BY <2>1 DEF Tally
<1>6. CASE \E s \in Sem : Take(s) \/ TakeForIsr(s) \/ Post(s)
  BY <1>2, <1>3, <1>6 DEF Take, TakeForIsr, Post, Took
<1>7. CASE DogEnd \/ PostResume \/ CancelResume \/ DeleteRelease \/ ResetPost \/ ResetEnd \/ Sleep
  BY <1>7 DEF DogEnd, PostResume, CancelResume, DeleteRelease, ResetPost, ResetEnd, Sleep
<1>8. CASE \E s \in Sem : \/ WaitForIsr(s) \/ IsrPost(s) \/ sem_post_from_isr(s)
                          \/ (\E dog \in BOOLEAN : Wait(s, dog))
                          \/ (\E n \in 1 .. InitCount : Reset(s, n))
  BY <1>8 DEF WaitForIsr, IsrPost, sem_post_from_isr, Wait, Reset
<1>9. CASE \E t \in Task : sem_timeout(t) \/ IsrKill(t) \/ kill(t) \/ Delete(t) \/ Wake(t)
  BY <1>9 DEF sem_timeout, IsrKill, kill, Delete, Wake
<1> QED
  BY <1>4, <1>5, <1>6, <1>7, <1>8, <1>9 DEF Next

-----------------------------------------------------------------------------
(* The books: the counts c, who waits for what w, the counts h the tasks   *)
(* have and their sums T.                                                  *)
WaitersOf(w, s) == {t \in Task : w[t] = s}
Col(h, s) == [t \in Task |-> h[t][s]]
Avail(n) == IF n > 0 THEN n ELSE 0
Page(c, w, h, T, s) ==
    /\ Cardinality(WaitersOf(w, s)) = (IF c[s] < 0 THEN -c[s] ELSE 0)
    /\ Avail(c[s]) + SumOver(Col(h, s), Task) = T[s]
Typed(c, w, h, T) ==
    /\ c \in [Sem -> Int] /\ w \in [Task -> Sem \cup {None}]
    /\ h \in Tally /\ T \in [Sem -> Int]
Ledger(c, w, h, T) == Typed(c, w, h, T) /\ \A s \in Sem : Page(c, w, h, T, s)

LEMMA LedgerIs ==
    ASSUME Core, have \in Tally, total \in [Sem -> Int]
    PROVE  Ledger(k.count, k.waitsem, have, total) <=> WaitersCounted /\ CountsConserved
<1>1. Typed(k.count, k.waitsem, have, total)
  BY DEF Core, Sound, Own, Typed
<1>2. ASSUME NEW s \in Sem
      PROVE  /\ Waiters(s) = WaitersOf(k.waitsem, s) /\ Max({k.count[s], 0}) = Avail(k.count[s])
             /\ [t \in Task |-> have[t][s]] = Col(have, s)
  <2>1. k.count[s] \in Int
    BY <1>1 DEF Typed
  <2> QED
    BY <2>1, MaxZero DEF Waiters, WaitersOf, Avail, Col
<1> QED
  BY <1>1, <1>2 DEF Ledger, Page, WaitersCounted, CountsConserved

LEMMA WaitersFinite ==
    ASSUME NEW w, NEW s
    PROVE  IsFiniteSet(WaitersOf(w, s)) /\ Cardinality(WaitersOf(w, s)) \in Nat
<1>1. IsFiniteSet(WaitersOf(w, s))
  BY SemAssumption, FS_Subset DEF WaitersOf
<1> QED
  BY <1>1, FS_CardinalityType

(* Of the tasks in w only t waits for something else in x, v. *)
Moved(w, x, t, v) ==
    x \in [Task -> Sem \cup {None}] /\ x[t] = v /\ \A u \in Task \ {t} : x[u] = w[u]

LEMMA WaitersMore ==
    ASSUME NEW w \in [Task -> Sem \cup {None}], NEW t \in Task, NEW s \in Sem, w[t] = None,
           NEW x, Moved(w, x, t, s)
    PROVE  /\ Cardinality(WaitersOf(x, s)) = Cardinality(WaitersOf(w, s)) + 1
           /\ \A q \in Sem \ {s} : WaitersOf(x, q) = WaitersOf(w, q)
<1>1. None \notin Sem
  BY SemAssumption
<1>2. WaitersOf(x, s) = WaitersOf(w, s) \cup {t} /\ t \notin WaitersOf(w, s)
  BY <1>1 DEF WaitersOf, Moved
<1>3. \A q \in Sem \ {s} : WaitersOf(x, q) = WaitersOf(w, q)
  BY <1>1 DEF WaitersOf, Moved
<1>4. IsFiniteSet(WaitersOf(w, s))
  BY WaitersFinite
<1>5. Cardinality(WaitersOf(w, s) \cup {t}) = Cardinality(WaitersOf(w, s)) + 1
  BY <1>2, <1>4, FS_AddElement
<1> QED
  BY <1>2, <1>3, <1>5

LEMMA WaitersLess ==
    ASSUME NEW w \in [Task -> Sem \cup {None}], NEW t \in Task, NEW s \in Sem, w[t] = s,
           NEW x, Moved(w, x, t, None)
    PROVE  /\ x \in [Task -> Sem \cup {None}]
           /\ Cardinality(WaitersOf(x, s)) = Cardinality(WaitersOf(w, s)) - 1
           /\ \A q \in Sem \ {s} : WaitersOf(x, q) = WaitersOf(w, q)
<1>1. None \notin Sem
  BY SemAssumption
<1>2. x \in [Task -> Sem \cup {None}] /\ x[t] = None
  BY DEF Moved
<1>3. WaitersOf(w, s) = WaitersOf(x, s) \cup {t} /\ t \notin WaitersOf(x, s)
  BY <1>1 DEF WaitersOf, Moved
<1>4. \A q \in Sem \ {s} : WaitersOf(w, q) = WaitersOf(x, q)
  BY <1>1 DEF WaitersOf, Moved
<1>5. /\ Cardinality(WaitersOf(w, s)) = Cardinality(WaitersOf(x, s)) + 1
      /\ \A q \in Sem \ {s} : WaitersOf(w, q) = WaitersOf(x, q)
  <2>1. IsFiniteSet(WaitersOf(x, s))
    BY WaitersFinite
  <2> QED
    BY <1>3, <1>4, <2>1, FS_AddElement
<1>6. Cardinality(WaitersOf(w, s)) \in Nat /\ Cardinality(WaitersOf(x, s)) \in Nat
  BY WaitersFinite
<1>7. Cardinality(WaitersOf(x, s)) = Cardinality(WaitersOf(w, s)) - 1
  BY <1>5, <1>6
<1> QED
  BY <1>2, <1>5, <1>7

LEMMA SumEntered ==
    ASSUME NEW f \in Tally, NEW g, NEW t \in Task, NEW s \in Sem, NEW v \in Nat, Entered(f, g, t, s, v)
    PROVE  /\ SumOver(Col(f, s), Task) \in Nat
           /\ SumOver(Col(g, s), Task) = SumOver(Col(f, s), Task) + (v - f[t][s])
           /\ \A q \in Sem \ {s} : Col(g, q) = Col(f, q)
<1> DEFINE a == Col(f, s)
           b == Col(g, s)
           d == v - f[t][s]
<1>1. /\ f[t] \in [Sem -> Nat] /\ g[t] = [f[t] EXCEPT ![s] = v]
      /\ \A u \in Task \ {t} : g[u] = f[u]
  BY DEF Entered, Tally
<1>2. d \in Int /\ f[t][s] \in Nat
  BY <1>1
<1>3. (\A u \in Task : a[u] \in Nat) /\ b[t] = a[t] + d /\ \A u \in Task \ {t} : b[u] = a[u]
  <2>1. \A u \in Task : a[u] = f[u][s] /\ b[u] = g[u][s] /\ f[u][s] \in Nat
    BY DEF Col, Tally
  <2>2. g[t][s] = v
    BY <1>1
  <2> QED
    BY <1>1, <1>2, <2>1, <2>2
<1>4. \A q \in Sem \ {s} : Col(g, q) = Col(f, q)
  <2>1. ASSUME NEW q \in Sem \ {s}, NEW u \in Task PROVE g[u][q] = f[u][q]
    BY <1>1
  <2> QED
    BY <2>1 DEF Col
<1> HIDE DEF a, b, d
<1>5. SumOver(a, Task) \in Nat /\ IsFiniteSet(Task)
  BY <1>3, SumNat, SemAssumption
<1>6. SumOver(b, Task) = SumOver(a, Task) + d
  <2>1. \A u \in Task : a[u] \in Int
    BY <1>3
  <2> QED
    BY <1>2, <1>3, <1>5, <2>1, SumChange
<1> QED
  BY <1>4, <1>5, <1>6 DEF a, b, d

LEMMA ColNat ==
    ASSUME NEW f \in Tally, NEW s \in Sem
    PROVE  SumOver(Col(f, s), Task) \in Nat
<1>1. \A u \in Task : Col(f, s)[u] \in Nat
  BY DEF Col, Tally
<1> QED
  BY <1>1, SumNat, SemAssumption

(* Only the page of s is new. *)
LEMMA OnePage ==
    ASSUME NEW c, NEW w, NEW h, NEW T, Ledger(c, w, h, T), NEW s \in Sem,
           NEW d, NEW x, NEW g, NEW U, Typed(d, x, g, U),
           \A q \in Sem \ {s} : d[q] = c[q] /\ WaitersOf(x, q) = WaitersOf(w, q)
                                /\ Col(g, q) = Col(h, q) /\ U[q] = T[q],
           Page(d, x, g, U, s)
    PROVE  Ledger(d, x, g, U)
<1>1. ASSUME NEW q \in Sem \ {s} PROVE Page(d, x, g, U, q)
  <2>1. Page(c, w, h, T, q)
    BY DEF Ledger
  <2> QED
    BY <2>1 DEF Page
<1> QED
  BY <1>1 DEF Ledger

LEMMA PageIs ==
    ASSUME NEW c, NEW w, NEW h, NEW T, Ledger(c, w, h, T), NEW s \in Sem
    PROVE  /\ Typed(c, w, h, T) /\ c[s] \in Int /\ T[s] \in Int
           /\ Cardinality(WaitersOf(w, s)) \in Nat /\ SumOver(Col(h, s), Task) \in Nat
           /\ Cardinality(WaitersOf(w, s)) = (IF c[s] < 0 THEN -c[s] ELSE 0)
           /\ Avail(c[s]) + SumOver(Col(h, s), Task) = T[s]
BY WaitersFinite, ColNat DEF Ledger, Page, Typed

LEMMA LedgerTake ==
    ASSUME NEW c, NEW w, NEW h, NEW T, Ledger(c, w, h, T), NEW s \in Sem, NEW t \in Task, c[s] > 0
    PROVE  Ledger([c EXCEPT ![s] = @ - 1], w, Add(h, t, s, 1), T)
<1> DEFINE d == [c EXCEPT ![s] = @ - 1]
           g == Add(h, t, s, 1)
           v == h[t][s] + 1
           a == SumOver(Col(h, s), Task)
           b == SumOver(Col(g, s), Task)
<1>1. /\ Typed(c, w, h, T) /\ c[s] \in Int /\ T[s] \in Int /\ a \in Nat
      /\ Cardinality(WaitersOf(w, s)) = (IF c[s] < 0 THEN -c[s] ELSE 0)
      /\ Avail(c[s]) + a = T[s]
  BY PageIs
<1>2. d \in [Sem -> Int] /\ d[s] = c[s] - 1 /\ \A q \in Sem \ {s} : d[q] = c[q]
  BY <1>1 DEF Typed
<1>3. h \in Tally /\ h[t][s] \in Nat /\ v \in Nat
  BY <1>1 DEF Typed, Tally
<1>4. Entered(h, g, t, s, v)
  BY <1>3, AddOne
<1> HIDE DEF d, g
<1>5. b = a + (v - h[t][s]) /\ \A q \in Sem \ {s} : Col(g, q) = Col(h, q)
  <2> HIDE DEF v
  <2> QED
    BY <1>3, <1>4, SumEntered
<1>6. Typed(d, w, g, T)
  BY <1>1, <1>2, <1>4 DEF Typed, Entered
<1>7. Page(d, w, g, T, s)
  BY <1>1, <1>2, <1>3, <1>5 DEF Page, Avail
<1>8. Ledger(d, w, g, T)
  BY <1>2, <1>5, <1>6, <1>7, OnePage
<1> QED
  BY <1>8 DEF d, g

LEMMA LedgerWait ==
    ASSUME NEW c, NEW w, NEW h, NEW T, Ledger(c, w, h, T), NEW s \in Sem, NEW t \in Task,
           c[s] <= 0, w[t] = None
    PROVE  Ledger([c EXCEPT ![s] = @ - 1], [w EXCEPT ![t] = s], h, T)
<1> DEFINE d == [c EXCEPT ![s] = @ - 1]
           x == [w EXCEPT ![t] = s]
<1>1. /\ Typed(c, w, h, T) /\ c[s] \in Int
      /\ Cardinality(WaitersOf(w, s)) = (IF c[s] < 0 THEN -c[s] ELSE 0)
      /\ Avail(c[s]) + SumOver(Col(h, s), Task) = T[s]
  BY PageIs
<1>2. d \in [Sem -> Int] /\ d[s] = c[s] - 1 /\ \A q \in Sem \ {s} : d[q] = c[q]
  BY <1>1 DEF Typed
<1>3. w \in [Task -> Sem \cup {None}] /\ x \in [Task -> Sem \cup {None}] /\ Moved(w, x, t, s)
  BY <1>1 DEF Typed, Moved
<1> HIDE DEF d, x
<1>4. /\ Cardinality(WaitersOf(x, s)) = Cardinality(WaitersOf(w, s)) + 1
      /\ \A q \in Sem \ {s} : WaitersOf(x, q) = WaitersOf(w, q)
  BY <1>3, WaitersMore
<1>5. Typed(d, x, h, T)
  BY <1>1, <1>2, <1>3 DEF Typed
<1>6. Page(d, x, h, T, s)
  BY <1>1, <1>2, <1>4 DEF Page, Avail
<1>7. Ledger(d, x, h, T)
  BY <1>2, <1>4, <1>5, <1>6, OnePage
<1> QED
  BY <1>7 DEF d, x

LEMMA LedgerAbort ==
    ASSUME NEW c, NEW w, NEW h, NEW T, Ledger(c, w, h, T), NEW s \in Sem, NEW t \in Task, w[t] = s
    PROVE  Ledger([c EXCEPT ![s] = @ + 1], [w EXCEPT ![t] = None], h, T) /\ c[s] < 0
<1> DEFINE d == [c EXCEPT ![s] = @ + 1]
           x == [w EXCEPT ![t] = None]
<1>1. /\ Typed(c, w, h, T) /\ c[s] \in Int
      /\ Cardinality(WaitersOf(w, s)) = (IF c[s] < 0 THEN -c[s] ELSE 0)
      /\ Avail(c[s]) + SumOver(Col(h, s), Task) = T[s]
  BY PageIs
<1>2. d \in [Sem -> Int] /\ d[s] = c[s] + 1 /\ \A q \in Sem \ {s} : d[q] = c[q]
  BY <1>1 DEF Typed
<1>3. w \in [Task -> Sem \cup {None}] /\ Moved(w, x, t, None)
  BY <1>1 DEF Typed, Moved
<1> HIDE DEF d, x
<1>4. /\ x \in [Task -> Sem \cup {None}]
      /\ Cardinality(WaitersOf(x, s)) = Cardinality(WaitersOf(w, s)) - 1
      /\ \A q \in Sem \ {s} : WaitersOf(x, q) = WaitersOf(w, q)
  BY <1>3, WaitersLess
<1>5. Typed(d, x, h, T)
  BY <1>1, <1>2, <1>4 DEF Typed
<1>6. Cardinality(WaitersOf(x, s)) \in Nat /\ Cardinality(WaitersOf(w, s)) \in Nat
  BY WaitersFinite
<1>7. c[s] < 0
  BY <1>1, <1>4, <1>6
<1>8. Page(d, x, h, T, s)
  BY <1>1, <1>2, <1>4, <1>7 DEF Page, Avail
<1>9. Ledger(d, x, h, T)
  BY <1>2, <1>4, <1>5, <1>8, OnePage
<1> QED
  BY <1>7, <1>9 DEF d, x

(* A count that is put in: nobody waits for it, or st is given it. *)
LEMMA LedgerKeep ==
    ASSUME NEW c, NEW w, NEW h, NEW T, Ledger(c, w, h, T), NEW s \in Sem,
           c[s] + 1 > 0 \/ \A u \in Task : w[u] # s
    PROVE  /\ Ledger([c EXCEPT ![s] = @ + 1], w, h, [T EXCEPT ![s] = @ + 1])
           /\ c[s] >= 0 /\ \A u \in Task : w[u] # s
<1> DEFINE d == [c EXCEPT ![s] = @ + 1]
           U == [T EXCEPT ![s] = @ + 1]
<1>1. /\ Typed(c, w, h, T) /\ c[s] \in Int /\ T[s] \in Int
      /\ SumOver(Col(h, s), Task) \in Nat
      /\ Cardinality(WaitersOf(w, s)) = (IF c[s] < 0 THEN -c[s] ELSE 0)
      /\ Avail(c[s]) + SumOver(Col(h, s), Task) = T[s]
  BY PageIs
<1>2. d \in [Sem -> Int] /\ d[s] = c[s] + 1 /\ \A q \in Sem \ {s} : d[q] = c[q]
  BY <1>1 DEF Typed
<1>3. U \in [Sem -> Int] /\ U[s] = T[s] + 1 /\ \A q \in Sem \ {s} : U[q] = T[q]
  BY <1>1 DEF Typed
<1>4. c[s] >= 0 /\ WaitersOf(w, s) = {}
  <2>1. CASE c[s] + 1 > 0
    <3>1. Cardinality(WaitersOf(w, s)) = 0 /\ c[s] >= 0
      BY <1>1, <2>1
    <3> QED
      BY <3>1, WaitersFinite, FS_EmptySet
  <2>2. CASE \A u \in Task : w[u] # s
    <3>1. WaitersOf(w, s) = {}
      BY <2>2 DEF WaitersOf
    <3>2. Cardinality(WaitersOf(w, s)) = 0
      BY <3>1, FS_EmptySet
    <3> QED
      BY <1>1, <3>1, <3>2
  <2> QED
    BY <2>1, <2>2
<1>5. \A u \in Task : w[u] # s
  BY <1>4 DEF WaitersOf
<1> HIDE DEF d, U
<1>6. Typed(d, w, h, U)
  BY <1>1, <1>2, <1>3 DEF Typed
<1>7. Page(d, w, h, U, s)
  BY <1>1, <1>2, <1>3, <1>4 DEF Page, Avail
<1>8. Ledger(d, w, h, U)
  BY <1>2, <1>3, <1>6, <1>7, OnePage
<1> QED
  BY <1>4, <1>5, <1>8 DEF d, U

LEMMA LedgerGive ==
    ASSUME NEW c, NEW w, NEW h, NEW T, Ledger(c, w, h, T), NEW s \in Sem, NEW t \in Task, w[t] = s
    PROVE  /\ Ledger([c EXCEPT ![s] = @ + 1], [w EXCEPT ![t] = None], Add(h, t, s, 1),
                     [T EXCEPT ![s] = @ + 1])
           /\ c[s] < 0
<1> DEFINE d == [c EXCEPT ![s] = @ + 1]
           x == [w EXCEPT ![t] = None]
           g == Add(h, t, s, 1)
           v == h[t][s] + 1
           U == [T EXCEPT ![s] = @ + 1]
           a == SumOver(Col(h, s), Task)
           b == SumOver(Col(g, s), Task)
<1>1. Ledger(d, x, h, T) /\ c[s] < 0
  BY LedgerAbort
<1>2. Typed(c, w, h, T) /\ c[s] \in Int
  BY PageIs
<1>3. d[s] = c[s] + 1
  BY <1>2 DEF Typed
<1>4. U \in [Sem -> Int] /\ U[s] = T[s] + 1 /\ \A q \in Sem \ {s} : U[q] = T[q]
  BY <1>2 DEF Typed
<1>5. h \in Tally /\ h[t][s] \in Nat /\ v \in Nat
  BY <1>2 DEF Typed, Tally
<1>6. Entered(h, g, t, s, v)
  BY <1>5, AddOne
<1> HIDE DEF d, x, g, U
<1>7. b = a + (v - h[t][s]) /\ \A q \in Sem \ {s} : Col(g, q) = Col(h, q)
  <2> HIDE DEF v
  <2> QED
    BY <1>5, <1>6, SumEntered
<1>8. /\ Typed(d, x, h, T) /\ T[s] \in Int /\ a \in Nat
      /\ Cardinality(WaitersOf(x, s)) = (IF d[s] < 0 THEN -d[s] ELSE 0)
      /\ Avail(d[s]) + a = T[s]
  BY <1>1, PageIs
<1>9. Typed(d, x, g, U)
  BY <1>4, <1>6, <1>8 DEF Typed, Entered
<1>10. Page(d, x, g, U, s)
  BY <1>2, <1>3, <1>4, <1>5, <1>7, <1>8 DEF Page, Avail
<1>11. Ledger(d, x, g, U)
  BY <1>1, <1>4, <1>7, <1>9, <1>10, OnePage
<1> QED
  BY <1>1, <1>11 DEF d, x, g, U

(* A count that t puts back, before it goes anywhere. *)
LEMMA LedgerDrop ==
    ASSUME NEW c, NEW w, NEW h, NEW T, Ledger(c, w, h, T), NEW s \in Sem, NEW t \in Task
    PROVE  Ledger(c, w, Add(h, t, s, -1), [T EXCEPT ![s] = IF h[t][s] = 0 THEN @ ELSE @ - 1])
<1> DEFINE g == Add(h, t, s, -1)
           v == IF h[t][s] > 0 THEN h[t][s] - 1 ELSE 0
           U == [T EXCEPT ![s] = IF h[t][s] = 0 THEN @ ELSE @ - 1]
           a == SumOver(Col(h, s), Task)
           b == SumOver(Col(g, s), Task)
<1>1. /\ Typed(c, w, h, T) /\ c[s] \in Int /\ T[s] \in Int /\ a \in Nat
      /\ Cardinality(WaitersOf(w, s)) = (IF c[s] < 0 THEN -c[s] ELSE 0)
      /\ Avail(c[s]) + a = T[s]
  BY PageIs
<1>2. h \in Tally /\ h[t][s] \in Nat /\ v \in Nat
  BY <1>1 DEF Typed, Tally
<1>3. /\ U \in [Sem -> Int] /\ U[s] = (IF h[t][s] = 0 THEN T[s] ELSE T[s] - 1)
      /\ \A q \in Sem \ {s} : U[q] = T[q]
  BY <1>1 DEF Typed
<1>4. Entered(h, g, t, s, v)
  BY <1>2, DropOne
<1> HIDE DEF g, U
<1>5. b = a + (v - h[t][s]) /\ \A q \in Sem \ {s} : Col(g, q) = Col(h, q)
  <2> HIDE DEF v
  <2> QED
    BY <1>2, <1>4, SumEntered
<1>6. Typed(c, w, g, U)
  BY <1>1, <1>3, <1>4 DEF Typed, Entered
<1>7. Page(c, w, g, U, s)
  BY <1>1, <1>2, <1>3, <1>5 DEF Page, Avail
<1>8. Ledger(c, w, g, U)
  BY <1>3, <1>5, <1>6, <1>7, OnePage
<1> QED
  BY <1>8 DEF g, U

(* A task goes with its counts. *)
LEMMA LedgerDie ==
    ASSUME NEW c, NEW w, NEW h, NEW T, Ledger(c, w, h, T), NEW t \in Task
    PROVE  Ledger(c, w, [h EXCEPT ![t] = [s \in Sem |-> 0]], [s \in Sem |-> T[s] - h[t][s]])
<1> DEFINE g == [h EXCEPT ![t] = [s \in Sem |-> 0]]
           U == [s \in Sem |-> T[s] - h[t][s]]
<1>1. Typed(c, w, h, T)
  BY DEF Ledger
<1>2. h \in Tally /\ T \in [Sem -> Int]
  BY <1>1 DEF Typed
<1>3. g \in Tally /\ \A u \in Task, s \in Sem : g[u][s] = IF u = t THEN 0 ELSE h[u][s]
  BY <1>2 DEF Tally
<1>4. U \in [Sem -> Int] /\ \A s \in Sem : U[s] = T[s] - h[t][s] /\ h[t][s] \in Nat
  BY <1>2 DEF Tally
<1> HIDE DEF g, U
<1>5. Typed(c, w, g, U)
  BY <1>1, <1>3, <1>4 DEF Typed
<1>6. ASSUME NEW s \in Sem PROVE Page(c, w, g, U, s)
  <2> DEFINE a == Col(h, s)
             b == Col(g, s)
             d == -h[t][s]
  <2>1. d \in Int /\ (\A u \in Task : a[u] \in Int) /\ b[t] = a[t] + d /\ \A u \in Task \ {t} : b[u] = a[u]
    <3>1. \A u \in Task : a[u] = h[u][s] /\ h[u][s] \in Nat /\ b[u] = g[u][s]
      BY <1>2 DEF Col, Tally
    <3> QED
      BY <1>3, <3>1
  <2> HIDE DEF a, b, d
  <2>2. SumOver(b, Task) = SumOver(a, Task) + d
    <3>1. IsFiniteSet(Task)
      BY SemAssumption
    <3> QED
      BY <2>1, <3>1, SumChange
  <2>3. /\ c[s] \in Int /\ T[s] \in Int /\ SumOver(a, Task) \in Nat
        /\ Cardinality(WaitersOf(w, s)) = (IF c[s] < 0 THEN -c[s] ELSE 0)
        /\ Avail(c[s]) + SumOver(a, Task) = T[s]
    BY PageIs DEF a
  <2>4. U[s] = T[s] + d /\ d \in Int
    BY <1>4, <2>3 DEF d
  <2>5. Avail(c[s]) \in Int
    BY <2>3 DEF Avail
  <2>6. Avail(c[s]) + SumOver(b, Task) = U[s]
    BY <2>2, <2>3, <2>4, <2>5
  <2> QED
    BY <2>3, <2>6 DEF Page, b
<1>7. Ledger(c, w, g, U)
  BY <1>5, <1>6 DEF Ledger
<1> QED
  BY <1>7 DEF g, U

LEMMA LedgerReset ==
    ASSUME NEW c, NEW w, NEW h, NEW T, Ledger(c, w, h, T), NEW s \in Sem, NEW n \in Nat, c[s] >= 0
    PROVE  /\ Ledger([c EXCEPT ![s] = n], w, h, [T EXCEPT ![s] = @ - c[s] + n])
           /\ \A u \in Task : w[u] # s
<1> DEFINE d == [c EXCEPT ![s] = n]
           U == [T EXCEPT ![s] = @ - c[s] + n]
<1>1. /\ Typed(c, w, h, T) /\ c[s] \in Int /\ T[s] \in Int
      /\ SumOver(Col(h, s), Task) \in Nat
      /\ Cardinality(WaitersOf(w, s)) = (IF c[s] < 0 THEN -c[s] ELSE 0)
      /\ Avail(c[s]) + SumOver(Col(h, s), Task) = T[s]
  BY PageIs
<1>2. d \in [Sem -> Int] /\ d[s] = n /\ \A q \in Sem \ {s} : d[q] = c[q]
  BY <1>1 DEF Typed
<1>3. U \in [Sem -> Int] /\ U[s] = T[s] - c[s] + n /\ \A q \in Sem \ {s} : U[q] = T[q]
  BY <1>1 DEF Typed
<1>4. Cardinality(WaitersOf(w, s)) = 0
  BY <1>1
<1>5. WaitersOf(w, s) = {}
  BY <1>4, WaitersFinite, FS_EmptySet
<1>6. \A u \in Task : w[u] # s
  BY <1>5 DEF WaitersOf
<1> HIDE DEF d, U
<1>7. Typed(d, w, h, U)
  BY <1>1, <1>2, <1>3 DEF Typed
<1>8. Page(d, w, h, U, s)
  BY <1>1, <1>2, <1>3, <1>4 DEF Page, Avail
<1>9. Ledger(d, w, h, U)
  BY <1>2, <1>3, <1>7, <1>8, OnePage
<1> QED
  BY <1>6, <1>9 DEF d, U

(* sem_post(): t puts a count back and st, if there is one, is given it. *)
LEMMA LedgerBring ==
    ASSUME NEW c, NEW w, NEW h, NEW T, Ledger(c, w, h, T), NEW s \in Sem, NEW st,
           st # None => st \in Task /\ w[st] = s,
           st = None => c[s] + 1 > 0 \/ \A u \in Task : w[u] # s
    PROVE  Ledger([c EXCEPT ![s] = @ + 1], IF st = None THEN w ELSE [w EXCEPT ![st] = None],
                  Add(h, st, s, 1), [T EXCEPT ![s] = @ + 1])
<1>1. CASE st = None
  <2>1. Ledger([c EXCEPT ![s] = @ + 1], w, h, [T EXCEPT ![s] = @ + 1])
    BY <1>1, LedgerKeep
  <2> QED
    BY <1>1, <2>1, AddNone
<1>2. CASE st # None
  BY <1>2, LedgerGive
<1> QED
  BY <1>1, <1>2

LEMMA LedgerPost ==
    ASSUME NEW c, NEW w, NEW h, NEW T, Ledger(c, w, h, T), NEW s \in Sem, NEW st, NEW t \in Task,
           st # None => st \in Task /\ w[st] = s,
           st = None => c[s] + 1 > 0 \/ \A u \in Task : w[u] # s
    PROVE  Ledger([c EXCEPT ![s] = @ + 1], IF st = None THEN w ELSE [w EXCEPT ![st] = None],
                  Add(Add(h, t, s, -1), st, s, 1), [T EXCEPT ![s] = IF h[t][s] = 0 THEN @ + 1 ELSE @])
<1> DEFINE g == Add(h, t, s, -1)
           U == [T EXCEPT ![s] = IF h[t][s] = 0 THEN @ ELSE @ - 1]
<1>1. Ledger(c, w, g, U)
  BY LedgerDrop
<1>2. T \in [Sem -> Int]
  BY PageIs DEF Typed
<1>3. [U EXCEPT ![s] = @ + 1] = [T EXCEPT ![s] = IF h[t][s] = 0 THEN @ + 1 ELSE @]
  BY <1>2
<1> HIDE DEF g, U
<1>4. Ledger([c EXCEPT ![s] = @ + 1], IF st = None THEN w ELSE [w EXCEPT ![st] = None],
             Add(g, st, s, 1), [U EXCEPT ![s] = @ + 1])
  BY <1>1, LedgerBring
<1> QED
  BY <1>3, <1>4 DEF g

(* The books are right after every step. *)
Balanced == Ledger(k.count, k.waitsem, have, total)

LEMMA BooksStep ==
    ASSUME Core, Balanced, Booked
    PROVE  Balanced'
<1> DEFINE c == k.count
           w == k.waitsem
           C == k'.count
           W == k'.waitsem
<1>1. Ledger(c, w, have, total) /\ r \in Task /\ w[r] = None
  BY RunFacts DEF Balanced
<1> SUFFICES Ledger(C, W, have', total')
  BY DEF Balanced
<1>2. CASE BSame
  BY <1>1, <1>2 DEF BSame
<1>3. ASSUME NEW s \in Sem, BTake(s) PROVE Ledger(C, W, have', total')
  <2>1. /\ c[s] > 0 /\ C = [c EXCEPT ![s] = @ - 1] /\ W = w
        /\ have' = Add(have, r, s, 1) /\ total' = total
    BY <1>3 DEF BTake
  <2> HIDE DEF c, w, C, W
  <2> QED
    BY <1>1, <2>1, LedgerTake
<1>4. ASSUME NEW s \in Sem, BWait(s) PROVE Ledger(C, W, have', total')
  <2>1. /\ c[s] <= 0 /\ C = [c EXCEPT ![s] = @ - 1] /\ W = [w EXCEPT ![r] = s]
        /\ have' = have /\ total' = total
    BY <1>4 DEF BWait
  <2> HIDE DEF c, w, C, W
  <2> QED
    BY <1>1, <2>1, LedgerWait
<1>5. ASSUME NEW s \in Sem, NEW st, BGive(s, st)
      PROVE  /\ st # None => st \in Task /\ w[st] = s
             /\ st = None => c[s] + 1 > 0 \/ \A u \in Task : w[u] # s
             /\ C = [c EXCEPT ![s] = @ + 1]
             /\ W = IF st = None THEN w ELSE [w EXCEPT ![st] = None]
  BY <1>5 DEF BGive, Chosen
<1>6. ASSUME NEW s \in Sem, NEW st, BBring(s, st) PROVE Ledger(C, W, have', total')
  <2>1. BGive(s, st) /\ have' = Add(have, st, s, 1) /\ total' = [total EXCEPT ![s] = @ + 1]
    BY <1>6 DEF BBring
  <2>2. /\ st # None => st \in Task /\ w[st] = s
        /\ st = None => c[s] + 1 > 0 \/ \A u \in Task : w[u] # s
        /\ C = [c EXCEPT ![s] = @ + 1]
        /\ W = IF st = None THEN w ELSE [w EXCEPT ![st] = None]
    BY <1>5, <2>1
  <2> HIDE DEF c, w, C, W
  <2> QED
    BY <1>1, <2>1, <2>2, LedgerBring
<1>7. ASSUME NEW s \in Sem, NEW st, BPost(s, st) PROVE Ledger(C, W, have', total')
  <2>1. /\ BGive(s, st) /\ have' = Add(Add(have, r, s, -1), st, s, 1)
        /\ total' = [total EXCEPT ![s] = IF have[r][s] = 0 THEN @ + 1 ELSE @]
    BY <1>7 DEF BPost
  <2>2. /\ st # None => st \in Task /\ w[st] = s
        /\ st = None => c[s] + 1 > 0 \/ \A u \in Task : w[u] # s
        /\ C = [c EXCEPT ![s] = @ + 1]
        /\ W = IF st = None THEN w ELSE [w EXCEPT ![st] = None]
    BY <1>5, <2>1
  <2> HIDE DEF c, w, C, W
  <2> QED
    BY <1>1, <2>1, <2>2, LedgerPost
<1>8. ASSUME NEW s \in Sem, NEW n \in Nat, BReset(s, n) PROVE Ledger(C, W, have', total')
  <2>1. /\ c[s] >= 0 /\ C = [c EXCEPT ![s] = n] /\ W = w
        /\ total' = [total EXCEPT ![s] = @ - c[s] + n] /\ have' = have
    BY <1>8 DEF BReset
  <2> HIDE DEF c, w, C, W
  <2> QED
    BY <1>1, <2>1, LedgerReset
<1>9. ASSUME NEW t \in Task, NEW s \in Sem, BAbort(t, s) PROVE Ledger(C, W, have', total')
  <2>1. /\ w[t] = s /\ C = [c EXCEPT ![s] = @ + 1] /\ W = [w EXCEPT ![t] = None]
        /\ have' = have /\ total' = total
    BY <1>9 DEF BAbort
  <2> HIDE DEF c, w, C, W
  <2> QED
    BY <1>1, <2>1, LedgerAbort
<1>10. ASSUME NEW t \in Task, BDie(t) PROVE Ledger(C, W, have', total')
  <2>1. /\ C = c /\ W = w /\ total' = [s \in Sem |-> total[s] - have[t][s]]
        /\ have' = [have EXCEPT ![t] = [s \in Sem |-> 0]]
    BY <1>10 DEF BDie
  <2> HIDE DEF c, w, C, W
  <2> QED
    BY <1>1, <2>1, LedgerDie
<1> QED
  BY <1>2, <1>3, <1>4, <1>6, <1>7, <1>8, <1>9, <1>10 DEF Booked

-----------------------------------------------------------------------------
(* SemaphoreSpec is implemented. *)
AbsAvail == [s \in Sem |-> Max({k.count[s], 0})]
AbsGive(s, g) ==
    \/ /\ ~ \E t \in Task : k.waitsem[t] = s
       /\ AbsAvail' = [AbsAvail EXCEPT ![s] = @ + 1]
       /\ have' = g
       /\ k'.waitsem = k.waitsem
    \/ \E w \in Task :
         /\ k.waitsem[w] = s
         /\ k'.waitsem = [k.waitsem EXCEPT ![w] = None]
         /\ have' = [g EXCEPT ![w][s] = @ + 1]
         /\ AbsAvail' = AbsAvail

LEMMA AbsUnfold ==
    /\ \A t, s : Abstract!Acquire(t, s) <=>
          /\ AbsAvail[s] > 0 /\ k.waitsem[t] = None
          /\ AbsAvail' = [AbsAvail EXCEPT ![s] = @ - 1]
          /\ have' = [have EXCEPT ![t][s] = @ + 1] /\ k'.waitsem = k.waitsem
    /\ \A t, s : Abstract!Block(t, s) <=>
          /\ AbsAvail[s] = 0 /\ k.waitsem[t] = None
          /\ k'.waitsem = [k.waitsem EXCEPT ![t] = s] /\ AbsAvail' = AbsAvail /\ have' = have
    /\ \A t, s : Abstract!Release(t, s) <=>
          AbsGive(s, IF have[t][s] > 0 THEN [have EXCEPT ![t][s] = @ - 1] ELSE have)
    /\ \A s : Abstract!Bring(s) <=> AbsGive(s, have)
    /\ \A t : Abstract!Abort(t) <=>
          /\ k.waitsem[t] # None /\ k'.waitsem = [k.waitsem EXCEPT ![t] = None]
          /\ AbsAvail' = AbsAvail /\ have' = have
    /\ \A t : Abstract!Die(t) <=>
          /\ k.waitsem[t] = None /\ have' = [have EXCEPT ![t] = [s \in Sem |-> 0]]
          /\ AbsAvail' = AbsAvail /\ k'.waitsem = k.waitsem
    /\ \A s : Abstract!Reset(s) <=>
          /\ "reset" \in Api /\ ~ \E t \in Task : k.waitsem[t] = s
          /\ AbsAvail'[s] \in Nat /\ AbsAvail' = [AbsAvail EXCEPT ![s] = AbsAvail'[s]]
          /\ have' = have /\ k'.waitsem = k.waitsem
    /\ Abstract!vars = <<AbsAvail, have, k.waitsem>>
<1>1. ASSUME NEW t, NEW s
      PROVE  Abstract!Acquire(t, s) <=>
          /\ AbsAvail[s] > 0 /\ k.waitsem[t] = None
          /\ AbsAvail' = [AbsAvail EXCEPT ![s] = @ - 1]
          /\ have' = [have EXCEPT ![t][s] = @ + 1] /\ k'.waitsem = k.waitsem
  BY Zenon DEF Abstract!Acquire, AbsAvail
<1>2. ASSUME NEW t, NEW s
      PROVE  Abstract!Block(t, s) <=>
          /\ AbsAvail[s] = 0 /\ k.waitsem[t] = None
          /\ k'.waitsem = [k.waitsem EXCEPT ![t] = s] /\ AbsAvail' = AbsAvail /\ have' = have
  BY Zenon DEF Abstract!Block, AbsAvail
<1>3. ASSUME NEW s, NEW g PROVE Abstract!Give(s, g) <=> AbsGive(s, g)
  BY Zenon DEF Abstract!Give, Abstract!Wanted, AbsGive, AbsAvail
<1>4. ASSUME NEW t, NEW s
      PROVE  Abstract!Release(t, s) <=>
          AbsGive(s, IF have[t][s] > 0 THEN [have EXCEPT ![t][s] = @ - 1] ELSE have)
  BY <1>3, Zenon DEF Abstract!Release, Abstract!Dropped
<1>5. ASSUME NEW s PROVE Abstract!Bring(s) <=> AbsGive(s, have)
  BY <1>3, Zenon DEF Abstract!Bring
<1>6. ASSUME NEW t
      PROVE  Abstract!Abort(t) <=>
          /\ k.waitsem[t] # None /\ k'.waitsem = [k.waitsem EXCEPT ![t] = None]
          /\ AbsAvail' = AbsAvail /\ have' = have
  BY Zenon DEF Abstract!Abort, AbsAvail
<1>7. ASSUME NEW t
      PROVE  Abstract!Die(t) <=>
          /\ k.waitsem[t] = None /\ have' = [have EXCEPT ![t] = [s \in Sem |-> 0]]
          /\ AbsAvail' = AbsAvail /\ k'.waitsem = k.waitsem
  BY Zenon DEF Abstract!Die, AbsAvail
<1>8. ASSUME NEW s
      PROVE  Abstract!Reset(s) <=>
          /\ "reset" \in Api /\ ~ \E t \in Task : k.waitsem[t] = s
          /\ AbsAvail'[s] \in Nat /\ AbsAvail' = [AbsAvail EXCEPT ![s] = AbsAvail'[s]]
          /\ have' = have /\ k'.waitsem = k.waitsem
  BY Zenon DEF Abstract!Reset, Abstract!Wanted, AbsAvail
<1>9. Abstract!vars = <<AbsAvail, have, k.waitsem>>
  BY Zenon DEF Abstract!vars, AbsAvail
<1> QED
  BY <1>1, <1>2, <1>4, <1>5, <1>6, <1>7, <1>8, <1>9

LEMMA AddIs ==
    ASSUME NEW f \in Tally, NEW t \in Task, NEW s \in Sem
    PROVE  /\ Add(f, t, s, 1) = [f EXCEPT ![t][s] = @ + 1]
           /\ Add(f, t, s, -1) = IF f[t][s] > 0 THEN [f EXCEPT ![t][s] = @ - 1] ELSE f
<1>1. f[t] \in [Sem -> Nat] /\ f[t][s] \in Nat
  BY DEF Tally
<1>2. ASSUME NEW g, NEW v, Entered(f, g, t, s, v) PROVE g = [f EXCEPT ![t] = [f[t] EXCEPT ![s] = v]]
  <2>1. g \in Tally /\ (\A u \in Task \ {t} : g[u] = f[u]) /\ g[t] = [f[t] EXCEPT ![s] = v]
    BY <1>2 DEF Entered
  <2> QED
    BY <2>1 DEF Tally
<1>3. Add(f, t, s, 1) = [f EXCEPT ![t] = [f[t] EXCEPT ![s] = f[t][s] + 1]]
  BY <1>2, AddOne
<1>4. Add(f, t, s, -1) = [f EXCEPT ![t] = [f[t] EXCEPT ![s] = IF f[t][s] > 0 THEN f[t][s] - 1 ELSE 0]]
  BY <1>2, DropOne
<1>5. CASE f[t][s] > 0
  BY <1>3, <1>4, <1>5
<1>6. CASE ~ (f[t][s] > 0)
  <2>1. f[t][s] = 0
    BY <1>1, <1>6
  <2>2. [f[t] EXCEPT ![s] = 0] = f[t]
    BY <1>1, <2>1
  <2>3. [f EXCEPT ![t] = f[t]] = f
    BY DEF Tally
  <2> QED
    BY <1>3, <1>4, <1>6, <2>2, <2>3
<1> QED
  BY <1>5, <1>6

(* The available counts after a step that sets the count of s to n. *)
LEMMA AvailStep ==
    ASSUME k.count \in [Sem -> Int], k'.count \in [Sem -> Int]
    PROVE  /\ AbsAvail \in [Sem -> Nat] /\ \A s \in Sem : AbsAvail[s] = Avail(k.count[s])
           /\ k'.count = k.count => AbsAvail' = AbsAvail
           /\ \A s \in Sem, n \in Int : k'.count = [k.count EXCEPT ![s] = n] =>
                 AbsAvail' = [AbsAvail EXCEPT ![s] = Avail(n)]
<1>1. \A s \in Sem : k.count[s] \in Int /\ k'.count[s] \in Int
  OBVIOUS
<1>2. \A s \in Sem : Max({k.count[s], 0}) = Avail(k.count[s]) /\ Max({k'.count[s], 0}) = Avail(k'.count[s])
  BY <1>1, MaxZero DEF Avail
<1>3. AbsAvail = [s \in Sem |-> Avail(k.count[s])]
  BY <1>2 DEF AbsAvail
<1>4. AbsAvail' = [s \in Sem |-> Avail(k'.count[s])]
  BY <1>2 DEF AbsAvail
<1>5. \A s \in Sem : Avail(k.count[s]) \in Nat
  BY <1>1 DEF Avail
<1> DEFINE a == AbsAvail
           b == AbsAvail'
<1> HIDE DEF a, b
<1>6. a = [s \in Sem |-> Avail(k.count[s])] /\ b = [s \in Sem |-> Avail(k'.count[s])]
  BY <1>3, <1>4 DEF a, b
<1>7. /\ a \in [Sem -> Nat] /\ \A s \in Sem : a[s] = Avail(k.count[s])
      /\ k'.count = k.count => b = a
      /\ \A s \in Sem, n \in Int : k'.count = [k.count EXCEPT ![s] = n] => b = [a EXCEPT ![s] = Avail(n)]
  BY <1>5, <1>6
<1> QED
  BY <1>7 DEF a, b

LEMMA AbsStep ==
    ASSUME Core, Core', Balanced, Booked
    PROVE  [Abstract!Next]_(Abstract!vars)
<1> DEFINE c == k.count
           w == k.waitsem
           a == AbsAvail
           b == AbsAvail'
<1>1. Ledger(c, w, have, total) /\ r \in Task /\ w[r] = None
  BY RunFacts DEF Balanced
<1>2. c \in [Sem -> Int] /\ k'.count \in [Sem -> Int] /\ w \in [Task -> Sem \cup {None}]
  BY DEF Core, Sound, Own
<1>3. have \in Tally
  BY <1>1 DEF Ledger, Typed
<1>4. /\ a \in [Sem -> Nat] /\ \A s \in Sem : a[s] = Avail(c[s])
      /\ k'.count = c => b = a
      /\ \A s \in Sem, n \in Int : k'.count = [c EXCEPT ![s] = n] => b = [a EXCEPT ![s] = Avail(n)]
  BY <1>2, AvailStep
<1>5. \A s \in Sem : c[s] \in Int /\ s # None
  BY <1>2, SemAssumption
<1> HIDE DEF a, b
<1>6. ASSUME BSame PROVE UNCHANGED Abstract!vars
  <2>1. b = a /\ have' = have /\ k'.waitsem = k.waitsem
    BY <1>4, <1>6 DEF BSame
  <2>2. AbsAvail' = AbsAvail
    BY <2>1 DEF a, b
  <2> QED
    BY <2>1, <2>2, Zenon DEF Abstract!vars, AbsAvail
<1>7. ASSUME NEW s \in Sem, BTake(s) PROVE Abstract!Acquire(r, s)
  <2>1. c[s] > 0 /\ k'.count = [c EXCEPT ![s] = c[s] - 1] /\ k'.waitsem = w /\ have' = Add(have, r, s, 1)
    BY <1>7 DEF BTake
  <2>2. b = [a EXCEPT ![s] = Avail(c[s] - 1)]
    BY <1>4, <1>5, <2>1
  <2>3. a[s] > 0 /\ Avail(c[s] - 1) = a[s] - 1
    BY <1>4, <1>5, <2>1 DEF Avail
  <2>4. have' = [have EXCEPT ![r][s] = @ + 1]
    BY <1>1, <1>3, <2>1, AddIs
  <2>5. b = [a EXCEPT ![s] = @ - 1]
    BY <2>2, <2>3
  <2> QED
    BY <1>1, <2>1, <2>3, <2>4, <2>5, AbsUnfold DEF a, b
<1>8. ASSUME NEW s \in Sem, BWait(s) PROVE Abstract!Block(r, s)
  <2>1. c[s] <= 0 /\ k'.count = [c EXCEPT ![s] = c[s] - 1] /\ k'.waitsem = [w EXCEPT ![r] = s] /\ have' = have
    BY <1>8 DEF BWait
  <2>2. b = [a EXCEPT ![s] = Avail(c[s] - 1)]
    BY <1>4, <1>5, <2>1
  <2>3. a[s] = 0 /\ Avail(c[s] - 1) = 0
    BY <1>4, <1>5, <2>1 DEF Avail
  <2>4. b = a
    BY <1>4, <2>2, <2>3
  <2> QED
    BY <1>1, <2>1, <2>3, <2>4, AbsUnfold DEF a, b
<1>9. ASSUME NEW s \in Sem, NEW st, BGive(s, st), NEW g \in Tally, have' = Add(g, st, s, 1) PROVE AbsGive(s, g)
  <2>1. k'.count = [c EXCEPT ![s] = c[s] + 1]
    BY <1>9 DEF BGive
  <2>2. b = [a EXCEPT ![s] = Avail(c[s] + 1)]
    BY <1>4, <1>5, <2>1
  <2>3. CASE st = None
    <3>1. c[s] + 1 > 0 \/ \A u \in Task : w[u] # s
      BY <1>9, <2>3 DEF BGive, Chosen
    <3>2. c[s] >= 0 /\ \A u \in Task : w[u] # s
      <4> HIDE DEF c, w
      <4> QED
        BY <1>1, <3>1, LedgerKeep
    <3>3. Avail(c[s] + 1) = a[s] + 1
      BY <1>4, <1>5, <3>2 DEF Avail
    <3>4. b = [a EXCEPT ![s] = @ + 1] /\ have' = g /\ k'.waitsem = w
      BY <1>9, <2>2, <2>3, <3>3, AddNone DEF BGive
    <3> QED
      BY <3>2, <3>4 DEF AbsGive, a, b
  <2>4. CASE st # None
    <3>1. st \in Task /\ w[st] = s /\ k'.waitsem = [w EXCEPT ![st] = None]
      BY <1>9, <2>4 DEF BGive, Chosen
    <3>2. c[s] < 0
      <4> HIDE DEF c, w
      <4> QED
        BY <1>1, <3>1, LedgerGive
    <3>3. Avail(c[s] + 1) = a[s]
      BY <1>4, <1>5, <3>2 DEF Avail
    <3>4. b = a
      BY <1>4, <2>2, <3>3
    <3>5. have' = [g EXCEPT ![st][s] = @ + 1]
      BY <1>9, <3>1, AddIs
    <3> QED
      BY <3>1, <3>4, <3>5 DEF AbsGive, a, b
  <2> QED
    BY <2>3, <2>4
<1>10. ASSUME NEW s \in Sem, NEW st, BBring(s, st) PROVE Abstract!Bring(s)
  <2>1. AbsGive(s, have)
    BY <1>3, <1>9, <1>10 DEF BBring
  <2> QED
    BY <2>1, AbsUnfold
<1>11. ASSUME NEW s \in Sem, NEW st, BPost(s, st) PROVE Abstract!Release(r, s)
  <2> DEFINE g == Add(have, r, s, -1)
  <2>1. g \in Tally
    BY <1>1, <1>3, DropOne DEF Entered
  <2>2. g = IF have[r][s] > 0 THEN [have EXCEPT ![r][s] = @ - 1] ELSE have
    BY <1>1, <1>3, AddIs
  <2>3. BGive(s, st) /\ have' = Add(g, st, s, 1)
    BY <1>11 DEF BPost
  <2> HIDE DEF g
  <2>4. AbsGive(s, g)
    BY <1>9, <2>1, <2>3
  <2> QED
    BY <2>2, <2>4, AbsUnfold
<1>12. ASSUME NEW s \in Sem, NEW n \in Nat, BReset(s, n) PROVE Abstract!Reset(s)
  <2>1. /\ "reset" \in Api /\ c[s] >= 0 /\ k'.count = [c EXCEPT ![s] = n] /\ k'.waitsem = w
        /\ have' = have
    BY <1>12 DEF BReset
  <2>2. \A u \in Task : w[u] # s
    <3> HIDE DEF c, w
    <3> QED
      BY <1>1, <2>1, LedgerReset
  <2>3. b = [a EXCEPT ![s] = n]
    <3>1. n \in Int /\ Avail(n) = n
      BY DEF Avail
    <3> QED
      BY <1>4, <2>1, <3>1
  <2>4. b[s] = n /\ b = [a EXCEPT ![s] = b[s]]
    BY <1>4, <2>3
  <2> QED
    BY <2>1, <2>2, <2>4, AbsUnfold DEF a, b
<1>13. ASSUME NEW t \in Task, NEW s \in Sem, BAbort(t, s) PROVE Abstract!Abort(t)
  <2>1. w[t] = s /\ k'.count = [c EXCEPT ![s] = c[s] + 1] /\ k'.waitsem = [w EXCEPT ![t] = None] /\ have' = have
    BY <1>13 DEF BAbort
  <2>2. c[s] < 0
    <3> HIDE DEF c, w
    <3> QED
      BY <1>1, <2>1, LedgerAbort
  <2>3. Avail(c[s] + 1) = a[s]
    BY <1>4, <1>5, <2>2 DEF Avail
  <2>4. b = a
    <3>1. b = [a EXCEPT ![s] = Avail(c[s] + 1)]
      BY <1>4, <1>5, <2>1
    <3> QED
      BY <1>4, <2>3, <3>1
  <2> QED
    BY <1>5, <2>1, <2>4, AbsUnfold DEF a, b
<1>14. ASSUME NEW t \in Task, BDie(t) PROVE Abstract!Die(t)
  <2>1. k'.count = c /\ k'.waitsem = w /\ w[t] = None /\ have' = [have EXCEPT ![t] = [s \in Sem |-> 0]]
    BY <1>14 DEF BDie
  <2>2. b = a
    BY <1>4, <2>1
  <2> QED
    BY <2>1, <2>2, AbsUnfold DEF a, b
<1>15. Abstract!Next \/ UNCHANGED Abstract!vars
  BY <1>1, <1>6, <1>7, <1>8, <1>10, <1>11, <1>12, <1>13, <1>14 DEF Booked, Abstract!Next
<1> QED
  BY <1>15

(* A task that waits gets a count only as the one that was chosen. *)
LEMMA GrantStep ==
    ASSUME Core, Balanced, Booked, NEW s \in Sem, NEW t \in Task, NEW u \in Task,
           k.waitsem[t] = s, k.waitsem[u] = s, have'[t][s] > have[t][s]
    PROVE  k.prio[t] >= k.prio[u]
<1>1. r \in Task /\ k.waitsem[r] = None /\ s # None
  BY RunFacts, SemAssumption
<1>2. have[t][s] \in Nat /\ have \in Tally /\ have' \in Tally
  <2>1. Balanced'
    BY BooksStep
  <2>2. have \in Tally /\ have' \in Tally
    BY <2>1 DEF Balanced, Ledger, Typed
  <2> QED
    BY <2>2 DEF Tally
<1>3. ~ (have'[t][s] <= have[t][s])
  <2>1. have'[t][s] \in Nat
    BY <1>2 DEF Tally
  <2> QED
    BY <1>2, <2>1
<1>4. CASE BSame
  BY <1>2, <1>3, <1>4 DEF BSame
<1>5. ASSUME NEW q \in Sem, BTake(q) PROVE FALSE
  <2>1. have' = Add(have, r, q, 1) /\ t # r
    BY <1>1, <1>5 DEF BTake
  <2>2. Entered(have, have', r, q, have[r][q] + 1)
    BY <1>1, <1>2, <2>1, AddOne
  <2>3. have'[t] = have[t]
    BY <2>1, <2>2 DEF Entered
  <2> QED
    BY <1>2, <1>3, <2>3
<1>6. ASSUME NEW q \in Sem, NEW st, BGive(q, st), NEW g \in Tally, g[t] = have[t],
             have' = Add(g, st, q, 1)
      PROVE  k.prio[t] >= k.prio[u]
  <2>1. st = t
    <3>1. SUFFICES ASSUME st # t PROVE FALSE
      OBVIOUS
    <3>2. st = None \/ st \in Task
      BY <1>6 DEF BGive, Chosen
    <3>3. have'[t] = g[t]
      <4>1. CASE st = None
        BY <1>6, <4>1, AddNone
      <4>2. CASE st \in Task
        <5>1. Entered(g, have', st, q, g[st][q] + 1)
          BY <1>6, <4>2, AddOne
        <5> QED
          BY <3>1, <5>1 DEF Entered
      <4> QED
        BY <3>2, <4>1, <4>2
    <3> QED
      BY <1>2, <1>3, <1>6, <3>3
  <2>2. t # None
    BY SemAssumption
  <2>3. k.waitsem[t] = q /\ \A v \in Task : k.waitsem[v] = q => k.prio[t] >= k.prio[v]
    BY <1>6, <2>1, <2>2 DEF BGive, Chosen
  <2> QED
    BY <2>3
<1>7. ASSUME NEW q \in Sem, NEW st, BBring(q, st) PROVE k.prio[t] >= k.prio[u]
  BY <1>2, <1>6, <1>7 DEF BBring
<1>8. ASSUME NEW q \in Sem, NEW st, BPost(q, st) PROVE k.prio[t] >= k.prio[u]
  <2> DEFINE g == Add(have, r, q, -1)
  <2>1. g \in Tally /\ g[t] = have[t]
    <3>1. Entered(have, g, r, q, IF have[r][q] > 0 THEN have[r][q] - 1 ELSE 0) /\ t # r
      BY <1>1, <1>2, DropOne
    <3> QED
      BY <3>1 DEF Entered
  <2>2. BGive(q, st) /\ have' = Add(g, st, q, 1)
    BY <1>8 DEF BPost
  <2> HIDE DEF g
  <2> QED
    BY <1>6, <2>1, <2>2
<1>9. ASSUME NEW v \in Task, BDie(v) PROVE FALSE
  <2>1. have' = [have EXCEPT ![v] = [q \in Sem |-> 0]]
    BY <1>9 DEF BDie
  <2>2. have'[t] = IF t = v THEN [q \in Sem |-> 0] ELSE have[t]
    BY <1>2, <2>1 DEF Tally
  <2>3. have'[t][s] <= have[t][s]
    BY <1>2, <2>2
  <2> QED
    BY <1>3, <2>3
<1>10. ASSUME have' = have PROVE FALSE
  BY <1>2, <1>3, <1>10
<1> QED
  BY <1>4, <1>5, <1>7, <1>8, <1>9, <1>10 DEF Booked, BWait, BReset, BAbort

-----------------------------------------------------------------------------
(* The invariant holds. *)
LEMMA InitInv == Init => Inv
<1> SUFFICES ASSUME Init PROVE Inv
  OBVIOUS
<1>1. PICK order \in ReadyOrder(Base) :
         k = [list  |-> ReadyLists(order), state |-> ReadyStates(order), prio |-> Base,
              lock  |-> [t \in Task |-> 0], panic |-> "none",
              count   |-> [s \in Sem |-> InitCount],
              holders |-> [s \in Sem |-> <<>>],
              free    |-> NHolders,
              pend    |-> [t \in Task |-> EmptyBag],
              waitsem |-> [t \in Task |-> None],
              err     |-> [t \in Task |-> "OK"],
              live    |-> Task]
  BY DEF Init
<1>2. /\ call = [t \in Task |-> UserCall] /\ timed = {}
      /\ have = [t \in Task |-> [s \in Sem |-> 0]] /\ held = have
      /\ total = [s \in Sem |-> InitCount]
  BY DEF Init
<1>3. /\ OwnField \subseteq DOMAIN k /\ k.list = ReadyLists(order) /\ k.state = ReadyStates(order)
      /\ k.prio = Base /\ k.lock = [t \in Task |-> 0] /\ SchedField \subseteq DOMAIN k
      /\ k.count = [s \in Sem |-> InitCount] /\ k.holders = [s \in Sem |-> <<>>]
      /\ k.free = NHolders /\ k.pend = [t \in Task |-> EmptyBag]
      /\ k.waitsem = [t \in Task |-> None] /\ k.err = [t \in Task |-> "OK"] /\ k.live = Task
      /\ k.panic = "none"
  BY <1>1 DEF OwnField, SchedField
<1>4. /\ Base \in [Task -> 0 .. MaxPrio] /\ Cardinality(Task) \in Nat
      /\ \A t \in Task : Base[t] = 0 <=> t = Idle
  BY SemAssumption, FS_CardinalityType
<1>5. Good(k)
  BY <1>3, <1>4, ReadyGood
<1>6. HoldersOK(k)
  <2>1. k.holders \in [Sem -> Seq(Entry)] /\ \A s \in Sem : Len(k.holders[s]) = 0
    BY <1>3
  <2>2. \A s \in Sem : OneEach(k.holders[s])
    BY <2>1 DEF OneEach
  <2> DEFINE f == Lens(k)
  <2>3. \A s \in Sem : f[s] = 0
    BY <2>1 DEF Lens
  <2>4. IsFiniteSet(Sem) /\ NHolders \in Nat
    BY SemAssumption
  <2> HIDE DEF f
  <2>5. SumOver(f, Sem) = 0
    BY <2>3, <2>4, SumNat
  <2> QED
    BY <1>3, <2>1, <2>2, <2>4, <2>5 DEF HoldersOK, f
<1>7. PendOK(k)
  BY <1>3 DEF PendOK, PendBag, EmptyBag, SetToBag
<1>8. Own(k)
  <2>1. InitCount \in Nat
    BY SemAssumption
  <2> QED
    BY <1>3, <1>6, <1>7, <2>1 DEF Own, Panics
<1>9. Sound(k)
  BY <1>3, <1>4, <1>5, <1>8 DEF Sound, Above
<1>10. \A t \in Task : /\ k.state[t] \in {"RUNNING", "READYTORUN"} /\ k.waitsem[t] = None /\ k.lock[t] = 0
                       /\ call[t] = UserCall
  BY <1>2, <1>3 DEF ReadyStates
<1>11. Calm(k)
  BY <1>3 DEF Calm, Pending, ReadyLists, List, TState
<1>12. Core
  <2>1. call \in [Task -> Call]
    BY <1>2, UserCallOK
  <2>2. ASSUME NEW t \in Task
        PROVE  TaskOK(k, call[t], t) /\ TargetOK(k, call, t) /\ DeleteOK(k, call[t], t, timed)
    BY <1>10, UserCallOK DEF TaskOK, WaitOK, TargetOK, DeleteOK
  <2> QED
    BY <1>2, <1>9, <1>11, <2>1, <2>2 DEF Core
<1>13. Known
  BY <1>2, <1>3, <1>10, UserCallOK DEF Known, Knows
<1>14. Counted
  <2>1. have \in Tally /\ held \in Tally /\ total \in [Sem -> Int] /\ InitCount \in Nat
    BY <1>2, SemAssumption DEF Tally
  <2>2. ASSUME NEW s \in Sem PROVE Page(k.count, k.waitsem, have, total, s)
    <3>1. WaitersOf(k.waitsem, s) = {}
      BY <1>3, SemAssumption DEF WaitersOf
    <3>2. Cardinality(WaitersOf(k.waitsem, s)) = 0
      BY <3>1, FS_EmptySet
    <3> DEFINE f == Col(have, s)
    <3>3. \A t \in Task : f[t] = 0
      BY <1>2 DEF Col
    <3>4. IsFiniteSet(Task)
      BY SemAssumption
    <3> HIDE DEF f
    <3>5. SumOver(f, Task) = 0
      BY <3>3, <3>4, SumNat
    <3> QED
      BY <1>2, <1>3, <2>1, <3>2, <3>5 DEF Page, Avail, f
  <2>3. Ledger(k.count, k.waitsem, have, total)
    BY <1>8, <2>1, <2>2 DEF Ledger, Typed, Own
  <2> QED
    BY <1>12, <2>1, <2>3, LedgerIs DEF Counted, Tally
<1> QED
  BY <1>3, <1>12, <1>13, <1>14 DEF Inv, Window

LEMMA BalancedIs ==
    Core /\ Balanced /\ have \in Tally /\ total \in [Sem -> Int] => WaitersCounted /\ CountsConserved
BY LedgerIs DEF Balanced

LEMMA InvBalanced == Inv => Core /\ Balanced /\ Known /\ have \in Tally /\ held \in Tally /\ total \in [Sem -> Int]
<1> SUFFICES ASSUME Inv PROVE Core /\ Balanced /\ Known /\ have \in Tally /\ held \in Tally /\ total \in [Sem -> Int]
  OBVIOUS
<1>1. Core /\ Known /\ Counted
  BY DEF Inv
<1>2. have \in Tally /\ held \in Tally /\ total \in [Sem -> Int] /\ WaitersCounted /\ CountsConserved
  BY <1>1 DEF Counted, Tally
<1> QED
  BY <1>1, <1>2, LedgerIs DEF Balanced

LEMMA Inductive ==
    ASSUME Apart, Inv, [Next]_vars
    PROVE  Inv'
<1>1. CASE Next
  <2>1. Core /\ Balanced /\ Known /\ have \in Tally /\ held \in Tally /\ total \in [Sem -> Int]
    BY InvBalanced
  <2>2. StepEff
    BY <1>1, <2>1, NextStep
  <2>3. Core' /\ Known' /\ Balanced'
    BY <2>1, <2>2, BooksStep DEF StepEff
  <2>4. held' \in Tally
    BY <1>1, <2>1, HeldStep
  <2>5. have' \in Tally /\ total' \in [Sem -> Int]
    BY <2>3 DEF Balanced, Ledger, Typed
  <2>6. WaitersCounted' /\ CountsConserved'
    <3>1. (Core /\ Balanced /\ have \in Tally /\ total \in [Sem -> Int] => WaitersCounted /\ CountsConserved)'
      BY BalancedIs, PTL
    <3> QED
      BY <2>3, <2>5, <3>1 DEF Tally
  <2>7. Counted'
    BY <2>4, <2>5, <2>6 DEF Counted, Tally
  <2>8. Window'
    <3>1. Window
      BY DEF Inv
    <3>2. CASE Quiet
      BY <3>1, <3>2 DEF Window, Quiet
    <3>3. CASE NullEff
      BY <3>3 DEF Window, NullEff
    <3> QED
      BY <2>2, <3>2, <3>3 DEF StepEff
  <2> QED
    BY <2>3, <2>7, <2>8 DEF Inv
<1>2. CASE UNCHANGED vars
  <2>1. k' = k /\ call' = call /\ timed' = timed /\ have' = have /\ held' = held /\ total' = total
    BY <1>2 DEF vars
  <2>2. Core' /\ Known' /\ Window'
    BY <2>1 DEF Inv, Core, Known, Window
  <2>3. Counted'
    BY <2>1 DEF Inv, Counted, WaitersCounted, Waiters, CountsConserved
  <2> QED
    BY <2>2, <2>3 DEF Inv
<1> QED
  BY <1>1, <1>2

LEMMA Invariance == ASSUME Apart PROVE Spec => []Inv
<1>1. Inv /\ [Next]_vars => Inv'
  BY Inductive
<1> QED
  BY <1>1, InitInv, PTL DEF Spec

-----------------------------------------------------------------------------
(* Results.  Those who signal or delete others do not use the semaphores   *)
(* themselves: a holder that does may be switched out in the middle of     *)
(* sem_canceled(), with the waiter still counted.                          *)

(* semcount below zero is the number of tasks that wait, whoever ends      *)
(* their waits: sem_post() from a task or an interrupt handler, the        *)
(* watchdog, a signal, sem_recover() or sem_reset().                       *)
THEOREM WaitersCountedHolds ==
    ASSUME (Killer \cup Deleter) \cap User = {} PROVE Spec => []WaitersCounted
<1>1. Inv => WaitersCounted
  BY DEF Inv, Counted
<1>2. Apart
  BY DEF Apart
<1> QED
  BY <1>1, <1>2, Invariance, PTL

(* No count of a semaphore is lost or made by a timeout, a signal, a       *)
(* deletion or a priority that is restored on the way.                     *)
THEOREM CountsConservedHolds ==
    ASSUME (Killer \cup Deleter) \cap User = {} PROVE Spec => []CountsConserved
<1>1. Inv => CountsConserved
  BY DEF Inv, Counted
<1>2. Apart
  BY DEF Apart
<1> QED
  BY <1>1, <1>2, Invariance, PTL

LEMMA PoolLemma == Inv => PoolConserved /\ k.free \in 0 .. NHolders
<1> SUFFICES ASSUME Inv PROVE PoolConserved /\ k.free \in 0 .. NHolders
  OBVIOUS
<1>1. HoldersOK(k) /\ NHolders \in Nat /\ IsFiniteSet(Sem)
  BY SemAssumption DEF Inv, Core, Sound, Own
<1>2. /\ k.holders \in [Sem -> Seq(Entry)] /\ (\A s \in Sem : OneEach(k.holders[s]))
      /\ k.free \in Nat /\ k.free + SumOver(Lens(k), Sem) = NHolders
  BY <1>1 DEF HoldersOK
<1> DEFINE f == Lens(k)
<1>3. \A s \in Sem : f[s] \in Nat
  BY <1>2 DEF Lens
<1>4. SumOver(f, Sem) \in Nat
  <2> HIDE DEF f
  <2> QED
    BY <1>1, <1>3, SumNat
<1>5. k.free \in 0 .. NHolders
  BY <1>1, <1>2, <1>4
<1>6. ASSUME NEW s \in Sem PROVE IsInjective(Holders(k, s))
  <2>1. OneEach(k.holders[s]) /\ Len(k.holders[s]) \in Nat
    BY <1>2
  <2> QED
    BY <2>1 DEF OneEach, Holders, IsInjective
<1> QED
  BY <1>2, <1>5, <1>6 DEF PoolConserved, Lens

(* Waiters, counts and holder structures add up while waits are cancelled, *)
(* waiters and holders are deleted and the semaphore is reset.             *)
THEOREM ConservedHolds ==
    ASSUME (Killer \cup Deleter) \cap User = {} PROVE Spec => []Conserved
<1>1. Inv => Conserved
  BY PoolLemma DEF Inv, Counted, Conserved
<1>2. Apart
  BY DEF Apart
<1> QED
  BY <1>1, <1>2, Invariance, PTL

(* errno is the truth about a wait: a task that is back in its own code    *)
(* has the counts that the kernel gave it, although a timeout or a signal  *)
(* raced with the post.                                                    *)
THEOREM ResultIsTrueHolds ==
    ASSUME (Killer \cup Deleter) \cap User = {} PROVE Spec => []ResultIsTrue
<1>1. Inv => ResultIsTrue
  BY DEF Inv, Known, Knows, ResultIsTrue
<1>2. Apart
  BY DEF Apart
<1> QED
  BY <1>1, <1>2, Invariance, PTL

(* Task lists, holder structures and priorities are sound, and no          *)
(* assertion fails: sem_boostholderprio() never switches tasks, no task is *)
(* unblocked twice, no loop over the holders goes on with a freed one.     *)
(* What is left is the end of pend_reprios, and sem_waitirq() from an      *)
(* interrupt between sem_recover() and the unlinking of the TCB.           *)
THEOREM KernelSoundHolds ==
    ASSUME (Killer \cup Deleter) \cap User = {}, "isrkill" \notin Api \/ Deleter = {}
    PROVE  Spec => []KernelSound
<1>1. Inv => KernelSound
  <2> SUFFICES ASSUME Inv PROVE KernelSound
    OBVIOUS
  <2>1. Core /\ Counted /\ Window
    BY DEF Inv
  <2>2. Good(k) /\ Own(k) /\ Above(k) /\ Calm(k) /\ r = Running(k)
    BY <2>1 DEF Core, Sound, r
  <2>3. PoolConserved /\ k.free \in 0 .. NHolders
    BY PoolLemma
  <2>4. TypeOK
    <3>1. ASSUME NEW s \in Sem, NEW i \in 1 .. Len(k.holders[s])
          PROVE  k.holders[s][i] \in [tcb : Task, counts : Nat]
      <4>1. k.holders[s] \in Seq(Entry) /\ User \subseteq Task
        BY <2>2, SemAssumption DEF Own, HoldersOK
      <4>2. k.holders[s][i] \in Entry
        BY <4>1
      <4> QED
        BY <4>1, <4>2 DEF Entry
    <3>2. have \in [Task -> [Sem -> Nat]] /\ held \in [Task -> [Sem -> Nat]]
      BY <2>1 DEF Counted
    <3>3. call \in [Task -> Call] /\ timed \subseteq Task
      BY <2>1 DEF Core
    <3> QED
      BY <2>2, <2>3, <3>1, <3>2, <3>3 DEF TypeOK, Own, Panics
  <2>5. ListsSound
    BY <2>2 DEF ListsSound, Good, Lists, Calm
  <2>6. NoPanic
    BY <2>1, <2>2 DEF NoPanic, Window, Own, Panics
  <2>7. NotBelowBase
    BY <2>2 DEF NotBelowBase, Above, Own
  <2> QED
    BY <2>3, <2>4, <2>5, <2>6, <2>7 DEF KernelSound
<1>2. Apart
  BY DEF Apart
<1> QED
  BY <1>1, <1>2, Invariance, PTL

(* The first waiter on g_waitingforsemaphore has the highest priority of   *)
(* those that wait for this semaphore, however boosts and restorations     *)
(* have changed priorities since they began to wait.                       *)
THEOREM GrantHighestHolds ==
    ASSUME (Killer \cup Deleter) \cap User = {} PROVE Spec => GrantHighest
<1> DEFINE A == \A s \in Sem : \A t, u \in Waiters(s) :
                   have'[t][s] > have[t][s] => k.prio[t] >= k.prio[u]
<1>1. Apart
  BY DEF Apart
<1>2. Inv /\ [Next]_vars => [A]_vars
  <2> SUFFICES ASSUME Inv, Next PROVE A
    OBVIOUS
  <2>1. Core /\ Balanced /\ Known /\ have \in Tally /\ held \in Tally /\ total \in [Sem -> Int]
    BY InvBalanced
  <2>2. Booked
    BY <1>1, <2>1, NextStep DEF StepEff
  <2>3. ASSUME NEW s \in Sem, NEW t \in Waiters(s), NEW u \in Waiters(s), have'[t][s] > have[t][s]
        PROVE  k.prio[t] >= k.prio[u]
    <3>1. t \in Task /\ u \in Task /\ k.waitsem[t] = s /\ k.waitsem[u] = s
      BY DEF Waiters
    <3> QED
      BY <2>1, <2>2, <2>3, <3>1, GrantStep
  <2> QED
    BY <2>3
<1> QED
  BY <1>1, <1>2, Invariance, PTL DEF Spec, GrantHighest

LEMMA InitAbs == Init => Abstract!Init
<1> SUFFICES ASSUME Init PROVE Abstract!Init
  OBVIOUS
<1>1. Inv
  BY InitInv
<1>2. k.count \in [Sem -> Int]
  BY <1>1 DEF Inv, Core, Sound, Own
<1>3. \A s \in Sem : k.count[s] \in Int
  BY <1>2
<1>4. \A s \in Sem : Max({k.count[s], 0}) \in Nat
  BY <1>3, MaxZero
<1>5. AbsAvail \in [Sem -> Nat]
  BY <1>4 DEF AbsAvail
<1>6. k.waitsem = [t \in Task |-> None] /\ have = [t \in Task |-> [s \in Sem |-> 0]]
  BY DEF Init
<1> QED
  BY <1>5, <1>6, Zenon DEF Abstract!Init, AbsAvail

(* A semaphore is what SemaphoreSpec says, without priorities, holder      *)
(* lists or a count that doubles as the number of waiters: a count is      *)
(* taken where there is one, a count that is posted goes to a waiter where *)
(* there is one, and a wait that is given up leaves no trace.              *)
THEOREM IsSemaphoreHolds ==
    ASSUME (Killer \cup Deleter) \cap User = {} PROVE Spec => IsSemaphore
<1>1. Apart
  BY DEF Apart
<1>2. Inv /\ [Next]_vars => [Abstract!Next]_(Abstract!vars)
  <2> SUFFICES ASSUME Inv, [Next]_vars PROVE [Abstract!Next]_(Abstract!vars)
    OBVIOUS
  <2>1. CASE Next
    <3>1. Core /\ Balanced /\ Known /\ have \in Tally /\ held \in Tally /\ total \in [Sem -> Int]
      BY InvBalanced
    <3>2. Core' /\ Booked
      BY <1>1, <2>1, <3>1, NextStep DEF StepEff
    <3> QED
      BY <3>1, <3>2, AbsStep
  <2>2. CASE UNCHANGED vars
    <3>1. k' = k /\ have' = have
      BY <2>2 DEF vars
    <3>2. UNCHANGED Abstract!vars
      BY <3>1 DEF Abstract!vars
    <3> QED
      BY <3>2
  <2> QED
    BY <2>1, <2>2
<1> QED
  BY <1>1, <1>2, InitAbs, Invariance, PTL DEF Spec, IsSemaphore, Abstract!Spec
=============================================================================
