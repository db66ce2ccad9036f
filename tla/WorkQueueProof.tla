---------------------------- MODULE WorkQueueProof ----------------------------
(* The work queue of module WorkQueue, for every number of works, clients  *)
(* and workers and every period and delay: list and flags agree, calls are *)
(* not begun early, twice or after a cancel, and no wakeup is lost.        *)
EXTENDS WorkQueue, ListLemmas

-----------------------------------------------------------------------------
(* The list *)

JRec == [worker : BOOLEAN, delay : 0 .. MaxDelay, age : 0 .. Cap]
WRec == [pc : {"run", "call", "sleep", "wait", "woken"}, busy : BOOLEAN,
         took : 0 .. Cap, next : 0 .. Cap, timer : 0 .. Cap + 1,
         item : Work \cup {None}]

(* The list s of the works j is in the order of the delays. *)
InOrder(s, j) == \A m, n \in 1 .. Len(s) : m < n => j[s[m]].delay <= j[s[n]].delay

(* List and flags agree; the order is that of work_qqueue(). *)
ListOK(s, j) ==
    /\ s \in Seq(Work) /\ IsInjective(s)
    /\ j \in [Work -> JRec]
    /\ \A w \in Work : j[w].worker <=> w \in Range(s)
    /\ kind.sorting => InOrder(s, j)

(* The time until a work is due. *)
Time(r) == IF r.age >= r.delay THEN 0 ELSE r.delay - r.age
Todo(s, j) == [w \in Work |-> IF w \in Range(s) THEN Time(j[w]) ELSE -1]

(* The bound of the ages covers every delay and the period. *)
LEMMA CapLemma ==
    /\ Cap \in Nat /\ Period \in Nat \ {0} /\ MaxDelay \in Nat
    /\ Period <= Cap /\ MaxDelay <= Cap
    /\ \A t \in 0 .. Cap : Later(t) \in 0 .. Cap /\ (t < Cap => Later(t) = t + 1)
BY WorkQueueAssumption DEF Cap, Later

LEMMA OffLemma == Off \in JRec /\ ~ Off.worker
BY CapLemma DEF Off, JRec

(* A work is put before the first of a longer delay. *)
LEMMA PlaceLemma ==
    ASSUME ListOK(q, work), NEW d \in 0 .. MaxDelay
    PROVE  /\ Place(d) \in 1 .. Len(q) + 1
           /\ kind.sorting =>
                /\ \A n \in 1 .. Place(d) - 1 : work[q[n]].delay <= d
                /\ \A n \in Place(d) .. Len(q) : d <= work[q[n]].delay
<1> DEFINE later == {n \in 1 .. Len(q) : work[q[n]].delay > d}
<1>1. /\ q \in Seq(Work) /\ Len(q) \in Nat
      /\ \A n \in 1 .. Len(q) : q[n] \in Work /\ work[q[n]].delay \in 0 .. MaxDelay
  BY DEF ListOK, JRec
<1>2. MaxDelay \in Nat
  BY CapLemma
<1>3. CASE kind.sorting /\ later # {}
  <2>1. Place(d) = Min(later)
    BY <1>3 DEF Place
  <2>2. later \subseteq Nat
    BY <1>1
  <2>3. Min(later) \in later /\ \A n \in later : Min(later) <= n
    <3> HIDE DEF later
    <3> QED
      BY <1>3, <2>2, MinLemma
  <2>4. \A n \in 1 .. Place(d) - 1 : work[q[n]].delay <= d
    <3>1. ASSUME NEW n \in 1 .. Place(d) - 1 PROVE work[q[n]].delay <= d
      <4>1. n \in 1 .. Len(q) /\ n \notin later
        BY <1>1, <2>1, <2>3
      <4> QED
        BY <1>1, <1>2, <4>1
    <3> QED
      BY <3>1
  <2>5. \A n \in Place(d) .. Len(q) : d <= work[q[n]].delay
    <3>1. ASSUME NEW n \in Place(d) .. Len(q) PROVE d <= work[q[n]].delay
      <4> DEFINE m == Min(later)
      <4>1. m \in 1 .. Len(q) /\ work[q[m]].delay > d /\ n \in 1 .. Len(q) /\ (m < n \/ m = n)
        BY <1>1, <2>1, <2>3
      <4>2. m < n => work[q[m]].delay <= work[q[n]].delay
        BY <1>3, <4>1 DEF ListOK, InOrder
      <4> HIDE DEF m
      <4> QED
        BY <1>1, <1>2, <4>1, <4>2
    <3> QED
      BY <3>1
  <2> QED
    BY <1>1, <2>1, <2>3, <2>4, <2>5
<1>4. CASE ~(kind.sorting /\ later # {})
  <2>1. Place(d) = Len(q) + 1
    BY <1>4 DEF Place
  <2>2. kind.sorting => \A n \in 1 .. Len(q) : work[q[n]].delay <= d
    BY <1>1, <1>2, <1>4
  <2> QED
    BY <1>1, <2>1, <2>2
<1> QED
  BY <1>3, <1>4

(* work_qqueue() *)
LEMMA QueueEffect ==
    ASSUME ListOK(q, work), NEW w \in Work, NEW d \in 0 .. MaxDelay, work_qqueue(w, d), kind' = kind
    PROVE  /\ ListOK(q', work')
           /\ w \notin Range(q) /\ Range(q') = Range(q) \cup {w}
           /\ \A v \in Range(q) : work'[v] = work[v]
           /\ Todo(q', work') = [Todo(q, work) EXCEPT ![w] = d]
<1> DEFINE r == [worker |-> TRUE, delay |-> d, age |-> 0]
           i == Place(d)
<1>1. /\ w \notin Range(q) /\ q' = InsertAt(q, i, w) /\ work' = [work EXCEPT ![w] = r]
  BY DEF work_qqueue
<1>2. /\ q \in Seq(Work) /\ IsInjective(q) /\ work \in [Work -> JRec] /\ Len(q) \in Nat
      /\ \A v \in Work : work[v].worker <=> v \in Range(q)
      /\ kind.sorting => InOrder(q, work)
  BY DEF ListOK
<1>3. /\ i \in 1 .. Len(q) + 1
      /\ kind.sorting =>
           /\ \A n \in 1 .. i - 1 : work[q[n]].delay <= d
           /\ \A n \in i .. Len(q) : d <= work[q[n]].delay
  BY PlaceLemma
<1>4. r \in JRec /\ r.worker /\ r.delay = d /\ Time(r) = d
  BY CapLemma DEF JRec, Time
<1> HIDE DEF r, i
<1>5. q' \in Seq(Work) /\ IsInjective(q') /\ Range(q') = Range(q) \cup {w}
  BY <1>1, <1>2, <1>3, InsertLemma, InsertRange
<1>6. /\ Len(q') = Len(q) + 1
      /\ \A n \in 1 .. Len(q) + 1 : q'[n] = IF n < i THEN q[n] ELSE IF n = i THEN w ELSE q[n - 1]
  BY <1>1, <1>2, <1>3, InsertLemma
<1>7. /\ work' \in [Work -> JRec] /\ work'[w] = r
      /\ \A v \in Work : v # w => work'[v] = work[v]
  BY <1>1, <1>2, <1>4
<1>8. Range(q) \subseteq Work /\ \A n \in 1 .. Len(q) : q[n] \in Range(q)
  BY <1>2, RangeLemma
<1>9. \A v \in Range(q) : v # w /\ work'[v] = work[v]
  BY <1>1, <1>7, <1>8
<1>10. \A v \in Work : work'[v].worker <=> v \in Range(q')
  BY <1>2, <1>4, <1>5, <1>7
<1>11. kind.sorting => InOrder(q', work')
  <2>1. SUFFICES ASSUME kind.sorting, NEW m \in 1 .. Len(q'), NEW n \in 1 .. Len(q'), m < n
                 PROVE  work'[q'[m]].delay <= work'[q'[n]].delay
    BY DEF InOrder
  <2> DEFINE D(k) == work[q[k]].delay
  <2>2. \A x, y \in 1 .. Len(q) : x < y => D(x) <= D(y)
    BY <1>2, <2>1 DEF InOrder
  <2>3. /\ \A x \in 1 .. Len(q) : work'[q[x]].delay = D(x) /\ D(x) \in 0 .. MaxDelay
        /\ work'[w].delay = d
    BY <1>2, <1>4, <1>7, <1>8, <1>9 DEF JRec
  <2>4. \A x \in 1 .. Len(q) + 1 :
          work'[q'[x]].delay = IF x < i THEN D(x) ELSE IF x = i THEN d ELSE D(x - 1)
    <3>1. ASSUME NEW x \in 1 .. Len(q) + 1
          PROVE  work'[q'[x]].delay = IF x < i THEN D(x) ELSE IF x = i THEN d ELSE D(x - 1)
      <4>1. (x < i => x \in 1 .. Len(q)) /\ (x > i => x - 1 \in 1 .. Len(q))
        BY <1>2, <1>3
      <4>2. CASE x < i
        BY <1>6, <2>3, <4>1, <4>2
      <4>3. CASE x = i
        BY <1>3, <1>6, <2>3, <4>3, SMTT(30)
      <4>4. CASE x > i
        <5>1. q'[x] = q[x - 1] /\ ~(x < i) /\ x # i
          BY <1>3, <1>6, <4>4
        <5> QED
          BY <2>3, <4>1, <4>4, <5>1
      <4> QED
        BY <1>3, <4>2, <4>3, <4>4
    <3> QED
      BY <3>1
  <2>5. (\A x \in 1 .. i - 1 : D(x) <= d) /\ (\A x \in i .. Len(q) : d <= D(x))
    BY <1>3, <2>1
  <2> HIDE DEF D
  <2>6. m \in 1 .. Len(q) + 1 /\ n \in 1 .. Len(q) + 1
    BY <1>6
  <2>7. CASE n < i
    <3>1. m \in 1 .. Len(q) /\ n \in 1 .. Len(q) /\ m < i
      BY <1>2, <1>3, <2>1, <2>6, <2>7
    <3> QED
      BY <2>1, <2>2, <2>4, <2>6, <2>7, <3>1
  <2>8. CASE n = i
    <3>1. m \in 1 .. i - 1 /\ m < i
      BY <1>3, <2>1, <2>6, <2>8
    <3> QED
      BY <1>3, <2>4, <2>5, <2>6, <2>8, <3>1
  <2>9. CASE n > i
    <3>1. n - 1 \in i .. Len(q) /\ n - 1 \in 1 .. Len(q) /\ ~(n < i) /\ n # i
      BY <1>2, <1>3, <2>6, <2>9
    <3>2. work'[q'[n]].delay = D(n - 1)
      BY <2>4, <2>6, <3>1
    <3>3. CASE m < i
      <4>1. m \in 1 .. i - 1 /\ m \in 1 .. Len(q)
        BY <1>2, <1>3, <2>6, <3>3
      <4>2. work'[q'[m]].delay = D(m) /\ D(m) <= d /\ d <= D(n - 1)
        BY <2>4, <2>5, <2>6, <3>1, <3>3, <4>1
      <4>3. D(m) \in Int /\ D(n - 1) \in Int /\ d \in Int
        BY <2>3, <3>1, <4>1, CapLemma
      <4> QED
        BY <3>2, <4>2, <4>3
    <3>4. CASE m = i
      BY <2>4, <2>5, <2>6, <3>1, <3>2, <3>4
    <3>5. CASE m > i
      <4>1. m - 1 \in 1 .. Len(q) /\ m - 1 < n - 1 /\ ~(m < i) /\ m # i
        BY <1>2, <1>3, <2>1, <2>6, <3>5
      <4> QED
        BY <2>2, <2>4, <2>6, <3>1, <3>2, <4>1
    <3> QED
      BY <1>3, <2>6, <3>3, <3>4, <3>5
  <2> QED
    BY <1>3, <2>6, <2>7, <2>8, <2>9
<1>12. Todo(q', work') = [Todo(q, work) EXCEPT ![w] = d]
  BY <1>4, <1>5, <1>7, <1>9 DEF Todo
<1> QED
  BY <1>1, <1>5, <1>7, <1>9, <1>10, <1>11, <1>12 DEF ListOK

(* A work is taken from the list, by a worker or by work_cancel(). *)
LEMMA UnlistEffect ==
    ASSUME ListOK(q, work), NEW n \in 1 .. Len(q), q' = RemoveAt(q, n),
           work' = [work EXCEPT ![q[n]] = Off], kind' = kind
    PROVE  /\ ListOK(q', work')
           /\ q[n] \in Work /\ Range(q') = Range(q) \ {q[n]}
           /\ \A v \in Range(q') : work'[v] = work[v]
           /\ Todo(q', work') = [Todo(q, work) EXCEPT ![q[n]] = -1]
<1>2. /\ q \in Seq(Work) /\ IsInjective(q) /\ work \in [Work -> JRec] /\ Len(q) \in Nat
      /\ \A v \in Work : work[v].worker <=> v \in Range(q)
      /\ kind.sorting => InOrder(q, work)
  BY DEF ListOK
<1>3. q' \in Seq(Work) /\ IsInjective(q') /\ Range(q') = Range(q) \ {q[n]}
  BY <1>2, RemoveLemma, RemoveRange
<1>4. /\ Len(q') = Len(q) - 1
      /\ \A m \in 1 .. Len(q) - 1 : q'[m] = IF m < n THEN q[m] ELSE q[m + 1]
  BY <1>2, RemoveLemma
<1>5. q[n] \in Work /\ Range(q) \subseteq Work /\ \A m \in 1 .. Len(q') : q'[m] \in Range(q')
  BY <1>2, <1>3, RangeLemma
<1>6. /\ work' \in [Work -> JRec] /\ work'[q[n]] = Off
      /\ \A v \in Work : v # q[n] => work'[v] = work[v]
  BY <1>2, <1>5, OffLemma
<1>7. \A v \in Range(q') : v \in Work /\ work'[v] = work[v]
  BY <1>3, <1>5, <1>6
<1>8. \A v \in Work : work'[v].worker <=> v \in Range(q')
  BY <1>2, <1>3, <1>6, OffLemma
<1>9. kind.sorting => InOrder(q', work')
  <2>1. SUFFICES ASSUME kind.sorting, NEW x \in 1 .. Len(q'), NEW y \in 1 .. Len(q'), x < y
                 PROVE  work'[q'[x]].delay <= work'[q'[y]].delay
    BY DEF InOrder
  <2>2. \A a, b \in 1 .. Len(q) : a < b => work[q[a]].delay <= work[q[b]].delay
    BY <1>2, <2>1 DEF InOrder
  <2>3. work'[q'[x]] = work[q'[x]] /\ work'[q'[y]] = work[q'[y]]
    BY <1>5, <1>7
  <2> DEFINE a == IF x < n THEN x ELSE x + 1
             b == IF y < n THEN y ELSE y + 1
  <2>4. a \in 1 .. Len(q) /\ b \in 1 .. Len(q) /\ a < b /\ q'[x] = q[a] /\ q'[y] = q[b]
    BY <1>2, <1>4, <2>1
  <2> HIDE DEF a, b
  <2> QED
    BY <2>2, <2>3, <2>4
<1>10. Todo(q', work') = [Todo(q, work) EXCEPT ![q[n]] = -1]
  <2>1. ASSUME NEW v \in Work
        PROVE  Todo(q', work')[v] = IF v = q[n] THEN -1 ELSE Todo(q, work)[v]
    <3>1. CASE v = q[n]
      BY <1>3, <3>1 DEF Todo
    <3>2. CASE v # q[n]
      BY <1>3, <1>6, <3>2 DEF Todo
    <3> QED
      BY <3>1, <3>2
  <2> DEFINE a == Todo(q, work)
             b == Todo(q', work')
             x == q[n]
  <2>2. a = [v \in Work |-> a[v]] /\ b = [v \in Work |-> b[v]]
    BY DEF Todo
  <2>3. \A v \in Work : b[v] = IF v = x THEN -1 ELSE a[v]
    BY <2>1
  <2> HIDE DEF a, b, x
  <2>4. b = [a EXCEPT ![x] = -1]
    BY <2>2, <2>3
  <2> QED
    BY <2>4 DEF a, b, x
<1> QED
  BY <1>3, <1>5, <1>6, <1>7, <1>8, <1>9, <1>10 DEF ListOK

(* A tick brings every work of the list closer to its time. *)
LEMMA TickEffect ==
    ASSUME ListOK(q, work), Tick
    PROVE  /\ ListOK(q', work')
           /\ \A w \in Work : work'[w].delay = work[w].delay
           /\ \A w \in Range(q) : Time(work'[w]) =
                 IF Time(work[w]) > 0 THEN Time(work[w]) - 1 ELSE Time(work[w])
<1>1. /\ q' = q /\ kind' = kind
      /\ work' = [w \in Work |-> IF w \in Range(q) THEN [work[w] EXCEPT !.age = Later(@)] ELSE work[w]]
  BY DEF Tick
<1>2. /\ q \in Seq(Work) /\ IsInjective(q) /\ work \in [Work -> JRec] /\ Len(q) \in Nat
      /\ \A v \in Work : work[v].worker <=> v \in Range(q)
      /\ kind.sorting => InOrder(q, work)
  BY DEF ListOK
<1>3. /\ Cap \in Nat /\ MaxDelay \in Nat /\ MaxDelay <= Cap
      /\ \A t \in 0 .. Cap : Later(t) \in 0 .. Cap /\ (t < Cap => Later(t) = t + 1)
  BY CapLemma
<1>4. ASSUME NEW w \in Work
      PROVE  /\ work'[w] \in JRec
             /\ work'[w].worker = work[w].worker /\ work'[w].delay = work[w].delay
             /\ work'[w].age = IF w \in Range(q) THEN Later(work[w].age) ELSE work[w].age
  <2>1. work[w] \in JRec
    BY <1>2
  <2>2. CASE w \in Range(q)
    <3>1. work'[w] = [work[w] EXCEPT !.age = Later(@)]
      BY <1>1, <2>2
    <3> QED
      BY <1>3, <2>1, <2>2, <3>1 DEF JRec
  <2>3. CASE w \notin Range(q)
    BY <1>1, <2>1, <2>3
  <2> QED
    BY <2>2, <2>3
<1>5. work' \in [Work -> JRec]
  BY <1>1, <1>4
<1>6. \A n \in 1 .. Len(q) : q[n] \in Work
  BY <1>2
<1>7. kind.sorting => InOrder(q, work')
  BY <1>2, <1>4, <1>6 DEF InOrder
<1>8. ASSUME NEW w \in Range(q)
      PROVE  Time(work'[w]) = IF Time(work[w]) > 0 THEN Time(work[w]) - 1 ELSE Time(work[w])
  <2>1. w \in Work
    BY <1>2, RangeLemma
  <2>2. /\ work[w].age \in 0 .. Cap /\ work[w].delay \in 0 .. MaxDelay
        /\ work'[w].age = Later(work[w].age) /\ work'[w].delay = work[w].delay
    BY <1>2, <1>4, <2>1 DEF JRec
  <2>3. CASE work[w].age >= work[w].delay
    <3>1. work'[w].age >= work'[w].delay
      <4>1. CASE work[w].age < Cap
        BY <1>3, <2>2, <2>3, <4>1
      <4>2. CASE work[w].age = Cap
        <5>1. Later(Cap) = Cap
          BY <1>3 DEF Later
        <5> QED
          BY <1>3, <2>2, <2>3, <4>2, <5>1
      <4> QED
        BY <1>3, <2>2, <4>1, <4>2
    <3> QED
      BY <2>3, <3>1 DEF Time
  <2>4. CASE work[w].age < work[w].delay
    <3>1. work'[w].age = work[w].age + 1
      BY <1>3, <2>2, <2>4
    <3> QED
      BY <1>3, <2>2, <2>4, <3>1 DEF Time
  <2> QED
    BY <1>3, <2>2, <2>3, <2>4
<1>9. \A v \in Work : work'[v].worker <=> v \in Range(q)
  BY <1>2, <1>4
<1> QED
  BY <1>1, <1>2, <1>4, <1>5, <1>7, <1>8, <1>9 DEF ListOK

-----------------------------------------------------------------------------
(* The workers *)

(* A worker has a timer when it sleeps, and is not busy when it waits. *)
RestOK(r) ==
    /\ r.timer > 0 <=> r.pc = "sleep"
    /\ r.pc \in {"sleep", "wait"} => ~ r.busy

(* The longest that a worker asleep may leave the work of record r.        *)
Bound(r) == IF kind.sorting THEN r.delay ELSE Time(r)

(* Worker s wakes up in time for all the works j of the list l. *)
InTime(s, l, j) == \A w \in Range(l) : s.pc = "sleep" /\ s.timer <= 1 + Bound(j[w])

LEMMA WorkersLemma == 0 \in Workers /\ Active \subseteq Workers /\ Workers \subseteq Nat
BY WorkQueueAssumption DEF Workers, Active

(* A signal wakes a worker up and changes nothing else. *)
LEMMA AwakeLemma ==
    ASSUME NEW s \in WRec
    PROVE  /\ Awake(s) \in WRec /\ Awake(s).item = s.item
           /\ Awake(s).pc \notin {"sleep", "wait"}
           /\ RestOK(s) => RestOK(Awake(s))
           /\ s.pc \notin {"sleep", "wait"} => Awake(s) = s
<1>1. CASE s.pc \in {"sleep", "wait"}
  <2>1. Awake(s) = [s EXCEPT !.pc = "woken", !.timer = 0]
    BY <1>1 DEF Awake
  <2>2. 0 \in 0 .. Cap + 1
    BY CapLemma
  <2>3. Awake(s) \in WRec
    BY <2>1, <2>2 DEF WRec
  <2>4. Awake(s).item = s.item /\ Awake(s).pc = "woken" /\ Awake(s).timer = 0
    BY <2>1 DEF WRec
  <2> QED
    BY <1>1, <2>3, <2>4 DEF RestOK
<1>2. CASE s.pc \notin {"sleep", "wait"}
  <2>1. Awake(s) = s
    BY <1>2 DEF Awake
  <2> QED
    BY <1>2, <2>1
<1> QED
  BY <1>1, <1>2

(* work_signal() signals worker 0 whenever that one is not busy. *)
LEMMA IdleLemma ==
    ASSUME wk \in [Workers -> WRec]
    PROVE  IdleWorker \in Workers /\ (~ wk[0].busy => IdleWorker = 0)
<1> DEFINE idle == {i \in Workers : ~ wk[i].busy}
<1>1. CASE kind.hp \/ idle = {}
  BY <1>1, WorkersLemma DEF IdleWorker
<1>2. CASE ~(kind.hp \/ idle = {})
  <2>1. IdleWorker = Min(idle) /\ idle # {}
    BY <1>2 DEF IdleWorker
  <2>2. idle \subseteq Nat
    BY WorkersLemma
  <2>3. Min(idle) \in idle /\ \A j \in idle : Min(idle) <= j
    <3> HIDE DEF idle
    <3> QED
      BY <2>1, <2>2, MinLemma
  <2>4. ~ wk[0].busy => Min(idle) = 0
    <3>1. SUFFICES ASSUME ~ wk[0].busy PROVE Min(idle) = 0
      OBVIOUS
    <3>2. 0 \in idle
      BY <3>1, WorkersLemma
    <3> QED
      BY <2>2, <2>3, <3>2
  <2> QED
    BY <2>1, <2>3, <2>4
<1> QED
  BY <1>1, <1>2

(* What a pass finds left of a delay is no more than what is left. *)
LEMMA RemainingLemma ==
    ASSUME ListOK(q, work), NEW w \in Work, NEW took \in Nat
    PROVE  /\ Remaining(w, took) \in 0 .. MaxDelay
           /\ Remaining(w, took) <= Time(work[w])
           /\ Remaining(w, took) <= work[w].delay
<1>1. work[w].age \in 0 .. Cap /\ work[w].delay \in 0 .. MaxDelay
  BY DEF ListOK, JRec
<1> QED
  BY <1>1, CapLemma DEF Remaining, Time

(* Sooner is no later than any of the works passed. *)
LEMMA SoonerLemma ==
    ASSUME ListOK(q, work), NEW took \in Nat, NEW next \in Nat,
           NEW passed, passed \subseteq 1 .. Len(q)
    PROVE  /\ Sooner(next, took, passed) \in 0 .. next
           /\ \A n \in passed : Sooner(next, took, passed) <= Remaining(q[n], took)
<1> DEFINE T == {next} \cup {Remaining(q[n], took) : n \in passed}
<1>1. \A n \in passed : q[n] \in Work
  BY DEF ListOK
<1>2. \A n \in passed : Remaining(q[n], took) \in Nat
  BY <1>1, RemainingLemma, CapLemma
<1>3. T \subseteq Nat /\ T # {} /\ next \in T
  BY <1>2
<1>4. \A n \in passed : Remaining(q[n], took) \in T
  OBVIOUS
<1>5. Sooner(next, took, passed) = Min(T)
  BY DEF Sooner
<1> HIDE DEF T
<1>6. Min(T) \in T /\ \A j \in T : Min(T) <= j
  BY <1>3, MinLemma
<1>7. Min(T) \in Nat /\ Min(T) <= next /\ \A n \in passed : Min(T) <= Remaining(q[n], took)
  BY <1>3, <1>4, <1>6
<1> QED
  BY <1>5, <1>7

(* A worker that finds nothing to do waits no longer than it may. *)
LEMMA DozeLemma ==
    ASSUME ListOK(q, work), wk \in [Workers -> WRec], kind.sorting \in BOOLEAN,
           NEW i \in Workers, NEW took \in 0 .. Cap, NEW next \in 0 .. Cap
    PROVE  LET s == Doze(i, took, next) IN
           /\ s \in WRec /\ s.item = None
           /\ wk[i].timer = 0 => RestOK(s)
           /\ i = 0 /\ s.pc \in {"sleep", "wait"} => InTime(s, q, work)
<1> DEFINE s == Doze(i, took, next)
           idle == [wk[i] EXCEPT !.busy = FALSE, !.item = None, !.took = 0, !.next = 0]
           n == IF kind.sorting THEN Remaining(q[1], took) ELSE Sooner(next, took, 1 .. Len(q))
           bare == i # 0 \/ (kind.sorting /\ q = <<>>)
<1>1. /\ Cap \in Nat /\ Period \in Nat \ {0} /\ MaxDelay \in Nat /\ MaxDelay <= Cap /\ took \in Nat /\ next \in Nat
  BY CapLemma
<1>2. /\ q \in Seq(Work) /\ Len(q) \in Nat
      /\ \A m \in 1 .. Len(q) : q[m] \in Work
      /\ \A w \in Range(q) : w \in Work /\ \E m \in 1 .. Len(q) : q[m] = w
  BY RangeLemma DEF ListOK
<1>3. /\ idle \in WRec /\ idle.pc = wk[i].pc /\ idle.timer = wk[i].timer
      /\ ~ idle.busy /\ idle.item = None /\ wk[i].busy \in BOOLEAN
  <2>1. 0 \in 0 .. Cap /\ wk[i] \in WRec
    BY <1>1
  <2>2. idle \in WRec
    BY <2>1 DEF WRec
  <2>3. idle.pc = wk[i].pc /\ idle.timer = wk[i].timer /\ idle.item = None
    BY <2>1 DEF WRec
  <2>4. ~ idle.busy /\ wk[i].busy \in BOOLEAN
    BY <2>1 DEF WRec
  <2> QED
    BY <2>2, <2>3, <2>4
<1> HIDE DEF idle
<1>4. CASE bare
  <2>1. s = [idle EXCEPT !.pc = "wait"]
    BY <1>4 DEF Doze, idle
  <2>2. s \in WRec /\ s.item = None /\ s.pc = "wait" /\ s.timer = wk[i].timer /\ ~ s.busy
    BY <1>3, <2>1 DEF WRec
  <2>3. wk[i].timer = 0 => RestOK(s)
    BY <2>2 DEF RestOK
  <2>4. i = 0 => Range(q) = {}
    <3>1. i = 0 => Len(q) = 0
      BY <1>4
    <3> QED
      BY <1>2, <3>1
  <2> QED
    BY <2>2, <2>3, <2>4 DEF InTime
<1>5. CASE ~ bare /\ kind.sorting /\ n > 0
  <2>1. i = 0 /\ q # <<>>
    BY <1>5
  <2>2. s = [idle EXCEPT !.pc = "sleep", !.timer = n + 1]
    BY <1>5, <2>1 DEF Doze, idle
  <2>3. 1 \in 1 .. Len(q)
    BY <1>2, <2>1, EmptySeq
  <2>4. n \in 0 .. MaxDelay /\ n <= work[q[1]].delay
    BY <1>1, <1>2, <1>5, <2>3, RemainingLemma
  <2> HIDE DEF n
  <2>5. s \in WRec /\ s.item = None /\ s.pc = "sleep" /\ s.timer = n + 1 /\ ~ s.busy
    <3>1. n + 1 \in 0 .. Cap + 1
      BY <1>1, <2>4
    <3>2. s \in WRec
      BY <1>3, <2>2, <3>1 DEF WRec
    <3>3. s.item = None /\ s.pc = "sleep" /\ s.timer = n + 1
      BY <1>3, <2>2 DEF WRec
    <3>4. ~ s.busy
      BY <1>3, <2>2 DEF WRec
    <3> QED
      BY <3>2, <3>3, <3>4
  <2>6. RestOK(s)
    BY <1>5, <2>4, <2>5 DEF RestOK
  <2>7. ASSUME NEW w \in Range(q) PROVE s.timer <= 1 + Bound(work[w])
    <3>1. PICK m \in 1 .. Len(q) : q[m] = w
      BY <1>2
    <3>2. work[q[1]].delay <= work[w].delay
      <4>1. 1 < m => work[q[1]].delay <= work[q[m]].delay
        BY <1>5, <2>3 DEF ListOK, InOrder
      <4>2. work[q[1]].delay \in Int
        BY <1>1, <1>2, <2>3, SMTT(30) DEF ListOK, JRec
      <4> QED
        BY <1>2, <3>1, <4>1, <4>2
    <3>3. work[w].delay \in Int /\ work[q[1]].delay \in Int /\ Bound(work[w]) = work[w].delay
      BY <1>1, <1>2, <1>5, <2>3 DEF ListOK, JRec, Bound
    <3> QED
      BY <2>4, <2>5, <3>2, <3>3
  <2> QED
    BY <2>5, <2>6, <2>7 DEF InTime
<1>6. CASE ~ bare /\ ~ kind.sorting /\ took < Period /\ n > 0
  <2> DEFINE T == {n, Period - took}
  <2>1. i = 0
    BY <1>6
  <2>2. s = [idle EXCEPT !.pc = "sleep", !.timer = Min(T) + 1]
    BY <1>6, <2>1 DEF Doze, idle
  <2>3. n \in 0 .. next /\ \A m \in 1 .. Len(q) : n <= Remaining(q[m], took)
    BY <1>1, <1>6, SoonerLemma
  <2> HIDE DEF n
  <2>4. T \subseteq Nat /\ T # {} /\ n \in T
    BY <1>1, <1>6, <2>3
  <2>5. Min(T) \in T /\ Min(T) <= n
    <3> HIDE DEF T
    <3> QED
      BY <2>4, MinLemma
  <2>6. Min(T) \in 1 .. Cap
    BY <1>1, <1>6, <2>3, <2>5
  <2> HIDE DEF T
  <2>7. s \in WRec /\ s.item = None /\ s.pc = "sleep" /\ s.timer = Min(T) + 1 /\ ~ s.busy
    <3>1. Min(T) + 1 \in 0 .. Cap + 1
      BY <1>1, <2>6
    <3>2. s \in WRec
      BY <1>3, <2>2, <3>1 DEF WRec
    <3>3. s.item = None /\ s.pc = "sleep" /\ s.timer = Min(T) + 1
      BY <1>3, <2>2 DEF WRec
    <3>4. ~ s.busy
      BY <1>3, <2>2 DEF WRec
    <3> QED
      BY <3>2, <3>3, <3>4
  <2>8. RestOK(s)
    BY <2>6, <2>7 DEF RestOK
  <2>9. ASSUME NEW w \in Range(q) PROVE s.timer <= 1 + Bound(work[w])
    <3>1. PICK m \in 1 .. Len(q) : q[m] = w
      BY <1>2
    <3>2. Remaining(w, took) \in 0 .. MaxDelay /\ Remaining(w, took) <= Time(work[w])
      BY <1>1, <1>2, RemainingLemma
    <3>3. n <= Remaining(w, took) /\ Bound(work[w]) = Time(work[w])
      BY <1>6, <2>3, <3>1 DEF Bound
    <3>4. Time(work[w]) \in Int
      BY <1>1, <1>2 DEF Time, ListOK, JRec
    <3> QED
      BY <1>1, <2>3, <2>5, <2>6, <2>7, <3>2, <3>3, <3>4
  <2> QED
    BY <2>7, <2>8, <2>9 DEF InTime
<1>7. CASE ~ bare /\ ~(kind.sorting /\ n > 0) /\ ~(~ kind.sorting /\ took < Period /\ n > 0)
  <2>1. s = [idle EXCEPT !.pc = "run", !.busy = wk[i].busy]
    <3>1. /\ ~(i # 0 \/ (kind.sorting /\ q = <<>>))
          /\ ~(kind.sorting /\ q # <<>> /\ i = 0 /\ n > 0)
          /\ ~(~ kind.sorting /\ i = 0 /\ took < Period /\ n > 0)
      BY <1>7
    <3> QED
      BY <3>1 DEF Doze, idle
  <2>2. s \in WRec /\ s.item = None /\ s.pc = "run" /\ s.timer = wk[i].timer
    BY <1>3, <2>1 DEF WRec
  <2>3. wk[i].timer = 0 => RestOK(s)
    BY <2>2 DEF RestOK
  <2> QED
    BY <2>2, <2>3
<1> QED
  BY <1>4, <1>5, <1>6, <1>7

(* Where it goes on with a work, the work was due. *)
LEMMA TakeLemma ==
    ASSUME ListOK(q, work), wk \in [Workers -> WRec], kind.sorting \in BOOLEAN, kind' = kind,
           NEW i \in Workers, NEW took \in 0 .. Cap, NEW next \in 0 .. Cap,
           Ready # {}, Take(i, took, next)
    PROVE  \E w \in Work, s \in WRec :
             /\ wk' = [wk EXCEPT ![i] = s]
             /\ s.item = w /\ s.pc = "call" /\ s.timer = wk[i].timer
             /\ ListOK(q', work') /\ Range(q') \subseteq Range(q)
             /\ \A v \in Range(q') : work'[v] = work[v]
             /\ Todo(q, work)[w] = 0 /\ Todo(q', work') = [Todo(q, work) EXCEPT ![w] = -1]
<1> DEFINE n == Min(Ready)
           s == [wk[i] EXCEPT !.pc = "call", !.item = q[n], !.took = took,
                              !.next = Sooner(next, took, 1 .. n - 1)]
<1>1. /\ q' = RemoveAt(q, n) /\ work' = [work EXCEPT ![q[n]] = Off]
      /\ wk' = [wk EXCEPT ![i] = s]
  BY DEF Take
<1>2. q \in Seq(Work) /\ Len(q) \in Nat /\ Cap \in Nat /\ took \in Nat /\ next \in Nat
  BY CapLemma DEF ListOK
<1>3. Ready \subseteq 1 .. Len(q) /\ \A m \in Ready : Due(q[m])
  BY DEF Ready
<1>4. n \in Ready
  <2>1. Ready \subseteq Nat
    BY <1>2, <1>3
  <2> QED
    BY <2>1, MinLemma
<1> HIDE DEF n
<1>5. n \in 1 .. Len(q) /\ Due(q[n])
  BY <1>3, <1>4
<1>6. 1 .. n - 1 \subseteq 1 .. Len(q)
  BY <1>2, <1>5
<1>7. Sooner(next, took, 1 .. n - 1) \in 0 .. next
  BY <1>2, <1>6, SoonerLemma
<1>8. Sooner(next, took, 1 .. n - 1) \in 0 .. Cap
  BY <1>2, <1>7
<1>9. /\ ListOK(q', work') /\ q[n] \in Work /\ Range(q') = Range(q) \ {q[n]}
      /\ \A v \in Range(q') : work'[v] = work[v]
      /\ Todo(q', work') = [Todo(q, work) EXCEPT ![q[n]] = -1]
  BY <1>1, <1>5, UnlistEffect
<1>10. q[n] \in Range(q)
  BY <1>2, <1>5, RangeLemma
<1>11. Todo(q, work)[q[n]] = 0
  BY <1>5, <1>9, <1>10 DEF Todo, Time, Due
<1>12. wk[i] \in WRec /\ q[n] \in Work \cup {None}
  BY <1>9
<1>13. s \in WRec
  BY <1>8, <1>12 DEF WRec
<1>14. s.item = q[n] /\ s.pc = "call" /\ s.timer = wk[i].timer
  BY <1>12 DEF WRec
<1> HIDE DEF s
<1> QED
  BY <1>1, <1>9, <1>11, <1>13, <1>14

-----------------------------------------------------------------------------
(* The list and the calls *)

Safe == TypeOK /\ ListOK(q, work)

LEMMA TypeForms ==
    TypeOK <=> /\ kind \in Kinds /\ started \in BOOLEAN /\ q \in Seq(Work)
               /\ work \in [Work -> JRec] /\ wk \in [Workers -> WRec]
               /\ cl \in [Clients -> [pc : {"idle", "signal", "kill"}, to : Workers]]
BY DEF TypeOK, JRec, WRec

LEMMA KindLemma ==
    ASSUME TypeOK
    PROVE  kind.sorting \in BOOLEAN /\ kind.hp \in BOOLEAN /\ kind.boot \in BOOLEAN
BY WorkQueueAssumption DEF TypeOK

(* What the abstract work queue sees of a state. *)
LEMMA LeftIsTodo == [w \in Work |-> IF w \in Range(q) THEN Left(w) ELSE -1] = Todo(q, work)
BY DEF Todo, Time, Left, Due

LEMMA InitSafe == Init => Safe /\ Promise!Init
<1> SUFFICES ASSUME Init PROVE Safe /\ Promise!Init
  OBVIOUS
<1>1. Range(q) = {} /\ q = <<>> /\ q \in Seq(Work)
  BY DEF Range, Init
<1>2. IsInjective(q)
  BY <1>1 DEF IsInjective, Init
<1>3. work \in [Work -> JRec] /\ \A w \in Work : ~ work[w].worker
  BY OffLemma DEF Init
<1>4. wk \in [Workers -> WRec]
  <2>1. 0 \in 0 .. Cap /\ 0 \in 0 .. Cap + 1 /\ started \in BOOLEAN
    BY CapLemma DEF Init
  <2> QED
    BY <2>1 DEF Init, WRec
<1>5. cl \in [Clients -> [pc : {"idle", "signal", "kill"}, to : Workers]]
  BY WorkersLemma DEF Init
<1>6. InOrder(q, work)
  BY <1>1 DEF InOrder
<1>7. Safe
  BY <1>1, <1>2, <1>3, <1>4, <1>5, <1>6, TypeForms DEF Safe, ListOK, Init
<1>8. Promise!Init
  BY <1>1 DEF Promise!Init, Init
<1> QED
  BY <1>7, <1>8

(* A worker looks at the list. *)
LEMMA ScanSafe ==
    ASSUME Safe, NEW i \in Workers, NEW took \in 0 .. Cap, NEW next \in 0 .. Cap,
           Scan(i, took, next), UNCHANGED <<kind, started, cl, calls>>
    PROVE  /\ Safe'
           /\ \/ Promise!Finish(i)
              \/ \E w \in Work : Promise!Begin(i, w)
<1> DEFINE L == [w \in Work |-> IF w \in Range(q) THEN Left(w) ELSE -1]
           I == [j \in Workers |-> wk[j].item]
<1>1. /\ wk \in [Workers -> WRec] /\ ListOK(q, work) /\ kind.sorting \in BOOLEAN
      /\ kind' = kind
  BY TypeForms, KindLemma DEF Safe
<1>2. L = Todo(q, work) /\ L' = Todo(q', work')
  BY LeftIsTodo DEF Todo, Time, Left, Due
<1>3. ASSUME NEW s \in WRec, wk' = [wk EXCEPT ![i] = s]
      PROVE  I' = [I EXCEPT ![i] = s.item] /\ wk' \in [Workers -> WRec]
  BY <1>1, <1>3
<1>4. CASE Ready # {} /\ Take(i, took, next)
  <2>1. PICK w \in Work, s \in WRec :
             /\ wk' = [wk EXCEPT ![i] = s] /\ s.item = w
             /\ ListOK(q', work')
             /\ Todo(q, work)[w] = 0 /\ Todo(q', work') = [Todo(q, work) EXCEPT ![w] = -1]
    BY <1>1, <1>4, TakeLemma
  <2>2. I' = [I EXCEPT ![i] = w] /\ wk' \in [Workers -> WRec]
    BY <1>3, <2>1
  <2>3. L[w] = 0 /\ L' = [L EXCEPT ![w] = -1]
    BY <1>2, <2>1
  <2>4. ListOK(q, work)'
    BY <1>1, <2>1 DEF ListOK
  <2>5. Safe'
    BY <1>1, <2>2, <2>4 DEF Safe, TypeOK, WRec, JRec, ListOK
  <2>6. Promise!Begin(i, w)
    BY <2>2, <2>3 DEF Promise!Begin
  <2> QED
    BY <2>5, <2>6
<1>5. CASE wk' = [wk EXCEPT ![i] = Doze(i, took, next)] /\ UNCHANGED <<q, work>>
  <2>1. Doze(i, took, next) \in WRec /\ Doze(i, took, next).item = None
    BY <1>1, DozeLemma
  <2>2. I' = [I EXCEPT ![i] = None] /\ wk' \in [Workers -> WRec]
    BY <1>3, <1>5, <2>1
  <2>3. L' = L
    BY <1>2, <1>5
  <2>4. ListOK(q, work)'
    BY <1>1, <1>5 DEF ListOK
  <2>5. Safe'
    BY <1>1, <1>5, <2>2, <2>4 DEF Safe, TypeOK, WRec, JRec, ListOK
  <2>6. Promise!Finish(i)
    BY <2>2, <2>3 DEF Promise!Finish
  <2> QED
    BY <2>5, <2>6
<1> QED
  BY <1>4, <1>5 DEF Scan

(* A signal is no step of the abstract work queue. *)
LEMMA KillLemma ==
    ASSUME Safe, NEW i \in Workers, Kill(i)
    PROVE  /\ wk' \in [Workers -> WRec] /\ \A j \in Workers : wk'[j].item = wk[j].item
           /\ \A j \in Workers : wk'[j] = wk[j] \/ wk'[j] = Awake(wk[j])
           /\ started => wk'[i] = Awake(wk[i])
<1>1. wk \in [Workers -> WRec]
  BY TypeForms DEF Safe
<1>2. Awake(wk[i]) \in WRec /\ Awake(wk[i]).item = wk[i].item
  BY <1>1, AwakeLemma
<1>3. wk' = IF started THEN [wk EXCEPT ![i] = Awake(wk[i])] ELSE wk
  BY <1>1 DEF Kill
<1> QED
  BY <1>1, <1>2, <1>3

(* Every step keeps list and flags in agreement and is one of the abstract *)
(* work queue, or none.                                                    *)
LEMMA SafeStep ==
    ASSUME Safe, [Next]_vars
    PROVE  Safe' /\ [Promise!Next]_(Promise!vars)
<1> DEFINE L == [w \in Work |-> IF w \in Range(q) THEN Left(w) ELSE -1]
           I == [j \in Workers |-> wk[j].item]
           Cl == [Clients -> [pc : {"idle", "signal", "kill"}, to : Workers]]
<1>1. /\ kind \in Kinds /\ started \in BOOLEAN /\ q \in Seq(Work) /\ work \in [Work -> JRec]
      /\ wk \in [Workers -> WRec] /\ cl \in Cl /\ ListOK(q, work)
  BY TypeForms DEF Safe
<1>2. L = Todo(q, work) /\ L' = Todo(q', work')
  BY LeftIsTodo DEF Todo, Time, Left, Due
<1>3. ASSUME kind' = kind, ListOK(q', work'), started' \in BOOLEAN, wk' \in [Workers -> WRec], cl' \in Cl
      PROVE  Safe'
  <2>1. ListOK(q, work)'
    BY <1>3 DEF ListOK
  <2>2. TypeOK'
    BY <1>1, <1>3 DEF TypeOK, ListOK, JRec, WRec
  <2> QED
    BY <2>1, <2>2 DEF Safe
<1>4. ASSUME L' = L, \A j \in Workers : wk'[j].item = wk[j].item PROVE UNCHANGED Promise!vars
  <2>1. I' = I
    BY <1>4
  <2> QED
    BY <1>4, <2>1 DEF Promise!vars
<1> HIDE DEF Cl
<1>5. CASE Start
  <2>1. /\ kind' = kind /\ q' = q /\ work' = work /\ cl' = cl /\ started' = TRUE
        /\ wk' = [j \in Workers |-> IF j \in Active THEN [wk[j] EXCEPT !.busy = TRUE] ELSE wk[j]]
    BY <1>5 DEF Start
  <2>2. ASSUME NEW j \in Workers PROVE wk'[j] \in WRec /\ wk'[j].item = wk[j].item
    <3>1. wk[j] \in WRec /\ (wk'[j] = wk[j] \/ wk'[j] = [wk[j] EXCEPT !.busy = TRUE])
      BY <1>1, <2>1
    <3> QED
      BY <3>1 DEF WRec
  <2>3. wk' \in [Workers -> WRec]
    BY <2>1, <2>2
  <2> QED
    BY <1>1, <1>2, <1>3, <1>4, <2>1, <2>2, <2>3
<1>6. CASE Tick
  <2>1. /\ kind' = kind /\ q' = q /\ cl' = cl /\ started' = started
        /\ wk' = [i \in Workers |->
                CASE wk[i].timer = 1 -> Awake(wk[i])
                  [] wk[i].timer > 1 -> [wk[i] EXCEPT !.timer = @ - 1]
                  [] wk[i].pc = "call" -> [wk[i] EXCEPT !.took = Later(@)]
                  [] OTHER -> wk[i]]
    BY <1>6 DEF Tick
  <2>2. /\ ListOK(q', work')
        /\ \A w \in Range(q) : Time(work'[w]) =
                 IF Time(work[w]) > 0 THEN Time(work[w]) - 1 ELSE Time(work[w])
    BY <1>1, <1>6, TickEffect
  <2>3. ASSUME NEW j \in Workers PROVE wk'[j] \in WRec /\ wk'[j].item = wk[j].item
    <3>1. wk[j] \in WRec /\ wk[j].timer \in 0 .. Cap + 1 /\ wk[j].took \in 0 .. Cap
      BY <1>1 DEF WRec
    <3>2. Later(wk[j].took) \in 0 .. Cap /\ (wk[j].timer > 1 => wk[j].timer - 1 \in 0 .. Cap + 1)
      BY <3>1, CapLemma
    <3>3. \/ wk'[j] = Awake(wk[j])
          \/ wk[j].timer > 1 /\ wk'[j] = [wk[j] EXCEPT !.timer = wk[j].timer - 1]
          \/ wk'[j] = [wk[j] EXCEPT !.took = Later(wk[j].took)]
          \/ wk'[j] = wk[j]
      <4>1. wk'[j] = CASE wk[j].timer = 1 -> Awake(wk[j])
                  [] wk[j].timer > 1 -> [wk[j] EXCEPT !.timer = wk[j].timer - 1]
                  [] wk[j].pc = "call" -> [wk[j] EXCEPT !.took = Later(wk[j].took)]
                  [] OTHER -> wk[j]
        BY <2>1, <3>1
      <4> QED
        BY <4>1, <3>1
    <3>4. Awake(wk[j]) \in WRec /\ Awake(wk[j]).item = wk[j].item
      BY <3>1, AwakeLemma
    <3> QED
      BY <3>1, <3>2, <3>3, <3>4 DEF WRec
  <2>4. wk' \in [Workers -> WRec]
    BY <2>1, <2>3
  <2>5. I' = I
    BY <2>3
  <2>6. L' = [w \in Work |-> IF L[w] > 0 THEN L[w] - 1 ELSE L[w]]
    <3>1. ASSUME NEW w \in Work PROVE L'[w] = IF L[w] > 0 THEN L[w] - 1 ELSE L[w]
      <4>1. /\ L[w] = IF w \in Range(q) THEN Time(work[w]) ELSE -1
            /\ L'[w] = IF w \in Range(q) THEN Time(work'[w]) ELSE -1
        BY <1>2, <2>1 DEF Todo
      <4> HIDE DEF L
      <4> QED
        BY <2>2, <4>1
    <3>2. L' = [w \in Work |-> L'[w]]
      OBVIOUS
    <3> HIDE DEF L
    <3> QED
      BY <3>1, <3>2
  <2>7. Promise!Tick
    BY <2>5, <2>6 DEF Promise!Tick
  <2>8. Safe'
    BY <1>1, <1>3, <2>1, <2>2, <2>4
  <2> QED
    BY <2>7, <2>8 DEF Promise!Next
<1>7. ASSUME NEW w \in Work, work_cancel(w) PROVE Safe' /\ Promise!Cancel(w)
  <2> DEFINE n == CHOOSE m \in 1 .. Len(q) : q[m] = w
  <2>1. /\ w \in Range(q) /\ q' = RemoveAt(q, n) /\ work' = [work EXCEPT ![w] = Off]
        /\ UNCHANGED <<kind, started, wk, cl, calls>>
    BY <1>7 DEF work_cancel
  <2>2. n \in 1 .. Len(q) /\ q[n] = w
    BY <1>1, <2>1, RangeLemma
  <2> HIDE DEF n
  <2>3. ListOK(q', work') /\ Todo(q', work') = [Todo(q, work) EXCEPT ![w] = -1]
    BY <1>1, <2>1, <2>2, UnlistEffect
  <2>4. L[w] # -1
    <3>1. work[w].age \in 0 .. Cap /\ work[w].delay \in 0 .. MaxDelay
      BY <1>1 DEF JRec
    <3>2. Time(work[w]) \in Nat
      BY <3>1, CapLemma DEF Time
    <3> QED
      BY <1>2, <2>1, <3>2 DEF Todo
  <2>5. L' = [L EXCEPT ![w] = -1] /\ I' = I
    BY <1>2, <2>1, <2>3
  <2> QED
    BY <1>1, <1>3, <2>1, <2>3, <2>4, <2>5 DEF Promise!Cancel
<1>8. ASSUME NEW w \in Work, NEW d \in 0 .. MaxDelay, work_qqueue(w, d), kind' = kind, started' = started,
             wk' \in [Workers -> WRec], \A j \in Workers : wk'[j].item = wk[j].item, cl' \in Cl
      PROVE  Safe' /\ Promise!Queue(w, d)
  <2>1. /\ ListOK(q', work') /\ w \notin Range(q)
        /\ Todo(q', work') = [Todo(q, work) EXCEPT ![w] = d]
    BY <1>1, <1>8, QueueEffect
  <2>2. I' = I
    BY <1>8
  <2>3. L[w] = -1 /\ L' = [L EXCEPT ![w] = d]
    BY <1>2, <2>1
  <2> QED
    BY <1>1, <1>3, <1>8, <2>1, <2>2, <2>3 DEF Promise!Queue
<1>9. ASSUME NEW w \in Work, NEW d \in 0 .. MaxDelay, IsrQueue(w, d) PROVE Safe' /\ Promise!Queue(w, d)
  <2>1. work_qqueue(w, d) /\ Kill(IdleWorker) /\ UNCHANGED <<kind, started, cl>>
    BY <1>9 DEF IsrQueue
  <2>2. IdleWorker \in Workers
    BY <1>1, IdleLemma
  <2>3. wk' \in [Workers -> WRec] /\ \A j \in Workers : wk'[j].item = wk[j].item
    BY <2>1, <2>2, KillLemma
  <2> QED
    BY <1>1, <1>8, <2>1, <2>3
<1>10. ASSUME NEW w \in Work, NEW d \in 0 .. MaxDelay, NEW c \in Clients, TaskQueue(c, w, d)
       PROVE  Safe' /\ Promise!Queue(w, d)
  <2>1. work_qqueue(w, d) /\ UNCHANGED <<kind, started, wk>> /\ cl' = [cl EXCEPT ![c].pc = "signal"]
    BY <1>10 DEF TaskQueue
  <2>2. cl' \in Cl
    BY <1>1, <2>1 DEF Cl
  <2> QED
    BY <1>1, <1>8, <2>1, <2>2
<1>11. ASSUME NEW c \in Clients, work_signal(c) PROVE Safe' /\ UNCHANGED Promise!vars
  <2>1. /\ UNCHANGED <<kind, started, q, work, wk, calls>>
        /\ cl' = [cl EXCEPT ![c] = [pc |-> "kill", to |-> IdleWorker]]
    BY <1>11 DEF work_signal
  <2>2. cl' \in Cl
    BY <1>1, <2>1, IdleLemma DEF Cl
  <2> QED
    BY <1>1, <1>2, <1>3, <1>4, <2>1, <2>2
<1>12. ASSUME NEW c \in Clients, SignalKill(c) PROVE Safe' /\ UNCHANGED Promise!vars
  <2>1. /\ UNCHANGED <<kind, started, q, work, calls>> /\ Kill(cl[c].to)
        /\ cl' = [cl EXCEPT ![c] = [pc |-> "idle", to |-> 0]]
    BY <1>12 DEF SignalKill
  <2>2. cl' \in Cl /\ cl[c].to \in Workers
    BY <1>1, <2>1, WorkersLemma DEF Cl
  <2>3. wk' \in [Workers -> WRec] /\ \A j \in Workers : wk'[j].item = wk[j].item
    BY <2>1, <2>2, KillLemma
  <2> QED
    BY <1>1, <1>2, <1>3, <1>4, <2>1, <2>2, <2>3
<1>13. ASSUME NEW i \in Workers, work_process(i)
       PROVE  Safe' /\ (Promise!Finish(i) \/ \E w \in Work : Promise!Begin(i, w))
  <2>1. /\ Scan(i, 0, IF i = 0 THEN Period ELSE 0) /\ UNCHANGED <<kind, started, cl, calls>>
    BY <1>13 DEF work_process
  <2>2. 0 \in 0 .. Cap /\ (IF i = 0 THEN Period ELSE 0) \in 0 .. Cap
    BY CapLemma
  <2> QED
    BY <2>1, <2>2, ScanSafe
<1>14. ASSUME NEW i \in Workers, Returned(i)
       PROVE  Safe' /\ (Promise!Finish(i) \/ \E w \in Work : Promise!Begin(i, w))
  <2>1. /\ Scan(i, wk[i].took, wk[i].next) /\ UNCHANGED <<kind, started, cl, calls>>
    BY <1>14 DEF Returned
  <2>2. wk[i].took \in 0 .. Cap /\ wk[i].next \in 0 .. Cap
    BY <1>1 DEF WRec
  <2> QED
    BY <2>1, <2>2, ScanSafe
<1>15. ASSUME NEW i \in Workers, Resume(i) PROVE Safe' /\ UNCHANGED Promise!vars
  <2>1. /\ UNCHANGED <<kind, started, q, work, cl, calls>>
        /\ wk' = [wk EXCEPT ![i] = [wk[i] EXCEPT !.pc = "run", !.busy = TRUE]]
    BY <1>1, <1>15 DEF Resume
  <2>2. wk[i] \in WRec
    BY <1>1
  <2> DEFINE s == [wk[i] EXCEPT !.pc = "run", !.busy = TRUE]
  <2>3. s \in WRec /\ s.item = wk[i].item
    BY <2>2 DEF WRec
  <2> HIDE DEF s
  <2>4. wk' \in [Workers -> WRec] /\ \A j \in Workers : wk'[j].item = wk[j].item
    BY <1>1, <2>1, <2>3 DEF s
  <2> QED
    BY <1>1, <1>2, <1>3, <1>4, <2>1, <2>4
<1>16. CASE UNCHANGED vars
  <2>1. UNCHANGED <<kind, started, q, work, wk, cl>>
    BY <1>16 DEF vars
  <2> QED
    BY <1>1, <1>2, <1>3, <1>4, <2>1
<1> QED
  BY <1>5, <1>6, <1>7, <1>9, <1>10, <1>11, <1>12, <1>13, <1>14, <1>15, <1>16 DEF Next, Promise!Next

(* Whatever clients and workers do, the list and work->worker agree:       *)
(* work_queue() may reuse any work that work_available() reports free.     *)
THEOREM AvailableHolds == Spec => [](TypeOK /\ AvailableIsFree)
<1>1. Init => Safe
  BY InitSafe
<1>2. Safe /\ [Next]_vars => Safe'
  BY SafeStep
<1>3. Safe => TypeOK /\ AvailableIsFree
  BY DEF Safe, ListOK, AvailableIsFree
<1> QED
  BY <1>1, <1>2, <1>3, PTL DEF Spec

(* No callback is begun early, twice for one work_queue() call or after a  *)
(* work_cancel() that returned OK.                                         *)
THEOREM IsWorkQueueHolds == Spec => IsWorkQueue
<1>1. Init => Safe /\ Promise!Init
  BY InitSafe
<1>2. Safe /\ [Next]_vars => Safe'
  BY SafeStep
<1>3. Safe /\ [Next]_vars => [Promise!Next]_(Promise!vars)
  BY SafeStep
<1> QED
  BY <1>1, <1>2, <1>3, PTL DEF Spec, IsWorkQueue, Promise!Spec

-----------------------------------------------------------------------------
(* The wakeups *)

(* A task has a signal for worker 0 to send, or will look up whom to send  *)
(* it to, which is worker 0 if that one waits.                             *)
Coming == \E c \in Clients : cl[c].pc = "signal" \/ (cl[c].pc = "kill" /\ cl[c].to = 0)

Resting(r) == r.pc \in {"sleep", "wait"}

Timely ==
    /\ \A i \in Workers : RestOK(wk[i])
    /\ ~ started => ~ kind.hp /\ \A i \in Workers : wk[i].pc = "run"
    /\ Resting(wk[0]) /\ ~ Coming => InTime(wk[0], q, work)

Recorded == \A k \in Kinds : ~(k.hp /\ k.boot)

LEMMA InitTimely == ASSUME Recorded, Init PROVE Timely
<1>1. \A i \in Workers : wk[i].pc = "run" /\ wk[i].timer = 0
  BY DEF Init
<1>2. \A i \in Workers : RestOK(wk[i])
  BY <1>1 DEF RestOK
<1>3. ~ Resting(wk[0])
  BY <1>1, WorkersLemma DEF Resting
<1>4. ~ started => ~ kind.hp
  BY DEF Recorded, Init
<1> QED
  BY <1>1, <1>2, <1>3, <1>4 DEF Timely

(* A worker that was in time is so for a shorter list. *)
LEMMA InTimeLess ==
    ASSUME NEW s, NEW l, NEW j, NEW m, NEW k, InTime(s, l, j), Range(m) \subseteq Range(l),
           \A v \in Range(m) : k[v] = j[v]
    PROVE  InTime(s, m, k)
BY DEF InTime, Bound

LEMMA ScanTimely ==
    ASSUME Safe, Timely, started, NEW i \in Workers, wk[i].pc \in {"run", "call"},
           NEW took \in 0 .. Cap, NEW next \in 0 .. Cap,
           Scan(i, took, next), UNCHANGED <<kind, started, cl, calls>>
    PROVE  Timely'
<1>1. /\ wk \in [Workers -> WRec] /\ ListOK(q, work) /\ kind.sorting \in BOOLEAN
      /\ kind' = kind /\ 0 \in Workers
  BY TypeForms, KindLemma, WorkersLemma DEF Safe
<1>2. wk[i].timer = 0
  <2>1. wk[i].timer \in Nat /\ RestOK(wk[i])
    BY <1>1, CapLemma DEF WRec, Timely
  <2> QED
    BY <2>1 DEF RestOK
<1>3. Coming' = Coming
  BY DEF Coming
<1>4. ASSUME NEW s \in WRec, wk' = [wk EXCEPT ![i] = s], RestOK(s),
             Range(q') \subseteq Range(q), \A v \in Range(q') : work'[v] = work[v],
             i = 0 /\ Resting(s) => InTime(s, q', work')
      PROVE  Timely'
  <2>1. \A j \in Workers : wk'[j] = IF j = i THEN s ELSE wk[j]
    BY <1>1, <1>4
  <2>2. \A j \in Workers : RestOK(wk'[j])
    BY <1>4, <2>1 DEF Timely
  <2>3. Resting(wk'[0]) /\ ~ Coming => InTime(wk'[0], q', work')
    <3>1. CASE i = 0
      BY <1>1, <1>4, <2>1, <3>1
    <3>2. CASE i # 0
      <4>1. wk'[0] = wk[0]
        BY <1>1, <2>1, <3>2
      <4>2. Resting(wk[0]) /\ ~ Coming => InTime(wk[0], q, work)
        BY DEF Timely
      <4> QED
        BY <1>4, <4>1, <4>2, InTimeLess
    <3> QED
      BY <3>1, <3>2
  <2>4. (\A j \in Workers : RestOK(wk[j]))'
    BY <2>2 DEF RestOK
  <2>5. (Resting(wk[0]) /\ ~ Coming => InTime(wk[0], q, work))'
    BY <1>1, <1>3, <2>3 DEF Resting, InTime, Bound, Time
  <2> QED
    BY <2>4, <2>5 DEF Timely
<1>5. CASE Ready # {} /\ Take(i, took, next)
  <2>1. PICK w \in Work, s \in WRec :
             /\ wk' = [wk EXCEPT ![i] = s] /\ s.pc = "call" /\ s.timer = wk[i].timer
             /\ Range(q') \subseteq Range(q) /\ \A v \in Range(q') : work'[v] = work[v]
    BY <1>1, <1>5, TakeLemma
  <2>2. RestOK(s) /\ ~ Resting(s)
    BY <1>2, <2>1 DEF RestOK, Resting
  <2> QED
    BY <1>4, <2>1, <2>2
<1>6. CASE wk' = [wk EXCEPT ![i] = Doze(i, took, next)] /\ UNCHANGED <<q, work>>
  <2> DEFINE s == Doze(i, took, next)
  <2>1. s \in WRec /\ RestOK(s) /\ (i = 0 /\ Resting(s) => InTime(s, q, work))
    BY <1>1, <1>2, DozeLemma DEF Resting
  <2> HIDE DEF s
  <2>2. wk' = [wk EXCEPT ![i] = s] /\ q' = q /\ work' = work
    BY <1>6 DEF s
  <2> QED
    BY <1>4, <2>1, <2>2
<1> QED
  BY <1>5, <1>6 DEF Scan

LEMMA StepTimely ==
    ASSUME Safe, Timely, [Next]_vars
    PROVE  Timely'
<1>1. /\ wk \in [Workers -> WRec] /\ ListOK(q, work) /\ 0 \in Workers /\ started \in BOOLEAN
      /\ cl \in [Clients -> [pc : {"idle", "signal", "kill"}, to : Workers]]
  BY TypeForms, WorkersLemma DEF Safe
<1>2. /\ \A i \in Workers : RestOK(wk[i])
      /\ ~ started => ~ kind.hp /\ \A i \in Workers : wk[i].pc = "run"
      /\ Resting(wk[0]) /\ ~ Coming => InTime(wk[0], q, work)
  BY DEF Timely
<1>3. ASSUME kind' = kind, \A i \in Workers : RestOK(wk'[i]),
             ~ started' => ~ kind.hp /\ \A i \in Workers : wk'[i].pc = "run",
             Resting(wk'[0]) /\ ~ Coming' => InTime(wk'[0], q', work')
      PROVE  Timely'
  <2>1. (\A j \in Workers : RestOK(wk[j]))'
    BY <1>3 DEF RestOK
  <2>2. (Resting(wk[0]) /\ ~ Coming => InTime(wk[0], q, work))'
    BY <1>3 DEF Resting, InTime, Bound, Time
  <2> QED
    BY <1>3, <2>1, <2>2 DEF Timely
<1>4. CASE Start
  <2>1. /\ kind' = kind /\ q' = q /\ work' = work /\ cl' = cl /\ started' = TRUE /\ ~ started
        /\ wk' = [j \in Workers |-> IF j \in Active THEN [wk[j] EXCEPT !.busy = TRUE] ELSE wk[j]]
    BY <1>4 DEF Start
  <2>2. ASSUME NEW j \in Workers PROVE wk'[j].pc = "run" /\ wk'[j].timer = wk[j].timer /\ RestOK(wk'[j])
    <3>1. wk[j] \in WRec /\ (wk'[j] = wk[j] \/ wk'[j] = [wk[j] EXCEPT !.busy = TRUE])
      BY <1>1, <2>1
    <3>2. wk'[j].pc = "run" /\ wk'[j].timer = wk[j].timer /\ wk[j].pc = "run"
      BY <1>2, <2>1, <3>1 DEF WRec
    <3>3. RestOK(wk[j])
      BY <1>2
    <3> QED
      BY <3>2, <3>3 DEF RestOK
  <2>3. ~ Resting(wk'[0])
    BY <1>1, <2>2 DEF Resting
  <2> QED
    BY <1>3, <2>1, <2>2, <2>3
<1>5. CASE Tick
  <2>1. /\ kind' = kind /\ q' = q /\ cl' = cl /\ started' = started
        /\ wk' = [i \in Workers |->
                CASE wk[i].timer = 1 -> Awake(wk[i])
                  [] wk[i].timer > 1 -> [wk[i] EXCEPT !.timer = @ - 1]
                  [] wk[i].pc = "call" -> [wk[i] EXCEPT !.took = Later(@)]
                  [] OTHER -> wk[i]]
    BY <1>5 DEF Tick
  <2>2. /\ \A w \in Work : work'[w].delay = work[w].delay
        /\ \A w \in Range(q) : Time(work'[w]) =
                 IF Time(work[w]) > 0 THEN Time(work[w]) - 1 ELSE Time(work[w])
    BY <1>1, <1>5, TickEffect
  <2>3. ASSUME NEW j \in Workers
        PROVE  /\ RestOK(wk'[j])
               /\ wk'[j].pc = wk[j].pc \/ (wk[j].pc = "sleep" /\ wk'[j].pc = "woken")
               /\ Resting(wk'[j]) =>
                    wk'[j].timer = IF wk[j].pc = "sleep" THEN wk[j].timer - 1 ELSE wk[j].timer
    <3>1. wk[j] \in WRec /\ wk[j].timer \in Nat /\ RestOK(wk[j])
      BY <1>1, <1>2, CapLemma DEF WRec
    <3>2. wk'[j] = CASE wk[j].timer = 1 -> Awake(wk[j])
                  [] wk[j].timer > 1 -> [wk[j] EXCEPT !.timer = wk[j].timer - 1]
                  [] wk[j].pc = "call" -> [wk[j] EXCEPT !.took = Later(wk[j].took)]
                  [] OTHER -> wk[j]
      BY <2>1, <3>1
    <3>3. CASE wk[j].timer = 1
      <4>1. wk'[j] = Awake(wk[j]) /\ wk[j].pc = "sleep"
        BY <3>1, <3>2, <3>3 DEF RestOK
      <4>2. wk'[j] = [wk[j] EXCEPT !.pc = "woken", !.timer = 0]
        BY <4>1 DEF Awake
      <4>3. wk'[j].pc = "woken" /\ wk'[j].timer = 0
        BY <3>1, <4>2 DEF WRec
      <4> QED
        BY <4>1, <4>3 DEF RestOK, Resting
    <3>4. CASE wk[j].timer > 1
      <4>1. wk'[j] = [wk[j] EXCEPT !.timer = wk[j].timer - 1] /\ wk[j].pc = "sleep" /\ ~ wk[j].busy
        BY <3>1, <3>2, <3>4 DEF RestOK
      <4>2. wk'[j].pc = "sleep" /\ wk'[j].timer = wk[j].timer - 1 /\ wk'[j].busy = wk[j].busy
        BY <3>1, <4>1 DEF WRec
      <4> QED
        BY <3>1, <3>4, <4>1, <4>2 DEF RestOK
    <3>5. CASE wk[j].timer = 0
      <4>1. wk[j].pc # "sleep"
        BY <3>1, <3>5 DEF RestOK
      <4>2. CASE wk[j].pc = "call"
        <5>1. wk'[j] = [wk[j] EXCEPT !.took = Later(wk[j].took)]
          BY <3>2, <3>5, <4>2
        <5>2. wk'[j].pc = wk[j].pc /\ wk'[j].timer = wk[j].timer
          BY <3>1, <5>1 DEF WRec
        <5> QED
          BY <3>5, <4>2, <5>2 DEF RestOK, Resting
      <4>3. CASE wk[j].pc # "call"
        <5>1. wk'[j] = wk[j]
          BY <3>2, <3>5, <4>3
        <5> QED
          BY <3>1, <4>1, <5>1
      <4> QED
        BY <4>2, <4>3
    <3> QED
      BY <3>1, <3>3, <3>4, <3>5
  <2>4. Coming' = Coming
    BY <2>1 DEF Coming
  <2>5. ASSUME Resting(wk'[0]), ~ Coming, NEW w \in Range(q')
        PROVE  wk'[0].pc = "sleep" /\ wk'[0].timer <= 1 + Bound(work'[w])
    <3>1. Resting(wk[0]) /\ wk'[0].pc = wk[0].pc /\ w \in Range(q)
      BY <1>1, <2>1, <2>3, <2>5 DEF Resting
    <3>2. wk[0].pc = "sleep" /\ wk[0].timer <= 1 + Bound(work[w])
      BY <1>2, <2>5, <3>1 DEF InTime
    <3>3. wk'[0].timer = wk[0].timer - 1 /\ wk[0].timer \in Nat /\ wk'[0].timer > 0
      <4>1. wk[0].timer \in Nat /\ RestOK(wk'[0]) /\ wk'[0].pc = "sleep"
        BY <1>1, <2>3, <3>1, <3>2, CapLemma DEF WRec
      <4> QED
        BY <1>1, <2>3, <2>5, <3>2, <4>1 DEF RestOK
    <3>4. w \in Work
      BY <1>1, <3>1, RangeLemma DEF ListOK
    <3>5. work[w].delay \in Nat /\ Time(work[w]) \in Nat
      <4>1. work[w].age \in 0 .. Cap /\ work[w].delay \in 0 .. MaxDelay
        BY <1>1, <3>4 DEF ListOK, JRec
      <4> QED
        BY <4>1, CapLemma DEF Time
    <3>6. CASE kind.sorting
      <4>1. Bound(work[w]) = work[w].delay /\ Bound(work'[w]) = work[w].delay
        BY <2>2, <3>4, <3>6 DEF Bound
      <4> QED
        BY <3>1, <3>2, <3>3, <3>5, <4>1
    <3>7. CASE ~ kind.sorting
      <4>1. Bound(work[w]) = Time(work[w]) /\ Bound(work'[w]) = Time(work'[w])
        BY <3>7 DEF Bound
      <4>2. Time(work'[w]) = IF Time(work[w]) > 0 THEN Time(work[w]) - 1 ELSE Time(work[w])
        BY <2>2, <3>1
      <4> QED
        BY <3>1, <3>2, <3>3, <3>5, <4>1, <4>2
    <3> QED
      BY <3>6, <3>7
  <2>6. ~ started => \A j \in Workers : wk'[j].pc = "run"
    BY <1>2, <2>3
  <2> QED
    BY <1>2, <1>3, <2>1, <2>3, <2>4, <2>5, <2>6 DEF InTime
<1>6. ASSUME NEW w \in Work, work_cancel(w) PROVE Timely'
  <2> DEFINE n == CHOOSE m \in 1 .. Len(q) : q[m] = w
  <2>1. /\ w \in Range(q) /\ q' = RemoveAt(q, n) /\ work' = [work EXCEPT ![w] = Off]
        /\ UNCHANGED <<kind, started, wk, cl, calls>>
    BY <1>6 DEF work_cancel
  <2>2. n \in 1 .. Len(q) /\ q[n] = w
    BY <1>1, <2>1, RangeLemma DEF ListOK
  <2> HIDE DEF n
  <2>3. Range(q') \subseteq Range(q) /\ \A v \in Range(q') : work'[v] = work[v]
    BY <1>1, <2>1, <2>2, UnlistEffect
  <2>4. Coming' = Coming
    BY <2>1 DEF Coming
  <2>5. InTime(wk[0], q, work) => InTime(wk[0], q', work')
    BY <2>3, InTimeLess
  <2> QED
    BY <1>2, <1>3, <2>1, <2>4, <2>5
<1>7. ASSUME NEW i \in Workers, Kill(i)
      PROVE  /\ \A j \in Workers : RestOK(wk'[j])
             /\ ~ started => wk' = wk
             /\ wk'[0] = wk[0] \/ ~ Resting(wk'[0])
             /\ i = 0 \/ ~ Resting(wk[0]) => ~ Resting(wk'[0])
  <2>1. /\ \A j \in Workers : wk'[j] = wk[j] \/ wk'[j] = Awake(wk[j])
        /\ started => wk'[i] = Awake(wk[i])
    BY <1>7, KillLemma
  <2>2. \A j \in Workers : RestOK(Awake(wk[j])) /\ ~ Resting(Awake(wk[j]))
    BY <1>1, <1>2, AwakeLemma DEF Resting
  <2>3. ~ started => wk' = wk
    BY <1>7 DEF Kill
  <2>4. ~ started => ~ Resting(wk[0])
    BY <1>1, <1>2 DEF Resting
  <2> QED
    BY <1>1, <1>2, <2>1, <2>2, <2>3, <2>4
<1>8. IdleWorker \in Workers /\ (Resting(wk[0]) => IdleWorker = 0)
  <2>1. Resting(wk[0]) => ~ wk[0].busy
    BY <1>1, <1>2 DEF RestOK, Resting
  <2> QED
    BY <1>1, <2>1, IdleLemma
<1>9. ASSUME NEW w \in Work, NEW d \in 0 .. MaxDelay, IsrQueue(w, d) PROVE Timely'
  <2>1. Kill(IdleWorker) /\ UNCHANGED <<kind, started, cl>>
    BY <1>9 DEF IsrQueue
  <2>2. ~ Resting(wk'[0])
    BY <1>7, <1>8, <2>1
  <2> QED
    BY <1>2, <1>3, <1>7, <1>8, <2>1, <2>2
<1>10. ASSUME NEW w \in Work, NEW d \in 0 .. MaxDelay, NEW c \in Clients, TaskQueue(c, w, d)
       PROVE  Timely'
  <2>1. UNCHANGED <<kind, started, wk>> /\ cl' = [cl EXCEPT ![c].pc = "signal"]
    BY <1>10 DEF TaskQueue
  <2>2. Coming'
    <3>1. cl'[c].pc = "signal"
      BY <1>1, <2>1
    <3> QED
      BY <3>1 DEF Coming
  <2> QED
    BY <1>2, <1>3, <2>1, <2>2
<1>11. ASSUME NEW c \in Clients, work_signal(c) PROVE Timely'
  <2>1. /\ UNCHANGED <<kind, started, q, work, wk, calls>>
        /\ cl' = [cl EXCEPT ![c] = [pc |-> "kill", to |-> IdleWorker]]
    BY <1>11 DEF work_signal
  <2>2. Resting(wk[0]) => Coming'
    <3>1. cl'[c].pc = "kill" /\ cl'[c].to = IdleWorker
      BY <1>1, <2>1
    <3> QED
      BY <1>8, <3>1 DEF Coming
  <2> QED
    BY <1>2, <1>3, <2>1, <2>2
<1>12. ASSUME NEW c \in Clients, SignalKill(c) PROVE Timely'
  <2>1. /\ UNCHANGED <<kind, started, q, work, calls>> /\ Kill(cl[c].to) /\ cl[c].pc = "kill"
        /\ cl' = [cl EXCEPT ![c] = [pc |-> "idle", to |-> 0]]
    BY <1>12 DEF SignalKill
  <2>2. cl[c].to \in Workers
    BY <1>1
  <2>3. CASE cl[c].to = 0
    <3>1. ~ Resting(wk'[0])
      BY <1>7, <2>1, <2>2, <2>3
    <3> QED
      BY <1>2, <1>3, <1>7, <2>1, <2>2, <3>1
  <2>4. CASE cl[c].to # 0
    <3>1. Coming => Coming'
      <4>1. SUFFICES ASSUME NEW b \in Clients, cl[b].pc = "signal" \/ (cl[b].pc = "kill" /\ cl[b].to = 0)
                     PROVE  cl'[b].pc = "signal" \/ (cl'[b].pc = "kill" /\ cl'[b].to = 0)
        BY DEF Coming
      <4>2. b # c
        BY <2>1, <2>4, <4>1
      <4>3. cl'[b] = cl[b]
        BY <1>1, <2>1, <4>2
      <4> QED
        BY <4>1, <4>3
    <3> QED
      BY <1>2, <1>3, <1>7, <2>1, <2>2, <3>1
  <2> QED
    BY <2>3, <2>4
<1>13. ASSUME NEW i \in Workers, work_process(i) PROVE Timely'
  <2>1. /\ Scan(i, 0, IF i = 0 THEN Period ELSE 0) /\ UNCHANGED <<kind, started, cl, calls>>
        /\ wk[i].pc = "run" /\ (kind.hp \/ started)
    BY <1>13 DEF work_process
  <2>2. 0 \in 0 .. Cap /\ (IF i = 0 THEN Period ELSE 0) \in 0 .. Cap
    BY CapLemma
  <2> QED
    BY <1>2, <2>1, <2>2, ScanTimely
<1>14. ASSUME NEW i \in Workers, Returned(i) PROVE Timely'
  <2>1. /\ Scan(i, wk[i].took, wk[i].next) /\ UNCHANGED <<kind, started, cl, calls>>
        /\ wk[i].pc = "call"
    BY <1>14 DEF Returned
  <2>2. wk[i].took \in 0 .. Cap /\ wk[i].next \in 0 .. Cap
    BY <1>1 DEF WRec
  <2> QED
    BY <1>2, <2>1, <2>2, ScanTimely
<1>15. ASSUME NEW i \in Workers, Resume(i) PROVE Timely'
  <2> DEFINE s == [wk[i] EXCEPT !.pc = "run", !.busy = TRUE]
  <2>1. /\ UNCHANGED <<kind, started, q, work, cl, calls>> /\ wk' = [wk EXCEPT ![i] = s]
        /\ wk[i].pc = "woken"
    BY <1>1, <1>15 DEF Resume
  <2>2. wk[i] \in WRec /\ wk[i].timer \in Nat /\ RestOK(wk[i])
    BY <1>1, <1>2, CapLemma DEF WRec
  <2>3. s.pc = "run" /\ s.timer = wk[i].timer
    BY <2>2 DEF WRec
  <2>4. RestOK(s) /\ ~ Resting(s)
    BY <2>1, <2>2, <2>3 DEF RestOK, Resting
  <2> HIDE DEF s
  <2>5. \A j \in Workers : wk'[j] = IF j = i THEN s ELSE wk[j]
    BY <1>1, <2>1
  <2>6. Coming' = Coming
    BY <2>1 DEF Coming
  <2> QED
    BY <1>1, <1>2, <1>3, <2>1, <2>3, <2>4, <2>5, <2>6
<1>16. CASE UNCHANGED vars
  <2>1. UNCHANGED <<kind, started, q, work, wk, cl>>
    BY <1>16 DEF vars
  <2>2. Coming' = Coming
    BY <2>1 DEF Coming
  <2> QED
    BY <1>2, <1>3, <2>1, <2>2
<1> QED
  BY <1>4, <1>5, <1>6, <1>9, <1>10, <1>11, <1>12, <1>13, <1>14, <1>15, <1>16 DEF Next

(* No wakeup is lost once the pids of the workers are recorded: worker 0   *)
(* never waits longer than a work that work_queue() has announced allows.  *)
(* The hypothesis leaves out the start of the high priority worker, which  *)
(* runs before work_hpstart() has recorded its pid.                        *)
THEOREM QueueSoundHolds ==
    ASSUME \A k \in Kinds : ~(k.hp /\ k.boot)
    PROVE  Spec => []QueueSound
<1>1. Init => Safe /\ Timely
  BY InitSafe, InitTimely DEF Recorded
<1>2. Safe /\ Timely /\ [Next]_vars => Safe' /\ Timely'
  BY SafeStep, StepTimely
<1>3. Safe /\ Timely => QueueSound
  <2> SUFFICES ASSUME Safe, Timely PROVE QueueSound
    OBVIOUS
  <2>1. TypeOK /\ AvailableIsFree
    BY DEF Safe, ListOK, AvailableIsFree
  <2>2. ASSUME Idling PROVE Resting(wk[0]) /\ ~ Coming
    BY <2>2 DEF Idling, Resting, Coming
  <2>3. \A w \in Range(q) : Left(w) = Time(work[w])
    BY DEF Left, Due, Time
  <2>4. WakesFor
    BY <2>2, <2>3 DEF WakesFor, Timely, InTime, Bound
  <2> QED
    BY <2>1, <2>4 DEF QueueSound
<1> QED
  BY <1>1, <1>2, <1>3, PTL DEF Spec
=============================================================================
