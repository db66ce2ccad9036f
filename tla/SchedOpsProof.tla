---------------------------- MODULE SchedOpsProof ----------------------------
(* What the list operations of SchedOps do to the task lists, for every    *)
(* set of tasks and every priority range.                                  *)
EXTENDS SchedCalls, ListLemmas

-----------------------------------------------------------------------------
(* The search loop stops at the first TCB of lower priority. *)
LEMMA SearchLemma ==
    ASSUME NEW k, KType(k), NEW l \in List, NEW p \in Nat,
           NEW from \in 1 .. Len(k.list[l]) + 1
    PROVE  LET i == SearchFrom(k, l, from, p) IN
           /\ i \in from .. Len(k.list[l]) + 1
           /\ i <= Len(k.list[l]) => k.prio[k.list[l][i]] < p
           /\ \A j \in from .. i - 1 : k.prio[k.list[l][j]] >= p
<1> DEFINE n == Len(k.list[l])
           stop(i) == i <= n => k.prio[k.list[l][i]] < p
           T == {i \in from .. n + 1 : stop(i)}
<1>1. n \in Nat /\ \A i \in 1 .. n : k.prio[k.list[l][i]] \in Nat
  BY DEF KType
<1>2. n + 1 \in T /\ T \subseteq Nat
  BY <1>1
<1>3. PICK i \in T : \A j \in T : i <= j
  BY <1>2, LeastNat
<1>4. ASSUME NEW j \in from .. i - 1 PROVE k.prio[k.list[l][j]] >= p
  <2>1. i \in from .. n + 1 /\ n \in Nat /\ from \in 1 .. n + 1
    BY <1>1, <1>3
  <2>2. j \in 1 .. n /\ j \in from .. n + 1 /\ j < i
    BY <2>1, <1>4
  <2>3. j \notin T
    <3>1. SUFFICES ASSUME j \in T PROVE FALSE
      OBVIOUS
    <3>2. i <= j
      BY <1>3, <3>1
    <3> QED
      BY <3>2, <2>1, <2>2
  <2>4. ~ (k.prio[k.list[l][j]] < p)
    BY <2>2, <2>3
  <2>5. k.prio[k.list[l][j]] \in Nat
    BY <1>1, <2>2
  <2> HIDE DEF stop, T
  <2> QED
    BY <2>4, <2>5
<1>5. /\ i \in from .. Len(k.list[l]) + 1
      /\ i <= Len(k.list[l]) => k.prio[k.list[l][i]] < p
      /\ \A j \in from .. i - 1 : k.prio[k.list[l][j]] >= p
  BY <1>3, <1>4
<1> QED
  BY <1>5 DEF SearchFrom

-----------------------------------------------------------------------------
(* Lists and states. *)
Lists(k) == KType(k) /\ Placed(k) /\ Unique(k) /\ Present(k)

(* m is k with t linked at index i of list l and given state s ...        *)
Links(k, m, t, l, i, s) ==
    /\ KType(m) /\ m.prio = k.prio /\ m.lock = k.lock
    /\ m.list = [k.list EXCEPT ![l] = InsertAt(@, i, t)]
    /\ m.state = [k.state EXCEPT ![t] = s]

(* ... with t unlinked from list l ...                                     *)
Unlinks(k, m, t, l) ==
    /\ KType(m) /\ m.prio = k.prio /\ m.lock = k.lock
    /\ m.list = [k.list EXCEPT ![l] = RemoveAt(@, IndexIn(k, l, t))]
    /\ m.state = [k.state EXCEPT ![t] = "INVALID"]

(* ... with the state of u changed to s.                                   *)
Flips(k, m, u, s) ==
    /\ KType(m) /\ m.prio = k.prio /\ m.lock = k.lock /\ m.list = k.list
    /\ m.state = [k.state EXCEPT ![u] = s]

(* Index i of g_readytorun is the place of t: after the TCBs of higher or  *)
(* equal priority, before those of lower priority.                         *)
FitsReady(k, t, i) ==
    /\ i \in 1 .. Len(Rtr(k)) + 1
    /\ \A j \in 1 .. Len(Rtr(k)) :
          /\ j < i => k.prio[Rtr(k)[j]] >= k.prio[t]
          /\ j >= i => k.prio[t] > k.prio[Rtr(k)[j]]

(* m is k with t linked at index i of g_readytorun, running if i = 1. *)
LinksReady(k, m, t, i) ==
    /\ KType(m) /\ m.prio = k.prio /\ m.lock = k.lock
    /\ m.list = [k.list EXCEPT !["READYTORUN"] = InsertAt(@, i, t)]
    /\ m.state = IF i = 1 THEN [k.state EXCEPT ![Running(k)] = "READYTORUN", ![t] = "RUNNING"]
                 ELSE [k.state EXCEPT ![t] = "READYTORUN"]

LEMMA ListOfLemma ==
    \A s \in TState : /\ s # "INVALID" => ListOf(s) \in List
                      /\ s = "INVALID" => ListOf(s) \notin List
BY DEF TState, List, ListOf, BlockedState

(* Linking a detached TCB and giving it the state of the list. *)
LEMMA PutLemma ==
    ASSUME NEW k, Lists(k), NEW t \in Task, k.state[t] = "INVALID",
           NEW l \in List, NEW i \in 1 .. Len(k.list[l]) + 1,
           NEW s \in TState, ListOf(s) = l,
           NEW m, Links(k, m, t, l, i, s)
    PROVE  Lists(m)
<1> USE DEF Lists, Links
<1>1. /\ k.list \in [List -> Seq(Task)] /\ k.state \in [Task -> TState]
      /\ \A q \in List : k.list[q] \in Seq(Task) /\ Len(k.list[q]) \in Nat
  BY DEF KType
<1>2. /\ Len(m.list[l]) = Len(k.list[l]) + 1
      /\ \A j \in 1 .. Len(k.list[l]) + 1 :
           m.list[l][j] = IF j < i THEN k.list[l][j] ELSE IF j = i THEN t ELSE k.list[l][j - 1]
  BY <1>1, InsertLemma, SMTT(30)
<1>3. \A q \in List \ {l} : m.list[q] = k.list[q]
  BY <1>1
<1>4. \A q \in List : \A j \in 1 .. Len(k.list[q]) : k.list[q][j] \in Task /\ k.list[q][j] # t
  BY <1>1, ListOfLemma DEF Placed
<1>5. Placed(m)
  <2>1. ASSUME NEW q \in List, NEW j \in 1 .. Len(m.list[q])
        PROVE  ListOf(m.state[m.list[q][j]]) = q
    <3>1. CASE q # l
      BY <1>1, <1>3, <1>4, <3>1 DEF Placed
    <3>2. CASE q = l
      <4>1. CASE j = i
        BY <1>1, <1>2, <3>2, <4>1
      <4>2. CASE j < i
        BY <1>1, <1>2, <1>4, <3>2, <4>2 DEF Placed
      <4>3. CASE j > i
        <5>1. m.list[l][j] = k.list[l][j - 1] /\ j - 1 \in 1 .. Len(k.list[l])
          BY <1>1, <1>2, <3>2, <4>3
        <5> QED
          BY <1>1, <1>4, <3>2, <5>1 DEF Placed
      <4> QED
        BY <1>1, <4>1, <4>2, <4>3
    <3> QED
      BY <3>1, <3>2
  <2> QED
    BY <2>1 DEF Placed
<1>6. Unique(m)
  <2>1. ASSUME NEW q \in List, NEW a \in 1 .. Len(m.list[q]), NEW b \in 1 .. Len(m.list[q]),
               m.list[q][a] = m.list[q][b]
        PROVE  a = b
    <3>1. CASE q # l
      BY <1>1, <1>3, <2>1, <3>1 DEF Unique
    <3>2. CASE q = l
      <4> DEFINE sh(j) == IF j < i THEN j ELSE j - 1
      <4>1. \A j \in 1 .. Len(m.list[l]) : j # i =>
              sh(j) \in 1 .. Len(k.list[l]) /\ m.list[l][j] = k.list[l][sh(j)]
        BY <1>1, <1>2
      <4> HIDE DEF sh
      <4>2. CASE a # i /\ b # i
        <5>1. /\ sh(a) \in 1 .. Len(k.list[l]) /\ sh(b) \in 1 .. Len(k.list[l])
              /\ k.list[l][sh(a)] = k.list[l][sh(b)]
          BY <2>1, <3>2, <4>1, <4>2
        <5>2. sh(a) = sh(b)
          BY <5>1 DEF Unique
        <5> QED
          BY <1>1, <1>2, <3>2, <4>2, <5>2 DEF sh
      <4>3. CASE a = i \/ b = i
        <5>1. m.list[l][i] = t
          BY <1>1, <1>2
        <5>2. ASSUME NEW j \in 1 .. Len(m.list[l]), j # i PROVE m.list[l][j] # t
          BY <1>4, <4>1, <5>2
        <5> QED
          BY <2>1, <3>2, <4>3, <5>1, <5>2
      <4> QED
        BY <4>2, <4>3
    <3> QED
      BY <3>1, <3>2
  <2> QED
    BY <2>1 DEF Unique
<1>7. Present(m)
  <2>1. ASSUME NEW u \in Task, m.state[u] # "INVALID"
        PROVE  \E j \in 1 .. Len(m.list[ListOf(m.state[u])]) :
                  m.list[ListOf(m.state[u])][j] = u
    <3>1. CASE u = t
      BY <1>1, <1>2, <3>1
    <3>2. CASE u # t
      <4>1. m.state[u] = k.state[u] /\ ListOf(k.state[u]) \in List
        BY <1>1, <2>1, <3>2, ListOfLemma
      <4>2. PICK j \in 1 .. Len(k.list[ListOf(k.state[u])]) :
               k.list[ListOf(k.state[u])][j] = u
        BY <2>1, <4>1 DEF Present
      <4>3. CASE ListOf(k.state[u]) # l
        BY <1>3, <4>1, <4>2, <4>3
      <4>4. CASE ListOf(k.state[u]) = l
        <5>1. CASE j < i
          BY <1>1, <1>2, <4>1, <4>2, <4>4, <5>1
        <5>2. CASE ~(j < i)
          <6>1. j + 1 \in 1 .. Len(m.list[l]) /\ m.list[l][j + 1] = u
            BY <1>1, <1>2, <4>2, <4>4, <5>2
          <6> QED
            BY <4>1, <4>4, <6>1
        <5> QED
          BY <5>1, <5>2
      <4> QED
        BY <4>3, <4>4
    <3> QED
      BY <3>1, <3>2
  <2> QED
    BY <2>1 DEF Present
<1> QED
  BY <1>5, <1>6, <1>7

(* Unlinking a TCB from the list its state names. *)
LEMMA RemLemma ==
    ASSUME NEW k, Lists(k), NEW t \in Task, k.state[t] # "INVALID",
           NEW l \in List, l = ListOf(k.state[t]),
           NEW m, Unlinks(k, m, t, l)
    PROVE  /\ Lists(m)
           /\ IndexIn(k, l, t) \in 1 .. Len(k.list[l])
           /\ k.list[l][IndexIn(k, l, t)] = t
<1> USE DEF Lists, Unlinks
<1> DEFINE i == IndexIn(k, l, t)
<1>1. /\ k.list \in [List -> Seq(Task)] /\ k.state \in [Task -> TState]
      /\ \A q \in List : k.list[q] \in Seq(Task) /\ Len(k.list[q]) \in Nat
  BY DEF KType
<1>0. i \in 1 .. Len(k.list[l]) /\ k.list[l][i] = t
  <2>1. \E j \in 1 .. Len(k.list[l]) : k.list[l][j] = t
    BY DEF Present
  <2> QED
    BY <2>1 DEF IndexIn
<1> HIDE DEF i
<1>2. /\ Len(m.list[l]) = Len(k.list[l]) - 1
      /\ \A j \in 1 .. Len(k.list[l]) - 1 :
           m.list[l][j] = IF j < i THEN k.list[l][j] ELSE k.list[l][j + 1]
  <2>1. /\ k.list[l] \in Seq(Task)
        /\ m.list[l] = RemoveAt(k.list[l], i)
    BY <1>1 DEF i
  <2>2. ASSUME NEW q \in Seq(Task), NEW j \in 1 .. Len(q)
        PROVE  /\ Len(RemoveAt(q, j)) = Len(q) - 1
               /\ \A n \in 1 .. Len(q) - 1 :
                    RemoveAt(q, j)[n] = IF n < j THEN q[n] ELSE q[n + 1]
    BY RemoveLemma
  <2>3. /\ Len(RemoveAt(k.list[l], i)) = Len(k.list[l]) - 1
        /\ \A n \in 1 .. Len(k.list[l]) - 1 :
             RemoveAt(k.list[l], i)[n] = IF n < i THEN k.list[l][n] ELSE k.list[l][n + 1]
    BY <1>0, <2>1, <2>2, Zenon
  <2> QED
    BY <2>1, <2>3, Zenon
<1>3. \A q \in List \ {l} : m.list[q] = k.list[q]
  BY <1>1
<1> DEFINE sh(j) == IF j < i THEN j ELSE j + 1
<1>4. \A j \in 1 .. Len(m.list[l]) :
        /\ sh(j) \in 1 .. Len(k.list[l]) /\ sh(j) # i
        /\ m.list[l][j] = k.list[l][sh(j)] /\ m.list[l][j] # t
  <2>1. ASSUME NEW j \in 1 .. Len(m.list[l])
        PROVE  /\ sh(j) \in 1 .. Len(k.list[l]) /\ sh(j) # i
               /\ m.list[l][j] = k.list[l][sh(j)]
    BY <1>0, <1>1, <1>2
  <2> HIDE DEF sh
  <2>2. ASSUME NEW j \in 1 .. Len(m.list[l]) PROVE m.list[l][j] # t
    <3>1. k.list[l][i] = t /\ i \in 1 .. Len(k.list[l])
      BY <1>0
    <3>2. sh(j) \in 1 .. Len(k.list[l]) /\ sh(j) # i /\ m.list[l][j] = k.list[l][sh(j)]
      BY <2>1, <2>2
    <3>3. Unique(k)
      OBVIOUS
    <3>4. k.list[l][sh(j)] # k.list[l][i]
      BY <3>1, <3>2, <3>3, ZenonT(30) DEF Unique
    <3> QED
      BY <3>1, <3>2, <3>4
  <2> QED
    BY <2>1, <2>2
<1> HIDE DEF sh
<1>5. Placed(m)
  <2>1. ASSUME NEW q \in List, NEW j \in 1 .. Len(m.list[q])
        PROVE  ListOf(m.state[m.list[q][j]]) = q
    <3>1. CASE q # l
      <4>1. m.list[q] = k.list[q] /\ k.list[q][j] \in Task
        BY <1>1, <1>3, <3>1
      <4>2. ListOf(k.state[k.list[q][j]]) = q
        BY <4>1 DEF Placed
      <4>3. k.list[q][j] # t
        BY <3>1, <4>2
      <4> QED
        BY <1>1, <4>1, <4>2, <4>3
    <3>2. CASE q = l
      <4>1. m.list[l][j] = k.list[l][sh(j)] /\ sh(j) \in 1 .. Len(k.list[l])
        BY <1>4, <3>2
      <4>2. m.list[l][j] \in Task /\ ListOf(k.state[m.list[l][j]]) = l
        BY <1>1, <4>1 DEF Placed
      <4> QED
        BY <1>1, <1>4, <3>2, <4>2
    <3> QED
      BY <3>1, <3>2
  <2> QED
    BY <2>1 DEF Placed
<1>6. Unique(m)
  <2>1. ASSUME NEW q \in List, NEW a \in 1 .. Len(m.list[q]), NEW b \in 1 .. Len(m.list[q]),
               m.list[q][a] = m.list[q][b]
        PROVE  a = b
    <3>1. CASE q # l
      BY <1>1, <1>3, <2>1, <3>1 DEF Unique
    <3>2. CASE q = l
      <4>1. sh(a) = sh(b)
        BY <1>4, <2>1, <3>2, SMTT(30) DEF Unique
      <4> QED
        BY <1>0, <1>1, <1>2, <3>2, <4>1 DEF sh
    <3> QED
      BY <3>1, <3>2
  <2> QED
    BY <2>1 DEF Unique
<1>7. Present(m)
  <2>1. ASSUME NEW u \in Task, m.state[u] # "INVALID"
        PROVE  \E j \in 1 .. Len(m.list[ListOf(m.state[u])]) :
                  m.list[ListOf(m.state[u])][j] = u
    <3>1. u # t /\ m.state[u] = k.state[u] /\ ListOf(k.state[u]) \in List
      BY <1>1, <2>1, ListOfLemma
    <3>2. PICK j \in 1 .. Len(k.list[ListOf(k.state[u])]) :
             k.list[ListOf(k.state[u])][j] = u
      BY <2>1, <3>1 DEF Present
    <3>3. CASE ListOf(k.state[u]) # l
      BY <1>3, <3>1, <3>2, <3>3
    <3>4. CASE ListOf(k.state[u]) = l
      <4>1. j # i
        BY <1>0, <3>1, <3>2, <3>4
      <4>2. CASE j < i
        <5>1. j \in 1 .. Len(m.list[l]) /\ m.list[l][j] = k.list[l][j]
          BY <1>0, <1>1, <1>2, <3>2, <3>4, <4>2
        <5> QED
          BY <3>1, <3>2, <3>4, <5>1
      <4>3. CASE j > i
        <5>1. j - 1 \in 1 .. Len(m.list[l]) /\ m.list[l][j - 1] = k.list[l][j]
          BY <1>0, <1>1, <1>2, <3>2, <3>4, <4>3
        <5> QED
          BY <3>1, <3>2, <3>4, <5>1
      <4> QED
        BY <1>0, <1>1, <3>4, <4>1, <4>2, <4>3
    <3> QED
      BY <3>3, <3>4
  <2> QED
    BY <2>1 DEF Present
<1> QED
  BY <1>0, <1>5, <1>6, <1>7 DEF i

-----------------------------------------------------------------------------
(* Priority order. *)

(* Linking a detached TCB between those of higher or equal and those of    *)
(* lower priority keeps the lists in order.                                *)
LEMMA PutOrder ==
    ASSUME NEW k, KType(k), InOrder(k), NEW t \in Task,
           NEW l \in List, NEW i \in 1 .. Len(k.list[l]) + 1,
           l \in Prioritized =>
              \A j \in 1 .. Len(k.list[l]) :
                 /\ j < i => k.prio[k.list[l][j]] >= k.prio[t]
                 /\ j >= i => k.prio[t] >= k.prio[k.list[l][j]],
           NEW s, NEW m, Links(k, m, t, l, i, s)
    PROVE  InOrder(m)
<1>1. /\ k.list \in [List -> Seq(Task)] /\ k.prio \in [Task -> 0 .. MaxPrio]
      /\ \A q \in List : k.list[q] \in Seq(Task) /\ Len(k.list[q]) \in Nat
  BY DEF KType
<1>2. /\ Len(m.list[l]) = Len(k.list[l]) + 1
      /\ \A j \in 1 .. Len(k.list[l]) + 1 :
           m.list[l][j] = IF j < i THEN k.list[l][j] ELSE IF j = i THEN t ELSE k.list[l][j - 1]
  <2>1. k.list[l] \in Seq(Task) /\ m.list[l] = InsertAt(k.list[l], i, t)
    BY <1>1 DEF Links
  <2>2. ASSUME NEW q \in Seq(Task), NEW n \in 1 .. Len(q) + 1
        PROVE  /\ Len(InsertAt(q, n, t)) = Len(q) + 1
               /\ \A j \in 1 .. Len(q) + 1 :
                    InsertAt(q, n, t)[j] = IF j < n THEN q[j] ELSE IF j = n THEN t ELSE q[j - 1]
    BY InsertLemma
  <2>3. /\ Len(InsertAt(k.list[l], i, t)) = Len(k.list[l]) + 1
        /\ \A j \in 1 .. Len(k.list[l]) + 1 : InsertAt(k.list[l], i, t)[j] =
             IF j < i THEN k.list[l][j] ELSE IF j = i THEN t ELSE k.list[l][j - 1]
    BY <2>1, <2>2, Zenon
  <2> QED
    BY <2>1, <2>3, Zenon
<1>3. Prioritized \subseteq List
  BY DEF Prioritized
<1>4. ASSUME NEW q \in Prioritized, NEW a \in 1 .. Len(m.list[q]), NEW b \in 1 .. Len(m.list[q]),
             a < b
      PROVE  k.prio[m.list[q][a]] >= k.prio[m.list[q][b]]
  <2>1. CASE q # l
    <3>1. m.list[q] = k.list[q]
      BY <1>1, <1>3, <2>1 DEF Links
    <3> QED
      BY <1>4, <3>1 DEF InOrder
  <2>2. CASE q = l
    <3>1. a \in 1 .. Len(k.list[l]) + 1 /\ b \in 1 .. Len(k.list[l]) + 1
      BY <1>2, <2>2
    <3>2. CASE b < i
      <4>1. m.list[l][a] = k.list[l][a] /\ m.list[l][b] = k.list[l][b]
        BY <1>1, <1>2, <1>4, <3>1, <3>2
      <4>2. a \in 1 .. Len(k.list[l]) /\ b \in 1 .. Len(k.list[l])
        BY <1>1, <1>4, <3>1, <3>2
      <4> QED
        BY <1>4, <2>2, <4>1, <4>2 DEF InOrder
    <3>3. CASE b = i
      <4>1. m.list[l][a] = k.list[l][a] /\ m.list[l][b] = t /\ a \in 1 .. Len(k.list[l])
        BY <1>1, <1>2, <1>4, <3>1, <3>3
      <4> QED
        BY <1>4, <2>2, <3>3, <4>1
    <3>4. CASE b > i
      <4>1. m.list[l][b] = k.list[l][b - 1] /\ b - 1 \in 1 .. Len(k.list[l])
        BY <1>1, <1>2, <3>1, <3>4
      <4>2. CASE a < i
        <5>1. m.list[l][a] = k.list[l][a] /\ a \in 1 .. Len(k.list[l]) /\ a < b - 1
          BY <1>1, <1>2, <3>1, <3>4, <4>2
        <5> QED
          BY <2>2, <4>1, <5>1 DEF InOrder
      <4>3. CASE a = i
        <5>1. m.list[l][a] = t /\ b - 1 >= i
          BY <1>1, <1>2, <3>1, <3>4, <4>3
        <5> QED
          BY <2>2, <4>1, <5>1
      <4>4. CASE a > i
        <5>1. /\ m.list[l][a] = k.list[l][a - 1] /\ a - 1 \in 1 .. Len(k.list[l])
              /\ a - 1 < b - 1
          BY <1>1, <1>2, <1>4, <3>1, <3>4, <4>4
        <5> QED
          BY <2>2, <4>1, <5>1 DEF InOrder
      <4> QED
        BY <3>1, <4>2, <4>3, <4>4
    <3> QED
      BY <3>1, <3>2, <3>3, <3>4
  <2> QED
    BY <2>1, <2>2
<1> QED
  BY <1>4 DEF InOrder, Links

(* Unlinking a TCB keeps the lists in order. *)
LEMMA RemOrder ==
    ASSUME NEW k, KType(k), InOrder(k), NEW t, NEW l \in List,
           IndexIn(k, l, t) \in 1 .. Len(k.list[l]),
           NEW m, Unlinks(k, m, t, l)
    PROVE  InOrder(m)
<1> USE DEF Unlinks
<1> DEFINE i == IndexIn(k, l, t)
<1>1. /\ k.list \in [List -> Seq(Task)]
      /\ \A q \in List : k.list[q] \in Seq(Task) /\ Len(k.list[q]) \in Nat
  BY DEF KType
<1>2. /\ Len(m.list[l]) = Len(k.list[l]) - 1
      /\ \A j \in 1 .. Len(k.list[l]) - 1 :
           m.list[l][j] = IF j < i THEN k.list[l][j] ELSE k.list[l][j + 1]
  BY <1>1, RemoveLemma
<1>3. Prioritized \subseteq List
  BY DEF Prioritized
<1>4. ASSUME NEW q \in Prioritized, NEW a \in 1 .. Len(m.list[q]), NEW b \in 1 .. Len(m.list[q]),
             a < b
      PROVE  k.prio[m.list[q][a]] >= k.prio[m.list[q][b]]
  <2>1. CASE q # l
    <3>1. m.list[q] = k.list[q]
      BY <1>1, <1>3, <2>1
    <3> QED
      BY <1>4, <3>1 DEF InOrder
  <2>2. CASE q = l
    <3> DEFINE sh(j) == IF j < i THEN j ELSE j + 1
    <3>1. /\ sh(a) \in 1 .. Len(k.list[l]) /\ sh(b) \in 1 .. Len(k.list[l])
          /\ sh(a) < sh(b)
      BY <1>1, <1>2, <1>4, <2>2
    <3>2. m.list[l][a] = k.list[l][sh(a)] /\ m.list[l][b] = k.list[l][sh(b)]
      BY <1>1, <1>2, <2>2
    <3> HIDE DEF sh
    <3> QED
      BY <2>2, <3>1, <3>2 DEF InOrder
  <2> QED
    BY <2>1, <2>2
<1> QED
  BY <1>4 DEF InOrder

(* SearchFrom finds the place PutOrder asks for. *)
LEMMA SearchOrder ==
    ASSUME NEW k, KType(k), InOrder(k), NEW l \in Prioritized, NEW p \in Nat,
           NEW from \in 1 .. Len(k.list[l]) + 1,
           \A j \in 1 .. from - 1 : k.prio[k.list[l][j]] >= p
    PROVE  LET i == SearchFrom(k, l, from, p) IN
           /\ i \in from .. Len(k.list[l]) + 1
           /\ \A j \in 1 .. Len(k.list[l]) :
                 /\ j < i => k.prio[k.list[l][j]] >= p
                 /\ j >= i => p > k.prio[k.list[l][j]]
<1> DEFINE i == SearchFrom(k, l, from, p)
<1>1. /\ k.list \in [List -> Seq(Task)] /\ k.prio \in [Task -> 0 .. MaxPrio]
      /\ l \in List /\ Len(k.list[l]) \in Nat
      /\ \A j \in 1 .. Len(k.list[l]) : k.prio[k.list[l][j]] \in Nat
  BY PrioAssumption DEF KType, Prioritized
<1>2. /\ i \in from .. Len(k.list[l]) + 1
      /\ i <= Len(k.list[l]) => k.prio[k.list[l][i]] < p
      /\ \A j \in from .. i - 1 : k.prio[k.list[l][j]] >= p
  BY <1>1, SearchLemma
<1> HIDE DEF i
<1>3. ASSUME NEW j \in 1 .. Len(k.list[l]), j < i PROVE k.prio[k.list[l][j]] >= p
  <2>1. CASE j < from
    BY <1>1, <2>1
  <2>2. CASE j >= from
    BY <1>1, <1>2, <1>3, <2>2
  <2> QED
    BY <2>1, <2>2
<1>4. ASSUME NEW j \in 1 .. Len(k.list[l]), j >= i PROVE p > k.prio[k.list[l][j]]
  <2>1. i \in 1 .. Len(k.list[l]) /\ k.prio[k.list[l][i]] < p
    BY <1>1, <1>2, <1>4
  <2>2. i = j \/ k.prio[k.list[l][i]] >= k.prio[k.list[l][j]]
    BY <1>4, <2>1 DEF InOrder
  <2> QED
    BY <1>1, <2>1, <2>2, SMTT(30)
<1> QED
  BY <1>2, <1>3, <1>4 DEF i

-----------------------------------------------------------------------------
(* The scheduler's list operations keep the task lists good. *)
Good(k) == Lists(k) /\ InOrder(k) /\ IdleLast(k) /\ HeadRuns(k)

(* Switching a ready TCB between RUNNING and READYTORUN. *)
LEMMA FlipLemma ==
    ASSUME NEW k, Lists(k), NEW u \in Task, ListOf(k.state[u]) = "READYTORUN",
           NEW s \in {"RUNNING", "READYTORUN"},
           NEW m, Flips(k, m, u, s)
    PROVE  Lists(m)
<1> USE DEF Flips
<1>1. k.list \in [List -> Seq(Task)] /\ k.state \in [Task -> TState]
  BY DEF Lists, KType
<1>2. \A v \in Task : ListOf(m.state[v]) = ListOf(k.state[v])
  BY <1>1 DEF ListOf
<1>3. \A v \in Task : m.state[v] = "INVALID" <=> k.state[v] = "INVALID"
  BY <1>1 DEF ListOf
<1>4. Placed(m)
  BY <1>1, <1>2 DEF Lists, Placed
<1>5. Unique(m)
  BY DEF Lists, Unique
<1>6. Present(m)
  BY <1>2, <1>3 DEF Lists, Present
<1> QED
  BY <1>4, <1>5, <1>6 DEF Lists

(* The IDLE task is ready; the running task is the only RUNNING one. *)
LEMMA ReadyFacts ==
    ASSUME NEW k, Good(k)
    PROVE  /\ Rtr(k) \in Seq(Task) /\ Len(Rtr(k)) \in Nat \ {0}
           /\ Running(k) \in Task /\ ListOf(k.state[Running(k)]) = "READYTORUN"
           /\ k.state[Running(k)] = "RUNNING"
           /\ ListOf(k.state[Idle]) = "READYTORUN"
           /\ Pending(k) \in Seq(Task)
<1>1. /\ k.list \in [List -> Seq(Task)] /\ "READYTORUN" \in List /\ "PENDING" \in List
  BY DEF Good, Lists, KType, List, TState
<1>2. /\ Rtr(k) \in Seq(Task) /\ Pending(k) \in Seq(Task)
  BY <1>1 DEF Rtr, Pending
<1>3. Len(Rtr(k)) \in Nat \ {0}
  BY <1>2 DEF Good, IdleLast
<1>4. 1 \in 1 .. Len(Rtr(k)) /\ Len(Rtr(k)) \in 1 .. Len(Rtr(k))
  BY <1>3
<1>5. Running(k) \in Task
  BY <1>2, <1>4 DEF Running
<1>6. /\ ListOf(k.state[Running(k)]) = "READYTORUN"
      /\ ListOf(k.state[Idle]) = "READYTORUN"
  BY <1>1, <1>4 DEF Good, Lists, Placed, Running, Rtr, IdleLast
<1>7. k.state[Running(k)] = "RUNNING"
  BY <1>5 DEF Good, HeadRuns
<1> QED
  BY <1>2, <1>3, <1>5, <1>6, <1>7

(* Unlinking a TCB that is not running, other than IDLE. *)
LEMMA UnlinkGood ==
    ASSUME NEW k, Good(k), NEW t \in Task \ {Idle},
           k.state[t] \notin {"INVALID", "RUNNING"},
           NEW m, Unlinks(k, m, t, ListOf(k.state[t]))
    PROVE  /\ Good(m) /\ Running(m) = Running(k)
           /\ Pending(k) = <<>> => Pending(m) = <<>>
<1> DEFINE l == ListOf(k.state[t])
           i == IndexIn(k, l, t)
<1>1. /\ k.list \in [List -> Seq(Task)] /\ k.state \in [Task -> TState]
      /\ k.prio \in [Task -> 0 .. MaxPrio] /\ k.lock \in [Task -> Nat]
      /\ KType(k) /\ Lists(k)
  BY DEF Good, Lists, KType
<1>2. l \in List
  BY <1>1, ListOfLemma
<1>3. i \in 1 .. Len(k.list[l]) /\ k.list[l][i] = t
  <2>1. \E j \in 1 .. Len(k.list[l]) : k.list[l][j] = t
    BY DEF Good, Lists, Present
  <2> QED
    BY <2>1 DEF IndexIn
<1>4. k.list[l] \in Seq(Task) /\ RemoveAt(k.list[l], i) \in Seq(Task)
  <2>1. k.list[l] \in Seq(Task)
    BY <1>1, <1>2
  <2> QED
    BY <1>3, <2>1, RemoveLemma
<1> HIDE DEF l, i
<1>5. /\ m.list = [k.list EXCEPT ![l] = RemoveAt(@, IndexIn(k, l, t))]
      /\ m.state = [k.state EXCEPT ![t] = "INVALID"]
      /\ m.prio = k.prio /\ m.lock = k.lock /\ KType(m)
  BY DEF Unlinks, l
<1>6. Lists(m)
  BY <1>1, <1>2, RemLemma DEF l
<1>7. InOrder(m)
  BY <1>1, <1>2, <1>3, RemOrder DEF Good, i, l
<1>8. /\ Running(k) # t
      /\ Len(Rtr(m)) > 0 /\ Rtr(m)[Len(Rtr(m))] = Idle /\ Running(m) = Running(k)
  <2>0. Running(k) # t
    BY ReadyFacts
  <2>1. CASE l # "READYTORUN"
    <3>1. Rtr(m) = Rtr(k)
      BY <1>1, <1>2, <1>5, <2>1 DEF Rtr, List, TState
    <3> QED
      BY <2>0, <3>1 DEF Running, Good, IdleLast
  <2>2. CASE l = "READYTORUN"
    <3>1. /\ Rtr(m) = RemoveAt(Rtr(k), i) /\ Rtr(k) \in Seq(Task)
          /\ i \in 1 .. Len(Rtr(k)) /\ Rtr(k)[i] = t
      BY <1>1, <1>2, <1>3, <1>4, <1>5, <2>2 DEF Rtr, i
    <3>2. /\ Len(Rtr(m)) = Len(Rtr(k)) - 1
          /\ \A j \in 1 .. Len(Rtr(k)) - 1 :
                Rtr(m)[j] = IF j < i THEN Rtr(k)[j] ELSE Rtr(k)[j + 1]
      BY <3>1, RemoveLemma
    <3>3. i # 1 /\ i # Len(Rtr(k))
      BY <2>0, <3>1 DEF Running, Good, IdleLast
    <3> QED
      BY <2>0, <3>1, <3>2, <3>3 DEF Running, Good, IdleLast
  <2> QED
    BY <2>1, <2>2
<1>9. IdleLast(m)
  BY <1>1, <1>5, <1>8 DEF Good, IdleLast
<1>10. HeadRuns(m)
  BY <1>1, <1>5, <1>8 DEF Good, HeadRuns
<1>11. Pending(k) = <<>> => Pending(m) = <<>>
  <2>1. CASE l # "PENDING"
    BY <1>1, <1>2, <1>5, <2>1 DEF Pending, List, TState
  <2>2. CASE l = "PENDING"
    BY <1>3, <2>2 DEF Pending
  <2> QED
    BY <2>1, <2>2
<1> QED
  BY <1>5, <1>6, <1>7, <1>8, <1>9, <1>10, <1>11 DEF Good

LEMMA UnlinkLemma ==
    ASSUME NEW k, Good(k), NEW t \in Task \ {Idle},
           k.state[t] \notin {"INVALID", "RUNNING"}
    PROVE  LET m == [dq_rem(k, t, ListOf(k.state[t])) EXCEPT !.state[t] = "INVALID"] IN
           /\ Good(m) /\ m.state = [k.state EXCEPT ![t] = "INVALID"]
           /\ m.prio = k.prio /\ m.lock = k.lock
           /\ Running(m) = Running(k)
           /\ Pending(k) = <<>> => Pending(m) = <<>>
<1> DEFINE l == ListOf(k.state[t])
           i == IndexIn(k, l, t)
           m == [dq_rem(k, t, l) EXCEPT !.state[t] = "INVALID"]
<1>1. /\ k.list \in [List -> Seq(Task)] /\ k.state \in [Task -> TState]
      /\ k.prio \in [Task -> 0 .. MaxPrio] /\ k.lock \in [Task -> Nat]
      /\ KType(k) /\ Lists(k)
  BY DEF Good, Lists, KType
<1>2. l \in List
  BY <1>1, ListOfLemma
<1>3. i \in 1 .. Len(k.list[l]) /\ k.list[l][i] = t
  <2>1. \E j \in 1 .. Len(k.list[l]) : k.list[l][j] = t
    BY DEF Good, Lists, Present
  <2> QED
    BY <2>1 DEF IndexIn
<1>4. k.list[l] \in Seq(Task) /\ RemoveAt(k.list[l], i) \in Seq(Task)
  <2>1. k.list[l] \in Seq(Task)
    BY <1>1, <1>2
  <2> QED
    BY <1>3, <2>1, RemoveLemma
<1> HIDE DEF l, i
<1>5. Unlinks(k, m, t, l)
  BY <1>1, <1>2, <1>4 DEF dq_rem, KType, TState, i, Unlinks
<1> HIDE DEF m
<1>6. /\ Good(m) /\ Running(m) = Running(k)
      /\ Pending(k) = <<>> => Pending(m) = <<>>
  BY <1>5, UnlinkGood DEF l
<1> QED
  BY <1>5, <1>6 DEF Unlinks, m, l

(* Linking a detached TCB, other than IDLE, into a list other than         *)
(* g_readytorun.                                                           *)
LEMMA LinkGood ==
    ASSUME NEW k, Good(k), NEW t \in Task \ {Idle}, k.state[t] = "INVALID", k.prio[t] > 0,
           NEW l \in List \ {"READYTORUN"}, NEW i \in 1 .. Len(k.list[l]) + 1,
           l \in Prioritized =>
              \A j \in 1 .. Len(k.list[l]) :
                 /\ j < i => k.prio[k.list[l][j]] >= k.prio[t]
                 /\ j >= i => k.prio[t] >= k.prio[k.list[l][j]],
           NEW m, Links(k, m, t, l, i, l)
    PROVE  Good(m) /\ Rtr(m) = Rtr(k) /\ Running(m) = Running(k)
<1>1. /\ k.list \in [List -> Seq(Task)] /\ k.state \in [Task -> TState]
      /\ KType(k) /\ Lists(k) /\ InOrder(k) /\ t \in Task
  BY DEF Good, Lists, KType
<1>2. l \in TState /\ ListOf(l) = l /\ l \in List /\ l # "RUNNING"
  BY DEF List, ListOf
<1>3. Lists(m)
  BY <1>1, <1>2, PutLemma
<1>4. InOrder(m)
  BY <1>1, <1>2, PutOrder
<1>5. Rtr(m) = Rtr(k) /\ Running(m) = Running(k)
  BY <1>1 DEF Links, Rtr, Running, List, TState
<1>6. IdleLast(m)
  BY <1>1, <1>5 DEF Good, IdleLast, Links
<1>7. HeadRuns(m)
  <2>1. Running(k) # t
    BY <1>1, ReadyFacts
  <2> QED
    BY <1>1, <1>2, <1>5, <2>1 DEF Good, HeadRuns, Links
<1> QED
  BY <1>3, <1>4, <1>5, <1>6, <1>7 DEF Good

(* Linking a detached TCB into g_readytorun. *)
LEMMA LinkReady ==
    ASSUME NEW k, Good(k), NEW t \in Task \ {Idle}, k.state[t] = "INVALID", k.prio[t] > 0,
           NEW i, FitsReady(k, t, i), NEW m, LinksReady(k, m, t, i)
    PROVE  /\ Good(m) /\ i <= Len(Rtr(k))
           /\ Len(Rtr(m)) = Len(Rtr(k)) + 1
           /\ Running(m) = IF i = 1 THEN t ELSE Running(k)
           /\ \A j \in 1 .. Len(Rtr(m)) : Rtr(m)[j] =
                IF j < i THEN Rtr(k)[j] ELSE IF j = i THEN t ELSE Rtr(k)[j - 1]
<1> USE DEF LinksReady, FitsReady
<1> DEFINE l == "READYTORUN"
           s == IF i = 1 THEN "RUNNING" ELSE "READYTORUN"
           d == [k EXCEPT !.list = m.list, !.state[t] = s]
<1>1. /\ k.list \in [List -> Seq(Task)] /\ k.state \in [Task -> TState]
      /\ m.list \in [List -> Seq(Task)]
      /\ KType(k) /\ Lists(k) /\ InOrder(k) /\ t \in Task /\ l \in List
      /\ s \in TState /\ ListOf(s) = l /\ Rtr(k) = k.list[l] /\ Rtr(m) = m.list[l]
  BY DEF Good, Lists, KType, List, TState, ListOf, Rtr
<1>2. Links(k, d, t, l, i, s)
  BY <1>1 DEF Links, KType
<1>3. Lists(d)
  BY <1>1, <1>2, PutLemma
<1>4. InOrder(d)
  <2>1. \A j \in 1 .. Len(k.list[l]) :
           /\ j < i => k.prio[k.list[l][j]] >= k.prio[t]
           /\ j >= i => k.prio[t] >= k.prio[k.list[l][j]]
    BY <1>1, PrioAssumption, SMTT(30) DEF KType
  <2> QED
    BY <1>1, <1>2, <2>1, PutOrder
<1>5. /\ Len(Rtr(m)) = Len(Rtr(k)) + 1
      /\ \A j \in 1 .. Len(Rtr(k)) + 1 : Rtr(m)[j] =
           IF j < i THEN Rtr(k)[j] ELSE IF j = i THEN t ELSE Rtr(k)[j - 1]
  <2>1. Rtr(k) \in Seq(Task) /\ Rtr(m) = InsertAt(Rtr(k), i, t)
    BY <1>1
  <2>2. ASSUME NEW q \in Seq(Task), NEW n \in 1 .. Len(q) + 1
        PROVE  /\ Len(InsertAt(q, n, t)) = Len(q) + 1
               /\ \A j \in 1 .. Len(q) + 1 :
                    InsertAt(q, n, t)[j] = IF j < n THEN q[j] ELSE IF j = n THEN t ELSE q[j - 1]
    BY <1>1, InsertLemma
  <2>3. /\ Len(InsertAt(Rtr(k), i, t)) = Len(Rtr(k)) + 1
        /\ \A j \in 1 .. Len(Rtr(k)) + 1 : InsertAt(Rtr(k), i, t)[j] =
             IF j < i THEN Rtr(k)[j] ELSE IF j = i THEN t ELSE Rtr(k)[j - 1]
    BY <2>1, <2>2, ZenonT(40)
  <2> QED
    BY <2>1, <2>3, Zenon
<1>6. i <= Len(Rtr(k)) /\ Len(Rtr(k)) \in Nat \ {0} /\ Rtr(k)[Len(Rtr(k))] = Idle
  <2>1. k.prio[t] \in Nat /\ k.prio[Idle] = 0 /\ Rtr(k)[Len(Rtr(k))] = Idle
    BY <1>1, PrioAssumption DEF KType, Good, IdleLast
  <2>2. Len(Rtr(k)) \in Nat \ {0}
    BY ReadyFacts
  <2>3. Len(Rtr(k)) < i => k.prio[Rtr(k)[Len(Rtr(k))]] >= k.prio[t]
    BY <2>2
  <2> QED
    BY <2>1, <2>2, <2>3
<1>7. /\ Rtr(m)[Len(Rtr(m))] = Idle
      /\ Running(m) = IF i = 1 THEN t ELSE Running(k)
  <2>1. Len(Rtr(k)) + 1 \in 1 .. Len(Rtr(k)) + 1 /\ ~(Len(Rtr(k)) + 1 < i) /\ Len(Rtr(k)) + 1 # i
    BY <1>6
  <2>2. Rtr(m)[Len(Rtr(k)) + 1] = Rtr(k)[Len(Rtr(k)) + 1 - 1]
    BY <1>5, <2>1
  <2>3. Rtr(m)[1] = IF i = 1 THEN t ELSE Rtr(k)[1]
    BY <1>5, <1>6
  <2> QED
    BY <1>5, <1>6, <2>2, <2>3 DEF Running
<1>8. /\ d.list = m.list /\ d.state = [k.state EXCEPT ![t] = s] /\ d.prio = k.prio /\ d.lock = k.lock
      /\ KType(d)
  BY <1>2 DEF Links
<1> HIDE DEF d
<1>9. Lists(m)
  <2>1. CASE i = 1
    <3>1. Running(k) \in Task /\ Running(k) # t /\ ListOf(d.state[Running(k)]) = "READYTORUN"
      BY <1>1, <1>8, ReadyFacts
    <3>2. Flips(d, m, Running(k), "READYTORUN")
      BY <1>1, <1>8, <2>1, <3>1 DEF Flips
    <3> QED
      BY <1>3, <3>1, <3>2, FlipLemma
  <2>2. CASE i # 1
    BY <1>3, <1>8, <2>2 DEF Lists, Placed, Unique, Present
  <2> QED
    BY <2>1, <2>2
<1>10. InOrder(m)
  BY <1>4, <1>8 DEF InOrder
<1>11. IdleLast(m)
  <2>1. ASSUME NEW u \in Task \ {Idle}, m.state[u] # "INVALID" PROVE k.prio[u] > 0
    BY <1>1, <2>1, ReadyFacts DEF Good, IdleLast
  <2> QED
    BY <1>5, <1>6, <1>7, <2>1 DEF Good, IdleLast, Lists, KType
<1>12. HeadRuns(m)
  <2>1. Running(k) \in Task /\ Running(k) # t
    BY ReadyFacts
  <2>2. CASE i = 1
    BY <1>1, <1>7, <2>1, <2>2 DEF Good, HeadRuns
  <2>3. CASE i # 1
    BY <1>1, <1>7, <2>1, <2>3 DEF Good, HeadRuns
  <2> QED
    BY <2>2, <2>3
<1> QED
  BY <1>5, <1>6, <1>7, <1>9, <1>10, <1>11, <1>12 DEF Good

-----------------------------------------------------------------------------
(* The operations. *)

(* From k to m no task but t changes its list ...                          *)
Stay(k, m, t) == \A u \in Task \ {t} : ListOf(m.state[u]) = ListOf(k.state[u])

(* ... and t is behind the ready tasks of its priority, if it is ready.    *)
Behind(m, t) ==
    \A i, j \in 1 .. Len(Rtr(m)) :
        Rtr(m)[i] = t /\ Rtr(m)[j] # t /\ m.prio[Rtr(m)[j]] = m.prio[t] => j < i

(* A task that fits its place in g_readytorun is behind its equals. *)
LEMMA BehindLemma ==
    ASSUME NEW k, Good(k), NEW t \in Task, k.state[t] = "INVALID", NEW i, FitsReady(k, t, i),
           NEW m, LinksReady(k, m, t, i), i <= Len(Rtr(k)), Len(Rtr(m)) = Len(Rtr(k)) + 1,
           \A j \in 1 .. Len(Rtr(m)) : Rtr(m)[j] =
                IF j < i THEN Rtr(k)[j] ELSE IF j = i THEN t ELSE Rtr(k)[j - 1]
    PROVE  /\ Behind(m, t) /\ Stay(k, m, t) /\ ListOf(m.state[t]) = "READYTORUN"
<1>1. /\ Rtr(k) \in Seq(Task) /\ Len(Rtr(k)) \in Nat /\ i \in 1 .. Len(Rtr(k))
      /\ \A j \in 1 .. Len(Rtr(k)) : j >= i => k.prio[t] > k.prio[Rtr(k)[j]]
      /\ m.prio = k.prio /\ k.prio \in [Task -> 0 .. MaxPrio] /\ k.state \in [Task -> TState]
  <2>1. Rtr(k) \in Seq(Task) /\ Len(Rtr(k)) \in Nat
    BY ReadyFacts
  <2>2. m.prio = k.prio /\ k.prio \in [Task -> 0 .. MaxPrio] /\ k.state \in [Task -> TState]
    BY DEF LinksReady, Good, Lists, KType
  <2>3. i \in 1 .. Len(Rtr(k)) + 1 /\ \A j \in 1 .. Len(Rtr(k)) : j >= i => k.prio[t] > k.prio[Rtr(k)[j]]
    BY DEF FitsReady
  <2> QED
    BY <2>1, <2>2, <2>3
<1>2. \A j \in 1 .. Len(Rtr(k)) : Rtr(k)[j] # t /\ Rtr(k)[j] \in Task
  <2>1. ASSUME NEW j \in 1 .. Len(Rtr(k)) PROVE Rtr(k)[j] # t /\ Rtr(k)[j] \in Task
    <3>1. ListOf(k.state[Rtr(k)[j]]) = "READYTORUN"
      BY DEF Good, Lists, Placed, Rtr, List, TState
    <3> QED
      BY <1>1, <3>1 DEF ListOf
  <2> QED
    BY <2>1
<1>3. Behind(m, t)
  <2>1. SUFFICES ASSUME NEW a \in 1 .. Len(Rtr(m)), NEW b \in 1 .. Len(Rtr(m)),
                        Rtr(m)[a] = t, Rtr(m)[b] # t, m.prio[Rtr(m)[b]] = m.prio[t], ~(b < a)
                 PROVE  FALSE
    BY DEF Behind
  <2>2. a = i
    <3>1. a < i => a \in 1 .. Len(Rtr(k)) /\ Rtr(m)[a] = Rtr(k)[a]
      BY <1>1
    <3>2. a > i => a - 1 \in 1 .. Len(Rtr(k)) /\ Rtr(m)[a] = Rtr(k)[a - 1]
      BY <1>1
    <3> QED
      BY <1>1, <1>2, <2>1, <3>1, <3>2
  <2>3. b > i
    BY <1>1, <2>1, <2>2
  <2>4. b - 1 \in 1 .. Len(Rtr(k)) /\ b - 1 >= i /\ Rtr(m)[b] = Rtr(k)[b - 1]
    BY <1>1, <2>3
  <2>5. k.prio[t] > k.prio[Rtr(k)[b - 1]] /\ k.prio[Rtr(k)[b - 1]] \in 0 .. MaxPrio
    BY <1>1, <1>2, <2>4
  <2> QED
    BY <1>1, <2>1, <2>4, <2>5
<1>4. Stay(k, m, t) /\ ListOf(m.state[t]) = "READYTORUN"
  <2>1. Running(k) \in Task /\ Running(k) # t /\ ListOf(k.state[Running(k)]) = "READYTORUN"
    BY ReadyFacts
  <2>2. CASE i = 1
    BY <1>1, <2>1, <2>2 DEF LinksReady, Stay, ListOf
  <2>3. CASE i # 1
    BY <1>1, <2>1, <2>3 DEF LinksReady, Stay, ListOf
  <2> QED
    BY <2>2, <2>3
<1> QED
  BY <1>3, <1>4

(* sched_addreadytorun of a detached task: the lists stay good; the task   *)
(* goes to g_pendingtasks only if the running task has pre-emption         *)
(* disabled, and takes the CPU only if it has not.                         *)
ReadyAdded(k, m, t) ==
    /\ Good(m) /\ m.prio = k.prio /\ m.lock = k.lock
    /\ m.state[t] # "INVALID"
    /\ \A u \in Task \ {t} : m.state[u] = "INVALID" <=> k.state[u] = "INVALID"
    /\ Running(m) = Running(k) \/ (Running(m) = t /\ k.lock[Running(k)] = 0)
    /\ Pending(m) # Pending(k) => k.lock[Running(k)] > 0 /\ Running(m) = Running(k)
    /\ Stay(k, m, t) /\ ListOf(m.state[t]) \in {"READYTORUN", "PENDING"} /\ Behind(m, t)

LEMMA AddReadyLemma ==
    ASSUME NEW k, Good(k), NEW t \in Task \ {Idle}, k.state[t] = "INVALID", k.prio[t] > 0
    PROVE  ReadyAdded(k, sched_addreadytorun(k, t), t)
<1> DEFINE r == Running(k)
           m == sched_addreadytorun(k, t)
<1>1. /\ k.list \in [List -> Seq(Task)] /\ k.state \in [Task -> TState]
      /\ k.prio \in [Task -> 0 .. MaxPrio] /\ k.lock \in [Task -> Nat]
      /\ KType(k) /\ Lists(k) /\ InOrder(k) /\ t \in Task /\ k.prio[t] \in Nat
  BY PrioAssumption DEF Good, Lists, KType
<1>2. /\ "READYTORUN" \in Prioritized /\ "PENDING" \in Prioritized \ {"READYTORUN"}
      /\ Prioritized \subseteq List
  BY DEF Prioritized, List, TState
<1>3. r \in Task /\ r # t /\ k.state[r] = "RUNNING"
  BY ReadyFacts
<1>4. CASE k.lock[r] > 0 /\ k.prio[r] < k.prio[t]
  <2> DEFINE i == SearchFrom(k, "PENDING", 1, k.prio[t])
  <2>1. /\ i \in 1 .. Len(k.list["PENDING"]) + 1
        /\ \A j \in 1 .. Len(k.list["PENDING"]) :
              /\ j < i => k.prio[k.list["PENDING"][j]] >= k.prio[t]
              /\ j >= i => k.prio[t] > k.prio[k.list["PENDING"][j]]
    <3>1. 1 \in 1 .. Len(k.list["PENDING"]) + 1
      BY <1>1, <1>2
    <3>2. \A j \in 1 .. 1 - 1 : k.prio[k.list["PENDING"][j]] >= k.prio[t]
      OBVIOUS
    <3> QED
      BY <1>1, <1>2, <3>1, <3>2, SearchOrder
  <2> HIDE DEF i
  <2> DEFINE e == [[k EXCEPT !.list["PENDING"] = InsertAt(@, i, t)] EXCEPT !.state[t] = "PENDING"]
  <2>2. m = e
    BY <1>4 DEF sched_addreadytorun, sched_addprioritized, PutAt, i
  <2>3. k.list["PENDING"] \in Seq(Task) /\ InsertAt(k.list["PENDING"], i, t) \in Seq(Task)
    BY <1>1, <1>2, <2>1, InsertLemma
  <2>4. Links(k, m, t, "PENDING", i, "PENDING")
    <3>1. Links(k, e, t, "PENDING", i, "PENDING")
      BY <1>1, <1>2, <2>3 DEF Links, KType, TState
    <3> QED
      BY <2>2, <3>1, Zenon
  <2> HIDE DEF m, e
  <2>5. Good(m) /\ Running(m) = Running(k) /\ Rtr(m) = Rtr(k)
    <3>1. \A j \in 1 .. Len(k.list["PENDING"]) :
              /\ j < i => k.prio[k.list["PENDING"][j]] >= k.prio[t]
              /\ j >= i => k.prio[t] >= k.prio[k.list["PENDING"][j]]
      BY <1>1, <1>2, <2>1, <2>3, SMTT(30)
    <3> QED
      BY <1>2, <2>1, <2>4, <3>1, LinkGood
  <2>6. \A j \in 1 .. Len(Rtr(m)) : Rtr(m)[j] # t
    <3>1. ASSUME NEW j \in 1 .. Len(Rtr(m)) PROVE Rtr(m)[j] # t
      <4>1. ListOf(k.state[Rtr(k)[j]]) = "READYTORUN"
        BY <1>2, <2>5 DEF Good, Lists, Placed, Rtr
      <4> QED
        BY <2>5, <4>1 DEF ListOf
    <3> QED
      BY <3>1
  <2>7. Stay(k, m, t) /\ ListOf(m.state[t]) \in {"READYTORUN", "PENDING"}
    BY <1>1, <2>4 DEF Stay, Links, ListOf
  <2>8. Behind(m, t)
    BY <2>6 DEF Behind
  <2> QED
    BY <1>1, <1>4, <2>4, <2>5, <2>7, <2>8 DEF Links, m, ReadyAdded
<1>5. CASE ~(k.lock[r] > 0 /\ k.prio[r] < k.prio[t])
  <2> DEFINE i == SearchFrom(k, "READYTORUN", 1, k.prio[t])
             n == sched_addprioritized(k, t, "READYTORUN")
  <2>0. FitsReady(k, t, i)
    <3>1. 1 \in 1 .. Len(k.list["READYTORUN"]) + 1
      BY <1>1, <1>2
    <3>2. \A j \in 1 .. 1 - 1 : k.prio[k.list["READYTORUN"][j]] >= k.prio[t]
      OBVIOUS
    <3> QED
      BY <1>1, <1>2, <3>1, <3>2, SearchOrder DEF Rtr, FitsReady
  <2> HIDE DEF i
  <2>1. /\ i \in 1 .. Len(Rtr(k)) + 1
        /\ \A j \in 1 .. Len(Rtr(k)) :
              /\ j < i => k.prio[Rtr(k)[j]] >= k.prio[t]
              /\ j >= i => k.prio[t] > k.prio[Rtr(k)[j]]
    BY <2>0 DEF FitsReady
  <2>2. Rtr(k) \in Seq(Task) /\ InsertAt(Rtr(k), i, t) \in Seq(Task)
        /\ Len(Rtr(k)) \in Nat \ {0}
        /\ InsertAt(Rtr(k), i, t)[1] = IF i = 1 THEN t ELSE Rtr(k)[1]
    <3>1. Rtr(k) \in Seq(Task) /\ Len(Rtr(k)) \in Nat \ {0}
      BY ReadyFacts
    <3>2. 1 \in 1 .. Len(Rtr(k)) + 1 /\ (~(1 < i) => 1 = i)
      BY <2>1, <3>1
    <3> QED
      BY <1>1, <2>1, <3>1, <3>2, InsertLemma
  <2>4. n.list = [k.list EXCEPT !["READYTORUN"] = InsertAt(@, i, t)]
        /\ n.state = k.state /\ n.prio = k.prio /\ n.lock = k.lock /\ KType(n)
        /\ Rtr(n) = InsertAt(Rtr(k), i, t)
    BY <1>1, <1>2, <2>2 DEF KType, Rtr, sched_addprioritized, PutAt, i
  <2> HIDE DEF n
  <2>5. Running(n) = t <=> i = 1
    BY <1>3, <2>2, <2>4 DEF Running
  <2>6. m = IF i = 1 THEN [n EXCEPT !.state[r] = "READYTORUN", !.state[t] = "RUNNING"]
            ELSE [n EXCEPT !.state[t] = "READYTORUN"]
    BY <1>5, <2>5 DEF sched_addreadytorun, n
  <2>7. /\ KType(m) /\ m.prio = k.prio /\ m.lock = k.lock
        /\ m.list = [k.list EXCEPT !["READYTORUN"] = InsertAt(@, i, t)]
        /\ m.state = IF i = 1 THEN [k.state EXCEPT ![Running(k)] = "READYTORUN", ![t] = "RUNNING"]
                     ELSE [k.state EXCEPT ![t] = "READYTORUN"]
    <3>1. CASE i = 1
      <4> DEFINE e == [n EXCEPT !.state[r] = "READYTORUN", !.state[t] = "RUNNING"]
      <4>1. /\ KType(e) /\ e.prio = k.prio /\ e.lock = k.lock /\ e.list = n.list
            /\ e.state = [k.state EXCEPT ![Running(k)] = "READYTORUN", ![t] = "RUNNING"]
        BY <1>1, <1>3, <2>4 DEF KType, SchedField, TState
      <4>2. m = e
        BY <2>6, <3>1
      <4> HIDE DEF e, m
      <4> QED
        BY <2>4, <3>1, <4>1, <4>2
    <3>2. CASE i # 1
      <4> DEFINE e == [n EXCEPT !.state[t] = "READYTORUN"]
      <4>1. /\ KType(e) /\ e.prio = k.prio /\ e.lock = k.lock /\ e.list = n.list
            /\ e.state = [k.state EXCEPT ![t] = "READYTORUN"]
        BY <1>1, <1>3, <2>4 DEF KType, SchedField, TState
      <4>2. m = e
        BY <2>6, <3>2
      <4> HIDE DEF e, m
      <4> QED
        BY <2>4, <3>2, <4>1, <4>2
    <3> QED
      BY <3>1, <3>2
  <2> HIDE DEF m
  <2>8. /\ Good(m) /\ Running(m) = IF i = 1 THEN t ELSE Running(k)
        /\ Behind(m, t) /\ Stay(k, m, t) /\ ListOf(m.state[t]) = "READYTORUN"
    <3>1. LinksReady(k, m, t, i)
      BY <2>7 DEF LinksReady
    <3>2. /\ Good(m) /\ i <= Len(Rtr(k)) /\ Len(Rtr(m)) = Len(Rtr(k)) + 1
          /\ Running(m) = IF i = 1 THEN t ELSE Running(k)
          /\ \A j \in 1 .. Len(Rtr(m)) : Rtr(m)[j] =
                IF j < i THEN Rtr(k)[j] ELSE IF j = i THEN t ELSE Rtr(k)[j - 1]
      BY <2>0, <3>1, LinkReady
    <3> QED
      BY <1>1, <2>0, <3>1, <3>2, BehindLemma
  <2>9. i = 1 => k.lock[r] = 0
    <3>1. i = 1 => k.prio[t] > k.prio[Rtr(k)[1]]
      BY <2>1, <2>2
    <3> QED
      BY <1>1, <1>3, <1>5, <3>1 DEF Running
  <2>10. Pending(m) = Pending(k)
    BY <1>1, <1>2, <2>7 DEF Pending
  <2>11. /\ m.state[t] # "INVALID"
         /\ \A u \in Task \ {t} : m.state[u] = "INVALID" <=> k.state[u] = "INVALID"
    BY <1>1, <1>3, <2>7
  <2> QED
    BY <2>7, <2>8, <2>9, <2>10, <2>11 DEF m, ReadyAdded
<1> QED
  BY <1>4, <1>5

(* sched_removereadytorun of a ready task other than IDLE. *)
LEMMA RemoveReadyLemma ==
    ASSUME NEW k, Good(k), NEW t \in Task \ {Idle}, ListOf(k.state[t]) = "READYTORUN"
    PROVE  LET m == sched_removereadytorun(k, t) IN
           /\ Good(m) /\ m.prio = k.prio /\ m.lock = k.lock
           /\ m.state[t] = "INVALID"
           /\ \A u \in Task \ {t} : m.state[u] = "INVALID" <=> k.state[u] = "INVALID"
           /\ Pending(m) = Pending(k)
           /\ Running(m) # t
           /\ Running(k) # t => Running(m) = Running(k)
           /\ Stay(k, m, t)
<1> DEFINE l == "READYTORUN"
           i == IndexIn(k, l, t)
           n == dq_rem(k, t, l)
           m == sched_removereadytorun(k, t)
<1>1. /\ k.list \in [List -> Seq(Task)] /\ k.state \in [Task -> TState]
      /\ k.prio \in [Task -> 0 .. MaxPrio] /\ k.lock \in [Task -> Nat]
      /\ KType(k) /\ Lists(k) /\ InOrder(k) /\ t \in Task
      /\ l \in List /\ "PENDING" \in List
  BY DEF Good, Lists, KType, List, TState
<1>2. k.state[t] \in {"RUNNING", "READYTORUN"}
  BY <1>1 DEF ListOf
<1>3. /\ i \in 1 .. Len(Rtr(k)) /\ Rtr(k)[i] = t
  <2>1. \E j \in 1 .. Len(k.list[l]) : k.list[l][j] = t
    BY <1>1, <1>2 DEF Good, Lists, Present
  <2> QED
    BY <2>1 DEF IndexIn, Rtr
<1>4. Rtr(k) \in Seq(Task) /\ Len(Rtr(k)) \in Nat \ {0}
  BY ReadyFacts
<1> HIDE DEF i
<1>5. /\ RemoveAt(Rtr(k), i) \in Seq(Task)
      /\ Len(RemoveAt(Rtr(k), i)) = Len(Rtr(k)) - 1
      /\ \A j \in 1 .. Len(Rtr(k)) - 1 :
            RemoveAt(Rtr(k), i)[j] = IF j < i THEN Rtr(k)[j] ELSE Rtr(k)[j + 1]
  BY <1>3, <1>4, RemoveLemma
<1>6. /\ n.list = [k.list EXCEPT ![l] = RemoveAt(@, IndexIn(k, l, t))]
      /\ n.state = k.state /\ n.prio = k.prio /\ n.lock = k.lock /\ KType(n)
      /\ Rtr(n) = RemoveAt(Rtr(k), i)
  BY <1>1, <1>5 DEF dq_rem, KType, Rtr, i
<1> HIDE DEF n
<1>7. i # Len(Rtr(k)) /\ Len(Rtr(k)) > 1
  BY <1>3, <1>4 DEF Good, IdleLast
<1>8. /\ Len(Rtr(n)) > 0 /\ Rtr(n)[Len(Rtr(n))] = Idle
      /\ Running(n) = IF i = 1 THEN Rtr(k)[2] ELSE Rtr(k)[1]
  <2>1. Rtr(k)[Len(Rtr(k))] = Idle
    BY DEF Good, IdleLast
  <2>3. ~(Len(Rtr(k)) - 1 < i) /\ Len(Rtr(k)) - 1 \in 1 .. Len(Rtr(k)) - 1 /\ 1 \in 1 .. Len(Rtr(k)) - 1
    BY <1>3, <1>4, <1>7
  <2>4. Rtr(n)[Len(Rtr(k)) - 1] = Rtr(k)[Len(Rtr(k)) - 1 + 1]
    BY <1>5, <1>6, <2>3
  <2>5. Rtr(n)[1] = IF 1 < i THEN Rtr(k)[1] ELSE Rtr(k)[1 + 1]
    BY <1>5, <1>6, <2>3
  <2> QED
    BY <1>3, <1>4, <1>5, <1>6, <1>7, <2>1, <2>4, <2>5 DEF Running
<1>9. Running(k) = t <=> i = 1
  <2>1. 1 \in 1 .. Len(Rtr(k))
    BY <1>4
  <2>2. \A a, b \in 1 .. Len(Rtr(k)) : Rtr(k)[a] = Rtr(k)[b] => a = b
    BY <1>1 DEF Good, Lists, Unique, Rtr
  <2> QED
    BY <1>3, <2>1, <2>2 DEF Running
<1>10. Running(n) \in Task /\ Running(n) # t /\ ListOf(k.state[Running(n)]) = l
  <2>1. PICK j \in 1 .. Len(Rtr(k)) : j # i /\ Running(n) = Rtr(k)[j]
    <3>1. CASE i = 1
      BY <1>4, <1>7, <1>8, <3>1
    <3>2. CASE i # 1
      BY <1>4, <1>7, <1>8, <3>2
    <3> QED
      BY <3>1, <3>2
  <2>2. Rtr(k)[j] # Rtr(k)[i]
    BY <1>1, <1>3, <2>1 DEF Good, Lists, Unique, Rtr
  <2> QED
    BY <1>1, <1>3, <1>4, <2>1, <2>2 DEF Good, Lists, Placed, Rtr
<1> DEFINE d == [n EXCEPT !.state[t] = "INVALID"]
<1>11. /\ Unlinks(k, d, t, l) /\ d.list = n.list /\ d.prio = k.prio /\ d.lock = k.lock
       /\ d.state = [k.state EXCEPT ![t] = "INVALID"] /\ KType(d)
  BY <1>1, <1>6 DEF Unlinks, KType, SchedField, TState
<1>12. Lists(d) /\ InOrder(d)
  <2>1. Lists(d)
    BY <1>1, <1>2, <1>11, RemLemma
  <2>2. IndexIn(k, l, t) \in 1 .. Len(k.list[l])
    BY <1>3 DEF i, Rtr
  <2> QED
    BY <1>1, <1>11, <2>1, <2>2, RemOrder
<1> HIDE DEF d
<1>13. CASE Running(k) = t
  <2> DEFINE e == [n EXCEPT !.state[Running(n)] = "RUNNING", !.state[t] = "INVALID"]
  <2>1. m = e
    BY <1>13 DEF sched_removereadytorun, n
  <2>2. /\ e.list = n.list /\ e.prio = k.prio /\ e.lock = k.lock /\ KType(e)
        /\ e.state = [k.state EXCEPT ![Running(n)] = "RUNNING", ![t] = "INVALID"]
    BY <1>1, <1>6, <1>10 DEF KType, SchedField, TState
  <2> HIDE DEF e, m
  <2>3. Flips(d, m, Running(n), "RUNNING")
    BY <1>1, <1>10, <1>11, <2>1, <2>2 DEF Flips
  <2>4. Lists(m)
    <3>1. ListOf(d.state[Running(n)]) = "READYTORUN"
      BY <1>1, <1>10, <1>11
    <3> QED
      BY <1>10, <1>12, <2>3, <3>1, FlipLemma
  <2>5. InOrder(m)
    BY <1>11, <1>12, <2>1, <2>2 DEF InOrder
  <2>6. Running(m) = Running(n) /\ Rtr(m) = Rtr(n) /\ Pending(m) = Pending(k)
    BY <1>1, <1>6, <2>1, <2>2 DEF Running, Rtr, Pending
  <2>7. IdleLast(m)
    BY <1>1, <1>8, <1>10, <2>1, <2>2, <2>6 DEF IdleLast, Good, ListOf
  <2>8. HeadRuns(m)
    BY <1>1, <1>10, <1>13, <2>1, <2>2, <2>6 DEF HeadRuns, Good
  <2>9. /\ m.state[t] = "INVALID"
        /\ \A u \in Task \ {t} : m.state[u] = "INVALID" <=> k.state[u] = "INVALID"
    BY <1>1, <1>10, <2>1, <2>2 DEF ListOf
  <2>10. Stay(k, m, t)
    BY <1>1, <1>10, <2>1, <2>2 DEF Stay, ListOf
  <2> QED
    BY <1>10, <1>13, <2>1, <2>2, <2>4, <2>5, <2>6, <2>7, <2>8, <2>9, <2>10 DEF Good, m
<1>14. CASE Running(k) # t
  <2>1. m = d
    BY <1>14 DEF sched_removereadytorun, n, d
  <2> HIDE DEF m
  <2>2. Running(m) = Running(k) /\ Rtr(m) = Rtr(n) /\ Pending(m) = Pending(k)
    BY <1>1, <1>6, <1>8, <1>9, <1>11, <1>14, <2>1 DEF Running, Rtr, Pending
  <2>3. IdleLast(m)
    BY <1>1, <1>8, <1>11, <2>1, <2>2 DEF IdleLast, Good
  <2>4. HeadRuns(m)
    BY <1>1, <1>11, <1>14, <2>1, <2>2 DEF HeadRuns, Good
  <2>5. Stay(k, m, t)
    BY <1>1, <1>11, <2>1 DEF Stay
  <2> QED
    BY <1>1, <1>11, <1>12, <1>14, <2>1, <2>2, <2>3, <2>4, <2>5 DEF Good, m
<1> QED
  BY <1>13, <1>14

(* Appending is inserting at the end. *)
LEMMA AppendInsert ==
    ASSUME NEW S, NEW s \in Seq(S), NEW e \in S
    PROVE  Append(s, e) = InsertAt(s, Len(s) + 1, e)
<1> DEFINE h == InsertAt(s, Len(s) + 1, e)
<1>1. Len(s) \in Nat /\ Len(s) + 1 \in 1 .. Len(s) + 1
  OBVIOUS
<1>2. /\ h \in Seq(S) /\ Len(h) = Len(s) + 1
      /\ \A j \in 1 .. Len(s) + 1 :
            h[j] = IF j < Len(s) + 1 THEN s[j] ELSE IF j = Len(s) + 1 THEN e ELSE s[j - 1]
  BY <1>1, InsertLemma
<1> HIDE DEF h
<1>3. /\ Append(s, e) \in Seq(S) /\ Len(Append(s, e)) = Len(s) + 1
      /\ \A j \in 1 .. Len(s) : Append(s, e)[j] = s[j]
      /\ Append(s, e)[Len(s) + 1] = e
  BY AppendProperties
<1>4. \A j \in 1 .. Len(s) + 1 : Append(s, e)[j] = h[j]
  BY <1>1, <1>2, <1>3
<1>5. Append(s, e) = h
  BY <1>2, <1>3, <1>4, SeqEqual
<1> QED
  BY <1>5 DEF h

(* The start of every list is a place to search from. *)
LEMMA SearchAll ==
    ASSUME NEW k, KType(k), InOrder(k), NEW l \in Prioritized, NEW p \in Nat
    PROVE  LET i == SearchFrom(k, l, 1, p) IN
           /\ i \in 1 .. Len(k.list[l]) + 1
           /\ \A j \in 1 .. Len(k.list[l]) :
                 /\ j < i => k.prio[k.list[l][j]] >= p
                 /\ j >= i => p > k.prio[k.list[l][j]]
<1>1. 1 \in 1 .. Len(k.list[l]) + 1
  BY DEF KType, Prioritized
<1>2. \A j \in 1 .. 1 - 1 : k.prio[k.list[l][j]] >= p
  OBVIOUS
<1> QED
  BY <1>1, <1>2, SearchOrder

(* sched_addprioritized of a detached task into a list other than          *)
(* g_readytorun, and its new state.                                        *)
LEMMA AddPrioritizedLemma ==
    ASSUME NEW k, Good(k), NEW t \in Task \ {Idle}, k.state[t] = "INVALID", k.prio[t] > 0,
           NEW l \in Prioritized \ {"READYTORUN"}
    PROVE  LET m == [sched_addprioritized(k, t, l) EXCEPT !.state[t] = l] IN
           /\ Good(m) /\ m.prio = k.prio /\ m.lock = k.lock
           /\ m.state = [k.state EXCEPT ![t] = l]
           /\ Rtr(m) = Rtr(k) /\ Running(m) = Running(k)
           /\ l # "PENDING" => Pending(m) = Pending(k)
<1> DEFINE i == SearchFrom(k, l, 1, k.prio[t])
           m == [sched_addprioritized(k, t, l) EXCEPT !.state[t] = l]
<1>1. /\ k.list \in [List -> Seq(Task)] /\ k.state \in [Task -> TState]
      /\ k.prio \in [Task -> 0 .. MaxPrio] /\ k.lock \in [Task -> Nat]
      /\ KType(k) /\ InOrder(k) /\ t \in Task /\ k.prio[t] \in Nat
  BY PrioAssumption DEF Good, Lists, KType
<1>2. l \in List \ {"READYTORUN"} /\ l \in TState /\ l \in Prioritized /\ "PENDING" \in List
  BY DEF Prioritized, List, TState
<1>3. /\ i \in 1 .. Len(k.list[l]) + 1
      /\ \A j \in 1 .. Len(k.list[l]) :
            /\ j < i => k.prio[k.list[l][j]] >= k.prio[t]
            /\ j >= i => k.prio[t] > k.prio[k.list[l][j]]
  BY <1>1, <1>2, SearchAll
<1> HIDE DEF i
<1>4. k.list[l] \in Seq(Task) /\ InsertAt(k.list[l], i, t) \in Seq(Task)
  BY <1>1, <1>2, <1>3, InsertLemma
<1>5. Links(k, m, t, l, i, l)
  BY <1>1, <1>2, <1>4 DEF sched_addprioritized, PutAt, Links, KType, i
<1> HIDE DEF m
<1>6. \A j \in 1 .. Len(k.list[l]) :
         /\ j < i => k.prio[k.list[l][j]] >= k.prio[t]
         /\ j >= i => k.prio[t] >= k.prio[k.list[l][j]]
  BY <1>1, <1>3, <1>4, SMTT(30)
<1>7. Good(m) /\ Rtr(m) = Rtr(k) /\ Running(m) = Running(k)
  BY <1>2, <1>3, <1>5, <1>6, LinkGood
<1>8. l # "PENDING" => Pending(m) = Pending(k)
  BY <1>1, <1>2, <1>5 DEF Links, Pending
<1> QED
  BY <1>5, <1>7, <1>8 DEF Links, m

(* sched_addblocked of a detached task. *)
LEMMA AddBlockedLemma ==
    ASSUME NEW k, Good(k), NEW t \in Task \ {Idle}, k.state[t] = "INVALID", k.prio[t] > 0,
           NEW s \in BlockedState
    PROVE  LET m == sched_addblocked(k, t, s) IN
           /\ Good(m) /\ m.prio = k.prio /\ m.lock = k.lock
           /\ m.state = [k.state EXCEPT ![t] = s]
           /\ Running(m) = Running(k) /\ Pending(m) = Pending(k)
<1> DEFINE m == sched_addblocked(k, t, s)
<1>1. s \in List \ {"READYTORUN", "PENDING"} /\ s \in TState /\ "PENDING" \in List
  BY DEF BlockedState, List, TState
<1>2. CASE s \in Prioritized
  <2>1. m = [sched_addprioritized(k, t, s) EXCEPT !.state[t] = s]
    BY <1>2 DEF sched_addblocked
  <2> QED
    BY <1>1, <1>2, <2>1, AddPrioritizedLemma
<1>3. CASE s \notin Prioritized
  <2> DEFINE e == [[k EXCEPT !.list[s] = Append(@, t)] EXCEPT !.state[t] = s]
             i == Len(k.list[s]) + 1
  <2>1. m = e
    BY <1>3 DEF sched_addblocked
  <2>2. /\ k.list \in [List -> Seq(Task)] /\ k.state \in [Task -> TState]
        /\ k.prio \in [Task -> 0 .. MaxPrio] /\ k.lock \in [Task -> Nat]
        /\ KType(k) /\ t \in Task
    BY DEF Good, Lists, KType
  <2>3. k.list[s] \in Seq(Task) /\ i \in 1 .. Len(k.list[s]) + 1
    BY <1>1, <2>2
  <2>4. Append(k.list[s], t) = InsertAt(k.list[s], i, t) /\ Append(k.list[s], t) \in Seq(Task)
    BY <2>2, <2>3, AppendInsert
  <2> HIDE DEF i
  <2>5. Links(k, e, t, s, i, s)
    BY <1>1, <2>2, <2>4, SMTT(30) DEF Links, KType
  <2> HIDE DEF e, m
  <2>6. Good(m) /\ Running(m) = Running(k)
    BY <1>1, <1>3, <2>1, <2>3, <2>5, LinkGood
  <2>7. Pending(m) = Pending(k)
    BY <1>1, <2>1, <2>2, <2>5 DEF Links, Pending
  <2> QED
    BY <2>1, <2>5, <2>6, <2>7 DEF Links, m
<1> QED
  BY <1>2, <1>3

(* Changing the priority of a task that is on no prioritized list. *)
PrioChanged(k, m, t, p) ==
    /\ Good(m) /\ m.list = k.list /\ m.state = k.state /\ m.lock = k.lock
    /\ m.prio = [k.prio EXCEPT ![t] = p]
    /\ Running(m) = Running(k) /\ Pending(m) = Pending(k)

LEMMA PrioFreeLemma ==
    ASSUME NEW k, Good(k), NEW t \in Task \ {Idle}, ListOf(k.state[t]) \notin Prioritized,
           NEW p \in Prio
    PROVE  PrioChanged(k, WithPrio(k, t, p), t, p)
<1> DEFINE m == WithPrio(k, t, p)
<1>1. /\ k.list \in [List -> Seq(Task)] /\ k.prio \in [Task -> 0 .. MaxPrio] /\ KType(k)
      /\ Prioritized \subseteq List /\ p \in 0 .. MaxPrio /\ p > 0
  BY PrioAssumption DEF Good, Lists, KType, Prioritized, Prio
<1>2. /\ KType(m) /\ m.list = k.list /\ m.state = k.state /\ m.lock = k.lock
      /\ m.prio = [k.prio EXCEPT ![t] = p]
  BY <1>1 DEF KType, WithPrio
<1> HIDE DEF m
<1>3. Lists(m)
  BY <1>2 DEF Good, Lists, Placed, Unique, Present
<1>4. InOrder(m)
  <2>1. ASSUME NEW l \in Prioritized, NEW i \in 1 .. Len(k.list[l])
        PROVE  m.prio[k.list[l][i]] = k.prio[k.list[l][i]]
    <3>1. k.list[l][i] \in Task /\ k.list[l][i] # t
      BY <1>1 DEF Good, Lists, Placed
    <3> QED
      BY <1>1, <1>2, <3>1
  <2> QED
    BY <1>1, <1>2, <2>1 DEF Good, InOrder
<1>5. Running(m) = Running(k) /\ Pending(m) = Pending(k) /\ Rtr(m) = Rtr(k)
  BY <1>2 DEF Running, Pending, Rtr
<1>6. IdleLast(m) /\ HeadRuns(m)
  BY <1>1, <1>2, <1>5, IdleAssumption DEF Good, IdleLast, HeadRuns
<1> QED
  BY <1>2, <1>3, <1>4, <1>5, <1>6 DEF Good, m, PrioChanged

(* Changing the priority of the running task in place. *)
LEMMA PrioRunLemma ==
    ASSUME NEW k, Good(k), Running(k) # Idle, NEW p \in Prio, p > k.prio[Rtr(k)[2]]
    PROVE  PrioChanged(k, WithPrio(k, Running(k), p), Running(k), p)
<1> DEFINE t == Running(k)
           m == WithPrio(k, t, p)
<1>0. t \in Task
  BY ReadyFacts
<1>1. /\ k.list \in [List -> Seq(Task)] /\ k.prio \in [Task -> 0 .. MaxPrio] /\ KType(k)
      /\ Prioritized \subseteq List /\ p \in 0 .. MaxPrio /\ p > 0 /\ "READYTORUN" \in Prioritized
  BY PrioAssumption DEF Good, Lists, KType, Prioritized, Prio, List, TState
<1>2. /\ KType(m) /\ m.list = k.list /\ m.state = k.state /\ m.lock = k.lock
      /\ m.prio = [k.prio EXCEPT ![t] = p]
  BY <1>0, <1>1 DEF KType, WithPrio
<1> HIDE DEF m
<1>3. Lists(m)
  BY <1>2 DEF Good, Lists, Placed, Unique, Present
<1>4. ASSUME NEW l \in Prioritized, NEW i \in 1 .. Len(k.list[l]), NEW j \in 1 .. Len(k.list[l]), i < j
      PROVE  m.prio[k.list[l][i]] >= m.prio[k.list[l][j]]
  <2>1. k.list[l][i] \in Task /\ k.list[l][j] \in Task /\ k.prio[k.list[l][i]] >= k.prio[k.list[l][j]]
    BY <1>1, <1>4 DEF Good, InOrder
  <2>2. k.list[l][j] # t
    <3>1. CASE l = "READYTORUN"
      <4>1. 1 \in 1 .. Len(k.list[l]) /\ j # 1
        BY <1>1, <1>4
      <4> QED
        BY <1>1, <3>1, <4>1 DEF Running, Rtr, Good, Lists, Unique
    <3>2. CASE l # "READYTORUN"
      BY <1>1, <3>2, ReadyFacts DEF Good, Lists, Placed
    <3> QED
      BY <3>1, <3>2
  <2>3. CASE k.list[l][i] # t
    BY <1>1, <1>2, <2>1, <2>2, <2>3
  <2>4. CASE k.list[l][i] = t
    <3>1. l = "READYTORUN"
      BY <1>1, <2>4, ReadyFacts DEF Good, Lists, Placed
    <3>2. k.prio[Rtr(k)[2]] >= k.prio[Rtr(k)[j]] /\ Rtr(k)[2] \in Task
      <4>1. 2 \in 1 .. Len(Rtr(k)) /\ (j = 2 \/ 2 < j) /\ Rtr(k) \in Seq(Task)
        BY <1>1, <1>4, <3>1 DEF Rtr
      <4>2. k.prio[Rtr(k)[2]] \in 0 .. MaxPrio
        BY <1>1, <4>1
      <4> QED
        BY <1>1, <3>1, <4>1, <4>2 DEF Good, InOrder, Rtr
    <3> QED
      BY <1>0, <1>1, <1>2, <2>1, <2>2, <2>4, <3>1, <3>2, PrioAssumption, SMTT(30) DEF Rtr
  <2> QED
    BY <2>3, <2>4
<1>5. InOrder(m)
  BY <1>2, <1>4 DEF InOrder
<1>6. Running(m) = Running(k) /\ Pending(m) = Pending(k) /\ Rtr(m) = Rtr(k)
  BY <1>2 DEF Running, Pending, Rtr
<1>7. IdleLast(m) /\ HeadRuns(m)
  BY <1>0, <1>1, <1>2, <1>6, IdleAssumption DEF Good, IdleLast, HeadRuns
<1> QED
  BY <1>2, <1>3, <1>5, <1>6, <1>7 DEF Good, m, PrioChanged

(* The tasks that exist are those with a valid state. *)
SameTasks(k, m) == \A u \in Task : m.state[u] = "INVALID" <=> k.state[u] = "INVALID"

(* Pre-emption is not missed by the step from k to m: without a context    *)
(* switch and with pre-emption enabled, nothing is left pending.           *)
Preempts(k, m) ==
    Running(m) = Running(k) /\ k.lock[Running(k)] = 0 /\ Pending(k) = <<>> => Pending(m) = <<>>

(* up_block_task of the running task. *)
LEMMA BlockLemma ==
    ASSUME NEW k, Good(k), Running(k) # Idle, NEW s \in BlockedState
    PROVE  LET m == BlockTask(k, Running(k), s) IN
           /\ Good(m) /\ m.prio = k.prio /\ m.lock = k.lock /\ SameTasks(k, m)
           /\ Stay(k, m, Running(k)) /\ m.state[Running(k)] = s /\ Pending(m) = Pending(k)
<1> DEFINE t == Running(k)
           n == sched_removereadytorun(k, t)
           m == BlockTask(k, t, s)
<1>1. t \in Task \ {Idle} /\ ListOf(k.state[t]) = "READYTORUN" /\ k.state[t] = "RUNNING"
  BY ReadyFacts
<1>2. k.prio[t] > 0
  BY <1>1 DEF Good, IdleLast
<1>3. /\ Good(n) /\ n.prio = k.prio /\ n.lock = k.lock /\ n.state[t] = "INVALID"
      /\ \A u \in Task \ {t} : n.state[u] = "INVALID" <=> k.state[u] = "INVALID"
      /\ Pending(n) = Pending(k) /\ Stay(k, n, t)
  BY <1>1, RemoveReadyLemma
<1> HIDE DEF n, t
<1>4. /\ Good(m) /\ m.prio = n.prio /\ m.lock = n.lock /\ m.state = [n.state EXCEPT ![t] = s]
      /\ Pending(m) = Pending(n)
  BY <1>1, <1>2, <1>3, AddBlockedLemma DEF BlockTask, n
<1> HIDE DEF m
<1>5. SameTasks(k, m)
  BY <1>1, <1>3, <1>4 DEF SameTasks, BlockedState, Good, Lists, KType
<1>6. Stay(k, m, t) /\ m.state[t] = s
  BY <1>1, <1>3, <1>4 DEF Stay, Good, Lists, KType
<1> QED
  BY <1>3, <1>4, <1>5, <1>6 DEF m, t

(* up_unblock_task. *)
LEMMA UnblockLemma ==
    ASSUME NEW k, Good(k), NEW t \in Task, k.state[t] \in BlockedState
    PROVE  LET m == UnblockTask(k, t) IN
           /\ Good(m) /\ m.prio = k.prio /\ m.lock = k.lock /\ SameTasks(k, m)
           /\ Running(m) = Running(k) \/ k.lock[Running(k)] = 0
           /\ k.lock[Running(k)] = 0 /\ Pending(k) = <<>> => Pending(m) = <<>>
           /\ Stay(k, m, t) /\ ListOf(m.state[t]) \in {"READYTORUN", "PENDING"} /\ Behind(m, t)
<1> DEFINE n == sched_removeblocked(k, t)
           m == UnblockTask(k, t)
<1>1. /\ t \in Task \ {Idle} /\ k.state[t] \notin {"INVALID", "RUNNING"}
      /\ ListOf(k.state[t]) = k.state[t]
  BY ReadyFacts DEF BlockedState, ListOf
<1>2. k.prio[t] > 0
  BY <1>1 DEF Good, IdleLast
<1>3. /\ Good(n) /\ n.state = [k.state EXCEPT ![t] = "INVALID"]
      /\ n.prio = k.prio /\ n.lock = k.lock /\ Running(n) = Running(k)
      /\ Pending(k) = <<>> => Pending(n) = <<>>
  BY <1>1, UnlinkLemma DEF sched_removeblocked
<1>4. n.state[t] = "INVALID" /\ \A u \in Task \ {t} : n.state[u] = k.state[u]
  BY <1>3 DEF Good, Lists, KType
<1> HIDE DEF n
<1>5. /\ Good(m) /\ m.prio = n.prio /\ m.lock = n.lock /\ m.state[t] # "INVALID"
      /\ \A u \in Task \ {t} : m.state[u] = "INVALID" <=> n.state[u] = "INVALID"
      /\ Running(m) = Running(n) \/ (Running(m) = t /\ n.lock[Running(n)] = 0)
      /\ Pending(m) # Pending(n) => n.lock[Running(n)] > 0 /\ Running(m) = Running(n)
      /\ Stay(n, m, t) /\ ListOf(m.state[t]) \in {"READYTORUN", "PENDING"} /\ Behind(m, t)
  <2>1. ReadyAdded(n, m, t)
    BY <1>1, <1>2, <1>3, <1>4, AddReadyLemma DEF UnblockTask, n
  <2> HIDE DEF m
  <2> QED
    BY <2>1 DEF ReadyAdded
<1> HIDE DEF m
<1>6. SameTasks(k, m) /\ Stay(k, m, t)
  BY <1>1, <1>4, <1>5 DEF SameTasks, Stay
<1> QED
  BY <1>3, <1>5, <1>6 DEF m

(* Good depends on the scheduler's fields only. *)
LEMMA SameFields ==
    ASSUME NEW k, NEW m, Good(k), KType(m),
           k.list = m.list, k.state = m.state, k.prio = m.prio, k.lock = m.lock
    PROVE  Good(m) /\ Rtr(m) = Rtr(k) /\ Running(m) = Running(k) /\ Pending(m) = Pending(k)
<1>1. Rtr(m) = Rtr(k) /\ Running(m) = Running(k) /\ Pending(m) = Pending(k)
  BY DEF Rtr, Running, Pending
<1>2. Lists(m)
  BY DEF Good, Lists, Placed, Unique, Present
<1>3. InOrder(m) /\ IdleLast(m) /\ HeadRuns(m)
  BY <1>1 DEF Good, InOrder, IdleLast, HeadRuns
<1> QED
  BY <1>1, <1>2, <1>3 DEF Good

(* From k to m only t may change its list, from g_readytorun to            *)
(* g_pendingtasks.                                                         *)
Requeued(k, m, t) ==
    /\ Stay(k, m, t)
    /\ IF ListOf(k.state[t]) = "READYTORUN" THEN ListOf(m.state[t]) \in {"READYTORUN", "PENDING"}
       ELSE m.state[t] = k.state[t]

(* up_reprioritize_rtr up to the merge. *)
LEMMA ReprioLemma ==
    ASSUME NEW k, Good(k), NEW t \in Task \ {Idle}, ListOf(k.state[t]) = "READYTORUN",
           NEW p \in Prio
    PROVE  LET m == ReprioritizeRtr(k, t, p) IN
           Good(m) /\ m.lock = k.lock /\ SameTasks(k, m) /\ Preempts(k, m) /\ Requeued(k, m, t)
<1> DEFINE a == sched_removereadytorun(k, t)
           b == WithPrio(a, t, p)
           m == ReprioritizeRtr(k, t, p)
<1>1. /\ Good(a) /\ a.lock = k.lock /\ a.state[t] = "INVALID"
      /\ \A u \in Task \ {t} : a.state[u] = "INVALID" <=> k.state[u] = "INVALID"
      /\ Pending(a) = Pending(k) /\ Running(a) # t
      /\ Running(k) # t => Running(a) = Running(k)
      /\ Stay(k, a, t)
  BY RemoveReadyLemma
<1> HIDE DEF a
<1>2. PrioChanged(a, b, t, p)
  <2>1. ListOf(a.state[t]) \notin Prioritized
    BY <1>1 DEF ListOf, Prioritized, List
  <2> QED
    BY <1>1, <2>1, PrioFreeLemma
<1>3. b.state[t] = "INVALID" /\ b.prio[t] > 0
  <2> HIDE DEF b
  <2> QED
    BY <1>1, <1>2, PrioAssumption DEF PrioChanged, Good, Lists, KType, Prio
<1>4. ReadyAdded(b, m, t)
  <2>1. m = sched_addreadytorun(b, t)
    BY DEF ReprioritizeRtr, a, b
  <2> HIDE DEF b, m
  <2>2. ReadyAdded(b, sched_addreadytorun(b, t), t)
    BY <1>2, <1>3, AddReadyLemma DEF PrioChanged
  <2> QED
    BY <2>1, <2>2
<1> HIDE DEF b, m
<1>5. SameTasks(k, m)
  BY <1>1, <1>2, <1>4 DEF SameTasks, ListOf, PrioChanged, ReadyAdded
<1>6. Preempts(k, m)
  <2>1. k.lock[Running(k)] \in Nat
    BY ReadyFacts DEF Good, Lists, KType
  <2> QED
    BY <1>1, <1>2, <1>4, <2>1 DEF Preempts, PrioChanged, ReadyAdded
<1>7. Requeued(k, m, t)
  BY <1>1, <1>2, <1>4 DEF Requeued, Stay, PrioChanged, ReadyAdded
<1> QED
  BY <1>1, <1>2, <1>4, <1>5, <1>6, <1>7 DEF m, PrioChanged, ReadyAdded

(* Moving a blocked or pending task to its new place in the same list. *)
LEMMA RequeueLemma ==
    ASSUME NEW k, Good(k), NEW t \in Task \ {Idle}, NEW p \in Prio,
           k.state[t] \in Prioritized \ {"READYTORUN"}
    PROVE  LET m == sched_addprioritized(WithPrio(dq_rem(k, t, k.state[t]), t, p), t, k.state[t]) IN
           Good(m) /\ m.lock = k.lock /\ SameTasks(k, m) /\ Preempts(k, m) /\ Requeued(k, m, t)
<1> DEFINE s == k.state[t]
           a == [dq_rem(k, t, ListOf(s)) EXCEPT !.state[t] = "INVALID"]
           b == WithPrio(a, t, p)
           c == [sched_addprioritized(b, t, s) EXCEPT !.state[t] = s]
           d == WithPrio(dq_rem(k, t, s), t, p)
           m == sched_addprioritized(d, t, s)
<1>1. ListOf(s) = s /\ s \notin {"INVALID", "RUNNING", "READYTORUN"} /\ s \in List
  BY DEF ListOf, Prioritized, List
<1>2. /\ Good(a) /\ a.state = [k.state EXCEPT ![t] = "INVALID"]
      /\ a.lock = k.lock /\ Running(a) = Running(k)
      /\ Pending(k) = <<>> => Pending(a) = <<>>
  BY <1>1, UnlinkLemma
<1>3. a.state[t] = "INVALID" /\ t \in Task
  <2> HIDE DEF a
  <2> QED
    BY <1>2 DEF Good, Lists, KType
<1>4. PrioChanged(a, b, t, p)
  <2>1. ListOf(a.state[t]) \notin Prioritized
    BY <1>3 DEF ListOf, Prioritized, List
  <2> HIDE DEF a
  <2> QED
    BY <1>2, <2>1, PrioFreeLemma
<1>5. b.state[t] = "INVALID" /\ b.prio[t] > 0
  <2> HIDE DEF a, b
  <2> QED
    BY <1>2, <1>3, <1>4, PrioAssumption DEF PrioChanged, Good, Lists, KType, Prio
<1>6. /\ Good(c) /\ c.lock = b.lock /\ c.state = [b.state EXCEPT ![t] = s]
      /\ Running(c) = Running(b) /\ (s # "PENDING" => Pending(c) = Pending(b))
  <2>1. s \in Prioritized \ {"READYTORUN"} /\ Good(b)
    BY <1>4 DEF PrioChanged
  <2> HIDE DEF b, s
  <2> QED
    BY <1>5, <2>1, AddPrioritizedLemma
<1>7. /\ Good(m) /\ m.lock = c.lock /\ m.state = c.state
      /\ Running(m) = Running(c) /\ Pending(m) = Pending(c)
  <2>1. /\ a.list = dq_rem(k, t, s).list /\ a.prio = dq_rem(k, t, s).prio
        /\ a.lock = dq_rem(k, t, s).lock /\ dq_rem(k, t, s).state = k.state
        /\ KType(dq_rem(k, t, s))
    <3>1. k.list \in [List -> Seq(Task)] /\ IndexIn(k, s, t) \in 1 .. Len(k.list[s]) /\ KType(k)
      BY <1>1 DEF Good, Lists, KType, Present, IndexIn
    <3>2. RemoveAt(k.list[s], IndexIn(k, s, t)) \in Seq(Task)
      BY <1>1, <3>1, RemoveLemma
    <3> QED
      BY <1>1, <3>1, <3>2 DEF dq_rem, KType
  <2>2. KType(d) /\ d.list = b.list /\ d.prio = b.prio /\ d.lock = b.lock /\ d.state = k.state
    <3> DEFINE e == dq_rem(k, t, s)
    <3> HIDE DEF a, e
    <3>1. KType(e) /\ a.list = e.list /\ a.prio = e.prio /\ a.lock = e.lock /\ e.state = k.state
      BY <2>1 DEF e
    <3>2. KType(a)
      BY <1>2 DEF Good, Lists
    <3>3. KType(WithPrio(e, t, p)) /\ WithPrio(e, t, p).list = e.list
          /\ WithPrio(e, t, p).prio = [e.prio EXCEPT ![t] = p]
          /\ WithPrio(e, t, p).lock = e.lock /\ WithPrio(e, t, p).state = e.state
      <4>1. p \in 0 .. MaxPrio
        BY PrioAssumption DEF Prio
      <4> QED
        BY <1>3, <3>1, <4>1 DEF WithPrio, KType
    <3> QED
      BY <1>4, <3>1, <3>3 DEF PrioChanged, e
  <2> HIDE DEF a, b, d
  <2>3. SearchFrom(b, s, 1, b.prio[t]) = SearchFrom(d, s, 1, d.prio[t])
    BY <2>2 DEF SearchFrom
  <2> DEFINE i == SearchFrom(d, s, 1, d.prio[t])
             x == sched_addprioritized(b, t, s)
  <2> HIDE DEF i
  <2>4. m.list = [d.list EXCEPT ![s] = InsertAt(@, i, t)]
        /\ m.prio = d.prio /\ m.lock = d.lock /\ m.state = d.state
    BY DEF sched_addprioritized, PutAt, i
  <2>5. x.list = [b.list EXCEPT ![s] = InsertAt(@, i, t)]
        /\ x.prio = b.prio /\ x.lock = b.lock /\ x.state = b.state
    BY <2>3 DEF sched_addprioritized, PutAt, i
  <2>6. c.list = x.list /\ c.prio = x.prio /\ c.lock = x.lock
    OBVIOUS
  <2>7. KType(c)
    BY <1>6 DEF Good, Lists
  <2>8. KType(m)
    <3>1. InsertAt(d.list[s], i, t) \in Seq(Task)
      <4>1. c.list \in [List -> Seq(Task)] /\ d.list \in [List -> Seq(Task)]
        BY <2>2, <2>7 DEF KType
      <4>2. c.list = [d.list EXCEPT ![s] = InsertAt(@, i, t)]
        BY <2>2, <2>5, <2>6
      <4> HIDE DEF c, s
      <4> QED
        BY <1>1, <4>1, <4>2
    <3> QED
      BY <1>1, <2>2, <3>1 DEF KType, sched_addprioritized, PutAt, i
  <2> HIDE DEF c, m, x
  <2>9. [[k.state EXCEPT ![t] = "INVALID"] EXCEPT ![t] = s] = k.state
    BY <1>3 DEF Good, Lists, KType
  <2>10. c.state = m.state
    BY <1>2, <1>4, <1>6, <2>2, <2>4, <2>9 DEF PrioChanged
  <2> QED
    BY <1>6, <2>2, <2>4, <2>5, <2>6, <2>8, <2>10, SameFields
<1> HIDE DEF a, b, c, d, m
<1>8. SameTasks(k, m)
  BY <1>1, <1>2, <1>3, <1>4, <1>6, <1>7 DEF SameTasks, PrioChanged, Good, Lists, KType
<1>9. Preempts(k, m)
  <2>1. CASE s = "PENDING"
    <3>1. Pending(k) # <<>>
      BY <1>3, <2>1 DEF Good, Lists, Present, Pending, ListOf
    <3> QED
      BY <3>1 DEF Preempts
  <2>2. CASE s # "PENDING"
    BY <1>2, <1>4, <1>6, <1>7, <2>2 DEF Preempts, PrioChanged
  <2> QED
    BY <2>1, <2>2
<1>10. Requeued(k, m, t)
  <2>1. m.state[t] = k.state[t] /\ \A u \in Task : m.state[u] = k.state[u]
    BY <1>2, <1>3, <1>4, <1>6, <1>7 DEF PrioChanged, Good, Lists, KType, SchedField, s
  <2> QED
    BY <1>1, <2>1 DEF Requeued, Stay
<1> QED
  BY <1>2, <1>4, <1>6, <1>7, <1>8, <1>9, <1>10 DEF m, d, PrioChanged

(* sched_setpriority up to the merge, for any task but IDLE. *)
LEMMA SetPriorityLemma ==
    ASSUME NEW k, Good(k), NEW t \in Task \ {Idle}, NEW p \in Prio
    PROVE  LET m == sched_setpriority(k, t, p) IN
           Good(m) /\ m.lock = k.lock /\ SameTasks(k, m) /\ Preempts(k, m) /\ Requeued(k, m, t)
<1> DEFINE m == sched_setpriority(k, t, p)
<1>0. k.state[t] \in TState
  BY DEF Good, Lists, KType
<1>1. CASE k.state[t] = "RUNNING"
  <2>1. t = Running(k) /\ ListOf(k.state[t]) = "READYTORUN"
    BY <1>1 DEF Good, HeadRuns, ListOf
  <2>2. CASE p <= k.prio[Rtr(k)[2]]
    <3>1. m = ReprioritizeRtr(k, t, p)
      BY <1>1, <2>2 DEF sched_setpriority, Prioritized, List
    <3> QED
      BY <2>1, <3>1, ReprioLemma
  <2>3. CASE ~(p <= k.prio[Rtr(k)[2]])
    <3>1. m = WithPrio(k, t, p)
      BY <1>1, <2>3 DEF sched_setpriority, Prioritized, List
    <3>2. p > k.prio[Rtr(k)[2]]
      <4>1. Len(Rtr(k)) > 1
        BY <2>1, ReadyFacts DEF Good, IdleLast, Running
      <4>2. Rtr(k)[2] \in Task
        BY <4>1, ReadyFacts
      <4>3. k.prio[Rtr(k)[2]] \in 0 .. MaxPrio
        BY <4>2 DEF Good, Lists, KType
      <4> QED
        BY <2>3, <4>3, PrioAssumption DEF Prio
    <3>3. PrioChanged(k, m, t, p)
      BY <2>1, <3>1, <3>2, PrioRunLemma
    <3> HIDE DEF m
    <3>4. Good(m) /\ m.lock = k.lock /\ SameTasks(k, m) /\ Preempts(k, m) /\ Requeued(k, m, t)
      BY <2>1, <3>3 DEF SameTasks, Preempts, PrioChanged, Requeued, Stay
    <3> QED
      BY <3>4 DEF m
  <2> QED
    BY <2>2, <2>3
<1>2. CASE k.state[t] = "READYTORUN"
  <2>1. m = ReprioritizeRtr(k, t, p) /\ ListOf(k.state[t]) = "READYTORUN"
    BY <1>2 DEF sched_setpriority, ListOf
  <2> QED
    BY <2>1, ReprioLemma
<1>3. CASE k.state[t] \in Prioritized \ {"READYTORUN"}
  <2>1. m = sched_addprioritized(WithPrio(dq_rem(k, t, k.state[t]), t, p), t, k.state[t])
    BY <1>3 DEF sched_setpriority, Prioritized, List
  <2> QED
    BY <1>3, <2>1, RequeueLemma
<1>4. CASE k.state[t] \notin Prioritized /\ k.state[t] # "RUNNING"
  <2>1. m = WithPrio(k, t, p)
    BY <1>4 DEF sched_setpriority, Prioritized, List, TState
  <2>2. ListOf(k.state[t]) \notin Prioritized
    BY <1>4 DEF ListOf
  <2>3. PrioChanged(k, m, t, p)
    BY <2>1, <2>2, PrioFreeLemma
  <2> HIDE DEF m
  <2>4. Good(m) /\ m.lock = k.lock /\ SameTasks(k, m) /\ Preempts(k, m) /\ Requeued(k, m, t)
    <3>1. "READYTORUN" \in Prioritized
      BY DEF Prioritized, List, TState
    <3> QED
      BY <2>2, <2>3, <3>1 DEF SameTasks, Preempts, PrioChanged, Requeued, Stay
  <2> QED
    BY <2>4 DEF m
<1> QED
  BY <1>1, <1>2, <1>3, <1>4

-----------------------------------------------------------------------------
(* sched_mergepending. *)

(* Taking the head of a list is dq_rem of its head. *)
LEMMA HeadLemma ==
    ASSUME NEW k, Good(k), Pending(k) # <<>>
    PROVE  LET t == Pending(k)[1] IN
           /\ t \in Task \ {Idle} /\ k.state[t] = "PENDING" /\ k.prio[t] > 0
           /\ Tail(Pending(k)) = RemoveAt(Pending(k), IndexIn(k, "PENDING", t))
<1> DEFINE t == Pending(k)[1]
<1>1. /\ k.list \in [List -> Seq(Task)] /\ k.state \in [Task -> TState]
      /\ "PENDING" \in List /\ Pending(k) = k.list["PENDING"] /\ Pending(k) \in Seq(Task)
  BY DEF Good, Lists, KType, List, TState, Pending
<1>2. Len(Pending(k)) \in Nat /\ 1 \in 1 .. Len(Pending(k))
  BY <1>1
<1>3. t \in Task /\ ListOf(k.state[t]) = "PENDING"
  BY <1>1, <1>2 DEF Good, Lists, Placed
<1>4. t # Idle /\ k.state[t] = "PENDING"
  BY <1>3, ReadyFacts DEF ListOf
<1>5. k.prio[t] > 0
  BY <1>3, <1>4 DEF Good, IdleLast
<1>6. IndexIn(k, "PENDING", t) = 1
  BY <1>1, <1>2 DEF Good, Lists, Unique, IndexIn
<1>7. Tail(Pending(k)) = RemoveAt(Pending(k), 1)
  <2> DEFINE q == Pending(k)
  <2> HIDE DEF q
  <2>0. q \in Seq(Task) /\ q # <<>> /\ Len(q) \in Nat /\ 1 \in 1 .. Len(q)
    BY <1>1, <1>2 DEF q
  <2>1. /\ Tail(q) \in Seq(Task) /\ Len(Tail(q)) = Len(q) - 1
        /\ \A i \in 1 .. Len(Tail(q)) : Tail(q)[i] = q[i + 1]
    BY <2>0, HeadTailProperties
  <2>2. /\ RemoveAt(q, 1) \in Seq(Task) /\ Len(RemoveAt(q, 1)) = Len(q) - 1
        /\ \A i \in 1 .. Len(q) - 1 : RemoveAt(q, 1)[i] = IF i < 1 THEN q[i] ELSE q[i + 1]
    BY <2>0, RemoveLemma
  <2>3. \A i \in 1 .. Len(Tail(q)) : Tail(q)[i] = RemoveAt(q, 1)[i]
    BY <2>0, <2>1, <2>2
  <2>4. Tail(q) = RemoveAt(q, 1)
    BY <2>1, <2>2, <2>3, SeqEqual
  <2> QED
    BY <2>4 DEF q
<1> QED
  BY <1>3, <1>4, <1>5, <1>6, <1>7

(* What the loop of sched_mergepending knows at index c: the tasks before  *)
(* it rank no lower than the next pending task.                            *)
MergeAt(k, c) ==
    /\ c \in 1 .. Len(Rtr(k))
    /\ Pending(k) # <<>>
    /\ \A j \in 1 .. c - 1 : k.prio[Rtr(k)[j]] >= k.prio[Pending(k)[1]]

LEMMA MergeLemma ==
    ASSUME NEW k, Good(k), NEW c, MergeAt(k, c)
    PROVE  LET m == MergeOne(k, c) IN
           /\ Good(m) /\ m.prio = k.prio /\ m.lock = k.lock /\ SameTasks(k, m)
           /\ IF Len(Pending(k)) > 1 THEN MergeAt(m, MergePos(k, c)) ELSE Pending(m) = <<>>
           /\ Pending(m) = Tail(Pending(k))
           /\ Stay(k, m, Pending(k)[1]) /\ Behind(m, Pending(k)[1])
           /\ k.state[Pending(k)[1]] = "PENDING" /\ ListOf(m.state[Pending(k)[1]]) = "READYTORUN"
<1> DEFINE t == Pending(k)[1]
           q == Tail(Pending(k))
           i == MergePos(k, c)
           a == [k EXCEPT !.list["PENDING"] = q, !.state[t] = "INVALID"]
           m == MergeOne(k, c)
<1>1. /\ k.list \in [List -> Seq(Task)] /\ k.state \in [Task -> TState]
      /\ k.prio \in [Task -> 0 .. MaxPrio] /\ k.lock \in [Task -> Nat] /\ KType(k)
      /\ InOrder(k) /\ "PENDING" \in List /\ "READYTORUN" \in List
      /\ "READYTORUN" \in Prioritized /\ "PENDING" \in Prioritized
      /\ Pending(k) = k.list["PENDING"] /\ Pending(k) \in Seq(Task) /\ Pending(k) # <<>>
      /\ Rtr(k) = k.list["READYTORUN"] /\ Rtr(k) \in Seq(Task)
  BY DEF Good, Lists, KType, Prioritized, List, TState, Pending, Rtr, MergeAt
<1>2. /\ t \in Task \ {Idle} /\ k.state[t] = "PENDING" /\ k.prio[t] > 0
      /\ q = RemoveAt(Pending(k), IndexIn(k, "PENDING", t))
  BY <1>1, HeadLemma
<1>3. /\ q \in Seq(Task) /\ Len(q) = Len(Pending(k)) - 1
      /\ \A j \in 1 .. Len(q) : q[j] = Pending(k)[j + 1]
  BY <1>1, HeadTailProperties
<1> HIDE DEF q
<1>4. Unlinks(k, a, t, "PENDING")
  BY <1>1, <1>2, <1>3 DEF Unlinks, KType, TState
<1>5. /\ KType(a) /\ a.prio = k.prio /\ a.lock = k.lock
      /\ a.list = [k.list EXCEPT !["PENDING"] = q]
      /\ a.state = [k.state EXCEPT ![t] = "INVALID"]
  BY <1>1, <1>2, <1>3 DEF KType, TState
<1> HIDE DEF a
<1>6. Good(a) /\ Running(a) = Running(k)
  BY <1>2, <1>4, UnlinkGood DEF ListOf
<1>7. Rtr(a) = Rtr(k) /\ Pending(a) = q /\ a.state[t] = "INVALID" /\ a.prio[t] > 0
  BY <1>1, <1>2, <1>5 DEF Rtr, Pending
<1>8. FitsReady(a, t, i)
  <2>1. c \in 1 .. Len(k.list["READYTORUN"]) + 1
        /\ \A j \in 1 .. c - 1 : k.prio[k.list["READYTORUN"][j]] >= k.prio[t]
    <3>1. c \in 1 .. Len(Rtr(k)) /\ \A j \in 1 .. c - 1 : k.prio[Rtr(k)[j]] >= k.prio[t]
      BY DEF MergeAt
    <3>2. Len(Rtr(k)) \in Nat /\ Rtr(k) = k.list["READYTORUN"]
      BY <1>1
    <3> HIDE DEF t
    <3> QED
      BY <3>1, <3>2
  <2>2. k.prio[t] \in Nat
    BY <1>1, <1>2, PrioAssumption
  <2>3. /\ i \in c .. Len(k.list["READYTORUN"]) + 1
        /\ \A j \in 1 .. Len(k.list["READYTORUN"]) :
              /\ j < i => k.prio[k.list["READYTORUN"][j]] >= k.prio[t]
              /\ j >= i => k.prio[t] > k.prio[k.list["READYTORUN"][j]]
    BY <1>1, <2>1, <2>2, SearchOrder DEF MergePos
  <2>4. i \in 1 .. Len(k.list["READYTORUN"]) + 1
    <3>1. Len(k.list["READYTORUN"]) \in Nat
      BY <1>1
    <3> HIDE DEF i
    <3> QED
      BY <2>1, <2>3, <3>1
  <2>5. Rtr(a) = k.list["READYTORUN"]
    BY <1>1, <1>7
  <2> HIDE DEF i, t
  <2> QED
    BY <1>5, <2>3, <2>4, <2>5 DEF FitsReady
<1> HIDE DEF i
<1>9. LinksReady(a, m, t, i)
  <2>0. InsertAt(Rtr(k), i, t) \in Seq(Task) /\ Running(k) \in Task
    BY <1>1, <1>2, <1>7, <1>8, InsertLemma, ReadyFacts DEF FitsReady
  <2> DEFINE l == [[k.list EXCEPT !["READYTORUN"] = InsertAt(@, i, t)] EXCEPT !["PENDING"] = q]
             n == [PutAt(k, "READYTORUN", i, t) EXCEPT !.list["PENDING"] = Tail(@)]
  <2>1. l = [a.list EXCEPT !["READYTORUN"] = InsertAt(@, i, t)] /\ l \in [List -> Seq(Task)]
    BY <1>1, <1>3, <1>5, <2>0
  <2>2. KType(n) /\ n.list = l /\ n.state = k.state /\ n.prio = k.prio /\ n.lock = k.lock
    BY <1>1, <1>3, <2>0 DEF PutAt, KType, SchedField, q
  <2>3. m = IF i = 1 THEN [n EXCEPT !.state[Running(k)] = "READYTORUN", !.state[t] = "RUNNING"]
            ELSE [n EXCEPT !.state[t] = "READYTORUN"]
    BY DEF MergeOne, i
  <2> HIDE DEF l, n, m
  <2>4. CASE i = 1
    <3> DEFINE e == [n EXCEPT !.state[Running(k)] = "READYTORUN", !.state[t] = "RUNNING"]
    <3>1. /\ KType(e) /\ e.prio = k.prio /\ e.lock = k.lock /\ e.list = n.list
          /\ e.state = [k.state EXCEPT ![Running(k)] = "READYTORUN", ![t] = "RUNNING"]
      BY <1>1, <1>2, <2>0, <2>2 DEF KType, SchedField, TState
    <3>2. m = e
      BY <2>3, <2>4
    <3>3. [k.state EXCEPT ![Running(k)] = "READYTORUN", ![t] = "RUNNING"]
            = [a.state EXCEPT ![Running(k)] = "READYTORUN", ![t] = "RUNNING"]
      BY <1>1, <1>2, <1>5, <2>0
    <3> HIDE DEF e
    <3> QED
      BY <1>5, <1>6, <2>1, <2>2, <2>4, <3>1, <3>2, <3>3 DEF LinksReady
  <2>5. CASE i # 1
    <3> DEFINE e == [n EXCEPT !.state[t] = "READYTORUN"]
    <3>1. /\ KType(e) /\ e.prio = k.prio /\ e.lock = k.lock /\ e.list = n.list
          /\ e.state = [k.state EXCEPT ![t] = "READYTORUN"]
      BY <1>1, <1>2, <2>2 DEF KType, TState
    <3>2. m = e
      BY <2>3, <2>5
    <3>3. [k.state EXCEPT ![t] = "READYTORUN"] = [a.state EXCEPT ![t] = "READYTORUN"]
      BY <1>1, <1>2, <1>5
    <3> HIDE DEF e
    <3> QED
      BY <1>5, <1>6, <2>1, <2>2, <2>5, <3>1, <3>2, <3>3 DEF LinksReady
  <2> QED
    BY <2>4, <2>5
<1> HIDE DEF m
<1>10. /\ Good(m) /\ i <= Len(Rtr(k)) /\ Len(Rtr(m)) = Len(Rtr(k)) + 1
       /\ \A j \in 1 .. Len(Rtr(m)) : Rtr(m)[j] =
            IF j < i THEN Rtr(k)[j] ELSE IF j = i THEN t ELSE Rtr(k)[j - 1]
  BY <1>2, <1>6, <1>7, <1>8, <1>9, LinkReady
<1>11. Pending(m) = q /\ m.prio = k.prio /\ m.lock = k.lock
  BY <1>1, <1>5, <1>9 DEF LinksReady, Pending
<1>12. SameTasks(k, m)
  <2>1. Running(k) \in Task /\ k.state[Running(k)] = "RUNNING"
    BY ReadyFacts
  <2>2. m.state[t] # "INVALID" /\ \A u \in Task \ {t} : m.state[u] = "INVALID" <=> k.state[u] = "INVALID"
    BY <1>1, <1>2, <1>5, <1>6, <1>9, <2>1, SMTT(30) DEF LinksReady
  <2> QED
    BY <1>2, <2>2 DEF SameTasks
<1>15. Stay(k, m, t) /\ Behind(m, t) /\ ListOf(m.state[t]) = "READYTORUN"
  <2>1. Stay(a, m, t) /\ Behind(m, t) /\ ListOf(m.state[t]) = "READYTORUN"
    BY <1>2, <1>6, <1>7, <1>8, <1>9, <1>10, BehindLemma
  <2>2. Stay(k, a, t)
    BY <1>1, <1>5 DEF Stay
  <2> QED
    BY <2>1, <2>2 DEF Stay
<1>16. Pending(m) = Tail(Pending(k))
  BY <1>11 DEF q
<1>13. CASE Len(Pending(k)) > 1
  <2>0. Len(Pending(k)) \in Nat /\ Len(Rtr(k)) \in Nat
    BY <1>1
  <2>1. q # <<>> /\ q[1] = Pending(k)[2] /\ 1 \in 1 .. Len(Pending(k)) /\ 2 \in 1 .. Len(Pending(k))
    BY <1>3, <1>13, <2>0
  <2>2. k.prio[t] >= k.prio[q[1]] /\ q[1] \in Task
    <3>1. q[1] \in Task /\ q[1] = k.list["PENDING"][2] /\ t = k.list["PENDING"][1]
      BY <1>1, <2>1
    <3>2. k.prio[k.list["PENDING"][1]] >= k.prio[k.list["PENDING"][2]]
      <4>1. 1 \in 1 .. Len(k.list["PENDING"]) /\ 2 \in 1 .. Len(k.list["PENDING"])
        BY <1>1, <2>1
      <4> HIDE DEF t
      <4> QED
        BY <1>1, <4>1 DEF InOrder
    <3> HIDE DEF t
    <3> QED
      BY <3>1, <3>2
  <2>3. i \in 1 .. Len(Rtr(m))
    BY <1>7, <1>8, <1>10, <2>0 DEF FitsReady
  <2>4. ASSUME NEW j \in 1 .. i - 1 PROVE k.prio[Rtr(m)[j]] >= k.prio[q[1]]
    <3>1. j \in 1 .. Len(Rtr(k)) /\ j < i /\ j \in 1 .. Len(Rtr(m))
      BY <1>7, <1>8, <1>10, <2>0, <2>3 DEF FitsReady
    <3>2. Rtr(m)[j] = Rtr(k)[j] /\ Rtr(k)[j] \in Task
      BY <1>1, <1>10, <3>1
    <3>3. k.prio[Rtr(k)[j]] >= k.prio[t]
      BY <1>5, <1>7, <1>8, <3>1 DEF FitsReady
    <3>4. k.prio[Rtr(k)[j]] \in 0 .. MaxPrio /\ k.prio[t] \in 0 .. MaxPrio /\ k.prio[q[1]] \in 0 .. MaxPrio
      BY <1>1, <1>2, <2>2, <3>2
    <3> QED
      BY <2>2, <3>2, <3>3, <3>4, PrioAssumption
  <2>5. MergeAt(m, i)
    BY <1>11, <2>1, <2>3, <2>4 DEF MergeAt
  <2> QED
    BY <1>2, <1>10, <1>11, <1>12, <1>13, <1>15, <1>16, <2>5 DEF m, i
<1>14. CASE ~(Len(Pending(k)) > 1)
  <2>1. Pending(m) = <<>>
    <3>1. Len(q) = 0
      <4>1. Len(Pending(k)) \in Nat /\ Len(q) \in Nat
        BY <1>1, <1>3
      <4> QED
        BY <1>3, <1>14, <4>1
    <3>2. \A x \in Seq(Task) : x # <<>> => Len(x) \in Nat \ {0}
      BY EmptySeq
    <3> QED
      BY <1>3, <1>11, <3>1, <3>2
  <2> QED
    BY <1>2, <1>10, <1>11, <1>12, <1>14, <1>15, <1>16, <2>1 DEF m
<1> QED
  BY <1>13, <1>14

-----------------------------------------------------------------------------
(* The task life cycle and the lock count. *)

(* Changing a lock count. *)
LEMMA LockCountLemma ==
    ASSUME NEW k, Good(k), NEW t \in Task, NEW n \in Nat
    PROVE  LET m == [k EXCEPT !.lock[t] = n] IN
           /\ Good(m) /\ m.state = k.state /\ m.prio = k.prio /\ m.lock = [k.lock EXCEPT ![t] = n]
           /\ Running(m) = Running(k) /\ Pending(m) = Pending(k)
<1> DEFINE m == [k EXCEPT !.lock[t] = n]
<1>1. KType(k)
  BY DEF Good, Lists
<1>2. /\ KType(m) /\ m.list = k.list /\ m.state = k.state /\ m.prio = k.prio
      /\ m.lock = [k.lock EXCEPT ![t] = n]
  BY <1>1 DEF KType
<1> HIDE DEF m
<1>3. Running(m) = Running(k) /\ Pending(m) = Pending(k) /\ Rtr(m) = Rtr(k)
  BY <1>2 DEF Running, Pending, Rtr
<1>4. Lists(m) /\ InOrder(m) /\ IdleLast(m) /\ HeadRuns(m)
  BY <1>2, <1>3 DEF Good, Lists, Placed, Unique, Present, InOrder, IdleLast, HeadRuns
<1> QED
  BY <1>2, <1>3, <1>4 DEF Good, m

(* Linking a detached task into the inactive list. *)
InactiveAdded(k, m, t) ==
    /\ Good(m) /\ m.prio = k.prio /\ m.lock = k.lock
    /\ m.state = [k.state EXCEPT ![t] = "INACTIVE"]
    /\ Running(m) = Running(k) /\ Pending(m) = Pending(k)

LEMMA AddInactiveLemma ==
    ASSUME NEW k, Good(k), NEW t \in Task \ {Idle}, k.state[t] = "INVALID", k.prio[t] > 0
    PROVE  InactiveAdded(k, AddInactive(k, t), t)
<1> DEFINE l == "INACTIVE"
           m == AddInactive(k, t)
<1>1. /\ KType(k) /\ k.list \in [List -> Seq(Task)] /\ "PENDING" \in List
      /\ l \in List \ {"READYTORUN"} /\ l \in TState /\ l \notin Prioritized /\ t \in Task
  BY DEF Good, Lists, KType, List, TState, Prioritized, BlockedState
<1>2. k.list[l] \in Seq(Task) /\ 1 \in 1 .. Len(k.list[l]) + 1
  BY <1>1
<1>3. InsertAt(k.list[l], 1, t) \in Seq(Task)
  BY <1>1, <1>2, InsertLemma
<1>4. Links(k, m, t, l, 1, l)
  BY <1>1, <1>3 DEF AddInactive, Links, KType
<1> HIDE DEF m
<1>5. Good(m) /\ Running(m) = Running(k)
  BY <1>1, <1>2, <1>4, LinkGood
<1>6. Pending(m) = Pending(k)
  BY <1>1, <1>4 DEF Links, Pending
<1> QED
  BY <1>4, <1>5, <1>6 DEF Links, InactiveAdded, m

(* A new TCB: priority p, pre-emption enabled, inactive. *)
LEMMA SetupLemma ==
    ASSUME NEW k, Good(k), NEW t \in Task \ {Idle}, k.state[t] = "INVALID", NEW p \in Prio
    PROVE  LET m == AddInactive(WithPrio([k EXCEPT !.lock[t] = 0], t, p), t) IN
           /\ Good(m) /\ m.state = [k.state EXCEPT ![t] = "INACTIVE"]
           /\ m.lock = [k.lock EXCEPT ![t] = 0]
           /\ Running(m) = Running(k) /\ Pending(m) = Pending(k)
<1> DEFINE a == [k EXCEPT !.lock[t] = 0]
           b == WithPrio(a, t, p)
           m == AddInactive(b, t)
<1>1. /\ Good(a) /\ a.state = k.state /\ a.lock = [k.lock EXCEPT ![t] = 0]
      /\ Running(a) = Running(k) /\ Pending(a) = Pending(k)
  BY LockCountLemma
<1> HIDE DEF a
<1>2. PrioChanged(a, b, t, p)
  <2>1. ListOf(a.state[t]) \notin Prioritized
    BY <1>1 DEF ListOf, Prioritized, List
  <2> QED
    BY <1>1, <2>1, PrioFreeLemma
<1> HIDE DEF b
<1>3. b.state[t] = "INVALID" /\ b.prio[t] > 0 /\ Good(b)
  BY <1>1, <1>2, PrioAssumption DEF PrioChanged, Good, Lists, KType, Prio
<1>4. InactiveAdded(b, m, t)
  BY <1>3, AddInactiveLemma
<1> HIDE DEF m
<1>5. /\ Good(m) /\ m.state = [k.state EXCEPT ![t] = "INACTIVE"]
      /\ m.lock = [k.lock EXCEPT ![t] = 0]
      /\ Running(m) = Running(k) /\ Pending(m) = Pending(k)
  BY <1>1, <1>2, <1>4 DEF PrioChanged, InactiveAdded
<1> QED
  BY <1>5 DEF m, b, a

(* The TCB of a task to restart: unlinked, priority p, inactive. *)
LEMMA RestartLemma ==
    ASSUME NEW k, Good(k), NEW t \in Task \ {Idle}, NEW p \in Prio,
           k.state[t] \notin {"INVALID", "RUNNING"},
           NEW a, a = [dq_rem(k, t, ListOf(k.state[t])) EXCEPT !.state[t] = "INVALID"]
    PROVE  LET m == AddInactive(WithPrio(a, t, p), t) IN
           /\ Good(m) /\ m.state[t] = "INACTIVE" /\ m.lock = k.lock /\ SameTasks(k, m)
           /\ Running(m) = Running(k)
           /\ Pending(k) = <<>> => Pending(m) = <<>>
           /\ Stay(k, m, t)
<1> DEFINE b == WithPrio(a, t, p)
           m == AddInactive(b, t)
<1>1. /\ Good(a) /\ a.state = [k.state EXCEPT ![t] = "INVALID"] /\ a.lock = k.lock
      /\ Running(a) = Running(k)
      /\ Pending(k) = <<>> => Pending(a) = <<>>
  BY UnlinkLemma
<1>2. a.state[t] = "INVALID"
  BY <1>1 DEF Good, Lists, KType
<1>3. PrioChanged(a, b, t, p)
  <2>1. ListOf(a.state[t]) \notin Prioritized
    BY <1>2 DEF ListOf, Prioritized, List
  <2> QED
    BY <1>1, <2>1, PrioFreeLemma
<1> HIDE DEF b
<1>4. b.state[t] = "INVALID" /\ b.prio[t] > 0 /\ Good(b)
  BY <1>1, <1>2, <1>3, PrioAssumption DEF PrioChanged, Good, Lists, KType, Prio
<1>5. InactiveAdded(b, m, t)
  BY <1>4, AddInactiveLemma
<1> HIDE DEF m
<1>6. /\ Good(m) /\ m.lock = k.lock /\ m.state = [a.state EXCEPT ![t] = "INACTIVE"]
      /\ Running(m) = Running(k)
      /\ Pending(k) = <<>> => Pending(m) = <<>>
  BY <1>1, <1>3, <1>5 DEF PrioChanged, InactiveAdded
<1>7. m.state[t] = "INACTIVE" /\ SameTasks(k, m)
  BY <1>1, <1>6 DEF SameTasks, Good, Lists, KType
<1>8. Stay(k, m, t)
  BY <1>1, <1>6 DEF Stay, Good, Lists, KType
<1> QED
  BY <1>6, <1>7, <1>8 DEF m, b

-----------------------------------------------------------------------------
(* The calls of SchedCalls, on records that have other fields too. *)

(* The fields that are not the scheduler's are as they were. *)
Frame(k, m) == DOMAIN m = DOMAIN k /\ \A f \in DOMAIN k \ SchedField : m[f] = k[f]

LEMMA FrameTrans ==
    ASSUME NEW k, NEW m, NEW n, Frame(k, m), Frame(m, n)
    PROVE  Frame(k, n)
BY DEF Frame

LEMMA FrameParts ==
    ASSUME NEW k, NEW t, NEW l, NEW i, NEW s, NEW p
    PROVE  /\ Frame(k, k)
           /\ Frame(k, PutAt(k, l, i, t)) /\ Frame(k, dq_rem(k, t, l))
           /\ Frame(k, WithPrio(k, t, p)) /\ Frame(k, Locked(k))
           /\ Frame(k, [k EXCEPT !.state[t] = s]) /\ Frame(k, [k EXCEPT !.lock[t] = s])
           /\ Frame(k, [k EXCEPT !.list["PENDING"] = Tail(@)])
           /\ Frame(k, [k EXCEPT !.list[l] = Append(@, t)])
           /\ Frame(k, AddInactive(k, t))
BY DEF Frame, SchedField, PutAt, dq_rem, WithPrio, AddInactive, Locked

LEMMA FrameAddPrio ==
    ASSUME NEW k, NEW t, NEW l
    PROVE  Frame(k, sched_addprioritized(k, t, l))
BY FrameParts DEF sched_addprioritized

LEMMA FrameAddReady ==
    ASSUME NEW k, NEW t
    PROVE  Frame(k, sched_addreadytorun(k, t))
<1> DEFINE a == sched_addprioritized(k, t, "PENDING")
           b == sched_addprioritized(k, t, "READYTORUN")
           m == sched_addreadytorun(k, t)
<1>1. Frame(k, a) /\ Frame(k, b)
  BY FrameAddPrio
<1>2. \/ m = [a EXCEPT !.state[t] = "PENDING"]
      \/ m = [b EXCEPT !.state[Running(k)] = "READYTORUN", !.state[t] = "RUNNING"]
      \/ m = [b EXCEPT !.state[t] = "READYTORUN"]
  BY DEF sched_addreadytorun
<1> HIDE DEF a, b, m
<1>3. Frame(a, m) \/ Frame(b, m)
  BY <1>2 DEF Frame, SchedField
<1>4. Frame(k, m)
  BY <1>1, <1>3, FrameTrans
<1> QED
  BY <1>4 DEF m

LEMMA FrameRemoveReady ==
    ASSUME NEW k, NEW t
    PROVE  Frame(k, sched_removereadytorun(k, t))
<1> DEFINE a == dq_rem(k, t, "READYTORUN")
           m == sched_removereadytorun(k, t)
<1>1. Frame(k, a)
  BY FrameParts
<1>2. \/ m = [a EXCEPT !.state[Running(a)] = "RUNNING", !.state[t] = "INVALID"]
      \/ m = [a EXCEPT !.state[t] = "INVALID"]
  BY DEF sched_removereadytorun
<1> HIDE DEF a, m
<1>3. Frame(a, m)
  BY <1>2 DEF Frame, SchedField
<1>4. Frame(k, m)
  BY <1>1, <1>3, FrameTrans
<1> QED
  BY <1>4 DEF m

LEMMA FrameUnblock ==
    ASSUME NEW k, NEW t
    PROVE  Frame(k, UnblockTask(k, t))
<1> DEFINE a == dq_rem(k, t, k.state[t])
           b == sched_removeblocked(k, t)
<1>1. Frame(k, a)
  BY FrameParts
<1>2. b = [a EXCEPT !.state[t] = "INVALID"]
  BY DEF sched_removeblocked
<1> HIDE DEF a, b
<1>3. Frame(k, b)
  BY <1>1, <1>2, FrameParts, FrameTrans
<1>4. Frame(b, sched_addreadytorun(b, t))
  BY FrameAddReady
<1>5. Frame(k, sched_addreadytorun(b, t))
  BY <1>3, <1>4, FrameTrans
<1> QED
  BY <1>5 DEF UnblockTask, b

LEMMA FrameBlock ==
    ASSUME NEW k, NEW t, NEW s
    PROVE  Frame(k, BlockTask(k, t, s))
<1> DEFINE a == sched_removereadytorun(k, t)
           b == IF s \in Prioritized THEN sched_addprioritized(a, t, s)
                ELSE [a EXCEPT !.list[s] = Append(@, t)]
<1>1. Frame(k, a)
  BY FrameRemoveReady
<1>2. BlockTask(k, t, s) = [b EXCEPT !.state[t] = s]
  BY DEF BlockTask, sched_addblocked
<1> HIDE DEF a
<1>3. Frame(a, b)
  BY FrameParts, FrameAddPrio
<1> HIDE DEF b
<1>4. Frame(b, [b EXCEPT !.state[t] = s])
  BY FrameParts
<1> QED
  BY <1>1, <1>2, <1>3, <1>4, FrameTrans

LEMMA FrameMerge ==
    ASSUME NEW k, NEW c
    PROVE  Frame(k, MergeOne(k, c))
<1> DEFINE t == Pending(k)[1]
           a == PutAt(k, "READYTORUN", MergePos(k, c), t)
           b == [a EXCEPT !.list["PENDING"] = Tail(@)]
           m == MergeOne(k, c)
<1>1. Frame(k, a)
  BY FrameParts
<1>2. \/ m = [b EXCEPT !.state[Running(k)] = "READYTORUN", !.state[t] = "RUNNING"]
      \/ m = [b EXCEPT !.state[t] = "READYTORUN"]
  BY DEF MergeOne
<1> HIDE DEF a
<1>3. Frame(a, b)
  BY FrameParts
<1> HIDE DEF b, m
<1>4. Frame(b, m)
  BY <1>2 DEF Frame, SchedField
<1>5. Frame(k, m)
  BY <1>1, <1>3, <1>4, FrameTrans
<1> QED
  BY <1>5 DEF m

(* The states of the tasks that could run. *)
ReadyState == {"RUNNING", "READYTORUN", "PENDING"}

(* From k to m the tasks in T have changed their state only between those. *)
Shuffled(k, m, T) ==
    \A u \in T : m.state[u] = k.state[u] \/ (m.state[u] \in ReadyState /\ k.state[u] \in ReadyState)

LEMMA StayShuffled ==
    ASSUME NEW k, NEW m, NEW t, Stay(k, m, t)
    PROVE  Shuffled(k, m, Task \ {t})
BY DEF Stay, Shuffled, ReadyState, ListOf

LEMMA ShuffledTrans ==
    ASSUME NEW k, NEW m, NEW n, NEW T, Shuffled(k, m, T), Shuffled(m, n, T)
    PROVE  Shuffled(k, n, T)
BY DEF Shuffled

(* The iterations of the merge loop. *)
LEMMA MergedExists ==
    ASSUME NEW k, Pending(k) \in Seq(Task)
    PROVE  /\ Merged(k)[0] = [m |-> k, c |-> 1]
           /\ \A i \in 1 .. Len(Pending(k)) :
                Merged(k)[i] = [m |-> MergeOne(Merged(k)[i - 1].m, Merged(k)[i - 1].c),
                                c |-> MergePos(Merged(k)[i - 1].m, Merged(k)[i - 1].c)]
<1> DEFINE n == Len(Pending(k))
           z == [m |-> k, c |-> 1]
           g(x) == [m |-> MergeOne(x.m, x.c), c |-> MergePos(x.m, x.c)]
           h(a, j) == [i \in 0 .. j |-> IF i = 0 THEN z ELSE g(a[i - 1])]
           T == {j \in 0 .. n : \E a : a = h(a, j)}
<1>1. n \in Nat
  OBVIOUS
<1>2. Merged(k) = CHOOSE a : a = h(a, n)
  BY DEF Merged
<1> HIDE DEF n, z, g
<1>3. 0 \in T
  <2> DEFINE y == [i \in 0 .. 0 |-> z]
  <2>1. \A i \in 0 .. 0 : i = 0
    OBVIOUS
  <2>2. y = h(y, 0)
    BY <2>1
  <2>3. \E a : a = h(a, 0)
    <3> HIDE DEF h, y
    <3> QED
      BY <2>2
  <2> QED
    BY <1>1, <2>3
<1>4. ASSUME NEW j \in 0 .. n - 1, j \in T PROVE j + 1 \in T
  <2>1. PICK a : a = h(a, j)
    BY <1>4
  <2> DEFINE b == [i \in 0 .. j + 1 |-> IF i = j + 1 THEN g(a[j]) ELSE a[i]]
  <2>2. ASSUME NEW i \in 0 .. j + 1
        PROVE  b[i] = IF i = 0 THEN z ELSE g(b[i - 1])
    <3>1. CASE i = j + 1
      <4>1. i - 1 = j /\ j \in 0 .. j + 1 /\ j # j + 1 /\ i # 0
        BY <1>1, <3>1
      <4>2. b[i] = g(a[j]) /\ b[i - 1] = a[j]
        BY <3>1, <4>1
      <4> QED
        BY <4>1, <4>2, Zenon
    <3>2. CASE i # j + 1
      <4>1. i \in 0 .. j /\ b[i] = a[i]
        BY <1>1, <3>2
      <4>2. a[i] = IF i = 0 THEN z ELSE g(a[i - 1])
        BY <2>1, <4>1
      <4>3. i # 0 => b[i - 1] = a[i - 1]
        BY <1>1, <4>1
      <4> HIDE DEF b
      <4> QED
        BY <4>1, <4>2, <4>3, Zenon
    <3> QED
      BY <3>1, <3>2
  <2>3. b = h(b, j + 1)
    BY <2>2
  <2>4. j + 1 \in 0 .. n
    BY <1>1
  <2> QED
    BY <2>3, <2>4
<1> HIDE DEF T
<1>5. \A i \in 0 .. n : i \in T
  BY <1>1, <1>3, <1>4, IntervalInduction
<1>6. \E a : a = h(a, n)
  <2>1. n \in T
    BY <1>1, <1>5
  <2> QED
    BY <2>1 DEF T
<1> DEFINE e == Merged(k)
<1>7. e = h(e, n)
  BY <1>2, <1>6
<1> HIDE DEF e
<1>8. e[0] = z /\ \A i \in 1 .. n : e[i] = g(e[i - 1])
  <2>1. 0 \in 0 .. n /\ \A i \in 1 .. n : i \in 0 .. n /\ i # 0
    BY <1>1
  <2> QED
    BY <1>7, <2>1
<1> QED
  BY <1>8 DEF e, n, z, g

(* sched_mergepending: nothing is pending any more, and otherwise the      *)
(* tasks are where they were.                                              *)
Settled(k, m) ==
    /\ Good(m) /\ m.prio = k.prio /\ m.lock = k.lock /\ Pending(m) = <<>>
    /\ Shuffled(k, m, Task) /\ Frame(k, m)
    /\ Pending(k) = <<>> => m = k

LEMMA MergedLemma ==
    ASSUME NEW k, Good(k)
    PROVE  Settled(k, sched_mergepending(k))
<1> DEFINE n == Len(Pending(k))
           e == Merged(k)
           P(x, i) == /\ Good(x.m) /\ x.m.prio = k.prio /\ x.m.lock = k.lock
                      /\ Len(Pending(x.m)) = n - i
                      /\ i < n => MergeAt(x.m, x.c)
                      /\ Shuffled(k, x.m, Task) /\ Frame(k, x.m)
           T == {i \in 0 .. n : P(e[i], i)}
<1>1. Pending(k) \in Seq(Task) /\ n \in Nat /\ Len(Rtr(k)) \in Nat \ {0}
  BY ReadyFacts
<1>2. e[0] = [m |-> k, c |-> 1]
  BY <1>1, MergedExists
<1>3. \A i \in 1 .. n : e[i] = [m |-> MergeOne(e[i - 1].m, e[i - 1].c), c |-> MergePos(e[i - 1].m, e[i - 1].c)]
  BY <1>1, MergedExists
<1> HIDE DEF e
<1>4. 0 \in T
  <2>1. 0 < n => MergeAt(k, 1)
    BY <1>1 DEF MergeAt
  <2>2. Shuffled(k, k, Task) /\ Frame(k, k)
    BY DEF Shuffled, Frame
  <2>3. P([m |-> k, c |-> 1], 0)
    BY <1>1, <2>1, <2>2
  <2> HIDE DEF P
  <2> QED
    BY <1>1, <1>2, <2>3
<1>5. ASSUME NEW i \in 0 .. n - 1, i \in T PROVE i + 1 \in T
  <2> DEFINE a == e[i].m
             c == e[i].c
             b == MergeOne(a, c)
             d == MergePos(a, c)
  <2>1. P(e[i], i) /\ i < n
    BY <1>1, <1>5
  <2>2. /\ Good(a) /\ MergeAt(a, c) /\ a.prio = k.prio /\ a.lock = k.lock /\ Len(Pending(a)) = n - i
        /\ Shuffled(k, a, Task) /\ Frame(k, a)
    BY <2>1
  <2>3. e[i + 1] = [m |-> b, c |-> d] /\ i + 1 \in 0 .. n
    <3>1. i + 1 \in 1 .. n /\ (i + 1) - 1 = i /\ i + 1 \in 0 .. n
      BY <1>1
    <3> QED
      BY <1>3, <3>1
  <2> HIDE DEF a, c, d, b, P
  <2>4. /\ Good(b) /\ b.prio = a.prio /\ b.lock = a.lock
        /\ IF Len(Pending(a)) > 1 THEN MergeAt(b, d) ELSE Pending(b) = <<>>
        /\ Pending(b) = Tail(Pending(a))
        /\ Stay(a, b, Pending(a)[1])
        /\ a.state[Pending(a)[1]] = "PENDING" /\ ListOf(b.state[Pending(a)[1]]) = "READYTORUN"
    BY <2>2, MergeLemma DEF b, d
  <2>5. Shuffled(a, b, Task)
    <3>1. Shuffled(a, b, Task \ {Pending(a)[1]})
      BY <2>4, StayShuffled
    <3>2. a.state[Pending(a)[1]] \in ReadyState /\ b.state[Pending(a)[1]] \in ReadyState
      BY <2>4 DEF ReadyState, ListOf
    <3> QED
      BY <3>1, <3>2 DEF Shuffled
  <2>6. Shuffled(k, b, Task) /\ Frame(k, b)
    <3>1. Frame(a, b)
      BY FrameMerge DEF b
    <3> QED
      BY <2>2, <2>5, <3>1, ShuffledTrans, FrameTrans
  <2>7. Len(Pending(b)) = n - (i + 1) /\ (i + 1 < n => MergeAt(b, d))
    <3>1. Pending(a) \in Seq(Task) /\ Pending(a) # <<>>
      BY <2>2, ReadyFacts DEF MergeAt
    <3>2. Len(Tail(Pending(a))) = Len(Pending(a)) - 1
      BY <3>1
    <3> QED
      BY <1>1, <2>2, <2>4, <3>2
  <2>8. P([m |-> b, c |-> d], i + 1)
    BY <2>2, <2>4, <2>6, <2>7 DEF P
  <2> QED
    BY <2>3, <2>8
<1>6. n \in T
  <2> HIDE DEF T
  <2>1. \A i \in 0 .. n : i \in T
    BY <1>1, <1>4, <1>5, IntervalInduction
  <2> QED
    BY <1>1, <2>1
<1> DEFINE m == e[n].m
<1>7. /\ Good(m) /\ m.prio = k.prio /\ m.lock = k.lock /\ Len(Pending(m)) = 0
      /\ Shuffled(k, m, Task) /\ Frame(k, m)
  BY <1>1, <1>6
<1>8. Pending(m) = <<>>
  <2> HIDE DEF m
  <2>1. Pending(m) \in Seq(Task)
    BY <1>7, ReadyFacts
  <2> QED
    BY <1>7, <2>1
<1>9. Pending(k) = <<>> => m = k
  BY <1>2
<1>10. sched_mergepending(k) = m
  BY DEF sched_mergepending, e
<1> QED
  BY <1>7, <1>8, <1>9, <1>10 DEF Settled

(* Running and the lists depend on nothing but the fields of the scheduler. *)
Alike(k, m) ==
    /\ DOMAIN m = DOMAIN k
    /\ m.list = k.list /\ m.state = k.state /\ m.prio = k.prio /\ m.lock = k.lock

LEMMA AlikeLemma ==
    ASSUME NEW k, Good(k), NEW m, Alike(k, m)
    PROVE  Good(m) /\ Running(m) = Running(k) /\ Shuffled(k, m, Task)
<1>1. KType(k)
  BY DEF Good, Lists
<1>2. KType(m)
  BY <1>1 DEF Alike, KType
<1>3. Good(m) /\ Running(m) = Running(k)
  BY <1>2, SameFields DEF Alike
<1> QED
  BY <1>3 DEF Alike, Shuffled

(* sched_lock() *)
Locks(k, m) ==
    /\ Good(m) /\ m.state = k.state /\ m.prio = k.prio /\ Running(m) = Running(k)
    /\ m.lock = [k.lock EXCEPT ![Running(k)] = @ + 1]
    /\ Frame(k, m)

LEMMA LocksLemma ==
    ASSUME NEW k, Good(k)
    PROVE  Locks(k, Locked(k))
<1> DEFINE t == Running(k)
           n == k.lock[t] + 1
<1>1. t \in Task /\ k.lock[t] \in Nat
  BY ReadyFacts DEF Good, Lists, KType
<1>2. Locked(k) = [k EXCEPT !.lock[t] = n]
  BY DEF Locked
<1>3. n \in Nat
  BY <1>1
<1>4. Frame(k, Locked(k))
  BY FrameParts
<1>5. k.lock[t] + 1 = n
  OBVIOUS
<1> HIDE DEF n, t
<1>6. LET m == [k EXCEPT !.lock[t] = n] IN
      /\ Good(m) /\ m.state = k.state /\ m.prio = k.prio /\ m.lock = [k.lock EXCEPT ![t] = n]
      /\ Running(m) = Running(k) /\ Pending(m) = Pending(k)
  BY <1>1, <1>3, LockCountLemma
<1>7. [k.lock EXCEPT ![t] = n] = [k.lock EXCEPT ![t] = @ + 1]
  BY <1>5
<1> QED
  BY <1>2, <1>4, <1>6, <1>7 DEF Locks, t

(* sched_unlock() *)
Unlocks(k, m) ==
    /\ Good(m) /\ m.prio = k.prio
    /\ m.lock = [k.lock EXCEPT ![Running(k)] = @ - 1]
    /\ Shuffled(k, m, Task) /\ Frame(k, m)

LEMMA UnlocksLemma ==
    ASSUME NEW k, Good(k), k.lock[Running(k)] > 0
    PROVE  Unlocks(k, Unlocked(k))
<1> DEFINE t == Running(k)
           n == k.lock[t] - 1
           u == [k EXCEPT !.lock[t] = n]
<1>1. t \in Task /\ k.lock[t] \in Nat
  BY ReadyFacts DEF Good, Lists, KType
<1>2. n \in Nat
  BY <1>1
<1>3. \/ Unlocked(k) = sched_mergepending(u)
      \/ Unlocked(k) = u
  BY DEF Unlocked
<1>4. Frame(k, u)
  BY FrameParts
<1>5. k.lock[t] - 1 = n
  OBVIOUS
<1> HIDE DEF n
<1>6. /\ Good(u) /\ u.state = k.state /\ u.prio = k.prio /\ u.lock = [k.lock EXCEPT ![t] = n]
  <2> HIDE DEF t
  <2> QED
    BY <1>1, <1>2, LockCountLemma
<1>7. [k.lock EXCEPT ![t] = n] = [k.lock EXCEPT ![t] = @ - 1]
  BY <1>5
<1> HIDE DEF u
<1>8. Shuffled(k, u, Task)
  BY <1>6 DEF Shuffled
<1>9. Unlocks(k, u)
  BY <1>4, <1>6, <1>7, <1>8 DEF Unlocks
<1>10. Settled(u, sched_mergepending(u))
  BY <1>6, MergedLemma
<1>11. Unlocks(k, sched_mergepending(u))
  <2> DEFINE m == sched_mergepending(u)
  <2>1. Shuffled(u, m, Task) /\ Frame(u, m) /\ Good(m) /\ m.prio = u.prio /\ m.lock = u.lock
    BY <1>10 DEF Settled
  <2> HIDE DEF m
  <2>2. Shuffled(k, m, Task) /\ Frame(k, m)
    BY <1>4, <1>8, <2>1, ShuffledTrans, FrameTrans
  <2>3. Unlocks(k, m)
    BY <1>6, <1>7, <2>1, <2>2 DEF Unlocks
  <2> QED
    BY <2>3 DEF m
<1> QED
  BY <1>3, <1>9, <1>11

(* up_block_task() of the running task *)
Blocks(k, m, t, s) ==
    /\ Good(m) /\ m.prio = k.prio /\ m.lock = k.lock
    /\ m.state[t] = s /\ Shuffled(k, m, Task \ {t}) /\ Frame(k, m)

LEMMA BlocksLemma ==
    ASSUME NEW k, Good(k), Running(k) # Idle, NEW s \in BlockedState
    PROVE  Blocks(k, up_block_task(k, Running(k), s), Running(k), s)
<1> DEFINE t == Running(k)
           b == BlockTask(k, t, s)
           m == sched_mergepending(b)
<1>1. /\ Good(b) /\ b.prio = k.prio /\ b.lock = k.lock
      /\ Stay(k, b, t) /\ b.state[t] = s
  BY BlockLemma
<1>2. Frame(k, b)
  BY FrameBlock
<1>3. t \in Task
  BY ReadyFacts
<1>4. up_block_task(k, Running(k), s) = m
  BY DEF up_block_task
<1> HIDE DEF b, t
<1>5. Settled(b, m)
  BY <1>1, MergedLemma
<1> HIDE DEF m
<1>6. Shuffled(k, b, Task \ {t})
  BY <1>1, StayShuffled
<1>7. Shuffled(b, m, Task \ {t}) /\ Frame(b, m) /\ Good(m) /\ m.prio = b.prio /\ m.lock = b.lock
  BY <1>5 DEF Settled, Shuffled
<1>8. m.state[t] = s
  <2>1. s \notin ReadyState
    BY DEF BlockedState, ReadyState
  <2> QED
    BY <1>1, <1>3, <1>5, <2>1 DEF Settled, Shuffled
<1>9. Shuffled(k, m, Task \ {t}) /\ Frame(k, m)
  BY <1>2, <1>6, <1>7, ShuffledTrans, FrameTrans
<1> QED
  BY <1>1, <1>4, <1>7, <1>8, <1>9 DEF Blocks, t

(* up_unblock_task() *)
Unblocks(k, m, t) ==
    /\ Good(m) /\ m.prio = k.prio /\ m.lock = k.lock
    /\ m.state[t] \in ReadyState /\ Shuffled(k, m, Task \ {t}) /\ Frame(k, m)
    /\ Running(m) = Running(k) \/ k.lock[Running(k)] = 0

LEMMA UnblocksLemma ==
    ASSUME NEW k, Good(k), NEW t \in Task, k.state[t] \in BlockedState
    PROVE  Unblocks(k, up_unblock_task(k, t), t)
<1> DEFINE m == UnblockTask(k, t)
<1>1. up_unblock_task(k, t) = m
  BY DEF up_unblock_task
<1>2. Frame(k, m)
  BY FrameUnblock
<1>3. /\ Good(m) /\ m.prio = k.prio /\ m.lock = k.lock
      /\ Running(m) = Running(k) \/ k.lock[Running(k)] = 0
      /\ Stay(k, m, t) /\ ListOf(m.state[t]) \in {"READYTORUN", "PENDING"}
  BY UnblockLemma
<1> HIDE DEF m
<1>4. Shuffled(k, m, Task \ {t})
  BY <1>3, StayShuffled
<1>5. m.state[t] \in ReadyState
  BY <1>3 DEF ListOf, ReadyState
<1> QED
  BY <1>1, <1>2, <1>3, <1>4, <1>5 DEF Unblocks

(* A task that does not run is unlinked, as task_terminate() does. *)
Ends(k, m, t) ==
    /\ Good(m) /\ m.prio = k.prio /\ m.lock = k.lock /\ Running(m) = Running(k)
    /\ m.state = [k.state EXCEPT ![t] = "INVALID"] /\ Frame(k, m)

LEMMA EndsLemma ==
    ASSUME NEW k, Good(k), NEW t \in Task \ {Idle}, k.state[t] \notin {"INVALID", "RUNNING"}
    PROVE  Ends(k, [dq_rem(k, t, ListOf(k.state[t])) EXCEPT !.state[t] = "INVALID"], t)
<1> DEFINE a == dq_rem(k, t, ListOf(k.state[t]))
           m == [a EXCEPT !.state[t] = "INVALID"]
<1>1. /\ Good(m) /\ m.prio = k.prio /\ m.lock = k.lock /\ Running(m) = Running(k)
      /\ m.state = [k.state EXCEPT ![t] = "INVALID"]
  BY UnlinkLemma
<1>2. Frame(k, a) /\ Frame(a, m)
  <2>1. Frame(k, a)
    BY FrameParts
  <2> HIDE DEF a
  <2>2. Frame(a, m)
    BY FrameParts
  <2> QED
    BY <2>1, <2>2
<1>3. Frame(k, m)
  <2> HIDE DEF a, m
  <2> QED
    BY <1>2, FrameTrans
<1> QED
  BY <1>1, <1>3 DEF Ends

-----------------------------------------------------------------------------
(* The four ways of sched_setpriority. *)
LEMMA SetPriorityCases ==
    ASSUME NEW k, Good(k), NEW t \in Task \ {Idle}, NEW p \in Prio
    PROVE  LET m == sched_setpriority(k, t, p)
               s == k.state[t] IN
           \/ m = WithPrio(k, t, p)
           \/ m = ReprioritizeRtr(k, t, p) /\ ListOf(s) = "READYTORUN"
           \/ /\ m = sched_addprioritized(WithPrio(dq_rem(k, t, s), t, p), t, s)
              /\ s \in Prioritized \ {"READYTORUN"}
<1>0. k.state[t] \in TState
  BY DEF Good, Lists, KType
<1>1. CASE k.state[t] = "RUNNING"
  BY <1>1 DEF sched_setpriority, Prioritized, List, ListOf
<1>2. CASE k.state[t] = "READYTORUN"
  BY <1>2 DEF sched_setpriority, ListOf
<1>3. CASE k.state[t] \in Prioritized \ {"READYTORUN"}
  BY <1>3 DEF sched_setpriority, Prioritized, List
<1>4. CASE k.state[t] \notin Prioritized /\ k.state[t] # "RUNNING"
  BY <1>4 DEF sched_setpriority, Prioritized, List, TState
<1> QED
  BY <1>1, <1>2, <1>3, <1>4

(* It changes one priority and nothing outside the scheduler's fields, and *)
(* does not take the CPU from a task that has pre-emption disabled, unless *)
(* it is that task's own priority.                                         *)
OnePrio(k, m, t, p) ==
    /\ m.prio = [k.prio EXCEPT ![t] = p] /\ Frame(k, m)
    /\ k.lock[Running(k)] > 0 /\ t # Running(k) => Running(m) = Running(k)

LEMMA OnePrioLemma ==
    ASSUME NEW k, Good(k), NEW t \in Task \ {Idle}, NEW p \in Prio
    PROVE  OnePrio(k, sched_setpriority(k, t, p), t, p)
<1> DEFINE m == sched_setpriority(k, t, p)
           s == k.state[t]
<1>1. CASE m = WithPrio(k, t, p)
  <2>1. Frame(k, WithPrio(k, t, p))
    BY FrameParts
  <2>2. m.prio = [k.prio EXCEPT ![t] = p] /\ m.list = k.list
    BY <1>1 DEF WithPrio, Good, Lists, KType, SchedField
  <2> HIDE DEF m
  <2>3. OnePrio(k, m, t, p)
    BY <1>1, <2>1, <2>2 DEF OnePrio, Running, Rtr
  <2> QED
    BY <2>3 DEF m
<1>2. CASE m = ReprioritizeRtr(k, t, p) /\ ListOf(s) = "READYTORUN"
  <2> DEFINE a == sched_removereadytorun(k, t)
             b == WithPrio(a, t, p)
  <2>1. /\ Good(a) /\ a.lock = k.lock /\ a.prio = k.prio /\ a.state[t] = "INVALID"
        /\ Running(k) # t => Running(a) = Running(k)
    BY <1>2, RemoveReadyLemma
  <2>2. Frame(k, a)
    BY FrameRemoveReady
  <2>3. m = sched_addreadytorun(b, t)
    BY <1>2 DEF ReprioritizeRtr
  <2> HIDE DEF a, m
  <2>4. PrioChanged(a, b, t, p) /\ Frame(a, b)
    <3>1. ListOf(a.state[t]) \notin Prioritized
      BY <2>1 DEF ListOf, Prioritized, List
    <3> QED
      BY <2>1, <3>1, PrioFreeLemma, FrameParts
  <2> HIDE DEF b
  <2>5. b.state[t] = "INVALID" /\ b.prio[t] > 0 /\ Good(b)
    BY <2>1, <2>4, PrioAssumption DEF PrioChanged, Good, Lists, KType, Prio
  <2>6. ReadyAdded(b, m, t) /\ Frame(b, m)
    BY <2>3, <2>5, AddReadyLemma, FrameAddReady
  <2>7. Frame(k, m)
    BY <2>2, <2>4, <2>6, FrameTrans
  <2>8. m.prio = [k.prio EXCEPT ![t] = p]
    BY <2>1, <2>4, <2>6 DEF PrioChanged, ReadyAdded
  <2>9. ASSUME k.lock[Running(k)] > 0, t # Running(k) PROVE Running(m) = Running(k)
    <3>1. k.lock[Running(k)] \in Nat
      BY ReadyFacts DEF Good, Lists, KType
    <3> QED
      BY <2>1, <2>4, <2>6, <2>9, <3>1 DEF PrioChanged, ReadyAdded
  <2>10. OnePrio(k, m, t, p)
    BY <2>7, <2>8, <2>9 DEF OnePrio
  <2> QED
    BY <2>10 DEF m
<1>3. CASE /\ m = sched_addprioritized(WithPrio(dq_rem(k, t, s), t, p), t, s)
           /\ s \in Prioritized \ {"READYTORUN"}
  <2> DEFINE a == dq_rem(k, t, s)
             b == WithPrio(a, t, p)
  <2>1. Frame(k, a) /\ Frame(b, sched_addprioritized(b, t, s))
    BY FrameParts, FrameAddPrio
  <2>2. a.prio = k.prio /\ Rtr(a) = Rtr(k) /\ m.prio = b.prio /\ Rtr(m) = Rtr(b)
    BY <1>3 DEF dq_rem, sched_addprioritized, PutAt, Rtr, Prioritized, List
  <2>3. SchedField \subseteq DOMAIN a
    BY <2>1 DEF Frame, Good, Lists, KType
  <2> HIDE DEF a, m
  <2>4. Frame(a, b) /\ b.prio = [a.prio EXCEPT ![t] = p] /\ Rtr(b) = Rtr(a)
    BY <2>3, FrameParts DEF WithPrio, Rtr, SchedField
  <2> HIDE DEF b
  <2>5. Frame(k, m)
    <3>1. Frame(b, m)
      BY <1>3, <2>1 DEF a, b
    <3> QED
      BY <2>1, <2>4, <3>1, FrameTrans
  <2>6. OnePrio(k, m, t, p)
    BY <2>2, <2>4, <2>5 DEF OnePrio, Running
  <2> QED
    BY <2>6 DEF m
<1> QED
  BY <1>1, <1>2, <1>3, SetPriorityCases

(* A task that has pre-emption enabled runs with nothing put aside. *)
Calm(k) == k.lock[Running(k)] = 0 => Pending(k) = <<>>

(* sched_setpriority() with the merge that follows a context switch. *)
Reprioritizes(k, m, t, p) ==
    /\ Good(m) /\ m.lock = k.lock /\ Shuffled(k, m, Task) /\ OnePrio(k, m, t, p)
    /\ Calm(k) => Calm(m)

LEMMA SetPrioLemma ==
    ASSUME NEW k, Good(k), NEW t \in Task \ {Idle}, NEW p \in Prio
    PROVE  Reprioritizes(k, SetPrio(k, t, p), t, p)
<1> DEFINE n == sched_setpriority(k, t, p)
           m == SetPrio(k, t, p)
<1>1. Good(n) /\ n.lock = k.lock /\ Preempts(k, n) /\ Requeued(k, n, t)
  BY SetPriorityLemma
<1>2. OnePrio(k, n, t, p)
  BY OnePrioLemma
<1>3. m = IF Switched(k, n) THEN sched_mergepending(n) ELSE n
  BY DEF SetPrio
<1> HIDE DEF n, m
<1>4. Shuffled(k, n, Task)
  <2>1. Shuffled(k, n, Task \ {t})
    BY <1>1, StayShuffled DEF Requeued
  <2>2. ListOf(k.state[t]) = "READYTORUN" => k.state[t] \in ReadyState /\ n.state[t] \in ReadyState
    BY <1>1 DEF Requeued, ListOf, ReadyState
  <2>3. ListOf(k.state[t]) # "READYTORUN" => k.state[t] = n.state[t]
    BY <1>1 DEF Requeued
  <2> QED
    BY <2>1, <2>2, <2>3 DEF Shuffled
<1>5. CASE ~ Switched(k, n)
  <2>1. m = n /\ Running(n) = Running(k)
    BY <1>3, <1>5 DEF Switched
  <2>2. Calm(k) => Calm(n)
    BY <1>1, <2>1 DEF Preempts, Calm
  <2>3. Reprioritizes(k, m, t, p)
    BY <1>1, <1>2, <1>4, <2>1, <2>2 DEF Reprioritizes
  <2> QED
    BY <2>3 DEF m
<1>6. CASE Switched(k, n)
  <2>1. Settled(n, m)
    BY <1>1, <1>3, <1>6, MergedLemma
  <2>2. Good(m) /\ m.lock = k.lock /\ m.prio = n.prio /\ Calm(m)
    BY <1>1, <2>1 DEF Settled, Calm
  <2>3. Shuffled(k, m, Task) /\ Frame(k, m)
    BY <1>2, <1>4, <2>1, ShuffledTrans, FrameTrans DEF Settled, OnePrio
  <2>4. ~(k.lock[Running(k)] > 0 /\ t # Running(k))
    BY <1>2, <1>6 DEF OnePrio, Switched
  <2>5. OnePrio(k, m, t, p)
    BY <1>2, <2>2, <2>3, <2>4 DEF OnePrio
  <2>6. Reprioritizes(k, m, t, p)
    BY <2>2, <2>3, <2>5 DEF Reprioritizes
  <2> QED
    BY <2>6 DEF m
<1> QED
  BY <1>5, <1>6 DEF m

(* The other calls leave nothing put aside either. *)
LEMMA CalmLocked ==
    ASSUME NEW k, Good(k)
    PROVE  Calm(Locked(k))
<1>1. Locks(k, Locked(k))
  BY LocksLemma
<1> DEFINE m == Locked(k)
<1> HIDE DEF m
<1>2. Locks(k, m)
  BY <1>1 DEF m
<1>3. Running(k) \in Task /\ k.lock \in [Task -> Nat]
  BY ReadyFacts DEF Good, Lists, KType
<1>4. m.lock[Running(m)] # 0
  BY <1>2, <1>3 DEF Locks
<1> QED
  BY <1>4 DEF Calm, m

LEMMA CalmUnlocked ==
    ASSUME NEW k, Good(k), k.lock[Running(k)] > 0
    PROVE  Calm(Unlocked(k)) /\ (k.lock[Running(k)] > 1 => Running(Unlocked(k)) = Running(k))
<1> DEFINE t == Running(k)
           n == k.lock[t] - 1
           u == [k EXCEPT !.lock[t] = n]
           m == Unlocked(k)
<1>1. t \in Task /\ k.lock \in [Task -> Nat] /\ k.lock[t] \in Nat
  BY ReadyFacts DEF Good, Lists, KType
<1>2. n \in Nat /\ (k.lock[t] > 1 => n # 0)
  BY <1>1
<1>3. m = IF u.lock[t] = 0 THEN sched_mergepending(u) ELSE u
  BY DEF Unlocked
<1>4. Good(u) /\ u.lock = [k.lock EXCEPT ![t] = n] /\ Running(u) = t
  <2>1. t = Running(k)
    OBVIOUS
  <2> HIDE DEF n, t
  <2> QED
    BY <1>1, <1>2, <2>1, LockCountLemma
<1>5. u.lock[t] = n
  BY <1>1, <1>4
<1> HIDE DEF n, u, m, t
<1>6. CASE n = 0
  <2>1. Settled(u, m)
    BY <1>3, <1>4, <1>5, <1>6, MergedLemma
  <2> QED
    BY <1>2, <1>6, <2>1 DEF Settled, Calm, m, t
<1>7. CASE n # 0
  BY <1>3, <1>4, <1>5, <1>7 DEF Calm, m, t
<1> QED
  BY <1>6, <1>7

LEMMA CalmBlock ==
    ASSUME NEW k, Good(k), Running(k) # Idle, NEW s \in BlockedState
    PROVE  Calm(up_block_task(k, Running(k), s))
<1> DEFINE b == BlockTask(k, Running(k), s)
<1>1. Good(b)
  BY BlockLemma
<1> HIDE DEF b
<1>2. Settled(b, sched_mergepending(b))
  BY <1>1, MergedLemma
<1> QED
  BY <1>2 DEF Settled, Calm, up_block_task, b

LEMMA CalmUnblock ==
    ASSUME NEW k, Good(k), Calm(k), NEW t \in Task, k.state[t] \in BlockedState
    PROVE  Calm(up_unblock_task(k, t))
<1> DEFINE m == up_unblock_task(k, t)
<1>1. m = UnblockTask(k, t)
  BY DEF up_unblock_task
<1>2. /\ m.lock = k.lock /\ (Running(m) = Running(k) \/ k.lock[Running(k)] = 0)
      /\ k.lock[Running(k)] = 0 /\ Pending(k) = <<>> => Pending(m) = <<>>
  BY <1>1, UnblockLemma
<1> HIDE DEF m
<1>3. Calm(m)
  BY <1>2 DEF Calm
<1> QED
  BY <1>3 DEF m

-----------------------------------------------------------------------------
(* The state in which all tasks are ready. *)
LEMMA ReadyGood ==
    ASSUME NEW base \in [Task -> 0 .. MaxPrio], \A t \in Task : base[t] = 0 <=> t = Idle,
           Cardinality(Task) \in Nat, NEW order \in ReadyOrder(base), NEW m,
           SchedField \subseteq DOMAIN m, m.list = ReadyLists(order), m.state = ReadyStates(order),
           m.prio = base, m.lock = [t \in Task |-> 0]
    PROVE  Good(m)
<1> DEFINE n == Cardinality(Task)
<1>1. /\ order \in [1 .. n -> Task] /\ IsInjective(order)
      /\ \A t \in Task : \E i \in 1 .. n : order[i] = t
      /\ \A i, j \in 1 .. n : i < j => base[order[i]] >= base[order[j]]
  BY DEF ReadyOrder
<1>2. n \in Nat /\ base \in [Task -> 0 .. MaxPrio] /\ \A t \in Task : base[t] = 0 <=> t = Idle
  OBVIOUS
<1> HIDE DEF n
<1>3. order \in Seq(Task) /\ Len(order) = n
  BY <1>1, <1>2
<1>4. n > 0 /\ 1 \in 1 .. n /\ n \in 1 .. n
  <2>1. PICK i \in 1 .. n : order[i] = Idle
    BY <1>1, IdleAssumption
  <2> QED
    BY <1>2, <2>1
<1>5. \A i, j \in 1 .. n : order[i] = order[j] => i = j
  BY <1>1 DEF IsInjective
<1>6. "READYTORUN" \in List /\ Rtr(m) = order /\ \A l \in List : l # "READYTORUN" => m.list[l] = <<>>
  BY DEF ReadyLists, Rtr, List, TState
<1>7. Running(m) = order[1] /\ order[1] \in Task
  BY <1>1, <1>4, <1>6 DEF Running
<1>8. \A t \in Task : m.state[t] = IF t = order[1] THEN "RUNNING" ELSE "READYTORUN"
  BY DEF ReadyStates
<1>9. KType(m)
  <2>1. m.list \in [List -> Seq(Task)]
    BY <1>3 DEF ReadyLists
  <2>2. m.state \in [Task -> TState]
    BY DEF ReadyStates, TState
  <2> QED
    BY <1>2, <2>1, <2>2 DEF KType
<1>10. Placed(m)
  <2>1. \A i \in 1 .. n : ListOf(m.state[order[i]]) = "READYTORUN"
    BY <1>1, <1>8 DEF ListOf
  <2> QED
    BY <1>3, <1>6, <2>1 DEF Placed, Rtr
<1>11. Unique(m)
  BY <1>3, <1>5, <1>6 DEF Unique, Rtr
<1>12. Present(m)
  BY <1>1, <1>3, <1>6, <1>8 DEF Present, ListOf, Rtr
<1>13. InOrder(m)
  BY <1>1, <1>3, <1>6 DEF InOrder, Rtr, Prioritized
<1>14. IdleLast(m)
  <2>1. PICK i \in 1 .. n : order[i] = Idle
    BY <1>1, IdleAssumption
  <2>2. i = n
    <3>1. SUFFICES ASSUME i < n PROVE FALSE
      BY <1>2, <2>1
    <3>2. base[order[i]] >= base[order[n]] /\ order[n] \in Task
      BY <1>1, <1>4, <3>1
    <3>3. base[order[n]] = 0
      <4>1. base[Idle] = 0 /\ base[order[n]] \in Nat
        BY <1>2, <3>2, IdleAssumption
      <4> QED
        BY <2>1, <3>2, <4>1
    <3> QED
      BY <1>2, <1>4, <1>5, <2>1, <3>1, <3>2, <3>3
  <2>3. \A t \in Task \ {Idle} : base[t] > 0
    BY <1>2
  <2> QED
    BY <1>2, <1>3, <1>4, <1>6, <2>1, <2>2, <2>3, IdleAssumption DEF IdleLast
<1>15. HeadRuns(m)
  BY <1>7, <1>8 DEF HeadRuns
<1> QED
  BY <1>9, <1>10, <1>11, <1>12, <1>13, <1>14, <1>15 DEF Good, Lists
=============================================================================
