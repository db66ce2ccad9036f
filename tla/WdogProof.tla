------------------------------ MODULE WdogProof ------------------------------
(* The delta list and the pool of module Wdog, for every set of watchdogs, *)
(* every reserve and every delay: the list is sound, each watchdog is a    *)
(* timer of its own, those that are due together expire in the order they  *)
(* were started in, and the reserve of the pool is kept.                   *)
EXTENDS Wdog, ListLemmas, FiniteSetTheorems

-----------------------------------------------------------------------------
(* The running totals of the lags. *)

(* The running totals of a list exist, are integers, and add one lag each. *)
LEMMA ElapsedLemma ==
    ASSUME NEW S, NEW q \in Seq(S), NEW g \in [S -> Int]
    PROVE  /\ Elapsed(q, g) \in [0 .. Len(q) -> Int]
           /\ Elapsed(q, g)[0] = 0
           /\ \A i \in 1 .. Len(q) : Elapsed(q, g)[i] = Elapsed(q, g)[i - 1] + g[q[i]]
<1> DEFINE n == Len(q)
           h(a, m) == [i \in 0 .. m |-> IF i = 0 THEN 0 ELSE a[i - 1] + g[q[i]]]
           T == {m \in 0 .. n : \E a : a = h(a, m)}
<1>1. n \in Nat /\ \A i \in 1 .. n : g[q[i]] \in Int
  OBVIOUS
<1>2. 0 \in T
  <2> DEFINE z == [i \in 0 .. 0 |-> 0]
  <2>1. \A i \in 0 .. 0 : i = 0
    OBVIOUS
  <2>2. z = h(z, 0)
    BY <2>1
  <2>3. \E a : a = h(a, 0)
    <3> HIDE DEF h, z
    <3> QED
      BY <2>2
  <2> QED
    BY <1>1, <2>3
<1>3. ASSUME NEW m \in 0 .. n - 1, m \in T PROVE m + 1 \in T
  <2>1. PICK a : a = h(a, m)
    BY <1>3
  <2> DEFINE b == [i \in 0 .. m + 1 |-> IF i = m + 1 THEN a[m] + g[q[m + 1]] ELSE a[i]]
  <2>2. ASSUME NEW i \in 0 .. m + 1
        PROVE  b[i] = IF i = 0 THEN 0 ELSE b[i - 1] + g[q[i]]
    <3>1. CASE i = m + 1
      <4>1. i - 1 = m /\ m \in 0 .. m + 1 /\ m # m + 1 /\ i # 0
        BY <1>1, <3>1
      <4> QED
        BY <3>1, <4>1
    <3>2. CASE i # m + 1
      <4>1. i \in 0 .. m /\ b[i] = a[i]
        BY <1>1, <3>2
      <4>2. a[i] = IF i = 0 THEN 0 ELSE a[i - 1] + g[q[i]]
        BY <2>1, <4>1
      <4>3. i # 0 => b[i - 1] = a[i - 1]
        BY <1>1, <4>1
      <4> QED
        BY <4>1, <4>2, <4>3
    <3> QED
      BY <3>1, <3>2
  <2>3. b = h(b, m + 1)
    BY <2>2
  <2>4. m + 1 \in 0 .. n
    BY <1>1
  <2> QED
    BY <2>3, <2>4
<1> HIDE DEF T
<1>4. \A i \in 0 .. n : i \in T
  BY <1>1, <1>2, <1>3, IntervalInduction
<1>5. n \in T
  BY <1>1, <1>4
<1>6. \E a : a = h(a, n)
  BY <1>5 DEF T
<1> DEFINE e == Elapsed(q, g)
<1>7. e = h(e, n)
  BY <1>6 DEF Elapsed
<1> HIDE DEF e
<1>8. e[0] = 0 /\ \A i \in 1 .. n : e[i] = e[i - 1] + g[q[i]]
  <2>1. 0 \in 0 .. n /\ \A i \in 1 .. n : i \in 0 .. n /\ i # 0
    BY <1>1
  <2> QED
    BY <1>7, <2>1
<1> DEFINE U == {i \in 0 .. n : e[i] \in Int}
<1>9. 0 \in U
  BY <1>1, <1>8
<1>10. ASSUME NEW i \in 0 .. n - 1, i \in U PROVE i + 1 \in U
  <2>1. i + 1 \in 1 .. n /\ i + 1 \in 0 .. n /\ (i + 1) - 1 = i
    BY <1>1
  <2>2. e[i + 1] = e[i] + g[q[i + 1]]
    BY <1>8, <2>1
  <2> QED
    BY <1>1, <1>10, <2>1, <2>2
<1>11. \A i \in 0 .. n : i \in U
  <2> HIDE DEF U
  <2> QED
    BY <1>1, <1>9, <1>10, IntervalInduction
<1>12. e \in [0 .. n -> Int]
  BY <1>7, <1>11
<1> QED
  BY <1>8, <1>12 DEF e

(* With no negative lag the totals do not decrease. *)
LEMMA ElapsedMonotonic ==
    ASSUME NEW S, NEW q \in Seq(S), NEW g \in [S -> Int],
           \A i \in 1 .. Len(q) : g[q[i]] >= 0
    PROVE  \A i \in 0 .. Len(q) : \A j \in i .. Len(q) : Elapsed(q, g)[i] <= Elapsed(q, g)[j]
<1> DEFINE n == Len(q)
           e == Elapsed(q, g)
<1>1. n \in Nat /\ e \in [0 .. n -> Int] /\ \A i \in 1 .. n : e[i] = e[i - 1] + g[q[i]]
  BY ElapsedLemma
<1>2. \A i \in 1 .. n : g[q[i]] \in Int /\ g[q[i]] >= 0
  OBVIOUS
<1> HIDE DEF n, e
<1>3. ASSUME NEW i \in 0 .. n PROVE \A j \in i .. n : e[i] <= e[j]
  <2> DEFINE T == {j \in i .. n : e[i] <= e[j]}
  <2>1. i \in T
    BY <1>1
  <2>2. ASSUME NEW j \in i .. n - 1, j \in T PROVE j + 1 \in T
    <3>1. j + 1 \in 1 .. n /\ j + 1 \in i .. n /\ (j + 1) - 1 = j /\ j \in 0 .. n /\ j + 1 \in 0 .. n
      BY <1>1
    <3>2. e[j + 1] = e[j] + g[q[j + 1]] /\ e[i] <= e[j]
      BY <1>1, <2>2, <3>1
    <3>3. e[i] \in Int /\ e[j] \in Int /\ g[q[j + 1]] \in Int /\ g[q[j + 1]] >= 0
      BY <1>1, <1>2, <3>1
    <3> QED
      BY <3>1, <3>2, <3>3
  <2>3. \A j \in i .. n : j \in T
    <3>1. i \in Nat
      BY <1>1
    <3> HIDE DEF T
    <3> QED
      BY <1>1, <2>1, <2>2, <3>1, IntervalInduction
  <2> QED
    BY <2>3
<1> QED
  BY <1>3 DEF n, e

(* The lags after a tick. *)
Ticked(q, g) == [g EXCEPT ![q[1]] = @ - 1]

(* A tick takes one from every total. *)
LEMMA ElapsedTick ==
    ASSUME NEW S, NEW q \in Seq(S), IsInjective(q), q # <<>>, NEW g \in [S -> Int]
    PROVE  /\ Ticked(q, g) \in [S -> Int]
           /\ \A j \in 1 .. Len(q) : Elapsed(q, Ticked(q, g))[j] = Elapsed(q, g)[j] - 1
<1> DEFINE n == Len(q)
           f == Ticked(q, g)
           a == Elapsed(q, g)
           b == Elapsed(q, f)
<1>1. n \in Nat \ {0} /\ 1 \in 1 .. n /\ \A i \in 1 .. n : q[i] \in S
  BY EmptySeq
<1>2. f \in [S -> Int] /\ f[q[1]] = g[q[1]] - 1
  BY <1>1 DEF Ticked
<1>3. \A i \in 2 .. n : f[q[i]] = g[q[i]]
  <2>1. \A i \in 2 .. n : i \in 1 .. n /\ q[i] # q[1]
    BY <1>1 DEF IsInjective
  <2> QED
    BY <1>1, <2>1 DEF Ticked
<1>4. /\ a \in [0 .. n -> Int] /\ a[0] = 0
      /\ \A i \in 1 .. n : a[i] = a[i - 1] + g[q[i]]
  BY ElapsedLemma
<1> HIDE DEF f
<1>5. /\ b \in [0 .. n -> Int] /\ b[0] = 0
      /\ \A i \in 1 .. n : b[i] = b[i - 1] + f[q[i]]
  BY <1>2, ElapsedLemma
<1>6. \A i \in 1 .. n : g[q[i]] \in Int
  BY <1>1
<1> HIDE DEF n, a, b
<1> DEFINE T == {j \in 1 .. n : b[j] = a[j] - 1}
<1>7. 1 \in T
  <2>1. a[1] = a[0] + g[q[1]] /\ b[1] = b[0] + f[q[1]]
    <3>1. 1 - 1 = 0
      OBVIOUS
    <3> QED
      BY <1>1, <1>4, <1>5, <3>1
  <2> QED
    BY <1>1, <1>2, <1>4, <1>5, <1>6, <2>1
<1>8. ASSUME NEW j \in 1 .. n - 1, j \in T PROVE j + 1 \in T
  <2>1. j + 1 \in 1 .. n /\ j + 1 \in 2 .. n /\ (j + 1) - 1 = j /\ j \in 0 .. n
    BY <1>1
  <2>2. /\ a[j + 1] = a[j] + g[q[j + 1]]
        /\ b[j + 1] = b[j] + g[q[j + 1]]
        /\ b[j] = a[j] - 1
    BY <1>3, <1>4, <1>5, <1>8, <2>1
  <2>3. a[j] \in Int /\ g[q[j + 1]] \in Int
    BY <1>4, <1>6, <2>1
  <2> QED
    BY <2>1, <2>2, <2>3
<1>9. \A j \in 1 .. n : j \in T
  <2> HIDE DEF T
  <2> QED
    BY <1>1, <1>7, <1>8, IntervalInduction
<1> QED
  BY <1>2, <1>9 DEF n, f, a, b

(* The totals of a list from which a watchdog was taken: the one behind    *)
(* it inherits its lag.                                                    *)
LEMMA ElapsedRemove ==
    ASSUME NEW S, NEW q \in Seq(S), IsInjective(q), NEW g \in [S -> Int], NEW i \in 1 .. Len(q)
    PROVE  LET r == RemoveAt(q, i)
               f == Inherit(q, g, q[i])
           IN  /\ f \in [S -> Int]
               /\ \A j \in 1 .. Len(q) : j # i + 1 => f[q[j]] = g[q[j]]
               /\ i < Len(q) => f[q[i + 1]] = g[q[i + 1]] + g[q[i]]
               /\ \A j \in 0 .. Len(q) - 1 :
                    Elapsed(r, f)[j] = Elapsed(q, g)[IF j < i THEN j ELSE j + 1]
<1> DEFINE n == Len(q)
           r == RemoveAt(q, i)
           f == Inherit(q, g, q[i])
           a == Elapsed(q, g)
           b == Elapsed(r, f)
<1>1. n \in Nat /\ \A j \in 1 .. n : q[j] \in S /\ g[q[j]] \in Int
  OBVIOUS
<1>2. \A x, y \in 1 .. n : q[x] = q[y] => x = y
  BY DEF IsInjective
<1>3. f = IF i < n THEN [g EXCEPT ![q[i + 1]] = @ + g[q[i]]] ELSE g
  <2>1. (CHOOSE j \in 1 .. Len(q) : q[j] = q[i]) = i
    BY PositionLemma
  <2> QED
    BY <2>1 DEF Inherit
<1>4. f \in [S -> Int]
  <2>1. CASE i < n
    <3>1. i + 1 \in 1 .. n
      BY <1>1, <2>1
    <3> QED
      BY <1>1, <1>3, <2>1, <3>1
  <2> QED
    BY <1>3, <2>1
<1>5. i < n => f[q[i + 1]] = g[q[i + 1]] + g[q[i]]
  <2>1. SUFFICES ASSUME i < n PROVE f[q[i + 1]] = g[q[i + 1]] + g[q[i]]
    OBVIOUS
  <2>2. i + 1 \in 1 .. n
    BY <1>1, <2>1
  <2> QED
    BY <1>1, <1>3, <2>1, <2>2
<1>6. ASSUME NEW j \in 1 .. n, j # i + 1 PROVE f[q[j]] = g[q[j]]
  <2>1. CASE i < n
    <3>1. i + 1 \in 1 .. n
      BY <1>1, <2>1
    <3>2. q[j] # q[i + 1]
      BY <1>2, <1>6, <3>1
    <3> QED
      BY <1>1, <1>3, <2>1, <3>2
  <2> QED
    BY <1>3, <2>1
<1>7. /\ r \in Seq(S) /\ Len(r) = n - 1
      /\ \A j \in 1 .. n - 1 : r[j] = IF j < i THEN q[j] ELSE q[j + 1]
  BY RemoveLemma
<1>8. /\ a \in [0 .. n -> Int] /\ a[0] = 0
      /\ \A j \in 1 .. n : a[j] = a[j - 1] + g[q[j]]
  BY ElapsedLemma
<1> HIDE DEF r, f
<1>9. /\ b[0] = 0
      /\ \A j \in 1 .. n - 1 : b[j] = b[j - 1] + f[r[j]]
  <2>1. b[0] = 0 /\ \A j \in 1 .. Len(r) : b[j] = b[j - 1] + f[r[j]]
    BY <1>4, <1>7, ElapsedLemma
  <2> QED
    BY <1>7, <2>1
<1>10. i \in 1 .. n
  OBVIOUS
<1> HIDE DEF n, a, b
<1> DEFINE c(j) == IF j < i THEN j ELSE j + 1
           T == {j \in 0 .. n - 1 : b[j] = a[c(j)]}
<1>11. 0 \in T
  BY <1>1, <1>8, <1>9, <1>10
<1>12. ASSUME NEW j \in 0 .. (n - 1) - 1, j \in T PROVE j + 1 \in T
  <2>1. /\ j + 1 \in 1 .. n - 1 /\ j + 1 \in 0 .. n - 1 /\ (j + 1) - 1 = j
        /\ j + 1 \in 1 .. n /\ j + 2 \in 1 .. n /\ (j + 2) - 1 = j + 1 /\ (j + 1) + 1 = j + 2
        /\ j \in 0 .. n
    BY <1>1, <1>10
  <2>2. b[j + 1] = a[c(j)] + f[r[j + 1]]
    BY <1>9, <1>12, <2>1
  <2>3. /\ a[j + 1] = a[j] + g[q[j + 1]]
        /\ a[j + 2] = a[j + 1] + g[q[j + 2]]
        /\ a[j] \in Int /\ a[j + 1] \in Int /\ g[q[j + 1]] \in Int /\ g[q[j + 2]] \in Int
    BY <1>1, <1>8, <2>1, SMTT(30)
  <2>4. r[j + 1] = IF j + 1 < i THEN q[j + 1] ELSE q[j + 2]
    BY <1>7, <2>1
  <2>5. b[j + 1] = a[c(j + 1)]
    <3>1. CASE j + 1 < i
      <4>1. c(j) = j /\ c(j + 1) = j + 1 /\ j + 1 # i + 1
        BY <3>1, <1>10
      <4>2. f[r[j + 1]] = g[q[j + 1]]
        BY <1>6, <2>1, <2>4, <3>1, <4>1
      <4> QED
        BY <2>2, <2>3, <4>1, <4>2
    <3>2. CASE j + 1 = i
      <4>1. c(j) = j /\ c(j + 1) = j + 2 /\ i < n /\ i + 1 = j + 2
        BY <1>1, <1>10, <2>1, <3>2
      <4>2. f[r[j + 1]] = g[q[j + 2]] + g[q[j + 1]]
        BY <1>5, <2>4, <3>2, <4>1
      <4> QED
        BY <2>2, <2>3, <4>1, <4>2
    <3>3. CASE j + 1 > i
      <4>1. c(j) = j + 1 /\ c(j + 1) = j + 2 /\ j + 2 # i + 1
        BY <1>1, <1>10, <2>1, <3>3
      <4>2. f[r[j + 1]] = g[q[j + 2]]
        BY <1>6, <1>10, <2>1, <2>4, <3>3, <4>1
      <4> QED
        BY <2>2, <2>3, <4>1, <4>2
    <3> QED
      BY <1>1, <1>10, <2>1, <3>1, <3>2, <3>3
  <2> QED
    BY <2>1, <2>5
<1>13. \A j \in 0 .. n - 1 : j \in T
  <2>1. n - 1 \in Nat
    BY <1>1, <1>10
  <2> HIDE DEF T
  <2> QED
    BY <1>11, <1>12, <2>1, IntervalInduction
<1> QED
  BY <1>4, <1>5, <1>6, <1>13 DEF n, r, f, a, b

(* f are the lags after w was put in at i to expire in d ticks. *)
Spliced(q, g, w, d, i, f) ==
    /\ f \in [Dog -> Int]
    /\ f[w] = d - Elapsed(q, g)[i - 1]
    /\ \A j \in 1 .. Len(q) : j # i => f[q[j]] = g[q[j]]
    /\ i <= Len(q) => f[q[i]] = g[q[i]] - f[w]

(* The totals of a list into which w was put, d ticks from now.            *)
LEMMA ElapsedInsert ==
    ASSUME NEW q \in Seq(Dog), NEW g \in [Dog -> Int], NEW w \in Dog, NEW d \in Int,
           NEW i \in 1 .. Len(q) + 1, NEW f, Spliced(q, g, w, d, i, f)
    PROVE  \A j \in 0 .. Len(q) + 1 : Elapsed(InsertAt(q, i, w), f)[j] =
                IF j < i THEN Elapsed(q, g)[j] ELSE IF j = i THEN d ELSE Elapsed(q, g)[j - 1]
<1> DEFINE n == Len(q)
           r == InsertAt(q, i, w)
           a == Elapsed(q, g)
           b == Elapsed(r, f)
<1>1. n \in Nat /\ \A j \in 1 .. n : q[j] \in Dog /\ g[q[j]] \in Int
  OBVIOUS
<1>2. /\ r \in Seq(Dog) /\ Len(r) = n + 1
      /\ \A j \in 1 .. n + 1 : r[j] = IF j < i THEN q[j] ELSE IF j = i THEN w ELSE q[j - 1]
  BY <1>1, InsertLemma
<1>3. /\ a \in [0 .. n -> Int] /\ a[0] = 0
      /\ \A j \in 1 .. n : a[j] = a[j - 1] + g[q[j]]
  BY ElapsedLemma
<1> HIDE DEF r
<1>4. /\ b[0] = 0
      /\ \A j \in 1 .. n + 1 : b[j] = b[j - 1] + f[r[j]]
  <2>1. b[0] = 0 /\ \A j \in 1 .. Len(r) : b[j] = b[j - 1] + f[r[j]]
    BY <1>2, ElapsedLemma DEF Spliced
  <2> QED
    BY <1>2, <2>1
<1>5. /\ f \in [Dog -> Int]
      /\ f[w] = d - a[i - 1] /\ i \in 1 .. n + 1
      /\ \A j \in 1 .. n : j # i => f[q[j]] = g[q[j]]
      /\ i <= n => f[q[i]] = g[q[i]] - f[w]
  BY DEF Spliced
<1> HIDE DEF n, a, b
<1> DEFINE c(j) == IF j < i THEN a[j] ELSE IF j = i THEN d ELSE a[j - 1]
           T == {j \in 0 .. n + 1 : b[j] = c(j)}
<1>6. 0 \in T
  BY <1>1, <1>3, <1>4, <1>5
<1>7. ASSUME NEW j \in 0 .. (n + 1) - 1, j \in T PROVE j + 1 \in T
  <2>1. j \in 0 .. n /\ j + 1 \in 1 .. n + 1 /\ j + 1 \in 0 .. n + 1 /\ (j + 1) - 1 = j
    BY <1>1
  <2>2. b[j + 1] = c(j) + f[r[j + 1]]
    BY <1>4, <1>7, <2>1
  <2>3. a[j] \in Int
    BY <1>3, <2>1
  <2>4. r[j + 1] = IF j + 1 < i THEN q[j + 1] ELSE IF j + 1 = i THEN w ELSE q[j]
    BY <1>2, <2>1
  <2>5. b[j + 1] = c(j + 1)
    <3>1. CASE j + 1 < i
      <4>1. c(j) = a[j] /\ c(j + 1) = a[j + 1] /\ j + 1 \in 1 .. n /\ j + 1 # i
        BY <1>1, <1>5, <3>1
      <4>2. f[r[j + 1]] = g[q[j + 1]] /\ a[j + 1] = a[j] + g[q[j + 1]]
        BY <1>3, <1>5, <2>1, <2>4, <3>1, <4>1
      <4> QED
        BY <2>2, <4>1, <4>2
    <3>2. CASE j + 1 = i
      <4>1. c(j) = a[j] /\ c(j + 1) = d /\ i - 1 = j
        BY <1>1, <1>5, <3>2
      <4>2. f[r[j + 1]] = d - a[j]
        BY <1>5, <2>4, <3>2, <4>1
      <4> QED
        BY <2>2, <2>3, <4>1, <4>2
    <3>3. CASE j = i
      <4>1. c(j) = d /\ c(j + 1) = a[j] /\ i \in 1 .. n /\ i <= n
        BY <1>1, <1>5, <2>1, <3>3
      <4>2. r[j + 1] = q[i] /\ f[q[i]] = g[q[i]] - (d - a[i - 1]) /\ a[i] = a[i - 1] + g[q[i]]
        <5>1. ~(j + 1 < i) /\ j + 1 # i
          BY <1>5, <3>3
        <5> QED
          BY <1>3, <1>5, <2>4, <3>3, <4>1, <5>1
      <4>3. a[i - 1] \in Int /\ g[q[i]] \in Int
        <5>1. i - 1 \in 0 .. n
          BY <1>1, <4>1
        <5> QED
          BY <1>1, <1>3, <4>1, <5>1
      <4> QED
        BY <2>2, <3>3, <4>1, <4>2, <4>3
    <3>4. CASE j > i
      <4>1. c(j) = a[j - 1] /\ c(j + 1) = a[j] /\ j \in 1 .. n /\ j # i
        BY <1>1, <1>5, <2>1, <3>4
      <4>2. f[r[j + 1]] = g[q[j]] /\ a[j] = a[j - 1] + g[q[j]]
        <5>1. ~(j + 1 < i) /\ j + 1 # i
          BY <1>5, <2>1, <3>4
        <5> QED
          BY <1>3, <1>5, <2>4, <4>1, <5>1
      <4> QED
        BY <2>2, <4>1, <4>2
    <3> QED
      BY <1>1, <1>5, <2>1, <3>1, <3>2, <3>3, <3>4
  <2> QED
    BY <2>1, <2>5
<1>8. \A j \in 0 .. n + 1 : j \in T
  <2>1. n + 1 \in Nat /\ 0 \in Nat
    BY <1>1
  <2> HIDE DEF T
  <2> QED
    BY <1>6, <1>7, <2>1, IntervalInduction
<1> QED
  BY <1>8 DEF n, r, a, b

-----------------------------------------------------------------------------
(* What the operations on the list do to its watchdogs. *)

(* A list of distinct watchdogs with their lags, none of them negative     *)
(* when steady; the ticks that w has left, and its place.                  *)
Chain(q, g) == q \in Seq(Dog) /\ IsInjective(q) /\ g \in [Dog -> Int]
Steady(q, g) == \A i \in 1 .. Len(q) : g[q[i]] >= 0
Waiting(q, g) == q # <<>> => g[q[1]] > 0
Pos(q, w) == CHOOSE j \in 1 .. Len(q) : q[j] = w
At(q, g, w) == Elapsed(q, g)[Pos(q, w)]

(* Taking a watchdog out leaves the others the time they have. *)
LEMMA RemovedLemma ==
    ASSUME NEW q, NEW g, Chain(q, g), NEW i \in 1 .. Len(q)
    PROVE  LET r == RemoveAt(q, i)
               f == Inherit(q, g, q[i])
           IN  /\ Chain(r, f)
               /\ Range(r) = Range(q) \ {q[i]}
               /\ \A v \in Range(r) : At(r, f, v) = At(q, g, v)
               /\ Steady(q, g) => Steady(r, f)
               /\ Steady(q, g) /\ Waiting(q, g) => Waiting(r, f)
<1> DEFINE n == Len(q)
           r == RemoveAt(q, i)
           f == Inherit(q, g, q[i])
<1>1. /\ q \in Seq(Dog) /\ IsInjective(q) /\ g \in [Dog -> Int]
      /\ n \in Nat /\ \A j \in 1 .. n : q[j] \in Dog /\ g[q[j]] \in Int
  BY DEF Chain
<1>2. /\ f \in [Dog -> Int]
      /\ \A j \in 1 .. n : j # i + 1 => f[q[j]] = g[q[j]]
      /\ i < n => f[q[i + 1]] = g[q[i + 1]] + g[q[i]]
      /\ \A j \in 0 .. n - 1 : Elapsed(r, f)[j] = Elapsed(q, g)[IF j < i THEN j ELSE j + 1]
  BY <1>1, ElapsedRemove, SMTT(30)
<1>3. /\ r \in Seq(Dog) /\ Len(r) = n - 1
      /\ \A j \in 1 .. n - 1 : r[j] = IF j < i THEN q[j] ELSE q[j + 1]
  BY <1>1, RemoveLemma
<1>4. IsInjective(r) /\ Range(r) = Range(q) \ {q[i]}
  BY <1>1, RemoveRange
<1>5. i \in 1 .. n
  OBVIOUS
<1> HIDE DEF n, r, f
<1>6. ASSUME NEW v \in Range(r) PROVE At(r, f, v) = At(q, g, v)
  <2>1. PICK j \in 1 .. n - 1 : r[j] = v
    BY <1>3, RangeLemma
  <2> DEFINE m == IF j < i THEN j ELSE j + 1
  <2>2. m \in 1 .. n /\ q[m] = v /\ j \in 0 .. n - 1 /\ j \in 1 .. Len(r)
    BY <1>1, <1>3, <2>1
  <2> HIDE DEF m
  <2>3. Pos(r, v) = j
    BY <1>3, <1>4, <2>1, <2>2, PositionLemma DEF Pos
  <2>4. Pos(q, v) = m
    BY <1>1, <2>2, PositionLemma DEF Pos, n
  <2>5. Elapsed(r, f)[j] = Elapsed(q, g)[m]
    BY <1>2, <2>2 DEF m
  <2> QED
    BY <2>3, <2>4, <2>5 DEF At
<1>7. ASSUME Steady(q, g) PROVE Steady(r, f)
  <2>1. \A j \in 1 .. n : g[q[j]] >= 0
    BY <1>7 DEF Steady, n
  <2>2. ASSUME NEW j \in 1 .. n, j # i PROVE f[q[j]] >= 0
    <3>1. CASE j = i + 1
      <4>1. i < n /\ q[j] = q[i + 1] /\ i + 1 \in 1 .. n
        BY <1>1, <1>5, <3>1
      <4> QED
        BY <1>1, <1>2, <1>5, <2>1, <4>1
    <3> QED
      BY <1>1, <1>2, <2>1, <3>1
  <2>3. ASSUME NEW j \in 1 .. n - 1 PROVE f[r[j]] >= 0
    <3>1. (IF j < i THEN j ELSE j + 1) \in 1 .. n /\ (IF j < i THEN j ELSE j + 1) # i
      BY <1>1, <1>5
    <3> QED
      BY <1>3, <2>2, <3>1
  <2> QED
    BY <1>3, <2>3 DEF Steady
<1>8. ASSUME Steady(q, g), Waiting(q, g) PROVE Waiting(r, f)
  <2>1. SUFFICES ASSUME r # <<>> PROVE f[r[1]] > 0
    BY DEF Waiting
  <2>2. n - 1 \in Nat \ {0} /\ 1 \in 1 .. n - 1 /\ 2 \in 1 .. n /\ 1 \in 1 .. n
    BY <1>1, <1>3, <2>1, EmptySeq
  <2>3. q # <<>>
    BY <2>2 DEF n
  <2>4. g[q[1]] > 0 /\ g[q[2]] >= 0
    BY <1>8, <2>2, <2>3 DEF Waiting, Steady, n
  <2>5. CASE i = 1
    <3>1. r[1] = q[2] /\ f[q[2]] = g[q[2]] + g[q[1]]
      <4>1. i < n /\ i + 1 = 2 /\ ~(1 < i) /\ 1 + 1 = 2
        BY <1>1, <2>2, <2>5
      <4> QED
        BY <1>2, <1>3, <2>2, <2>5, <4>1
    <3> QED
      BY <1>1, <2>2, <2>4, <3>1
  <2>6. CASE i > 1
    <3>1. r[1] = q[1] /\ f[q[1]] = g[q[1]]
      BY <1>2, <1>3, <1>5, <2>2, <2>6
    <3> QED
      BY <2>4, <3>1
  <2> QED
    BY <1>5, <2>5, <2>6
<1> QED
  BY <1>2, <1>3, <1>4, <1>6, <1>7, <1>8 DEF Chain, r, f

(* Putting a watchdog in leaves the others the time they have. *)
LEMMA SplicedLemma ==
    ASSUME NEW q, NEW g, Chain(q, g), NEW w \in Dog, w \notin Range(q), NEW d \in Int,
           NEW i \in 1 .. Len(q) + 1, NEW f, Spliced(q, g, w, d, i, f)
    PROVE  LET r == InsertAt(q, i, w)
           IN  /\ Chain(r, f)
               /\ Range(r) = Range(q) \cup {w}
               /\ At(r, f, w) = d
               /\ Pos(r, w) = i
               /\ \A j \in 1 .. Len(q) :
                    /\ At(r, f, q[j]) = At(q, g, q[j])
                    /\ At(q, g, q[j]) = Elapsed(q, g)[j]
                    /\ Pos(r, q[j]) = IF j < i THEN j ELSE j + 1
<1> DEFINE n == Len(q)
           r == InsertAt(q, i, w)
<1>1. /\ q \in Seq(Dog) /\ IsInjective(q) /\ g \in [Dog -> Int] /\ f \in [Dog -> Int]
      /\ n \in Nat /\ i \in 1 .. n + 1
  BY DEF Chain, Spliced
<1>2. /\ r \in Seq(Dog) /\ Len(r) = n + 1
      /\ \A j \in 1 .. n + 1 : r[j] = IF j < i THEN q[j] ELSE IF j = i THEN w ELSE q[j - 1]
  BY <1>1, InsertLemma
<1>3. IsInjective(r) /\ Range(r) = Range(q) \cup {w}
  BY <1>1, InsertRange
<1>4. \A j \in 0 .. n + 1 : Elapsed(r, f)[j] =
          IF j < i THEN Elapsed(q, g)[j] ELSE IF j = i THEN d ELSE Elapsed(q, g)[j - 1]
  BY <1>1, ElapsedInsert
<1> HIDE DEF n, r
<1>5. \A j \in 1 .. n + 1 : Pos(r, r[j]) = j
  BY <1>2, <1>3, PositionLemma DEF Pos
<1>6. r[i] = w /\ i \in 0 .. n + 1
  BY <1>1, <1>2
<1>7. Pos(r, w) = i /\ At(r, f, w) = d
  BY <1>1, <1>4, <1>5, <1>6 DEF At
<1>8. ASSUME NEW j \in 1 .. n
      PROVE  /\ At(r, f, q[j]) = At(q, g, q[j])
             /\ At(q, g, q[j]) = Elapsed(q, g)[j]
             /\ Pos(r, q[j]) = IF j < i THEN j ELSE j + 1
  <2> DEFINE m == IF j < i THEN j ELSE j + 1
  <2>1. m \in 1 .. n + 1 /\ m \in 0 .. n + 1 /\ m # i /\ (m < i => m = j) /\ (~(m < i) => m - 1 = j)
    BY <1>1
  <2>2. m = IF j < i THEN j ELSE j + 1
    OBVIOUS
  <2> HIDE DEF m
  <2>3. r[m] = q[j]
    BY <1>2, <2>1
  <2>4. Pos(r, q[j]) = m
    BY <1>5, <2>1, <2>3
  <2>5. Pos(q, q[j]) = j
    BY <1>1, PositionLemma DEF Pos, n
  <2>6. Elapsed(r, f)[m] = Elapsed(q, g)[j]
    BY <1>4, <2>1
  <2> QED
    BY <2>2, <2>4, <2>5, <2>6 DEF At
<1> QED
  BY <1>1, <1>2, <1>3, <1>7, <1>8 DEF Chain, n, r

(* The loops of wd_start() end, at the first watchdog that stops them. *)
LEMMA StopLemma ==
    ASSUME NEW q, NEW g, Chain(q, g), q # <<>>, NEW d \in Int
    PROVE  LET i == Stop(q, g, d)
               e == Elapsed(q, g)
           IN  /\ i \in 1 .. Len(q)
               /\ i < Len(q) => e[i] >= 0 /\ e[i] > d
               /\ \A j \in 1 .. i - 1 : e[j] < 0 \/ e[j] <= d
<1> DEFINE n == Len(q)
           e == Elapsed(q, g)
           T == {i \in 1 .. n : i < n => e[i] >= 0 /\ e[i] > d}
           stop(i) == /\ i < n => e[i] >= 0 /\ e[i] > d
                      /\ \A j \in 1 .. i - 1 : e[j] < 0 \/ e[j] <= d
<1>1. q \in Seq(Dog) /\ g \in [Dog -> Int] /\ n \in Nat \ {0}
  BY EmptySeq DEF Chain
<1>2. \A i \in 1 .. n : e[i] \in Int
  BY <1>1, ElapsedLemma
<1> HIDE DEF e, n
<1>3. n \in T /\ T \subseteq Nat
  BY <1>1
<1>4. PICK i \in T : \A j \in T : i <= j
  BY <1>3, LeastNat
<1>5. i \in 1 .. n /\ stop(i)
  <2>1. ASSUME NEW j \in 1 .. i - 1 PROVE e[j] < 0 \/ e[j] <= d
    <3>1. j \in 1 .. n /\ j \notin T /\ j < n
      BY <1>1, <1>4
    <3>2. ~(e[j] >= 0 /\ e[j] > d)
      BY <3>1
    <3> QED
      BY <1>2, <3>1, <3>2
  <2> QED
    BY <1>4, <2>1
<1>6. Stop(q, g, d) = CHOOSE j \in 1 .. n : stop(j)
  BY DEF Stop, e, n
<1>7. Stop(q, g, d) \in 1 .. n /\ stop(Stop(q, g, d))
  <2> HIDE DEF stop
  <2> QED
    BY <1>5, <1>6
<1> QED
  BY <1>7 DEF e, n

(* wd_start() puts w in at a place i; if no lag is negative, behind what   *)
(* expires by then and before what expires later.                          *)
LEMMA PlaceLemma ==
    ASSUME NEW q, NEW g, Chain(q, g), NEW w \in Dog, w \notin Range(q), NEW d \in Int
    PROVE  \E i \in 1 .. Len(q) + 1 : \E f :
             /\ Inserted(q, g, w, d) = <<InsertAt(q, i, w), f>>
             /\ Spliced(q, g, w, d, i, f)
             /\ Steady(q, g) /\ d >= 1 =>
                  /\ \A j \in 1 .. i - 1 : Elapsed(q, g)[j] <= d
                  /\ \A j \in i .. Len(q) : Elapsed(q, g)[j] > d
<1> DEFINE n == Len(q)
           e == Elapsed(q, g)
<1>1. /\ q \in Seq(Dog) /\ g \in [Dog -> Int] /\ n \in Nat
      /\ \A j \in 1 .. n : q[j] \in Dog /\ q[j] # w /\ g[q[j]] \in Int
  BY RangeLemma DEF Chain
<1>2. \A x, y \in 1 .. n : q[x] = q[y] => x = y
  BY DEF Chain, IsInjective
<1>3. e \in [0 .. n -> Int] /\ e[0] = 0 /\ \A j \in 1 .. n : e[j] = e[j - 1] + g[q[j]]
  BY <1>1, ElapsedLemma
<1>4. Steady(q, g) => \A j \in 0 .. n : \A k \in j .. n : e[j] <= e[k]
  BY <1>1, ElapsedMonotonic DEF Steady
<1>5. CASE q = <<>>
  <2> DEFINE f == [g EXCEPT ![w] = d]
  <2>1. Inserted(q, g, w, d) = <<<<w>>, f>>
    BY <1>5 DEF Inserted
  <2>2. n = 0 /\ 1 \in 1 .. n + 1
    BY <1>5
  <2>3. <<w>> = InsertAt(q, 1, w)
    <3>1. Append(q, w) = InsertAt(q, n + 1, w)
      BY <1>1, AppendIsInsert
    <3>2. Append(q, w) = <<w>>
      BY <1>5
    <3> QED
      BY <2>2, <3>1, <3>2
  <2>4. Spliced(q, g, w, d, 1, f)
    <3>1. f \in [Dog -> Int] /\ f[w] = d - e[1 - 1]
      <4>1. e[1 - 1] = 0 /\ f[w] = d
        BY <1>1, <1>3
      <4> QED
        BY <1>1, <4>1
    <3> QED
      BY <2>2, <3>1 DEF Spliced
  <2>5. (\A j \in 1 .. 1 - 1 : e[j] <= d) /\ (\A j \in 1 .. n : e[j] > d)
    BY <2>2
  <2> HIDE DEF f
  <2> QED
    BY <2>1, <2>2, <2>3, <2>4, <2>5
<1>6. CASE q # <<>>
  <2> DEFINE i == Stop(q, g, d)
             t == d - (e[i] - g[q[i]])
  <2>1. /\ i \in 1 .. n
        /\ i < n => e[i] >= 0 /\ e[i] > d
        /\ \A j \in 1 .. i - 1 : e[j] < 0 \/ e[j] <= d
    BY <1>6, StopLemma
  <2>2. Inserted(q, g, w, d) =
          IF d < e[i] THEN <<InsertAt(q, i, w), [g EXCEPT ![w] = t, ![q[i]] = @ - t]>>
          ELSE <<Append(q, w), [g EXCEPT ![w] = d - e[i]]>>
    BY <1>6 DEF Inserted
  <2>3. e[i] = e[i - 1] + g[q[i]] /\ e[i - 1] \in Int /\ e[i] \in Int /\ g[q[i]] \in Int
    <3>1. i - 1 \in 0 .. n /\ i \in 0 .. n
      BY <1>1, <2>1
    <3> QED
      BY <1>1, <1>3, <2>1, <3>1
  <2>4. t \in Int /\ t = d - e[i - 1]
    BY <2>3
  <2>5. Steady(q, g) => \A j \in 1 .. i - 1 : e[j] <= d
    <3>1. SUFFICES ASSUME Steady(q, g), NEW j \in 1 .. i - 1 PROVE e[j] <= d
      OBVIOUS
    <3>2. j \in 0 .. n /\ e[0] <= e[j]
      BY <1>1, <1>4, <2>1, <3>1
    <3>3. e[j] \in Int /\ (e[j] < 0 \/ e[j] <= d)
      BY <1>3, <2>1, <3>2
    <3> QED
      BY <1>3, <3>2, <3>3
  <2> HIDE DEF t, i, e, n
  <2>6. CASE d < e[i]
    <3> DEFINE f == [g EXCEPT ![w] = t, ![q[i]] = @ - t]
    <3>1. Inserted(q, g, w, d) = <<InsertAt(q, i, w), f>>
      BY <2>2, <2>6
    <3>2. Spliced(q, g, w, d, i, f)
      <4>1. f \in [Dog -> Int] /\ f[w] = t /\ f[q[i]] = g[q[i]] - t
        BY <1>1, <2>1, <2>3, <2>4, SMTT(30)
      <4>2. ASSUME NEW j \in 1 .. n, j # i PROVE f[q[j]] = g[q[j]]
        BY <1>1, <1>2, <2>1, <4>2
      <4> HIDE DEF f
      <4> QED
        BY <2>4, <4>1, <4>2 DEF Spliced, e, n
    <3>3. Steady(q, g) => \A j \in i .. n : e[j] > d
      <4>1. SUFFICES ASSUME Steady(q, g), NEW j \in i .. n PROVE e[j] > d
        OBVIOUS
      <4>2. i \in 0 .. n /\ j \in 0 .. n
        BY <1>1, <2>1
      <4>3. e[i] <= e[j] /\ e[j] \in Int
        BY <1>3, <1>4, <4>1, <4>2
      <4> QED
        BY <2>3, <2>6, <4>3
    <3>4. i \in 1 .. n + 1
      BY <1>1, <2>1
    <3> HIDE DEF f
    <3> QED
      BY <2>5, <3>1, <3>2, <3>3, <3>4 DEF e, n
  <2>7. CASE ~(d < e[i])
    <3> DEFINE f == [g EXCEPT ![w] = d - e[i]]
    <3>1. i = n
      BY <1>1, <2>1, <2>3, <2>7
    <3>2. Inserted(q, g, w, d) = <<InsertAt(q, n + 1, w), f>>
      BY <1>1, <2>2, <2>7, AppendIsInsert DEF n
    <3>3. Spliced(q, g, w, d, n + 1, f)
      <4>1. f \in [Dog -> Int] /\ f[w] = d - e[(n + 1) - 1]
        <5>1. (n + 1) - 1 = i
          BY <1>1, <3>1
        <5> QED
          BY <1>1, <2>3, <5>1
      <4>2. \A j \in 1 .. n : f[q[j]] = g[q[j]]
        BY <1>1
      <4>3. ~(n + 1 <= n)
        BY <1>1
      <4> HIDE DEF f
      <4> QED
        BY <4>1, <4>2, <4>3 DEF Spliced, e, n
    <3>4. Steady(q, g) => \A j \in 1 .. (n + 1) - 1 : e[j] <= d
      <4>1. SUFFICES ASSUME Steady(q, g), NEW j \in 1 .. n PROVE e[j] <= d
        BY <1>1
      <4>2. j < i \/ j = i
        BY <1>1, <3>1
      <4>3. j < i => j \in 1 .. i - 1
        BY <2>1
      <4> QED
        BY <2>3, <2>5, <2>7, <4>1, <4>2, <4>3
    <3>5. n + 1 \in 1 .. n + 1 /\ \A j \in n + 1 .. n : e[j] > d
      BY <1>1
    <3> HIDE DEF f
    <3> QED
      BY <3>2, <3>3, <3>4, <3>5 DEF e, n
  <2> QED
    BY <2>6, <2>7
<1> QED
  BY <1>5, <1>6

(* wd_start() of a watchdog that is not on the list: it expires in d       *)
(* ticks, after those that expire then as well.                            *)
LEMMA InsertedLemma ==
    ASSUME NEW q, NEW g, Chain(q, g), NEW w \in Dog, w \notin Range(q), NEW d \in Int
    PROVE  LET r == Inserted(q, g, w, d)[1]
               f == Inserted(q, g, w, d)[2]
           IN  /\ Chain(r, f)
               /\ Range(r) = Range(q) \cup {w}
               /\ At(r, f, w) = d
               /\ \A v \in Range(q) : At(r, f, v) = At(q, g, v)
               /\ Steady(q, g) /\ d >= 1 =>
                    /\ Steady(r, f)
                    /\ Waiting(q, g) => Waiting(r, f)
                    /\ \A v \in Range(q) : At(q, g, v) = d => Pos(r, v) < Pos(r, w)
<1> DEFINE n == Len(q)
           e == Elapsed(q, g)
<1>1. PICK i \in 1 .. n + 1 : \E f :
         /\ Inserted(q, g, w, d) = <<InsertAt(q, i, w), f>>
         /\ Spliced(q, g, w, d, i, f)
         /\ Steady(q, g) /\ d >= 1 =>
              /\ \A j \in 1 .. i - 1 : e[j] <= d
              /\ \A j \in i .. n : e[j] > d
  BY PlaceLemma
<1>2. PICK f :
         /\ Inserted(q, g, w, d) = <<InsertAt(q, i, w), f>>
         /\ Spliced(q, g, w, d, i, f)
         /\ Steady(q, g) /\ d >= 1 =>
              /\ \A j \in 1 .. i - 1 : e[j] <= d
              /\ \A j \in i .. n : e[j] > d
  BY <1>1
<1> DEFINE r == InsertAt(q, i, w)
<1>3. /\ q \in Seq(Dog) /\ g \in [Dog -> Int] /\ n \in Nat /\ f \in [Dog -> Int]
      /\ \A j \in 1 .. n : q[j] \in Range(q) /\ q[j] \in Dog /\ g[q[j]] \in Int
      /\ \A v \in Range(q) : \E j \in 1 .. n : q[j] = v
  BY <1>2, RangeLemma DEF Chain, Spliced
<1>4. /\ Chain(r, f)
      /\ Range(r) = Range(q) \cup {w}
      /\ At(r, f, w) = d
      /\ Pos(r, w) = i
      /\ \A j \in 1 .. n :
           /\ At(r, f, q[j]) = At(q, g, q[j])
           /\ At(q, g, q[j]) = e[j]
           /\ Pos(r, q[j]) = IF j < i THEN j ELSE j + 1
  BY <1>2, SplicedLemma
<1>5. /\ r \in Seq(Dog) /\ Len(r) = n + 1
      /\ \A j \in 1 .. n + 1 : r[j] = IF j < i THEN q[j] ELSE IF j = i THEN w ELSE q[j - 1]
  <2>1. q \in Seq(Dog) /\ w \in Dog /\ i \in 1 .. Len(q) + 1
    BY <1>3
  <2> HIDE DEF n, r, e
  <2>2. /\ InsertAt(q, i, w) \in Seq(Dog) /\ Len(InsertAt(q, i, w)) = Len(q) + 1
        /\ \A j \in 1 .. Len(q) + 1 :
             InsertAt(q, i, w)[j] = IF j < i THEN q[j] ELSE IF j = i THEN w ELSE q[j - 1]
    BY <2>1, InsertLemma
  <2> QED
    BY <2>2 DEF n, r
<1>6. e \in [0 .. n -> Int] /\ e[0] = 0 /\ \A j \in 1 .. n : e[j] = e[j - 1] + g[q[j]]
  BY <1>3, ElapsedLemma, SMTT(30)
<1>7. /\ f[w] = d - e[i - 1]
      /\ \A j \in 1 .. n : j # i => f[q[j]] = g[q[j]]
      /\ i <= n => f[q[i]] = g[q[i]] - f[w]
  BY <1>2 DEF Spliced
<1> HIDE DEF r, e, n
<1>8. \A v \in Range(q) : At(r, f, v) = At(q, g, v)
  BY <1>3, <1>4
<1>9. ASSUME Steady(q, g), d >= 1
      PROVE  /\ Steady(r, f)
             /\ Waiting(q, g) => Waiting(r, f)
             /\ \A v \in Range(q) : At(q, g, v) = d => Pos(r, v) < Pos(r, w)
  <2>1. (\A j \in 1 .. i - 1 : e[j] <= d) /\ (\A j \in i .. n : e[j] > d)
    BY <1>2, <1>9
  <2>2. \A j \in 1 .. n : g[q[j]] >= 0
    BY <1>9 DEF Steady, n
  <2>3. e[i - 1] \in Int /\ e[i - 1] <= d
    <3>1. i - 1 \in 0 .. n /\ (i - 1 = 0 \/ i - 1 \in 1 .. i - 1)
      BY <1>3
    <3> QED
      BY <1>6, <1>9, <2>1, <3>1
  <2>4. f[w] >= 0
    BY <1>7, <2>3
  <2>5. i <= n => f[q[i]] >= 0
    <3>1. SUFFICES ASSUME i <= n PROVE f[q[i]] >= 0
      OBVIOUS
    <3>2. i \in 1 .. n /\ i \in 0 .. n /\ i \in i .. n
      BY <1>3, <3>1
    <3>3. e[i] > d /\ e[i] = e[i - 1] + g[q[i]] /\ g[q[i]] \in Int /\ e[i] \in Int
      BY <1>3, <1>6, <2>1, <3>2
    <3>4. f[q[i]] = g[q[i]] - (d - e[i - 1])
      BY <1>7, <3>1
    <3> QED
      BY <2>3, <3>3, <3>4
  <2>6. Steady(r, f)
    <3>1. ASSUME NEW j \in 1 .. n + 1 PROVE f[r[j]] >= 0
      <4>1. CASE j < i
        <5>1. j \in 1 .. n /\ j # i /\ r[j] = q[j]
          BY <1>3, <1>5, <4>1
        <5> QED
          BY <1>7, <2>2, <5>1
      <4>2. CASE j = i
        BY <1>5, <2>4, <4>2
      <4>3. CASE j > i
        <5>1. j - 1 \in 1 .. n /\ r[j] = q[j - 1]
          BY <1>3, <1>5, <4>3, SMTT(30)
        <5>2. CASE j - 1 = i
          BY <1>3, <2>5, <5>1, <5>2
        <5> QED
          BY <1>7, <2>2, <5>1, <5>2
      <4> QED
        BY <1>3, <4>1, <4>2, <4>3
    <3> QED
      BY <1>5, <3>1 DEF Steady
  <2>7. ASSUME Waiting(q, g) PROVE Waiting(r, f)
    <3>1. CASE i = 1
      <4>1. r[1] = w /\ f[w] = d
        <5>1. i - 1 = 0 /\ 1 \in 1 .. n + 1 /\ ~(1 < i)
          BY <1>3, <3>1
        <5>2. f[w] = d - e[0]
          BY <1>7, <5>1
        <5> QED
          BY <1>5, <1>6, <3>1, <5>1, <5>2
      <4> QED
        BY <1>9, <4>1 DEF Waiting
    <3>2. CASE i > 1
      <4>1. 1 \in 1 .. n /\ r[1] = q[1] /\ f[q[1]] = g[q[1]]
        BY <1>3, <1>5, <1>7, <3>2
      <4>2. q # <<>>
        BY <4>1 DEF n
      <4> QED
        BY <2>7, <4>1, <4>2 DEF Waiting
    <3> QED
      BY <1>3, <3>1, <3>2
  <2>8. ASSUME NEW v \in Range(q), At(q, g, v) = d PROVE Pos(r, v) < Pos(r, w)
    <3>1. PICK j \in 1 .. n : q[j] = v
      BY <1>3
    <3>2. e[j] = d
      BY <1>4, <2>8, <3>1
    <3>3. ~(j >= i)
      <4>1. j >= i => j \in i .. n
        BY <1>3
      <4> QED
        BY <2>1, <3>2, <4>1
    <3> QED
      BY <1>3, <1>4, <3>1, <3>3
  <2> QED
    BY <2>6, <2>7, <2>8
<1>10. Inserted(q, g, w, d)[1] = r /\ Inserted(q, g, w, d)[2] = f
  BY <1>2 DEF r
<1> QED
  BY <1>4, <1>8, <1>9, <1>10

-----------------------------------------------------------------------------
(* The list is sound: nothing overflows, unless a delay of IntMax is       *)
(* asked for; the flags and the list agree even then.                      *)

Listed == TypeOK /\ FlaggedIsListed

(* The list of a state, and the time that wd_gettime() finds. *)
LEMMA ListedChain ==
    ASSUME Listed
    PROVE  /\ Chain(active, lag) /\ flagged = Range(active)
           /\ \A w \in flagged : wd_gettime(w) = At(active, lag, w)
           /\ LagsSound <=> Steady(active, lag) /\ (~ expiring => Waiting(active, lag))
<1>1. Chain(active, lag) /\ flagged = Range(active)
  BY DEF Listed, TypeOK, FlaggedIsListed, Chain
<1>2. \A w \in flagged : wd_gettime(w) = At(active, lag, w)
  BY DEF wd_gettime, At, Now, Pos, IndexOf
<1>3. (\A w \in flagged : lag[w] >= 0) <=> Steady(active, lag)
  <2>1. active \in Seq(Dog)
    BY <1>1 DEF Chain
  <2>2. /\ \A i \in 1 .. Len(active) : active[i] \in flagged
        /\ \A w \in flagged : \E i \in 1 .. Len(active) : active[i] = w
    BY <1>1, <2>1, RangeLemma
  <2> QED
    BY <2>2 DEF Steady
<1> QED
  BY <1>1, <1>2, <1>3 DEF LagsSound, Waiting

(* wd_cancel() leaves the others the time they have. *)
LEMMA CancelledLemma ==
    ASSUME Listed, NEW w \in Dog
    PROVE  LET r == Cancelled(active, lag, w)[1]
               f == Cancelled(active, lag, w)[2]
           IN  /\ Chain(r, f)
               /\ Range(r) = flagged \ {w}
               /\ \A v \in Range(r) : At(r, f, v) = At(active, lag, v)
               /\ Steady(active, lag) => Steady(r, f)
               /\ Steady(active, lag) /\ Waiting(active, lag) => Waiting(r, f)
<1>1. Chain(active, lag) /\ flagged = Range(active)
  BY ListedChain
<1>2. CASE w \in flagged
  <2>1. active \in Seq(Dog) /\ IsInjective(active)
    BY <1>1 DEF Chain
  <2>2. PICK i \in 1 .. Len(active) : active[i] = w
    BY <1>1, <1>2, <2>1, RangeLemma
  <2>3. (CHOOSE j \in 1 .. Len(active) : active[j] = w) = i
    BY <2>1, <2>2, PositionLemma
  <2> DEFINE r == RemoveAt(active, i)
             f == Inherit(active, lag, w)
  <2>4. Cancelled(active, lag, w) = <<r, f>>
    BY <1>2, <2>3 DEF Cancelled
  <2>5. /\ Chain(r, f)
        /\ Range(r) = Range(active) \ {w}
        /\ \A v \in Range(r) : At(r, f, v) = At(active, lag, v)
        /\ Steady(active, lag) => Steady(r, f)
        /\ Steady(active, lag) /\ Waiting(active, lag) => Waiting(r, f)
    BY <1>1, <2>2, RemovedLemma
  <2> HIDE DEF r, f
  <2> QED
    BY <1>1, <2>4, <2>5
<1>3. CASE w \notin flagged
  <2>1. Cancelled(active, lag, w) = <<active, lag>>
    BY <1>3 DEF Cancelled
  <2>2. flagged \ {w} = flagged
    BY <1>3
  <2> QED
    BY <1>1, <2>1, <2>2
<1> QED
  BY <1>2, <1>3

-----------------------------------------------------------------------------
(* The pool. *)

(* The watchdogs of the pool that have owner x, of the owners o. *)
Owned(o, x) == {v \in Pool : o[v] = x}

(* Every part of the pool is finite; what is free and what tasks have do   *)
(* not overlap.                                                            *)
LEMMA OwnedLemma ==
    ASSUME NEW o
    PROVE  /\ \A x : IsFiniteSet(Owned(o, x)) /\ Cardinality(Owned(o, x)) \in Nat
           /\ Cardinality(Pool) \in Nat
           /\ Cardinality(Owned(o, "task")) + Cardinality(Owned(o, "none")) <= Cardinality(Pool)
<1>1. IsFiniteSet(Pool)
  BY WdogAssumption
<1>2. \A x : Owned(o, x) \in SUBSET Pool
  BY DEF Owned
<1>3. \A x : IsFiniteSet(Owned(o, x)) /\ Cardinality(Owned(o, x)) \in Nat
  BY <1>1, <1>2, FS_Subset, FS_CardinalityType
<1> DEFINE A == Owned(o, "task")
           B == Owned(o, "none")
<1>4. A \cap B = {}
  BY DEF Owned
<1>5. A \cup B \in SUBSET Pool /\ IsFiniteSet(A) /\ IsFiniteSet(B)
  BY <1>2, <1>3
<1> HIDE DEF A, B
<1>6. Cardinality(A \cup B) = Cardinality(A) + Cardinality(B) - Cardinality(A \cap B)
  BY <1>5, FS_Union
<1>7. Cardinality(A \cup B) <= Cardinality(Pool)
  BY <1>1, <1>5, FS_Subset
<1>8. Cardinality(A \cap B) = 0
  BY <1>4, FS_EmptySet
<1>9. Cardinality(Pool) \in Nat /\ Cardinality(A) \in Nat /\ Cardinality(B) \in Nat
  BY <1>1, <1>3, FS_CardinalityType DEF A, B
<1> QED
  BY <1>3, <1>6, <1>7, <1>8, <1>9 DEF A, B

(* The owners p are o with w handed to x. *)
Handed(o, w, x, p) == \A v \in Pool : p[v] = IF v = w THEN x ELSE o[v]

(* A watchdog of the pool changes hands. *)
LEMMA ChangeOwner ==
    ASSUME NEW o, NEW w, NEW x, NEW y, NEW p, Handed(o, w, x, p)
    PROVE  /\ w \notin Pool \/ (x = y <=> o[w] = y) =>
                Cardinality(Owned(p, y)) = Cardinality(Owned(o, y))
           /\ w \in Pool /\ x = y /\ o[w] # y =>
                Cardinality(Owned(p, y)) = Cardinality(Owned(o, y)) + 1
           /\ w \in Pool /\ x # y /\ o[w] = y =>
                Cardinality(Owned(p, y)) = Cardinality(Owned(o, y)) - 1
<1>1. \A v \in Pool : p[v] = IF v = w THEN x ELSE o[v]
  BY DEF Handed
<1>2. IsFiniteSet(Owned(o, y))
  BY OwnedLemma
<1>3. CASE w \notin Pool \/ (x = y <=> o[w] = y)
  <2>1. Owned(p, y) = Owned(o, y)
    BY <1>1, <1>3 DEF Owned
  <2> QED
    BY <1>3, <2>1
<1>4. CASE w \in Pool /\ x = y /\ o[w] # y
  <2>1. Owned(p, y) = Owned(o, y) \cup {w} /\ w \notin Owned(o, y)
    BY <1>1, <1>4 DEF Owned
  <2>2. Cardinality(Owned(o, y) \cup {w}) = Cardinality(Owned(o, y)) + 1
    BY <1>2, <2>1, FS_AddElement
  <2> QED
    BY <1>4, <2>1, <2>2
<1>5. CASE w \in Pool /\ x # y /\ o[w] = y
  <2>1. Owned(p, y) = Owned(o, y) \ {w} /\ w \in Owned(o, y)
    BY <1>1, <1>5 DEF Owned
  <2>2. Cardinality(Owned(o, y) \ {w}) = Cardinality(Owned(o, y)) - 1
    BY <1>2, <2>1, FS_RemoveElement
  <2> QED
    BY <1>5, <2>1, <2>2
<1> QED
  BY <1>3, <1>4, <1>5

(* The count of g_wdnfree, the free watchdogs and the reserve agree. *)
PoolOK(o, n) ==
    /\ n = Cardinality(Owned(o, "none"))
    /\ Cardinality(Owned(o, "task")) <= Cardinality(Pool) - Reserve

LEMMA PoolOKLemma == PoolSound <=> PoolOK(owner, nfree)
BY DEF PoolSound, PoolOK, FreeCounted, ReserveKept, Owned

(* wd_create() takes one from the pool only if it is there, for a task     *)
(* only beyond the reserve.                                                *)
LEMMA CreatePool ==
    ASSUME TypeOK, PoolSound, NEW w \in Dog, NEW isr \in BOOLEAN, wd_create(w, isr)
    PROVE  nfree' \in Nat /\ PoolSound'
<1> DEFINE x == IF isr THEN "isr" ELSE "task"
           p == [owner EXCEPT ![w] = x]
<1>1. /\ owner \in [Dog -> {"none", "task", "isr"}] /\ owner[w] = "none" /\ owner' = p
      /\ p = [owner EXCEPT ![w] = x]
      /\ x # "none" /\ nfree \in Nat /\ (x = "task" <=> ~ isr)
  BY DEF TypeOK, wd_create
<1>2. /\ nfree = Cardinality(Owned(owner, "none"))
      /\ Cardinality(Owned(owner, "task")) <= Cardinality(Pool) - Reserve
  BY PoolOKLemma DEF PoolOK
<1>3. /\ Cardinality(Owned(owner, "none")) \in Nat /\ Cardinality(Owned(owner, "task")) \in Nat
      /\ Cardinality(Pool) \in Nat
      /\ Cardinality(Owned(owner, "task")) + Cardinality(Owned(owner, "none")) <= Cardinality(Pool)
  BY OwnedLemma
<1>4. Cardinality(Owned(p, "none")) \in Nat
  BY OwnedLemma
<1> HIDE DEF x, p
<1>5. /\ Cardinality(Owned(p, "none")) =
            IF w \notin Pool THEN Cardinality(Owned(owner, "none"))
            ELSE Cardinality(Owned(owner, "none")) - 1
      /\ Cardinality(Owned(p, "task")) =
            IF w \notin Pool \/ isr THEN Cardinality(Owned(owner, "task"))
            ELSE Cardinality(Owned(owner, "task")) + 1
  <2>1. Handed(owner, w, x, p)
    <3>1. Pool \subseteq Dog
      BY DEF Dog
    <3> QED
      BY <1>1, <3>1 DEF Handed
  <2>2. \A y :
          /\ w \notin Pool \/ (x = y <=> owner[w] = y) =>
                Cardinality(Owned(p, y)) = Cardinality(Owned(owner, y))
          /\ w \in Pool /\ x = y /\ owner[w] # y =>
                Cardinality(Owned(p, y)) = Cardinality(Owned(owner, y)) + 1
          /\ w \in Pool /\ x # y /\ owner[w] = y =>
                Cardinality(Owned(p, y)) = Cardinality(Owned(owner, y)) - 1
    BY <2>1, ChangeOwner
  <2> QED
    BY <1>1, <2>2
<1>6. Reserve \in Nat /\ (w \in Heap => w \notin Pool)
  BY WdogAssumption
<1>7. \/ w \in Pool /\ (nfree > Reserve \/ isr) /\ nfree' = nfree - 1
      \/ w \in Heap /\ nfree <= Reserve /\ ~ isr /\ nfree' = nfree
  BY DEF wd_create
<1>8. PoolOK(p, nfree') /\ nfree' \in Nat
  BY <1>2, <1>3, <1>4, <1>5, <1>6, <1>7 DEF PoolOK
<1> QED
  BY <1>1, <1>8 DEF PoolSound, FreeCounted, ReserveKept, PoolOK, Owned

(* wd_delete() gives back what it took from the pool. *)
LEMMA DeletePool ==
    ASSUME TypeOK, PoolSound, NEW w \in Dog, wd_delete(w)
    PROVE  nfree' \in Nat /\ PoolSound'
<1> DEFINE p == [owner EXCEPT ![w] = "none"]
<1>1. /\ owner \in [Dog -> {"none", "task", "isr"}] /\ owner[w] # "none" /\ owner' = p
      /\ p = [owner EXCEPT ![w] = "none"]
      /\ nfree \in Nat /\ nfree' = IF w \in Pool THEN nfree + 1 ELSE nfree
  BY DEF TypeOK, wd_delete
<1>2. /\ nfree = Cardinality(Owned(owner, "none"))
      /\ Cardinality(Owned(owner, "task")) <= Cardinality(Pool) - Reserve
  BY PoolOKLemma DEF PoolOK
<1>3. /\ Cardinality(Owned(owner, "task")) \in Nat /\ Cardinality(Pool) \in Nat /\ Reserve \in Nat
  BY OwnedLemma, WdogAssumption
<1> HIDE DEF p
<1>4. /\ Cardinality(Owned(p, "none")) =
            IF w \notin Pool THEN Cardinality(Owned(owner, "none"))
            ELSE Cardinality(Owned(owner, "none")) + 1
      /\ Cardinality(Owned(p, "task")) =
            IF w \notin Pool \/ owner[w] # "task" THEN Cardinality(Owned(owner, "task"))
            ELSE Cardinality(Owned(owner, "task")) - 1
  <2>1. Handed(owner, w, "none", p)
    <3>1. Pool \subseteq Dog
      BY DEF Dog
    <3> QED
      BY <1>1, <3>1 DEF Handed
  <2>2. \A y :
          /\ w \notin Pool \/ ("none" = y <=> owner[w] = y) =>
                Cardinality(Owned(p, y)) = Cardinality(Owned(owner, y))
          /\ w \in Pool /\ "none" = y /\ owner[w] # y =>
                Cardinality(Owned(p, y)) = Cardinality(Owned(owner, y)) + 1
          /\ w \in Pool /\ "none" # y /\ owner[w] = y =>
                Cardinality(Owned(p, y)) = Cardinality(Owned(owner, y)) - 1
    BY <2>1, ChangeOwner
  <2> QED
    BY <1>1, <2>2
<1>5. PoolOK(p, nfree') /\ nfree' \in Nat
  BY <1>1, <1>2, <1>3, <1>4 DEF PoolOK
<1> QED
  BY <1>1, <1>5 DEF PoolSound, FreeCounted, ReserveKept, PoolOK, Owned

-----------------------------------------------------------------------------
(* The steps, as effects on the list and on the time each watchdog has     *)
(* left.                                                                   *)

(* Left is what the watchdogs of a list have left, -1 for the others. *)
Left(q, g) == [w \in Dog |-> IF w \in Range(q) THEN At(q, g, w) ELSE -1]

(* The head is due first. *)
LEMMA LeftLemma ==
    ASSUME NEW q, NEW g, Chain(q, g)
    PROVE  /\ \A w \in Range(q) : w \in Dog /\ At(q, g, w) \in Int
           /\ Steady(q, g) <=> \A w \in Range(q) : g[w] >= 0
           /\ q # <<>> => q[1] \in Range(q) /\ At(q, g, q[1]) = g[q[1]] /\ g[q[1]] \in Int
           /\ Steady(q, g) => \A w \in Range(q) : At(q, g, w) >= g[q[1]] /\ g[q[1]] >= 0
<1> DEFINE n == Len(q)
           e == Elapsed(q, g)
<1>1. q \in Seq(Dog) /\ IsInjective(q) /\ g \in [Dog -> Int] /\ n \in Nat
  BY DEF Chain
<1>2. /\ \A i \in 1 .. n : q[i] \in Range(q)
      /\ \A w \in Range(q) : w \in Dog /\ \E i \in 1 .. n : q[i] = w
  BY <1>1, RangeLemma
<1>3. e \in [0 .. n -> Int] /\ e[0] = 0 /\ \A i \in 1 .. n : e[i] = e[i - 1] + g[q[i]]
  BY <1>1, ElapsedLemma
<1>4. \A i \in 1 .. n : At(q, g, q[i]) = e[i]
  BY <1>1, PositionLemma DEF At, Pos
<1>5. \A i \in 1 .. n : i \in 0 .. n /\ e[i] \in Int
  <2>1. \A i \in 1 .. n : i \in 0 .. n
    BY <1>1
  <2> HIDE DEF n, e
  <2> QED
    BY <1>3, <2>1
<1>6. \A w \in Range(q) : At(q, g, w) \in Int
  BY <1>2, <1>4, <1>5
<1>7. Steady(q, g) <=> \A w \in Range(q) : g[w] >= 0
  BY <1>2 DEF Steady
<1>8. 1 \in 1 .. n => e[1] = g[q[1]] /\ g[q[1]] \in Int
  <2>1. SUFFICES ASSUME 1 \in 1 .. n PROVE e[1] = g[q[1]] /\ g[q[1]] \in Int
    OBVIOUS
  <2>2. e[1] = e[1 - 1] + g[q[1]] /\ g[q[1]] \in Int /\ 1 - 1 = 0
    BY <1>1, <1>3, <2>1
  <2> QED
    BY <1>3, <2>2
<1>9. q # <<>> => 1 \in 1 .. n
  BY <1>1, EmptySeq
<1>10. ASSUME Steady(q, g), NEW w \in Range(q) PROVE At(q, g, w) >= g[q[1]] /\ g[q[1]] >= 0
  <2>1. PICK i \in 1 .. n : q[i] = w
    BY <1>2
  <2>2. 1 \in 1 .. n /\ 1 \in 0 .. n /\ i \in 1 .. n
    BY <1>1
  <2>3. e[1] <= e[i]
    BY <1>1, <1>10, <2>2, ElapsedMonotonic DEF Steady
  <2>4. g[q[1]] >= 0
    BY <1>10, <2>2 DEF Steady
  <2> QED
    BY <1>4, <1>5, <1>8, <2>1, <2>2, <2>3, <2>4
<1> QED
  BY <1>2, <1>4, <1>6, <1>7, <1>8, <1>9, <1>10

(* Delays that do not overflow wait at least one tick. *)
LEMMA ForcedLemma ==
    ASSUME NEW delay \in 0 .. MaxDelay
    PROVE  /\ Forced(delay) \subseteq Int
           /\ MaxDelay < IntMax =>
                Forced(delay) = {Timer!Ticks(delay)} /\ \A d \in Forced(delay) : d >= 1
<1>1. IntMax \in Nat \ {0} /\ MaxDelay \in 0 .. IntMax
  BY WdogAssumption
<1> QED
  BY <1>1 DEF Forced, Timer!Ticks

(* wd_start() gives w the delay asked for. *)
LEMMA StartEffect ==
    ASSUME Listed, NEW w \in Dog, NEW delay \in 0 .. MaxDelay, wd_start(w, delay)
    PROVE  \E d \in Forced(delay) :
             /\ Chain(active', lag') /\ flagged' = Range(active')
             /\ Left(active', lag') = [Left(active, lag) EXCEPT ![w] = d]
             /\ Steady(active, lag) /\ d >= 1 =>
                  /\ Steady(active', lag')
                  /\ Waiting(active, lag) => Waiting(active', lag')
                  /\ \A v \in flagged \ {w} : At(active, lag, v) = d => Pos(active', v) < Pos(active', w)
<1> DEFINE c == Cancelled(active, lag, w)
           q == c[1]
           g == c[2]
<1>1. PICK d \in Forced(delay) : Install(Inserted(q, g, w, d))
  BY DEF wd_start
<1>2. d \in Int
  BY ForcedLemma
<1>3. /\ Chain(q, g)
      /\ Range(q) = flagged \ {w}
      /\ \A v \in Range(q) : At(q, g, v) = At(active, lag, v)
      /\ Steady(active, lag) => Steady(q, g)
      /\ Steady(active, lag) /\ Waiting(active, lag) => Waiting(q, g)
  BY CancelledLemma
<1> HIDE DEF q, g
<1>4. /\ active' = Inserted(q, g, w, d)[1] /\ lag' = Inserted(q, g, w, d)[2]
      /\ flagged' = flagged \cup {w}
  BY <1>1 DEF Install, wd_start
<1>5. /\ Chain(active', lag')
      /\ Range(active') = Range(q) \cup {w}
      /\ At(active', lag', w) = d
      /\ \A v \in Range(q) : At(active', lag', v) = At(q, g, v)
      /\ Steady(q, g) /\ d >= 1 =>
           /\ Steady(active', lag')
           /\ Waiting(q, g) => Waiting(active', lag')
           /\ \A v \in Range(q) : At(q, g, v) = d => Pos(active', v) < Pos(active', w)
  BY <1>2, <1>3, <1>4, InsertedLemma
<1>6. flagged = Range(active)
  BY ListedChain
<1>7. Left(active', lag') = [Left(active, lag) EXCEPT ![w] = d]
  BY <1>3, <1>5, <1>6 DEF Left
<1> QED
  BY <1>3, <1>4, <1>5, <1>7

(* wd_cancel(), and wd_delete(), stop w and nothing else. *)
LEMMA CancelEffect ==
    ASSUME Listed, NEW w \in Dog, Install(Cancelled(active, lag, w)), flagged' = flagged \ {w}
    PROVE  /\ Chain(active', lag') /\ flagged' = Range(active')
           /\ Left(active', lag') = [Left(active, lag) EXCEPT ![w] = -1]
           /\ Steady(active, lag) => Steady(active', lag')
           /\ Steady(active, lag) /\ Waiting(active, lag) => Waiting(active', lag')
<1>1. active' = Cancelled(active, lag, w)[1] /\ lag' = Cancelled(active, lag, w)[2]
  BY DEF Install
<1>2. /\ Chain(active', lag')
      /\ Range(active') = flagged \ {w}
      /\ \A v \in Range(active') : At(active', lag', v) = At(active, lag, v)
      /\ Steady(active, lag) => Steady(active', lag')
      /\ Steady(active, lag) /\ Waiting(active, lag) => Waiting(active', lag')
  BY <1>1, CancelledLemma
<1>3. flagged = Range(active)
  BY ListedChain
<1>4. Left(active', lag') = [Left(active, lag) EXCEPT ![w] = -1]
  BY <1>2, <1>3 DEF Left
<1> QED
  BY <1>2, <1>4

(* A tick takes one from all. *)
LEMMA TickEffect ==
    ASSUME Listed, wd_timer
    PROVE  /\ Chain(active', lag') /\ flagged' = Range(active')
           /\ \A w \in flagged : At(active', lag', w) = At(active, lag, w) - 1
           /\ Steady(active, lag) /\ Waiting(active, lag) => Steady(active', lag')
<1>1. Chain(active, lag) /\ flagged = Range(active)
  BY ListedChain
<1>2. /\ active # <<>> /\ active' = active /\ flagged' = flagged
      /\ lag' = [lag EXCEPT ![active[1]] = @ - 1]
  BY DEF wd_timer
<1>3. active \in Seq(Dog) /\ IsInjective(active) /\ lag \in [Dog -> Int]
  BY <1>1 DEF Chain
<1>4. /\ lag' \in [Dog -> Int]
      /\ \A j \in 1 .. Len(active) : Elapsed(active, lag')[j] = Elapsed(active, lag)[j] - 1
  <2> DEFINE f == Ticked(active, lag)
  <2>1. /\ f \in [Dog -> Int]
        /\ \A j \in 1 .. Len(active) : Elapsed(active, f)[j] = Elapsed(active, lag)[j] - 1
    BY <1>2, <1>3, ElapsedTick
  <2>2. lag' = f
    BY <1>2 DEF Ticked
  <2> HIDE DEF f
  <2> QED
    BY <2>1, <2>2
<1>5. \A w \in flagged : Pos(active, w) \in 1 .. Len(active)
  <2>1. \A w \in flagged : \E i \in 1 .. Len(active) : active[i] = w
    BY <1>1, <1>3, RangeLemma
  <2> QED
    BY <2>1 DEF Pos
<1>6. \A w \in flagged : At(active', lag', w) = At(active, lag, w) - 1
  BY <1>2, <1>4, <1>5 DEF At
<1>7. ASSUME Steady(active, lag), Waiting(active, lag) PROVE Steady(active', lag')
  <2>1. lag[active[1]] > 0 /\ lag[active[1]] \in Int
    BY <1>1, <1>2, <1>7, LeftLemma DEF Waiting
  <2>2. \A j \in 1 .. Len(active) : lag'[active[j]] >= 0
    BY <1>2, <1>3, <1>7, <2>1 DEF Steady
  <2> QED
    BY <1>2, <2>2 DEF Steady
<1> QED
  BY <1>1, <1>2, <1>3, <1>4, <1>6, <1>7 DEF Chain

(* The head of the list is stopped when it expires. *)
LEMMA ExpireEffect ==
    ASSUME Listed, wd_expiration
    PROVE  /\ Chain(active', lag') /\ flagged' = Range(active')
           /\ Left(active', lag') = [Left(active, lag) EXCEPT ![active[1]] = -1]
           /\ Steady(active, lag) => Steady(active', lag')
<1>1. Chain(active, lag) /\ flagged = Range(active)
  BY ListedChain
<1>2. /\ active # <<>> /\ active' = Tail(active) /\ flagged' = flagged \ {active[1]}
      /\ lag' = Inherit(active, lag, active[1])
  BY DEF wd_expiration, Expired
<1>3. active \in Seq(Dog) /\ 1 \in 1 .. Len(active)
  BY <1>1, <1>2, EmptySeq DEF Chain
<1>4. active' = RemoveAt(active, 1)
  BY <1>2, <1>3, TailIsRemove
<1>5. /\ Chain(active', lag')
      /\ Range(active') = flagged \ {active[1]}
      /\ \A v \in Range(active') : At(active', lag', v) = At(active, lag, v)
      /\ Steady(active, lag) => Steady(active', lag')
  <2> DEFINE r == RemoveAt(active, 1)
             f == Inherit(active, lag, active[1])
  <2>1. /\ Chain(r, f)
        /\ Range(r) = Range(active) \ {active[1]}
        /\ \A v \in Range(r) : At(r, f, v) = At(active, lag, v)
        /\ Steady(active, lag) => Steady(r, f)
    BY <1>1, <1>3, RemovedLemma
  <2> HIDE DEF r, f
  <2>2. active' = r /\ lag' = f
    BY <1>2, <1>4 DEF r, f
  <2> QED
    BY <1>1, <2>1, <2>2
<1>6. Left(active', lag') = [Left(active, lag) EXCEPT ![active[1]] = -1]
  BY <1>1, <1>5 DEF Left
<1> QED
  BY <1>2, <1>5, <1>6

-----------------------------------------------------------------------------
(* The inductive invariants.  Inv holds whatever delays are asked for,     *)
(* Sound unless one of IntMax is: that one may wrap around.                *)
Inv == Listed /\ PoolSound
Sound == Inv /\ LagsSound

(* What the next state needs for Listed. *)
LEMMA ListedNext ==
    ASSUME TypeOK, Chain(active', lag'), flagged' = Range(active'),
           owner' \in [Dog -> {"none", "task", "isr"}], nfree' \in Nat,
           \A w \in flagged' : owner'[w] # "none",
           expiring' \in BOOLEAN, fn' \in Dog \cup {None}
    PROVE  Listed'
<1>1. active' \in Seq(Dog) /\ lag' \in [Dog -> Int] /\ IsInjective(active')
  BY DEF Chain
<1>2. flagged' \subseteq Dog
  BY <1>1, RangeLemma
<1> QED
  BY <1>1, <1>2 DEF Listed, TypeOK, FlaggedIsListed

(* The next state's lags, from its list. *)
LEMMA LagsNext ==
    ASSUME Chain(active', lag'), flagged' = Range(active'),
           Steady(active', lag'), ~ expiring' => Waiting(active', lag')
    PROVE  LagsSound'
<1>1. \A w \in flagged' : lag'[w] >= 0
  BY LeftLemma
<1> QED
  BY <1>1 DEF LagsSound, Waiting

(* Steps that leave the pool alone. *)
LEMMA PoolFrame ==
    ASSUME PoolSound, UNCHANGED <<owner, nfree>>
    PROVE  PoolSound'
BY DEF PoolSound, FreeCounted, ReserveKept

LEMMA InitSound == Init => Sound
<1> SUFFICES ASSUME Init PROVE Sound
  OBVIOUS
<1>1. IsFiniteSet(Pool) /\ Cardinality(Pool) \in Nat /\ Reserve \in Nat /\ Reserve < Cardinality(Pool)
  BY WdogAssumption, FS_CardinalityType
<1>2. TypeOK
  <2>1. active \in Seq(Dog) /\ flagged \subseteq Dog /\ nfree \in Nat
    BY <1>1 DEF Init
  <2>2. lag \in [Dog -> Int] /\ owner \in [Dog -> {"none", "task", "isr"}]
    BY DEF Init
  <2>3. expiring \in BOOLEAN /\ fn \in Dog \cup {None}
    BY DEF Init
  <2> QED
    BY <2>1, <2>2, <2>3 DEF TypeOK
<1>3. FlaggedIsListed
  BY DEF Init, FlaggedIsListed, Range, IsInjective
<1>4. PoolSound
  <2>1. {w \in Pool : owner[w] = "none"} = Pool /\ {w \in Pool : owner[w] = "task"} = {}
    BY DEF Init, Dog
  <2>2. Cardinality({}) = 0
    BY FS_EmptySet
  <2>3. nfree = Cardinality(Pool)
    BY DEF Init
  <2>4. FreeCounted
    BY <2>1, <2>3 DEF FreeCounted
  <2>5. 0 <= Cardinality(Pool) - Reserve
    BY <1>1
  <2>6. ReserveKept
    BY <2>1, <2>2, <2>5 DEF ReserveKept
  <2> QED
    BY <2>4, <2>6 DEF PoolSound
<1>5. LagsSound
  BY DEF Init, LagsSound
<1> QED
  BY <1>2, <1>3, <1>4, <1>5 DEF Sound, Inv, Listed

(* Every step keeps the flags, the list and the pool in agreement, and,    *)
(* unless a delay wraps around, the lags sound.                            *)
LEMMA StepInv ==
    ASSUME Inv, [Next]_vars
    PROVE  /\ Inv'
           /\ MaxDelay < IntMax /\ LagsSound => LagsSound'
<1>1. Listed /\ TypeOK /\ PoolSound /\ Chain(active, lag) /\ flagged = Range(active)
  BY ListedChain DEF Inv, Listed
<1>2. LagsSound <=> Steady(active, lag) /\ (~ expiring => Waiting(active, lag))
  BY <1>1, ListedChain
<1>3. /\ \A w \in flagged : owner[w] # "none"
      /\ owner \in [Dog -> {"none", "task", "isr"}] /\ nfree \in Nat
      /\ expiring \in BOOLEAN /\ fn \in Dog \cup {None}
  BY <1>1 DEF Listed, TypeOK, FlaggedIsListed
<1>4. ASSUME NEW w \in Dog, NEW delay \in 0 .. MaxDelay, wd_start(w, delay)
      PROVE  Inv' /\ (MaxDelay < IntMax /\ LagsSound => LagsSound')
  <2>1. /\ UNCHANGED <<owner, nfree, expiring, fn>>
        /\ flagged' = flagged \cup {w} /\ owner[w] # "none"
    BY <1>4 DEF wd_start
  <2>2. PICK d \in Forced(delay) :
             /\ Chain(active', lag') /\ flagged' = Range(active')
             /\ Steady(active, lag) /\ d >= 1 =>
                  /\ Steady(active', lag')
                  /\ Waiting(active, lag) => Waiting(active', lag')
    BY <1>1, <1>4, StartEffect
  <2>3. Listed'
    BY <1>1, <1>3, <2>1, <2>2, ListedNext
  <2>4. PoolSound'
    BY <1>1, <2>1, PoolFrame
  <2>5. ASSUME MaxDelay < IntMax, LagsSound PROVE LagsSound'
    <3>1. d >= 1
      BY <2>5, ForcedLemma
    <3> QED
      BY <1>2, <2>1, <2>2, <2>5, <3>1, LagsNext
  <2> QED
    BY <2>3, <2>4, <2>5 DEF Inv
<1>5. ASSUME NEW w \in Dog, wd_cancel(w)
      PROVE  Inv' /\ (LagsSound => LagsSound')
  <2>1. /\ UNCHANGED <<owner, nfree, expiring, fn>>
        /\ flagged' = flagged \ {w} /\ Install(Cancelled(active, lag, w))
    BY <1>5 DEF wd_cancel
  <2>2. /\ Chain(active', lag') /\ flagged' = Range(active')
        /\ Steady(active, lag) => Steady(active', lag')
        /\ Steady(active, lag) /\ Waiting(active, lag) => Waiting(active', lag')
    BY <1>1, <2>1, CancelEffect
  <2>3. Listed'
    BY <1>1, <1>3, <2>1, <2>2, ListedNext
  <2>4. PoolSound'
    BY <1>1, <2>1, PoolFrame
  <2>5. LagsSound => LagsSound'
    BY <1>2, <2>1, <2>2, LagsNext
  <2> QED
    BY <2>3, <2>4, <2>5 DEF Inv
<1>6. ASSUME NEW w \in Dog, wd_delete(w)
      PROVE  Inv' /\ (LagsSound => LagsSound')
  <2>1. /\ UNCHANGED <<expiring, fn>> /\ owner' = [owner EXCEPT ![w] = "none"]
        /\ flagged' = flagged \ {w} /\ Install(Cancelled(active, lag, w))
    BY <1>6 DEF wd_delete
  <2>2. /\ Chain(active', lag') /\ flagged' = Range(active')
        /\ Steady(active, lag) => Steady(active', lag')
        /\ Steady(active, lag) /\ Waiting(active, lag) => Waiting(active', lag')
    BY <1>1, <2>1, CancelEffect
  <2>3. PoolSound' /\ nfree' \in Nat
    BY <1>1, <1>6, DeletePool
  <2>4. /\ owner' \in [Dog -> {"none", "task", "isr"}]
        /\ \A v \in flagged' : owner'[v] # "none"
    <3>1. flagged \subseteq Dog
      BY <1>1 DEF TypeOK
    <3> QED
      BY <1>3, <2>1, <3>1
  <2>5. Listed'
    BY <1>1, <1>3, <2>1, <2>2, <2>3, <2>4, ListedNext
  <2>6. LagsSound => LagsSound'
    BY <1>2, <2>1, <2>2, LagsNext
  <2> QED
    BY <2>3, <2>5, <2>6 DEF Inv
<1>7. ASSUME NEW w \in Dog, NEW isr \in BOOLEAN, wd_create(w, isr)
      PROVE  Inv' /\ (LagsSound => LagsSound')
  <2>1. /\ UNCHANGED <<active, lag, flagged, expiring, fn>>
        /\ owner' = [owner EXCEPT ![w] = IF isr THEN "isr" ELSE "task"]
    BY <1>7 DEF wd_create
  <2>2. PoolSound' /\ nfree' \in Nat
    BY <1>1, <1>7, CreatePool
  <2>3. /\ owner' \in [Dog -> {"none", "task", "isr"}]
        /\ \A v \in flagged' : owner'[v] # "none"
    <3>1. flagged \subseteq Dog
      BY <1>1 DEF TypeOK
    <3> QED
      BY <1>3, <2>1, <3>1
  <2>4. Listed'
    BY <1>1, <1>3, <2>1, <2>2, <2>3, ListedNext
  <2>5. LagsSound => LagsSound'
    BY <2>1 DEF LagsSound
  <2> QED
    BY <2>2, <2>4, <2>5 DEF Inv
<1>8. ASSUME wd_timer PROVE Inv' /\ (LagsSound => LagsSound')
  <2>1. /\ UNCHANGED <<active, flagged, owner, nfree, fn>> /\ ~ expiring /\ active # <<>>
        /\ lag' = [lag EXCEPT ![active[1]] = @ - 1]
        /\ expiring' = (lag[active[1]] - 1 <= 0)
    BY <1>8 DEF wd_timer
  <2>2. /\ Chain(active', lag') /\ flagged' = Range(active')
        /\ Steady(active, lag) /\ Waiting(active, lag) => Steady(active', lag')
    BY <1>1, <1>8, TickEffect
  <2>3. Listed'
    BY <1>1, <1>3, <2>1, <2>2, ListedNext
  <2>4. PoolSound'
    BY <1>1, <2>1, PoolFrame
  <2>5. ~ expiring' => Waiting(active', lag')
    <3>1. active[1] \in Dog /\ lag \in [Dog -> Int] /\ lag[active[1]] \in Int
      BY <1>1, <2>1, LeftLemma DEF Chain
    <3>2. lag'[active[1]] = lag[active[1]] - 1
      BY <2>1, <3>1
    <3>3. ~ expiring' => ~(lag[active[1]] - 1 <= 0)
      BY <2>1
    <3>4. ~ expiring' => lag'[active'[1]] > 0
      BY <2>1, <3>1, <3>2, <3>3
    <3> QED
      BY <3>4 DEF Waiting
  <2>6. LagsSound => LagsSound'
    BY <1>2, <2>1, <2>2, <2>5, LagsNext
  <2> QED
    BY <2>3, <2>4, <2>6 DEF Inv
<1>9. ASSUME wd_expiration PROVE Inv' /\ (LagsSound => LagsSound')
  <2>1. /\ UNCHANGED <<owner, nfree, expiring>> /\ expiring /\ active # <<>>
        /\ flagged' = flagged \ {active[1]} /\ fn' = active[1]
    BY <1>9 DEF wd_expiration, Expired
  <2>2. /\ Chain(active', lag') /\ flagged' = Range(active')
        /\ Steady(active, lag) => Steady(active', lag')
    BY <1>1, <1>9, ExpireEffect
  <2>3. fn' \in Dog \cup {None}
    BY <1>1, <2>1, LeftLemma
  <2>4. Listed'
    BY <1>1, <1>3, <2>1, <2>2, <2>3, ListedNext
  <2>5. PoolSound'
    BY <1>1, <2>1, PoolFrame
  <2>6. LagsSound => LagsSound'
    BY <1>2, <2>1, <2>2, LagsNext
  <2> QED
    BY <2>4, <2>5, <2>6 DEF Inv
<1>10. ASSUME ExpirationEnd PROVE Inv' /\ (LagsSound => LagsSound')
  <2>1. /\ UNCHANGED <<active, lag, flagged, owner, nfree>> /\ ~ Expired
        /\ expiring' = FALSE /\ fn' = None
    BY <1>10 DEF ExpirationEnd
  <2>2. Listed'
    BY <1>1, <1>3, <2>1, ListedNext
  <2>3. PoolSound'
    BY <1>1, <2>1, PoolFrame
  <2>4. active # <<>> => lag[active[1]] > 0
    BY <1>1, <2>1, LeftLemma DEF Expired
  <2>5. LagsSound => LagsSound'
    BY <2>1, <2>4 DEF LagsSound
  <2> QED
    BY <2>2, <2>3, <2>5 DEF Inv
<1>11. ASSUME UNCHANGED vars PROVE Inv' /\ (LagsSound => LagsSound')
  BY <1>11 DEF vars, Inv, Listed, TypeOK, FlaggedIsListed, PoolSound, FreeCounted, ReserveKept, LagsSound
<1> QED
  BY <1>4, <1>5, <1>6, <1>7, <1>8, <1>9, <1>10, <1>11 DEF Next

(* The flags, the list and the owners agree in every run, with any delay:  *)
(* what the ASSERT of wd_cancel() relies on.                               *)
THEOREM ListedHolds == Spec => []FlaggedIsListed
<1>1. Init => Inv
  BY InitSound DEF Sound
<1>2. Inv /\ [Next]_vars => Inv'
  BY StepInv
<1>3. Inv => FlaggedIsListed
  BY DEF Inv, Listed
<1> QED
  BY <1>1, <1>2, <1>3, PTL DEF Spec

(* g_wdnfree counts the free list, and tasks leave the reserve to the      *)
(* interrupt handlers, whatever the sizes of pool, heap and reserve.       *)
THEOREM PoolSoundHolds == Spec => []PoolSound
<1>1. Init => Inv
  BY InitSound DEF Sound
<1>2. Inv /\ [Next]_vars => Inv'
  BY StepInv
<1>3. Inv => PoolSound
  BY DEF Inv
<1> QED
  BY <1>1, <1>2, <1>3, PTL DEF Spec

(* The delta list stays sound under every mix of starts, stops, deletions  *)
(* and expirations, as long as no delay is IntMax.                         *)
THEOREM ListSoundHolds == ASSUME MaxDelay < IntMax PROVE Spec => []ListSound
<1>1. Init => Sound
  BY InitSound
<1>2. Sound /\ [Next]_vars => Sound'
  BY StepInv DEF Sound
<1>3. Sound => ListSound
  BY DEF Sound, Inv, Listed, ListSound
<1> QED
  BY <1>1, <1>2, <1>3, PTL DEF Spec

-----------------------------------------------------------------------------
(* Each watchdog is a timer of its own: Wdog implements WdogSpec.  The     *)
(* refinement mapping gives left[w] the value of wd_gettime(w).            *)

Bar == [w \in Dog |-> IF w \in flagged THEN wd_gettime(w) ELSE -1]

(* The mapping is the time left that the effects are stated about. *)
LEMMA BarLemma == (flagged = Range(active) => Bar = Left(active, lag))
BY DEF Bar, Left, wd_gettime, At, Now, Pos, IndexOf

LEMMA BarNext == ASSUME flagged' = Range(active') PROVE Bar' = Left(active', lag')
BY DEF Bar, Left, wd_gettime, At, Now, Pos, IndexOf

(* Every step of the list is a step of the timers, or leaves them alone. *)
LEMMA TimerStep ==
    ASSUME MaxDelay < IntMax, Sound, [Next]_vars
    PROVE  [Timer!Next]_(Timer!vars)
<1> DEFINE left == Left(active, lag)
           next == Left(active', lag')
<1>1. /\ Listed /\ Chain(active, lag) /\ flagged = Range(active)
      /\ Steady(active, lag) /\ (~ expiring => Waiting(active, lag))
  BY ListedChain DEF Sound, Inv
<1>2. Bar = left
  BY <1>1, BarLemma
<1>3. Runs => (expiring => fn # None)
  BY DEF Runs
<1>4. \A w \in Dog : left[w] = IF w \in flagged THEN At(active, lag, w) ELSE -1
  BY <1>1 DEF Left
<1>5. flagged' = Range(active') =>
        \A w \in Dog : next[w] = IF w \in flagged' THEN At(active', lag', w) ELSE -1
  BY DEF Left
<1>6. flagged' = Range(active') => Bar' = next
  BY BarNext
<1>7. flagged \subseteq Dog /\ \A w \in flagged : At(active, lag, w) \in Int
  BY <1>1, LeftLemma
<1>8. left \in [Dog -> Int] /\ DOMAIN next = Dog
  BY <1>4, <1>7 DEF Left
<1>9. Timer!vars = <<Bar, expiring, fn>>
  BY DEF Timer!vars, Bar
<1> HIDE DEF left, next
<1>10. ASSUME NEW w \in Dog, NEW delay \in 0 .. MaxDelay, wd_start(w, delay)
       PROVE  Timer!Start(w, delay)
  <2>1. PICK d \in Forced(delay) :
           flagged' = Range(active') /\ next = [left EXCEPT ![w] = d]
    BY <1>1, <1>10, StartEffect DEF left, next
  <2>2. d = Timer!Ticks(delay)
    BY ForcedLemma
  <2>3. Runs /\ UNCHANGED <<expiring, fn>>
    BY <1>10 DEF wd_start
  <2>4. Bar' = [Bar EXCEPT ![w] = Timer!Ticks(delay)]
    BY <1>2, <1>6, <2>1, <2>2
  <2> QED
    BY <1>3, <2>3, <2>4 DEF Timer!Start, Bar
<1>11. ASSUME NEW w \in Dog, wd_cancel(w) \/ wd_delete(w)
       PROVE  Timer!Stop(w)
  <2>1. /\ Install(Cancelled(active, lag, w)) /\ flagged' = flagged \ {w}
        /\ Runs /\ UNCHANGED <<expiring, fn>>
    BY <1>11 DEF wd_cancel, wd_delete
  <2>2. flagged' = Range(active') /\ next = [left EXCEPT ![w] = -1]
    BY <1>1, <2>1, CancelEffect DEF left, next
  <2>3. Bar' = [Bar EXCEPT ![w] = -1]
    BY <1>2, <1>6, <2>2
  <2> QED
    BY <1>3, <2>1, <2>3 DEF Timer!Stop, Bar
<1>12. ASSUME NEW w \in Dog, NEW isr \in BOOLEAN, wd_create(w, isr)
       PROVE  UNCHANGED Timer!vars
  <2>1. UNCHANGED <<active, lag, flagged, expiring, fn>>
    BY <1>12 DEF wd_create
  <2>2. Bar' = Bar
    BY <1>1, <1>2, <1>6, <2>1 DEF left, next
  <2> QED
    BY <1>9, <2>1, <2>2 DEF Timer!vars, Bar
<1>13. ASSUME wd_timer PROVE Timer!Tick
  <2>1. /\ ~ expiring /\ active # <<>> /\ flagged' = flagged /\ fn' = fn
        /\ expiring' = (lag[active[1]] - 1 <= 0)
    BY <1>13 DEF wd_timer
  <2>2. /\ flagged' = Range(active')
        /\ \A w \in flagged : At(active', lag', w) = At(active, lag, w) - 1
    BY <1>1, <1>13, TickEffect
  <2>3. /\ active[1] \in flagged /\ At(active, lag, active[1]) = lag[active[1]]
        /\ lag[active[1]] \in Int /\ lag[active[1]] > 0
        /\ \A w \in flagged : At(active, lag, w) >= lag[active[1]]
    BY <1>1, <2>1, LeftLemma DEF Waiting
  <2>4. \A w \in Dog : next[w] = IF left[w] > 0 THEN left[w] - 1 ELSE left[w]
    <3>1. ASSUME NEW w \in Dog PROVE next[w] = IF left[w] > 0 THEN left[w] - 1 ELSE left[w]
      <4>1. CASE w \in flagged
        <5>1. left[w] = At(active, lag, w) /\ next[w] = At(active, lag, w) - 1
          BY <1>4, <1>5, <2>1, <2>2, <4>1
        <5>2. At(active, lag, w) \in Int /\ At(active, lag, w) > 0
          BY <1>7, <2>3, <4>1
        <5> QED
          BY <5>1, <5>2
      <4>2. CASE w \notin flagged
        <5>1. left[w] = -1 /\ next[w] = -1
          BY <1>4, <1>5, <2>1, <2>2, <4>2
        <5> QED
          BY <5>1
      <4> QED
        BY <4>1, <4>2
    <3> QED
      BY <3>1
  <2>5. next = [w \in Dog |-> IF left[w] > 0 THEN left[w] - 1 ELSE left[w]]
    BY <1>8, <2>4 DEF next, Left
  <2>6. (lag[active[1]] - 1 <= 0) <=> \E w \in Dog : next[w] = 0
    <3>1. ASSUME lag[active[1]] - 1 <= 0 PROVE next[active[1]] = 0 /\ active[1] \in Dog
      <4>1. active[1] \in Dog /\ next[active[1]] = lag[active[1]] - 1
        BY <1>5, <1>7, <2>1, <2>2, <2>3
      <4> QED
        BY <2>3, <3>1, <4>1
    <3>2. ASSUME NEW w \in Dog, next[w] = 0 PROVE lag[active[1]] - 1 <= 0
      <4>1. w \in flagged
        BY <1>5, <2>1, <2>2, <3>2
      <4>2. At(active, lag, w) - 1 = 0 /\ At(active, lag, w) >= lag[active[1]] /\ At(active, lag, w) \in Int
        BY <1>5, <1>7, <2>1, <2>2, <2>3, <3>2, <4>1
      <4> QED
        BY <2>3, <4>2
    <3> QED
      BY <3>1, <3>2
  <2>7. expiring' = (\E w \in Dog : next[w] = 0)
    <3> DEFINE P == lag[active[1]] - 1 <= 0
               Q == \E w \in Dog : next[w] = 0
    <3>1. expiring' = P
      BY <2>1
    <3>2. (P <=> Q) /\ P \in BOOLEAN /\ Q \in BOOLEAN
      BY <2>6
    <3> HIDE DEF P, Q
    <3>3. expiring' = Q
      BY <3>1, <3>2
    <3> QED
      BY <3>3 DEF Q
  <2>8. Bar' = [w \in Dog |-> IF Bar[w] > 0 THEN Bar[w] - 1 ELSE Bar[w]]
    BY <1>2, <1>6, <2>2, <2>5
  <2>9. expiring' = (\E w \in Dog : Bar'[w] = 0)
    BY <1>6, <2>2, <2>7
  <2> QED
    BY <2>1, <2>8, <2>9 DEF Timer!Tick, Bar
<1>14. ASSUME wd_expiration PROVE \E w \in Dog : Timer!Expire(w)
  <2>1. expiring /\ active # <<>> /\ lag[active[1]] <= 0 /\ fn' = active[1] /\ expiring' = expiring
    BY <1>14 DEF wd_expiration, Expired
  <2>2. flagged' = Range(active') /\ next = [left EXCEPT ![active[1]] = -1]
    BY <1>1, <1>14, ExpireEffect DEF left, next
  <2>3. active[1] \in Dog /\ left[active[1]] = 0
    <3>1. /\ active[1] \in flagged /\ At(active, lag, active[1]) = lag[active[1]] /\ lag[active[1]] \in Int /\ lag[active[1]] >= 0
      BY <1>1, <2>1, LeftLemma
    <3> QED
      BY <1>4, <1>7, <2>1, <3>1
  <2>4. Bar' = [Bar EXCEPT ![active[1]] = -1] /\ Bar[active[1]] = 0
    BY <1>2, <1>6, <2>2, <2>3
  <2> QED
    BY <2>1, <2>3, <2>4 DEF Timer!Expire, Bar
<1>15. ASSUME ExpirationEnd PROVE Timer!End
  <2>1. /\ expiring /\ ~ Expired /\ expiring' = FALSE /\ fn' = None
        /\ UNCHANGED <<active, lag, flagged>>
    BY <1>15 DEF ExpirationEnd
  <2>2. \A w \in Dog : left[w] # 0
    <3>1. ASSUME NEW w \in Dog PROVE left[w] # 0
      <4>1. CASE w \in flagged
        <5>1. active # <<>>
          BY <1>1, <4>1 DEF Range
        <5>2. /\ lag[active[1]] \in Int /\ At(active, lag, w) >= lag[active[1]]
          BY <1>1, <4>1, <5>1, LeftLemma
        <5>3. lag[active[1]] > 0
          BY <2>1, <5>1, <5>2 DEF Expired
        <5> QED
          BY <1>4, <1>7, <4>1, <5>2, <5>3
      <4>2. CASE w \notin flagged
        BY <1>4, <4>2
      <4> QED
        BY <4>1, <4>2
    <3> QED
      BY <3>1
  <2>3. Bar' = Bar /\ \A w \in Dog : Bar[w] # 0
    BY <1>1, <1>2, <1>6, <2>1, <2>2 DEF left, next
  <2> QED
    BY <2>1, <2>3 DEF Timer!End, Bar
<1>16. ASSUME UNCHANGED vars PROVE UNCHANGED Timer!vars
  <2>1. UNCHANGED <<active, lag, flagged, expiring, fn>>
    BY <1>16 DEF vars
  <2>2. Bar' = Bar
    BY <1>1, <1>2, <1>6, <2>1 DEF left, next
  <2> QED
    BY <1>9, <2>1, <2>2 DEF Timer!vars, Bar
<1> QED
  BY <1>10, <1>11, <1>12, <1>13, <1>14, <1>15, <1>16 DEF Next, Timer!Next

(* A watchdog expires after exactly the ticks it was last started with,    *)
(* whatever the others do, for every number of watchdogs and every delay   *)
(* but IntMax.                                                             *)
THEOREM IsTimerHolds == ASSUME MaxDelay < IntMax PROVE Spec => IsTimer
<1>1. Init => Sound
  BY InitSound
<1>2. Sound /\ [Next]_vars => Sound'
  BY StepInv DEF Sound
<1>3. Init => Timer!Init
  BY DEF Init, Timer!Init
<1>4. Sound /\ [Next]_vars => [Timer!Next]_(Timer!vars)
  BY TimerStep
<1> QED
  BY <1>1, <1>2, <1>3, <1>4, PTL DEF Spec, IsTimer, Timer!Spec

-----------------------------------------------------------------------------
(* Watchdogs that are due together. *)

(* Only wd_start() puts a watchdog off, and it puts it behind the others   *)
(* that are due at that tick.                                              *)
LEMMA FifoStep ==
    ASSUME MaxDelay < IntMax, Sound, Next,
           NEW w \in flagged', w \notin flagged \/ wd_gettime(w)' > wd_gettime(w),
           NEW v \in flagged \ {w}, wd_gettime(v)' = wd_gettime(w)'
    PROVE  IndexOf(v)' < IndexOf(w)'
<1>1. /\ Listed /\ Chain(active, lag) /\ flagged = Range(active)
      /\ Steady(active, lag) /\ (~ expiring => Waiting(active, lag))
  BY ListedChain DEF Sound, Inv
<1>2. \A x \in flagged : x \in Dog /\ At(active, lag, x) \in Int
  BY <1>1, LeftLemma
<1>3. \A x : x \in flagged => wd_gettime(x) = At(active, lag, x)
  BY <1>1, ListedChain
<1>4. /\ \A x : x \in flagged' => wd_gettime(x)' = At(active', lag', x)
      /\ IndexOf(v)' = Pos(active', v) /\ IndexOf(w)' = Pos(active', w)
  BY DEF wd_gettime, At, Now, Pos, IndexOf
<1>5. ASSUME w \in flagged, At(active', lag', w) \in Int, At(active', lag', w) <= At(active, lag, w) PROVE FALSE
  <2>1. wd_gettime(w)' > wd_gettime(w)
    BY <1>5
  <2>2. wd_gettime(w) = At(active, lag, w) /\ At(active, lag, w) \in Int
    BY <1>2, <1>3, <1>5
  <2>3. wd_gettime(w)' = At(active', lag', w)
    BY <1>4
  <2>4. At(active', lag', w) > At(active, lag, w)
    BY <2>1, <2>2, <2>3
  <2>5. At(active', lag', w) \in Int
    BY <1>5
  <2> QED
    BY <1>5, <2>2, <2>4, <2>5
<1>6. flagged' = Range(active') =>
        \A x \in Dog : Left(active', lag')[x] = IF x \in flagged' THEN At(active', lag', x) ELSE -1
  BY DEF Left
<1>7. \A x \in Dog : Left(active, lag)[x] = IF x \in flagged THEN At(active, lag, x) ELSE -1
  BY <1>1 DEF Left
<1>8. DOMAIN Left(active, lag) = Dog
  BY DEF Left
<1>9. ASSUME NEW x \in Dog, flagged' = Range(active'), flagged' \subseteq flagged \ {x},
             Left(active', lag') = [Left(active, lag) EXCEPT ![x] = -1]
      PROVE  FALSE
  <2>1. w \in flagged /\ w # x /\ w \in Dog
    BY <1>2, <1>9
  <2>2. At(active', lag', w) = At(active, lag, w)
    BY <1>6, <1>7, <1>8, <1>9, <2>1
  <2> QED
    BY <1>2, <1>5, <2>1, <2>2
<1>10. ASSUME flagged' = flagged, active' = active, lag' = lag PROVE FALSE
  BY <1>2, <1>5, <1>10
<1>11. ASSUME NEW x \in Dog, NEW delay \in 0 .. MaxDelay, wd_start(x, delay)
       PROVE  IndexOf(v)' < IndexOf(w)'
  <2>1. PICK d \in Forced(delay) :
             /\ Chain(active', lag') /\ flagged' = Range(active')
             /\ Left(active', lag') = [Left(active, lag) EXCEPT ![x] = d]
             /\ Steady(active, lag) /\ d >= 1 =>
                  \A u \in flagged \ {x} : At(active, lag, u) = d => Pos(active', u) < Pos(active', x)
    BY <1>1, <1>11, StartEffect
  <2>2. d >= 1
    BY ForcedLemma
  <2>3. flagged' = flagged \cup {x}
    BY <1>11 DEF wd_start
  <2>4. \A u \in flagged' : At(active', lag', u) = IF u = x THEN d ELSE At(active, lag, u)
    BY <1>2, <1>6, <1>7, <1>8, <2>1, <2>3
  <2>5. w = x
    <3>1. ASSUME w # x PROVE FALSE
      <4>1. w \in flagged /\ At(active', lag', w) = At(active, lag, w)
        BY <2>3, <2>4, <3>1
      <4> QED
        BY <1>2, <1>5, <4>1
    <3> QED
      BY <3>1
  <2>6. v \in flagged' /\ v \in flagged \ {x} /\ At(active, lag, v) = d
    <3>1. v \in flagged' /\ v \in flagged \ {x} /\ v # x /\ x \in flagged'
      BY <2>3, <2>5
    <3>2. At(active', lag', v) = At(active', lag', x)
      BY <1>4, <2>5, <3>1
    <3> QED
      BY <2>4, <3>1, <3>2
  <2> QED
    BY <1>1, <1>4, <2>1, <2>2, <2>5, <2>6
<1>12. ASSUME NEW x \in Dog, wd_cancel(x) \/ wd_delete(x) PROVE FALSE
  <2>1. Install(Cancelled(active, lag, x)) /\ flagged' = flagged \ {x}
    BY <1>12 DEF wd_cancel, wd_delete
  <2>2. flagged' = Range(active') /\ Left(active', lag') = [Left(active, lag) EXCEPT ![x] = -1]
    BY <1>1, <2>1, CancelEffect
  <2> QED
    BY <1>9, <2>1, <2>2
<1>13. ASSUME NEW x \in Dog, NEW isr \in BOOLEAN, wd_create(x, isr) PROVE FALSE
  BY <1>10, <1>13 DEF wd_create
<1>14. ASSUME wd_timer PROVE FALSE
  <2>1. flagged' = flagged /\ \A u \in flagged : At(active', lag', u) = At(active, lag, u) - 1
    BY <1>1, <1>14, TickEffect DEF wd_timer
  <2> QED
    BY <1>2, <1>5, <2>1
<1>15. ASSUME wd_expiration PROVE FALSE
  <2>1. flagged' = flagged \ {active[1]} /\ active # <<>>
    BY <1>15 DEF wd_expiration, Expired
  <2>2. active[1] \in Dog
    BY <1>1, <2>1, LeftLemma
  <2>3. flagged' = Range(active') /\ Left(active', lag') = [Left(active, lag) EXCEPT ![active[1]] = -1]
    BY <1>1, <1>15, ExpireEffect
  <2> QED
    BY <1>9, <2>1, <2>2, <2>3
<1>16. ASSUME ExpirationEnd PROVE FALSE
  BY <1>10, <1>16 DEF ExpirationEnd
<1> QED
  BY <1>11, <1>12, <1>13, <1>14, <1>15, <1>16 DEF Next

(* Watchdogs that are due at the same tick expire in the order they were   *)
(* started in, for every number of watchdogs.                              *)
THEOREM FifoExpiryHolds == ASSUME MaxDelay < IntMax PROVE Spec => FifoExpiry
<1>1. Init => Sound
  BY InitSound
<1>2. Sound /\ [Next]_vars => Sound'
  BY StepInv DEF Sound
<1>3. Sound /\ [Next]_vars =>
        [ \A w \in flagged' :
            w \notin flagged \/ wd_gettime(w)' > wd_gettime(w) =>
              \A v \in flagged \ {w} :
                  wd_gettime(v)' = wd_gettime(w)' => IndexOf(v)' < IndexOf(w)' ]_vars
  BY FifoStep
<1> QED
  BY <1>1, <1>2, <1>3, PTL DEF Spec, FifoExpiry
=============================================================================
