----------------------------- MODULE ListLemmas ------------------------------
(* Facts about sequences and natural numbers that the proofs about the     *)
(* kernel's lists keep needing.                                            *)
EXTENDS Integers, Sequences, SequencesExt, FiniteSetsExt, TLAPS, SequenceTheorems,
        WellFoundedInduction, FiniteSetTheorems

-----------------------------------------------------------------------------
(* Sequences. *)

(* InsertAt shifts the elements from index i on by one. *)
LEMMA InsertLemma ==
    ASSUME NEW S, NEW s \in Seq(S), NEW e \in S, NEW i \in 1 .. Len(s) + 1
    PROVE  /\ InsertAt(s, i, e) \in Seq(S)
           /\ Len(InsertAt(s, i, e)) = Len(s) + 1
           /\ \A j \in 1 .. Len(s) + 1 :
                InsertAt(s, i, e)[j] = IF j < i THEN s[j] ELSE IF j = i THEN e ELSE s[j - 1]
<1> DEFINE f == SubSeq(s, 1, i - 1)
           g == SubSeq(s, i, Len(s))
<1>1. /\ f \in Seq(S) /\ Len(f) = i - 1
      /\ \A j \in 1 .. i - 1 : f[j] = s[j]
  <2>1. \A j \in 1 .. i - 1 : s[j] \in S
    OBVIOUS
  <2> QED
    BY <2>1, SubSeqProperties
<1>2. /\ g \in Seq(S) /\ Len(g) = Len(s) - i + 1
      /\ \A j \in 1 .. Len(s) - i + 1 : g[j] = s[i + j - 1]
  <2>1. \A j \in i .. Len(s) : s[j] \in S
    OBVIOUS
  <2> QED
    BY <2>1, SubSeqProperties
<1>3. /\ <<e>> \in Seq(S) /\ Len(<<e>>) = 1 /\ <<e>>[1] = e
  OBVIOUS
<1> HIDE DEF f, g
<1> DEFINE h == f \o <<e>>
<1>4. /\ h \in Seq(S) /\ Len(h) = i
      /\ \A j \in 1 .. i : h[j] = IF j <= i - 1 THEN s[j] ELSE e
  BY <1>1, <1>3, ConcatProperties
<1> HIDE DEF h
<1>5. /\ h \o g \in Seq(S) /\ Len(h \o g) = Len(s) + 1
      /\ \A j \in 1 .. Len(s) + 1 : (h \o g)[j] = IF j <= i THEN h[j] ELSE g[j - i]
  <2>1. /\ h \o g \in Seq(S) /\ Len(h \o g) = Len(h) + Len(g)
        /\ \A j \in 1 .. Len(h) + Len(g) :
             (h \o g)[j] = IF j <= Len(h) THEN h[j] ELSE g[j - Len(h)]
    BY <1>2, <1>4, ConcatProperties
  <2>2. Len(h) = i /\ Len(h) + Len(g) = Len(s) + 1
    BY <1>2, <1>4
  <2> QED
    BY <2>1, <2>2
<1>6. InsertAt(s, i, e) = h \o g
  BY DEF InsertAt, h, f, g
<1> QED
  BY <1>2, <1>4, <1>5, <1>6

(* RemoveAt closes the gap at index i. *)
LEMMA RemoveLemma ==
    ASSUME NEW S, NEW s \in Seq(S), NEW i \in 1 .. Len(s)
    PROVE  /\ RemoveAt(s, i) \in Seq(S)
           /\ Len(RemoveAt(s, i)) = Len(s) - 1
           /\ \A j \in 1 .. Len(s) - 1 :
                RemoveAt(s, i)[j] = IF j < i THEN s[j] ELSE s[j + 1]
<1> DEFINE f == SubSeq(s, 1, i - 1)
           g == SubSeq(s, i + 1, Len(s))
<1>1. /\ f \in Seq(S) /\ Len(f) = i - 1
      /\ \A j \in 1 .. i - 1 : f[j] = s[j]
  <2>1. \A j \in 1 .. i - 1 : s[j] \in S
    OBVIOUS
  <2> QED
    BY <2>1, SubSeqProperties
<1>2. /\ g \in Seq(S) /\ Len(g) = Len(s) - i
      /\ \A j \in 1 .. Len(s) - i : g[j] = s[i + j]
  <2>1. \A j \in i + 1 .. Len(s) : s[j] \in S
    OBVIOUS
  <2> QED
    BY <2>1, SubSeqProperties
<1> HIDE DEF f, g
<1>3. /\ f \o g \in Seq(S)
      /\ Len(f \o g) = Len(f) + Len(g)
      /\ \A j \in 1 .. Len(f) + Len(g) :
           (f \o g)[j] = IF j <= Len(f) THEN f[j] ELSE g[j - Len(f)]
  BY <1>1, <1>2, ConcatProperties
<1>4. RemoveAt(s, i) = f \o g
  BY DEF RemoveAt, f, g
<1>5. Len(f) + Len(g) = Len(s) - 1
  BY <1>1, <1>2
<1>6. ASSUME NEW j \in 1 .. Len(s) - 1
      PROVE  (f \o g)[j] = IF j < i THEN s[j] ELSE s[j + 1]
  <2>1. CASE j < i
    BY <1>1, <1>3, <1>5, <2>1
  <2>2. CASE ~(j < i)
    <3>1. (f \o g)[j] = g[j - (i - 1)]
      BY <1>1, <1>3, <1>5, <2>2
    <3>2. j - (i - 1) \in 1 .. Len(s) - i
      BY <2>2
    <3>3. g[j - (i - 1)] = s[i + (j - (i - 1))]
      BY <1>2, <3>2
    <3> QED
      BY <2>2, <3>1, <3>3
  <2> QED
    BY <2>1, <2>2
<1> QED
  BY <1>3, <1>4, <1>5, <1>6

(* A non-empty set of natural numbers has a least element. *)
LEMMA LeastNat ==
    ASSUME NEW T, T \subseteq Nat, T # {}
    PROVE  \E i \in T : \A j \in T : i <= j
<1> DEFINE R == {ss \in Nat \X Nat : ss[1] < ss[2]}
<1>1. IsWellFoundedOn(R, Nat)
  BY NatLessThanWellFounded DEF OpToRel
<1> HIDE DEF R
<1>2. PICK i \in T : \A j \in T : ~(<<j, i>> \in R)
  BY <1>1, WFMin
<1>3. ASSUME NEW j \in T, j < i PROVE FALSE
  <2>1. <<j, i>> \in Nat \X Nat /\ <<j, i>>[1] < <<j, i>>[2]
    BY <1>3
  <2>2. <<j, i>> \in R
    BY <2>1 DEF R
  <2> QED
    BY <1>2, <2>2
<1>4. ASSUME NEW j \in T PROVE i <= j
  BY <1>3
<1> QED
  BY <1>4

(* Min picks the least element. *)
LEMMA MinLemma ==
    ASSUME NEW T, T \subseteq Nat, T # {}
    PROVE  Min(T) \in T /\ \A j \in T : Min(T) <= j
<1>1. \E i \in T : \A j \in T : i <= j
  BY LeastNat
<1> QED
  BY <1>1 DEF Min

(* Induction over an interval, with the property as the set T of the       *)
(* numbers that have it.                                                   *)
LEMMA IntervalInduction ==
    ASSUME NEW m \in Nat, NEW n \in Nat, NEW T,
           m \in T, \A i \in m .. n - 1 : i \in T => i + 1 \in T
    PROVE  \A i \in m .. n : i \in T
<1> DEFINE C == {i \in m .. n : i \notin T}
<1>1. SUFFICES ASSUME C # {} PROVE FALSE
  OBVIOUS
<1>2. C \subseteq Nat
  OBVIOUS
<1> HIDE DEF C
<1>3. PICK i \in C : \A j \in C : i <= j
  BY <1>1, <1>2, LeastNat
<1>4. i \in m .. n /\ i \notin T /\ i # m
  BY <1>3 DEF C
<1>5. i - 1 \in m .. n - 1 /\ i - 1 \in m .. n /\ ~(i <= i - 1)
  BY <1>4
<1>6. i - 1 \in T
  BY <1>3, <1>5 DEF C
<1>7. (i - 1) + 1 \in T
  BY <1>5, <1>6
<1> QED
  BY <1>4, <1>7

(* An element of a list without duplicates is found at its index. *)
LEMMA PositionLemma ==
    ASSUME NEW S, NEW q \in Seq(S), IsInjective(q), NEW i \in 1 .. Len(q)
    PROVE  (CHOOSE j \in 1 .. Len(q) : q[j] = q[i]) = i
BY DEF IsInjective

(* The elements of a list are those at its indices. *)
LEMMA RangeLemma ==
    ASSUME NEW S, NEW q \in Seq(S)
    PROVE  /\ \A i \in 1 .. Len(q) : q[i] \in Range(q)
           /\ \A w \in Range(q) : \E i \in 1 .. Len(q) : q[i] = w
           /\ Range(q) \subseteq S
BY DEF Range

(* Putting in a new element keeps a list free of duplicates. *)
LEMMA InsertRange ==
    ASSUME NEW S, NEW q \in Seq(S), IsInjective(q),
           NEW w \in S, w \notin Range(q), NEW i \in 1 .. Len(q) + 1
    PROVE  /\ IsInjective(InsertAt(q, i, w))
           /\ Range(InsertAt(q, i, w)) = Range(q) \cup {w}
<1> DEFINE r == InsertAt(q, i, w)
<1>1. /\ r \in Seq(S) /\ Len(r) = Len(q) + 1
      /\ \A j \in 1 .. Len(q) + 1 : r[j] = IF j < i THEN q[j] ELSE IF j = i THEN w ELSE q[j - 1]
  BY InsertLemma
<1> HIDE DEF r
<1>2. /\ \A j \in 1 .. Len(q) : q[j] \in Range(q) /\ q[j] # w
      /\ \A v \in Range(q) : \E j \in 1 .. Len(q) : q[j] = v
      /\ \A j \in 1 .. Len(r) : r[j] \in Range(r)
      /\ \A v \in Range(r) : \E j \in 1 .. Len(r) : r[j] = v
  BY <1>1, RangeLemma
<1>3. Len(q) \in Nat /\ DOMAIN q = 1 .. Len(q) /\ DOMAIN r = 1 .. Len(q) + 1
  BY <1>1
<1>4. ASSUME NEW a \in 1 .. Len(q) + 1, NEW b \in 1 .. Len(q) + 1, r[a] = r[b] PROVE a = b
  <2>1. \A x, y \in 1 .. Len(q) : q[x] = q[y] => x = y
    BY <1>3 DEF IsInjective
  <2>2. CASE a = i \/ b = i
    BY <1>1, <1>2, <1>3, <1>4, <2>2
  <2>3. CASE a # i /\ b # i
    BY <1>1, <1>3, <1>4, <2>1, <2>3
  <2> QED
    BY <2>2, <2>3
<1>5. IsInjective(r)
  BY <1>3, <1>4 DEF IsInjective
<1>6. ASSUME NEW v \in Range(r) PROVE v \in Range(q) \cup {w}
  BY <1>1, <1>2, <1>3
<1>7. ASSUME NEW v \in Range(q) \cup {w} PROVE v \in Range(r)
  <2>1. CASE v = w
    BY <1>1, <1>2, <1>3, <2>1
  <2>2. CASE v \in Range(q)
    <3>1. PICK j \in 1 .. Len(q) : q[j] = v
      BY <1>2, <2>2
    <3>2. CASE j < i
      BY <1>1, <1>2, <1>3, <3>1, <3>2
    <3>3. CASE ~(j < i)
      <4>1. j + 1 \in 1 .. Len(q) + 1 /\ ~(j + 1 < i) /\ j + 1 # i /\ (j + 1) - 1 = j
        BY <1>3, <3>3
      <4> QED
        BY <1>1, <1>2, <3>1, <4>1
    <3> QED
      BY <3>2, <3>3
  <2> QED
    BY <2>1, <2>2
<1> QED
  BY <1>5, <1>6, <1>7 DEF r

(* Taking out an element takes it out of the elements of the list. *)
LEMMA RemoveRange ==
    ASSUME NEW S, NEW q \in Seq(S), IsInjective(q), NEW i \in 1 .. Len(q)
    PROVE  /\ IsInjective(RemoveAt(q, i))
           /\ Range(RemoveAt(q, i)) = Range(q) \ {q[i]}
<1> DEFINE r == RemoveAt(q, i)
<1>1. /\ r \in Seq(S) /\ Len(r) = Len(q) - 1
      /\ \A j \in 1 .. Len(q) - 1 : r[j] = IF j < i THEN q[j] ELSE q[j + 1]
  BY RemoveLemma
<1> HIDE DEF r
<1>2. /\ \A j \in 1 .. Len(q) : q[j] \in Range(q)
      /\ \A v \in Range(q) : \E j \in 1 .. Len(q) : q[j] = v
      /\ \A j \in 1 .. Len(r) : r[j] \in Range(r)
      /\ \A v \in Range(r) : \E j \in 1 .. Len(r) : r[j] = v
  BY <1>1, RangeLemma
<1>3. Len(q) \in Nat /\ DOMAIN q = 1 .. Len(q) /\ DOMAIN r = 1 .. Len(q) - 1
  BY <1>1
<1>4. \A x, y \in 1 .. Len(q) : q[x] = q[y] => x = y
  BY <1>3 DEF IsInjective
<1>5. IsInjective(r)
  <2>1. ASSUME NEW a \in 1 .. Len(q) - 1, NEW b \in 1 .. Len(q) - 1, r[a] = r[b] PROVE a = b
    <3>1. a \in 1 .. Len(q) /\ a + 1 \in 1 .. Len(q) /\ b \in 1 .. Len(q) /\ b + 1 \in 1 .. Len(q)
      BY <1>3
    <3> QED
      BY <1>1, <1>3, <1>4, <2>1, <3>1
  <2> QED
    BY <1>3, <2>1 DEF IsInjective
<1>6. ASSUME NEW v \in Range(r) PROVE v \in Range(q) \ {q[i]}
  <2>1. PICK j \in 1 .. Len(q) - 1 : r[j] = v
    BY <1>1, <1>2
  <2>2. j \in 1 .. Len(q) /\ j + 1 \in 1 .. Len(q)
    BY <1>3
  <2> QED
    BY <1>1, <1>2, <1>4, <2>1, <2>2
<1>7. ASSUME NEW v \in Range(q) \ {q[i]} PROVE v \in Range(r)
  <2>1. PICK j \in 1 .. Len(q) : q[j] = v
    BY <1>2
  <2>2. CASE j < i
    BY <1>1, <1>2, <1>3, <2>1, <2>2
  <2>3. CASE ~(j < i)
    <3>1. j - 1 \in 1 .. Len(q) - 1 /\ ~(j - 1 < i) /\ (j - 1) + 1 = j
      BY <1>3, <2>1, <2>3
    <3> QED
      BY <1>1, <1>2, <2>1, <3>1
  <2> QED
    BY <2>2, <2>3
<1> QED
  BY <1>5, <1>6, <1>7 DEF r

(* Appending is insertion at the end. *)
LEMMA AppendIsInsert ==
    ASSUME NEW S, NEW q \in Seq(S), NEW w \in S
    PROVE  Append(q, w) = InsertAt(q, Len(q) + 1, w)
<1> DEFINE r == InsertAt(q, Len(q) + 1, w)
<1>1. /\ r \in Seq(S) /\ Len(r) = Len(q) + 1
      /\ \A j \in 1 .. Len(q) + 1 :
           r[j] = IF j < Len(q) + 1 THEN q[j] ELSE IF j = Len(q) + 1 THEN w ELSE q[j - 1]
  BY InsertLemma
<1> HIDE DEF r
<1>2. /\ Append(q, w) \in Seq(S) /\ Len(Append(q, w)) = Len(q) + 1
      /\ \A j \in 1 .. Len(q) + 1 : Append(q, w)[j] = IF j <= Len(q) THEN q[j] ELSE w
  OBVIOUS
<1>3. \A j \in 1 .. Len(q) + 1 : Append(q, w)[j] = r[j]
  BY <1>1, <1>2
<1>4. Append(q, w) = r
  BY <1>1, <1>2, <1>3, SeqEqual
<1> QED
  BY <1>4 DEF r

(* Tail is removal at the head. *)
LEMMA TailIsRemove ==
    ASSUME NEW S, NEW q \in Seq(S), q # <<>>
    PROVE  Tail(q) = RemoveAt(q, 1)
<1>1. Len(q) \in Nat \ {0} /\ 1 \in 1 .. Len(q)
  BY EmptySeq
<1> DEFINE r == RemoveAt(q, 1)
<1>2. /\ r \in Seq(S) /\ Len(r) = Len(q) - 1
      /\ \A j \in 1 .. Len(q) - 1 : r[j] = IF j < 1 THEN q[j] ELSE q[j + 1]
  BY <1>1, RemoveLemma
<1> HIDE DEF r
<1>3. /\ Tail(q) \in Seq(S) /\ Len(Tail(q)) = Len(q) - 1
      /\ \A j \in 1 .. Len(q) - 1 : Tail(q)[j] = q[j + 1]
  BY HeadTailProperties
<1>4. \A j \in 1 .. Len(q) - 1 : Tail(q)[j] = r[j]
  BY <1>1, <1>2, <1>3
<1>5. Tail(q) = r
  BY <1>2, <1>3, <1>4, SeqEqual
<1> QED
  BY <1>5 DEF r

(* SetToSeq enumerates a finite set, every element once. *)
LEMMA Enumeration ==
    ASSUME NEW S, IsFiniteSet(S)
    PROVE  LET q == SetToSeq(S)
               n == Cardinality(S) IN
           /\ n \in Nat /\ q \in Seq(S) /\ Len(q) = n
           /\ \A i, j \in 1 .. n : q[i] = q[j] => i = j
           /\ \A x \in S : \E i \in 1 .. n : q[i] = x
<1> DEFINE n == Cardinality(S)
           q == SetToSeq(S)
<1>1. n \in Nat /\ IsFiniteSet(1 .. n) /\ Cardinality(1 .. n) = n
  BY FS_CardinalityType, FS_Interval
<1>2. ExistsBijection(1 .. n, S)
  BY FS_CardinalityType
<1>3. \E f \in [1 .. n -> S] : IsInjective(f)
  BY <1>2 DEF ExistsBijection, Bijection, Injection
<1>4. q \in [1 .. n -> S] /\ IsInjective(q)
  BY <1>3 DEF SetToSeq
<1> HIDE DEF q, n
<1>5. q \in Seq(S) /\ Len(q) = n
  BY <1>1, <1>4
<1>6. \A i, j \in 1 .. n : q[i] = q[j] => i = j
  BY <1>4 DEF IsInjective
<1>7. q \in Injection(1 .. n, S)
  BY <1>4 DEF Injection
<1>8. q \in Surjection(1 .. n, S)
  BY <1>1, <1>7, FS_Injection DEF n
<1>9. \A x \in S : \E i \in 1 .. n : q[i] = x
  BY <1>8 DEF Surjection
<1> QED
  BY <1>1, <1>5, <1>6, <1>9 DEF q, n

(* The top of a stack is its last element: Front takes it off, EXCEPT      *)
(* replaces it, Append puts another one on it.                             *)
LEMMA PushedLemma ==
    ASSUME NEW S, NEW s \in Seq(S), NEW e \in S
    PROVE  /\ Append(s, e) \in Seq(S) /\ Len(Append(s, e)) = Len(s) + 1 /\ Len(s) \in Nat
           /\ \A i \in 1 .. Len(s) : Append(s, e)[i] = s[i]
           /\ Append(s, e)[Len(s) + 1] = e
OBVIOUS

LEMMA TopLemma ==
    ASSUME NEW S, NEW s \in Seq(S), s # <<>>, NEW e \in S
    PROVE  /\ Len(s) \in Nat \ {0} /\ Last(s) = s[Len(s)] /\ s[Len(s)] \in S
           /\ Front(s) \in Seq(S) /\ Len(Front(s)) = Len(s) - 1
           /\ \A i \in 1 .. Len(s) - 1 : Front(s)[i] = s[i]
           /\ LET r == [s EXCEPT ![Len(s)] = e] IN
              /\ r \in Seq(S) /\ Len(r) = Len(s) /\ r[Len(s)] = e
              /\ \A i \in 1 .. Len(s) - 1 : r[i] = s[i]
<1>1. Len(s) \in Nat \ {0} /\ Last(s) = s[Len(s)] /\ s[Len(s)] \in S
  BY EmptySeq DEF Last
<1>2. /\ Front(s) \in Seq(S) /\ Len(Front(s)) = Len(s) - 1
      /\ \A i \in 1 .. Len(s) - 1 : Front(s)[i] = s[i]
  <2> DEFINE n == Len(s) - 1
  <2>1. n \in Nat /\ 1 \in Int /\ \A i \in 1 .. n : s[i] \in S
    BY <1>1
  <2> HIDE DEF n
  <2>2. n - 1 + 1 = n /\ \A i \in 1 .. n : 1 + i - 1 = i
    BY <2>1
  <2>3. (IF 1 <= n THEN n - 1 + 1 ELSE 0) = n
    BY <2>1
  <2>4. /\ SubSeq(s, 1, n) \in Seq(S)
        /\ Len(SubSeq(s, 1, n)) = n
        /\ \A i \in 1 .. n : SubSeq(s, 1, n)[i] = s[i]
    BY <2>1, <2>2, <2>3, SubSeqProperties
  <2> QED
    BY <2>4 DEF Front, n
<1> DEFINE r == [s EXCEPT ![Len(s)] = e]
<1>3. r \in Seq(S) /\ Len(r) = Len(s) /\ r[Len(s)] = e
  BY <1>1
<1>4. \A i \in 1 .. Len(s) - 1 : r[i] = s[i]
  BY <1>1
<1> QED
  BY <1>1, <1>2, <1>3, <1>4 DEF r
=============================================================================
