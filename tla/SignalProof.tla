----------------------------- MODULE SignalProof -----------------------------
(***************************************************************************)
(* Proofs about signals: for all sets of signals and structures, all       *)
(* handlers and masks, and handlers nested to any depth,                   *)
(*                                                                         *)
(*   - the queues of a task are sound and served (QueuesSound);            *)
(*   - handlers leave the task as they found it (Undisturbed), if no       *)
(*     signal is sent both by a task and by interrupt handlers.            *)
(*                                                                         *)
(* The invariant is a conjunction of parts that each speak of the stack of *)
(* functions and a few fields of k.  The stack changes in three ways only: *)
(* a frame is pushed, the top frame is replaced, the top frame is popped.  *)
(* For each part there are lemmas that say which of these keep it; an      *)
(* action's proof puts them together.                                      *)
(***************************************************************************)
EXTENDS Signal, ListLemmas, FiniteSetTheorems, TLAPS

-----------------------------------------------------------------------------
(* The types that TypeOK leaves open. *)
PoolType == [fix : Seq(Ent), irq : Seq(Ent), dyn : SUBSET Ent]
KType ==
    [mask : SUBSET Sig, pendq : Seq(Ent), actq : Seq(Ent), posted : Seq(Ent), tramp : BOOLEAN,
     waiting : BOOLEAN, waitmask : SUBSET Sig, unb : Sig \cup {0}, panic : BOOLEAN,
     qpool : PoolType, ppool : PoolType,
     qsig : [Ent -> Sig \cup {0}], psig : [Ent -> Sig \cup {0}]]
FrameType ==
    [f : {"deliver", "unmask", "wait", "suspend"},
     at : {"loop", "post", "call", "handler", "after", "sched", "release", "ret", "resumed"},
     sigq : Ent \cup {None}, next : Ent \cup {None}, saved : SUBSET Sig, set : SUBSET Sig,
     timed : BOOLEAN, off : BOOLEAN]
SndType == [at : {"idle", "find", "add", "queue", "sched", "wake"}, sig : Sig \cup {0}]
Sends(sn) == sn \in SndType /\ (sn.at # "idle" => sn.sig \in TaskSig)
Places(fr) ==
    /\ fr.f = "deliver" => fr.at \in {"loop", "post", "call", "handler", "after"}
    /\ fr.f = "unmask" => fr.at \in {"loop", "sched", "release"}
    /\ fr.f \in {"wait", "suspend"} => fr.at \in {"ret", "resumed"}

(* R waits in a call of its program, which then is all there is on the     *)
(* stack; S has the CPU only while R waits or is in its program.           *)
Waits(fr) == fr.f \in {"wait", "suspend"}
Shape(st) ==
    /\ \A i \in 1 .. Len(st) : Places(st[i])
    /\ \A i \in 2 .. Len(st) : ~ Waits(st[i])
Turns ==
    /\ k.waiting => cpu = "S" /\ stack # <<>>
    /\ cpu = "S" => Len(stack) <= 1 /\ \A i \in 1 .. Len(stack) : Waits(stack[i])
    /\ cpu = "R" => snd.at = "idle"

(* The frames that have saved a mask.  The lowest has the program's.       *)
Saver(fr) == (fr.f = "deliver" /\ fr.at = "handler") \/ fr.f = "suspend"
Masks(st, m, w) ==
    /\ (\A i \in 1 .. Len(st) : ~ Saver(st[i])) => m = w
    /\ \A i \in 1 .. Len(st) :
         Saver(st[i]) /\ (\A j \in 1 .. i - 1 : ~ Saver(st[j])) => st[i].saved = w

(* The frames that see to sigpendactionq; the topmost goes on with its     *)
(* head, unless another is to come first.                                  *)
Server(fr) == fr.f = "deliver" \/ fr.at = "sched"
Serves(fr, q) ==
    fr.f = "deliver" /\ q # <<>> =>
        /\ fr.at = "loop" => fr.sigq = Head(q)
        /\ fr.at = "post" => fr.sigq = Head(q) /\ fr.next = HeadOf(Tail(q))
        /\ fr.at \notin {"loop", "post"} => fr.next = Head(q)
Served(st, q) ==
    /\ (\A i \in 1 .. Len(st) : ~ Server(st[i])) => q = <<>>
    /\ \A i \in 1 .. Len(st) :
         Server(st[i]) /\ (\A j \in i + 1 .. Len(st) : ~ Server(st[j])) => Serves(st[i], q)
Scheduled == k.tramp \/ snd.at = "sched" \/ Served(stack, k.actq)

(* The frames whose structure is in sigpostedq, each its own.              *)
Calling(fr) == fr.f = "deliver" /\ fr.at \in {"call", "handler", "after"}
Posts(st, q) ==
    /\ \A i \in 1 .. Len(st) : Calling(st[i]) => st[i].sigq \in Range(q)
    /\ \A i, j \in 1 .. Len(st) :
         Calling(st[i]) /\ Calling(st[j]) /\ st[i].sigq = st[j].sigq => i = j

(* The frames that hold a sigpendq_t, each its own; none does between two  *)
(* signals.                                                                *)
Holds(fr) == fr.f = "unmask" /\ fr.sigq # None
Hands(st) == {st[n].sigq : n \in {n \in 1 .. Len(st) : Holds(st[n])}}
Apart(st) ==
    /\ \A i, j \in 1 .. Len(st) :
         Holds(st[i]) /\ Holds(st[j]) /\ st[i].sigq = st[j].sigq => i = j
    /\ \A i \in 1 .. Len(st) : Holds(st[i]) => st[i].at # "loop"

(* What is queued for a handler has one. *)
Actions(x) == \A e \in Range(x.actq) \cup Range(x.posted) : x.qsig[e] \in Handled

(* The invariant of QueuesSound. *)
QOK(x) ==
    /\ x \in KType /\ OnePlace(x.qpool, x.actq, Range(x.posted)) /\ IsInjective(x.posted)
    /\ Actions(x)
POK(x, H) == OnePlace(x.ppool, x.pendq, H) /\ Pending(x) \subseteq Sig
Parts(x, st) ==
    /\ st \in Seq(FrameType) /\ Shape(st)
    /\ QOK(x) /\ Posts(st, x.posted)
    /\ POK(x, Hands(st)) /\ Apart(st)
QInv ==
    /\ Parts(k, stack) /\ Scheduled
    /\ Sends(snd) /\ cpu \in {"R", "S"} /\ want \in SUBSET Sig /\ Turns

(* Signals that are pending though not blocked are those some function is  *)
(* going to look for; none is pending twice.                               *)
Unmasks(st, S) ==
    \A s \in S : \E i \in 1 .. Len(st) : st[i].f = "unmask" /\ s \in st[i].set
Once(x) == \A d, e \in Range(x.pendq) : x.psig[d] = x.psig[e] => d = e
Sender ==
    /\ snd.at \in {"find", "add"} =>
         snd.sig \in k.mask /\ ~ (k.waiting /\ snd.sig \in k.waitmask)
    /\ snd.at = "add" => snd.sig \notin Pending(k)
MInv ==
    /\ Masks(stack, k.mask, want)
    /\ Unmasks(stack, Pending(k) \ k.mask)
    /\ k.waiting => Pending(k) \cap k.waitmask = {}
    /\ Once(k) /\ Sender

-----------------------------------------------------------------------------
(* The parts about the stack alone: what pushing, replacing and popping    *)
(* the top frame keeps.                                                    *)
SetTop(st, fr) == [st EXCEPT ![Len(st)] = fr]

(* Pushing a frame. *)
LEMMA PushShape ==
    ASSUME NEW st \in Seq(FrameType), NEW fr \in FrameType,
           Shape(st), Places(fr), ~ Waits(fr)
    PROVE  Shape(Append(st, fr))
<1>1. /\ Append(st, fr) \in Seq(FrameType)
      /\ Len(Append(st, fr)) = Len(st) + 1 /\ Len(st) \in Nat
      /\ \A i \in 1 .. Len(st) : Append(st, fr)[i] = st[i]
      /\ Append(st, fr)[Len(st) + 1] = fr
  BY PushedLemma
<1> QED
  BY <1>1 DEF Shape

LEMMA PushMasks ==
    ASSUME NEW st \in Seq(FrameType), NEW fr \in FrameType, NEW m, NEW w,
           Masks(st, m, w), ~ Saver(fr)
    PROVE  Masks(Append(st, fr), m, w)
<1> DEFINE r == Append(st, fr)
<1>1. /\ r \in Seq(FrameType) /\ Len(r) = Len(st) + 1 /\ Len(st) \in Nat
      /\ \A i \in 1 .. Len(st) : r[i] = st[i]
      /\ r[Len(st) + 1] = fr
  BY PushedLemma
<1> HIDE DEF r
<1>2. (\A i \in 1 .. Len(r) : ~ Saver(r[i])) => m = w
  <2>1. (\A i \in 1 .. Len(r) : ~ Saver(r[i])) => \A i \in 1 .. Len(st) : ~ Saver(st[i])
    BY <1>1
  <2> QED
    BY <2>1 DEF Masks
<1>3. ASSUME NEW i \in 1 .. Len(r), Saver(r[i]), \A j \in 1 .. i - 1 : ~ Saver(r[j])
      PROVE  r[i].saved = w
  <2>1. i \in 1 .. Len(st) /\ r[i] = st[i]
    BY <1>1, <1>3
  <2>2. \A j \in 1 .. i - 1 : r[j] = st[j]
    BY <1>1, <2>1
  <2> QED
    BY <1>3, <2>1, <2>2 DEF Masks
<1> QED
  BY <1>2, <1>3 DEF Masks, r

(* A new server on top is all that counts; other frames do not. *)
LEMMA PushServer ==
    ASSUME NEW st \in Seq(FrameType), NEW fr \in FrameType, NEW q,
           Server(fr), Serves(fr, q)
    PROVE  Served(Append(st, fr), q)
<1> DEFINE r == Append(st, fr)
<1>1. /\ r \in Seq(FrameType) /\ Len(r) = Len(st) + 1 /\ Len(st) \in Nat
      /\ r[Len(st) + 1] = fr
  BY PushedLemma
<1> HIDE DEF r
<1>2. Len(r) \in 1 .. Len(r) /\ Server(r[Len(r)])
  BY <1>1
<1>3. ASSUME NEW i \in 1 .. Len(r), Server(r[i]), \A j \in i + 1 .. Len(r) : ~ Server(r[j])
      PROVE  Serves(r[i], q)
  <2>1. i = Len(r)
    BY <1>1, <1>2, <1>3
  <2> QED
    BY <1>1, <2>1
<1> QED
  BY <1>2, <1>3 DEF Served, r

LEMMA PushServed ==
    ASSUME NEW st \in Seq(FrameType), NEW fr \in FrameType, NEW q,
           Served(st, q), ~ Server(fr)
    PROVE  Served(Append(st, fr), q)
<1> DEFINE r == Append(st, fr)
<1>1. /\ r \in Seq(FrameType) /\ Len(r) = Len(st) + 1 /\ Len(st) \in Nat
      /\ \A i \in 1 .. Len(st) : r[i] = st[i]
      /\ r[Len(st) + 1] = fr
  BY PushedLemma
<1> HIDE DEF r
<1>2. (\A i \in 1 .. Len(r) : ~ Server(r[i])) => q = <<>>
  <2>1. (\A i \in 1 .. Len(r) : ~ Server(r[i])) => \A i \in 1 .. Len(st) : ~ Server(st[i])
    BY <1>1
  <2> QED
    BY <2>1 DEF Served
<1>3. ASSUME NEW i \in 1 .. Len(r), Server(r[i]), \A j \in i + 1 .. Len(r) : ~ Server(r[j])
      PROVE  Serves(r[i], q)
  <2>1. i \in 1 .. Len(st) /\ r[i] = st[i]
    BY <1>1, <1>3
  <2>2. \A j \in i + 1 .. Len(st) : r[j] = st[j] /\ ~ Server(r[j])
    BY <1>1, <1>3, <2>1
  <2> QED
    BY <1>3, <2>1, <2>2 DEF Served
<1> QED
  BY <1>2, <1>3 DEF Served, r

LEMMA PushPosts ==
    ASSUME NEW st \in Seq(FrameType), NEW fr \in FrameType, NEW q,
           Posts(st, q), ~ Calling(fr)
    PROVE  Posts(Append(st, fr), q)
<1> DEFINE r == Append(st, fr)
<1>1. /\ r \in Seq(FrameType) /\ Len(r) = Len(st) + 1 /\ Len(st) \in Nat
      /\ \A i \in 1 .. Len(st) : r[i] = st[i]
      /\ r[Len(st) + 1] = fr
  BY PushedLemma
<1> HIDE DEF r
<1>2. \A i \in 1 .. Len(r) : Calling(r[i]) => i \in 1 .. Len(st) /\ r[i] = st[i]
  BY <1>1
<1> QED
  BY <1>2 DEF Posts, r

LEMMA PushHands ==
    ASSUME NEW st \in Seq(FrameType), NEW fr \in FrameType,
           Apart(st), ~ Holds(fr)
    PROVE  Apart(Append(st, fr)) /\ Hands(Append(st, fr)) = Hands(st)
<1> DEFINE r == Append(st, fr)
<1>1. /\ r \in Seq(FrameType) /\ Len(r) = Len(st) + 1 /\ Len(st) \in Nat
      /\ \A i \in 1 .. Len(st) : r[i] = st[i]
      /\ r[Len(st) + 1] = fr
  BY PushedLemma
<1> HIDE DEF r
<1>2. \A i \in 1 .. Len(r) : Holds(r[i]) => i \in 1 .. Len(st) /\ r[i] = st[i]
  BY <1>1
<1>3. \A i \in 1 .. Len(st) : i \in 1 .. Len(r) /\ r[i] = st[i]
  BY <1>1
<1>4. Hands(r) = Hands(st)
  BY <1>2, <1>3 DEF Hands
<1>5. Apart(r)
  BY <1>2 DEF Apart
<1> QED
  BY <1>4, <1>5 DEF r

LEMMA PushUnmasks ==
    ASSUME NEW st \in Seq(FrameType), NEW fr \in FrameType, NEW S,
           Unmasks(st, S) \/ (fr.f = "unmask" /\ S \subseteq fr.set)
    PROVE  Unmasks(Append(st, fr), S)
<1>1. /\ Append(st, fr) \in Seq(FrameType)
      /\ Len(Append(st, fr)) = Len(st) + 1 /\ Len(st) \in Nat
      /\ \A i \in 1 .. Len(st) : Append(st, fr)[i] = st[i]
      /\ Append(st, fr)[Len(st) + 1] = fr
  BY PushedLemma
<1> QED
  BY <1>1 DEF Unmasks

(* Replacing the top frame. *)
LEMMA TopShape ==
    ASSUME NEW st \in Seq(FrameType), st # <<>>, NEW fr \in FrameType,
           Shape(st), Places(fr), ~ Waits(fr)
    PROVE  Shape(SetTop(st, fr))
<1> DEFINE r == SetTop(st, fr)
           n == Len(st)
<1>1. /\ n \in Nat \ {0} /\ Last(st) = st[n] /\ r \in Seq(FrameType) /\ Len(r) = n
      /\ r[n] = fr /\ \A i \in 1 .. n - 1 : r[i] = st[i]
  BY TopLemma DEF SetTop
<1> HIDE DEF r, n
<1>2. \A i \in 1 .. n : r[i] = IF i = n THEN fr ELSE st[i]
  BY <1>1
<1> QED
  BY <1>1, <1>2 DEF Shape, r, n

LEMMA TopMasks ==
    ASSUME NEW st \in Seq(FrameType), st # <<>>, NEW fr \in FrameType,
           NEW m, NEW w, Masks(st, m, w), ~ Saver(Last(st)), ~ Saver(fr)
    PROVE  Masks(SetTop(st, fr), m, w)
<1> DEFINE r == SetTop(st, fr)
           n == Len(st)
<1>1. /\ n \in Nat \ {0} /\ Last(st) = st[n] /\ r \in Seq(FrameType) /\ Len(r) = n
      /\ r[n] = fr /\ \A i \in 1 .. n - 1 : r[i] = st[i]
  BY TopLemma DEF SetTop
<1> HIDE DEF r, n
<1>2. \A i \in 1 .. n : Saver(r[i]) \/ Saver(st[i]) => r[i] = st[i]
  BY <1>1
<1>3. ASSUME NEW i \in 1 .. n PROVE Saver(r[i]) <=> Saver(st[i])
  BY <1>2
<1>4. \A i \in 1 .. n : \A j \in 1 .. i - 1 : j \in 1 .. n
  BY <1>1
<1> QED
  BY <1>1, <1>2, <1>3, <1>4 DEF Masks, r, n

LEMMA TopSaves ==
    ASSUME NEW st \in Seq(FrameType), st # <<>>, NEW fr \in FrameType,
           NEW m, NEW w, NEW m2, Masks(st, m, w), ~ Saver(Last(st)), Saver(fr), fr.saved = m
    PROVE  Masks(SetTop(st, fr), m2, w)
<1> DEFINE r == SetTop(st, fr)
           n == Len(st)
<1>1. /\ n \in Nat \ {0} /\ Last(st) = st[n] /\ r \in Seq(FrameType) /\ Len(r) = n
      /\ r[n] = fr /\ \A i \in 1 .. n - 1 : r[i] = st[i]
  BY TopLemma DEF SetTop
<1> HIDE DEF r, n
<1>2. n \in 1 .. n /\ Saver(r[n])
  BY <1>1
<1>3. ASSUME NEW i \in 1 .. n, Saver(r[i]), \A j \in 1 .. i - 1 : ~ Saver(r[j])
      PROVE  r[i].saved = w
  <2>1. CASE i = n
    <3>1. \A j \in 1 .. n - 1 : ~ Saver(st[j])
      BY <1>1, <1>3, <2>1
    <3>2. \A j \in 1 .. n : ~ Saver(st[j])
      BY <1>1, <3>1
    <3>3. m = w
      BY <3>2 DEF Masks, n
    <3> QED
      BY <1>1, <2>1, <3>3
  <2>2. CASE i # n
    <3>1. i \in 1 .. n - 1 /\ \A j \in 1 .. i - 1 : j \in 1 .. n - 1
      BY <1>1, <2>2
    <3>2. r[i] = st[i] /\ \A j \in 1 .. i - 1 : r[j] = st[j]
      BY <1>1, <3>1
    <3> QED
      BY <1>3, <3>1, <3>2 DEF Masks, n
  <2> QED
    BY <2>1, <2>2
<1> QED
  BY <1>1, <1>2, <1>3 DEF Masks, r

LEMMA TopRestores ==
    ASSUME NEW st \in Seq(FrameType), st # <<>>, NEW fr \in FrameType,
           NEW m, NEW w, Masks(st, m, w), Saver(Last(st)), ~ Saver(fr)
    PROVE  Masks(SetTop(st, fr), Last(st).saved, w)
<1> DEFINE r == SetTop(st, fr)
           n == Len(st)
<1>1. /\ n \in Nat \ {0} /\ Last(st) = st[n] /\ r \in Seq(FrameType) /\ Len(r) = n
      /\ r[n] = fr /\ \A i \in 1 .. n - 1 : r[i] = st[i]
  BY TopLemma DEF SetTop
<1> HIDE DEF r, n
<1>2. (\A i \in 1 .. n : ~ Saver(r[i])) => Last(st).saved = w
  <2>1. SUFFICES ASSUME \A i \in 1 .. n : ~ Saver(r[i]) PROVE Last(st).saved = w
    OBVIOUS
  <2>2. n \in 1 .. n /\ \A j \in 1 .. n - 1 : ~ Saver(st[j])
    BY <1>1, <2>1
  <2> QED
    BY <1>1, <2>2 DEF Masks, n
<1>3. ASSUME NEW i \in 1 .. n, Saver(r[i]), \A j \in 1 .. i - 1 : ~ Saver(r[j])
      PROVE  r[i].saved = w
  <2>1. i \in 1 .. n - 1 /\ \A j \in 1 .. i - 1 : j \in 1 .. n - 1
    BY <1>1, <1>3
  <2>2. r[i] = st[i] /\ \A j \in 1 .. i - 1 : r[j] = st[j]
    BY <1>1, <2>1
  <2> QED
    BY <1>3, <2>1, <2>2 DEF Masks, n
<1> QED
  BY <1>1, <1>2, <1>3 DEF Masks, r

LEMMA TopServer ==
    ASSUME NEW st \in Seq(FrameType), st # <<>>, NEW fr \in FrameType,
           NEW q, Server(fr), Serves(fr, q)
    PROVE  Served(SetTop(st, fr), q)
<1> DEFINE r == SetTop(st, fr)
           n == Len(st)
<1>1. /\ n \in Nat \ {0} /\ Last(st) = st[n] /\ r \in Seq(FrameType) /\ Len(r) = n
      /\ r[n] = fr /\ \A i \in 1 .. n - 1 : r[i] = st[i]
  BY TopLemma DEF SetTop
<1> HIDE DEF r, n
<1>2. n \in 1 .. n /\ Server(r[n])
  BY <1>1
<1>3. ASSUME NEW i \in 1 .. n, Server(r[i]), \A j \in i + 1 .. n : ~ Server(r[j])
      PROVE  Serves(r[i], q)
  <2>1. i = n
    BY <1>1, <1>2, <1>3
  <2> QED
    BY <1>1, <2>1
<1> QED
  BY <1>1, <1>2, <1>3 DEF Served, r

LEMMA TopServed ==
    ASSUME NEW st \in Seq(FrameType), st # <<>>, NEW fr \in FrameType,
           NEW q, Served(st, q), ~ Server(Last(st)), ~ Server(fr)
    PROVE  Served(SetTop(st, fr), q)
<1> DEFINE r == SetTop(st, fr)
           n == Len(st)
<1>1. /\ n \in Nat \ {0} /\ Last(st) = st[n] /\ r \in Seq(FrameType) /\ Len(r) = n
      /\ r[n] = fr /\ \A i \in 1 .. n - 1 : r[i] = st[i]
  BY TopLemma DEF SetTop
<1> HIDE DEF r, n
<1>2. \A i \in 1 .. n : Server(r[i]) \/ Server(st[i]) => r[i] = st[i]
  BY <1>1
<1>3. ASSUME NEW i \in 1 .. n PROVE Server(r[i]) <=> Server(st[i])
  BY <1>2
<1>4. \A i \in 1 .. n : \A j \in i + 1 .. n : j \in 1 .. n
  BY <1>1
<1> QED
  BY <1>1, <1>2, <1>3, <1>4 DEF Served, r, n

LEMMA TopPosts ==
    ASSUME NEW st \in Seq(FrameType), st # <<>>, NEW fr \in FrameType,
           NEW q, Posts(st, q), Calling(fr) => Calling(Last(st)) /\ fr.sigq = Last(st).sigq
    PROVE  Posts(SetTop(st, fr), q)
<1> DEFINE r == SetTop(st, fr)
           n == Len(st)
<1>1. /\ n \in Nat \ {0} /\ Last(st) = st[n] /\ r \in Seq(FrameType) /\ Len(r) = n
      /\ r[n] = fr /\ \A i \in 1 .. n - 1 : r[i] = st[i]
  BY TopLemma DEF SetTop
<1> HIDE DEF r, n
<1>2. \A i \in 1 .. n : Calling(r[i]) => Calling(st[i]) /\ r[i].sigq = st[i].sigq
  BY <1>1
<1> QED
  BY <1>1, <1>2 DEF Posts, r, n

LEMMA TopPosted ==
    ASSUME NEW st \in Seq(FrameType), st # <<>>, NEW fr \in FrameType,
           NEW q, NEW p, Posts(st, q), fr.sigq \notin Range(q),
           Range(p) = Range(q) \cup {fr.sigq}, ~ Calling(Last(st))
    PROVE  Posts(SetTop(st, fr), p)
<1> DEFINE r == SetTop(st, fr)
           n == Len(st)
<1>1. /\ n \in Nat \ {0} /\ Last(st) = st[n] /\ r \in Seq(FrameType) /\ Len(r) = n
      /\ r[n] = fr /\ \A i \in 1 .. n - 1 : r[i] = st[i]
  BY TopLemma DEF SetTop
<1> HIDE DEF r, n
<1>2. \A i \in 1 .. n : Calling(r[i]) =>
        (i = n /\ r[i].sigq = fr.sigq) \/ (i # n /\ r[i] = st[i] /\ st[i].sigq \in Range(q))
  BY <1>1 DEF Posts, n
<1>3. \A i, j \in 1 .. n : Calling(st[i]) /\ Calling(st[j]) /\ st[i].sigq = st[j].sigq => i = j
  BY DEF Posts, n
<1>4. \A i \in 1 .. n : Calling(r[i]) => r[i].sigq \in Range(p)
  BY <1>2
<1>5. ASSUME NEW i \in 1 .. n, NEW j \in 1 .. n, Calling(r[i]), Calling(r[j]), r[i].sigq = r[j].sigq
      PROVE  i = j
  BY <1>2, <1>3, <1>5
<1> QED
  BY <1>1, <1>4, <1>5 DEF Posts, r

LEMMA TopUnposted ==
    ASSUME NEW st \in Seq(FrameType), st # <<>>, NEW fr \in FrameType,
           NEW q, NEW p, Posts(st, q), Calling(Last(st)), ~ Calling(fr),
           Range(p) = Range(q) \ {Last(st).sigq}
    PROVE  Posts(SetTop(st, fr), p)
<1> DEFINE r == SetTop(st, fr)
           n == Len(st)
<1>1. /\ n \in Nat \ {0} /\ Last(st) = st[n] /\ r \in Seq(FrameType) /\ Len(r) = n
      /\ r[n] = fr /\ \A i \in 1 .. n - 1 : r[i] = st[i]
  BY TopLemma DEF SetTop
<1> HIDE DEF r, n
<1>2. \A i \in 1 .. n : Calling(r[i]) => i # n /\ r[i] = st[i]
  BY <1>1
<1>3. \A i, j \in 1 .. n : Calling(st[i]) /\ Calling(st[j]) /\ st[i].sigq = st[j].sigq => i = j
  BY DEF Posts, n
<1>4. n \in 1 .. n /\ Last(st) = st[n]
  BY <1>1
<1>5. \A i \in 1 .. n : Calling(r[i]) => r[i].sigq \in Range(q) /\ r[i].sigq # Last(st).sigq
  BY <1>2, <1>3, <1>4 DEF Posts, n
<1> QED
  BY <1>1, <1>2, <1>3, <1>5 DEF Posts, r

LEMMA TopHands ==
    ASSUME NEW st \in Seq(FrameType), st # <<>>, NEW fr \in FrameType,
           Apart(st), Holds(fr) <=> Holds(Last(st)),
           Holds(fr) => fr.sigq = Last(st).sigq /\ fr.at # "loop"
    PROVE  Apart(SetTop(st, fr)) /\ Hands(SetTop(st, fr)) = Hands(st)
<1> DEFINE r == SetTop(st, fr)
           n == Len(st)
<1>1. /\ n \in Nat \ {0} /\ Last(st) = st[n] /\ r \in Seq(FrameType) /\ Len(r) = n
      /\ r[n] = fr /\ \A i \in 1 .. n - 1 : r[i] = st[i]
  BY TopLemma DEF SetTop
<1> HIDE DEF r, n
<1>2. \A i \in 1 .. n : i = n \/ i \in 1 .. n - 1
  BY <1>1
<1>3. ASSUME NEW i \in 1 .. n
      PROVE  /\ Holds(r[i]) <=> Holds(st[i])
             /\ Holds(r[i]) => r[i].sigq = st[i].sigq /\ r[i].at # "loop"
  BY <1>1, <1>2 DEF Apart, n
<1>4. Hands(r) = Hands(st)
  BY <1>1, <1>3 DEF Hands, n
<1>5. Apart(r)
  BY <1>1, <1>3 DEF Apart, n
<1> QED
  BY <1>4, <1>5 DEF r

LEMMA TopTakes ==
    ASSUME NEW st \in Seq(FrameType), st # <<>>, NEW fr \in FrameType,
           Apart(st), ~ Holds(Last(st)), Holds(fr), fr.at # "loop",
           fr.sigq \notin Hands(st)
    PROVE  Apart(SetTop(st, fr)) /\ Hands(SetTop(st, fr)) = Hands(st) \cup {fr.sigq}
<1> DEFINE r == SetTop(st, fr)
           n == Len(st)
<1>1. /\ n \in Nat \ {0} /\ Last(st) = st[n] /\ r \in Seq(FrameType) /\ Len(r) = n
      /\ r[n] = fr /\ \A i \in 1 .. n - 1 : r[i] = st[i]
  BY TopLemma DEF SetTop
<1> HIDE DEF r, n
<1>2. \A i \in 1 .. n : (i = n /\ r[i] = fr) \/ (i # n /\ i \in 1 .. n - 1 /\ r[i] = st[i])
  BY <1>1
<1>3. \A i \in 1 .. n : Holds(st[i]) => st[i].sigq \in Hands(st) /\ st[i].sigq # fr.sigq /\ i # n
  BY <1>1 DEF Hands, n
<1>4. Hands(r) = Hands(st) \cup {fr.sigq}
  <2>1. ASSUME NEW e \in Hands(r) PROVE e \in Hands(st) \cup {fr.sigq}
    <3>1. PICK i \in 1 .. n : Holds(r[i]) /\ e = r[i].sigq
      BY <1>1 DEF Hands
    <3> QED
      BY <1>2, <1>3, <3>1
  <2>2. fr.sigq \in Hands(r)
    BY <1>1 DEF Hands
  <2>3. ASSUME NEW e \in Hands(st) PROVE e \in Hands(r)
    <3>1. PICK i \in 1 .. n : Holds(st[i]) /\ e = st[i].sigq
      BY DEF Hands, n
    <3>2. Holds(r[i]) /\ e = r[i].sigq
      BY <1>2, <1>3, <3>1
    <3> QED
      BY <1>1, <3>2 DEF Hands
  <2> QED
    BY <2>1, <2>2, <2>3
<1>5. \A i, j \in 1 .. n : Holds(st[i]) /\ Holds(st[j]) /\ st[i].sigq = st[j].sigq => i = j
  BY DEF Apart, n
<1>6. \A i \in 1 .. n : Holds(st[i]) => st[i].at # "loop"
  BY DEF Apart, n
<1>7. Apart(r)
  BY <1>1, <1>2, <1>3, <1>5, <1>6 DEF Apart
<1> QED
  BY <1>4, <1>7 DEF r

LEMMA TopGives ==
    ASSUME NEW st \in Seq(FrameType), st # <<>>, NEW fr \in FrameType,
           Apart(st), Holds(Last(st)), ~ Holds(fr)
    PROVE  /\ Apart(SetTop(st, fr)) /\ Last(st).sigq \in Hands(st)
           /\ Hands(SetTop(st, fr)) = Hands(st) \ {Last(st).sigq}
<1> DEFINE r == SetTop(st, fr)
           n == Len(st)
<1>1. /\ n \in Nat \ {0} /\ Last(st) = st[n] /\ r \in Seq(FrameType) /\ Len(r) = n
      /\ r[n] = fr /\ \A i \in 1 .. n - 1 : r[i] = st[i]
  BY TopLemma DEF SetTop
<1> HIDE DEF r, n
<1>2. \A i \in 1 .. n : (i = n /\ r[i] = fr) \/ (i # n /\ i \in 1 .. n - 1 /\ r[i] = st[i])
  BY <1>1
<1>3. \A i, j \in 1 .. n : Holds(st[i]) /\ Holds(st[j]) /\ st[i].sigq = st[j].sigq => i = j
  BY DEF Apart, n
<1>4. \A i \in 1 .. n : Holds(st[i]) => st[i].at # "loop"
  BY DEF Apart, n
<1>5. n \in 1 .. n /\ Last(st) = st[n]
  BY <1>1
<1>6. Last(st).sigq \in Hands(st)
  BY <1>5 DEF Hands, n
<1>7. Hands(r) = Hands(st) \ {Last(st).sigq}
  <2>1. ASSUME NEW e \in Hands(r) PROVE e \in Hands(st) \ {Last(st).sigq}
    <3>1. PICK i \in 1 .. n : Holds(r[i]) /\ e = r[i].sigq
      BY <1>1 DEF Hands
    <3>2. i # n /\ Holds(st[i]) /\ e = st[i].sigq
      BY <1>2, <3>1
    <3>3. e # Last(st).sigq
      BY <1>3, <1>5, <3>2
    <3> QED
      BY <3>2, <3>3 DEF Hands, n
  <2>2. ASSUME NEW e \in Hands(st) \ {Last(st).sigq} PROVE e \in Hands(r)
    <3>1. PICK i \in 1 .. n : Holds(st[i]) /\ e = st[i].sigq
      BY DEF Hands, n
    <3>2. Holds(r[i]) /\ e = r[i].sigq
      BY <1>2, <1>5, <3>1
    <3> QED
      BY <1>1, <3>2 DEF Hands
  <2> QED
    BY <2>1, <2>2
<1>8. Apart(r)
  BY <1>1, <1>2, <1>3, <1>4 DEF Apart
<1> QED
  BY <1>6, <1>7, <1>8 DEF r

LEMMA TopUnmasks ==
    ASSUME NEW st \in Seq(FrameType), st # <<>>, NEW fr \in FrameType,
           NEW S, NEW T, Unmasks(st, S), T \subseteq S,
           Last(st).f = "unmask" => fr.f = "unmask" /\ Last(st).set \cap T \subseteq fr.set
    PROVE  Unmasks(SetTop(st, fr), T)
<1> DEFINE r == SetTop(st, fr)
           n == Len(st)
<1>1. /\ n \in Nat \ {0} /\ Last(st) = st[n] /\ r \in Seq(FrameType) /\ Len(r) = n
      /\ r[n] = fr /\ \A i \in 1 .. n - 1 : r[i] = st[i]
  BY TopLemma DEF SetTop
<1> HIDE DEF r, n
<1>2. \A i \in 1 .. n : (i = n /\ r[i] = fr) \/ (i # n /\ r[i] = st[i])
  BY <1>1
<1>3. ASSUME NEW s \in T PROVE \E i \in 1 .. n : r[i].f = "unmask" /\ s \in r[i].set
  <2>1. PICK i \in 1 .. n : st[i].f = "unmask" /\ s \in st[i].set
    BY DEF Unmasks, n
  <2> QED
    BY <1>1, <1>2, <2>1
<1> QED
  BY <1>1, <1>3 DEF Unmasks, r

(* Popping it. *)
LEMMA PopShape ==
    ASSUME NEW st \in Seq(FrameType), st # <<>>,
           Shape(st)
    PROVE  Shape(Front(st))
<1> DEFINE r == Front(st)
           n == Len(st)
<1>1. /\ n \in Nat \ {0} /\ Last(st) = st[n] /\ r \in Seq(FrameType) /\ Len(r) = n - 1
      /\ \A i \in 1 .. n - 1 : r[i] = st[i]
  <2>1. PICK e \in FrameType : TRUE
    BY EmptySeq
  <2> QED
    BY <2>1, TopLemma
<1> HIDE DEF r, n
<1> QED
  BY <1>1 DEF Shape, r, n

LEMMA PopMasks ==
    ASSUME NEW st \in Seq(FrameType), st # <<>>,
           NEW m, NEW w, Masks(st, m, w), ~ Saver(Last(st))
    PROVE  Masks(Front(st), m, w)
<1> DEFINE r == Front(st)
           n == Len(st)
<1>1. /\ n \in Nat \ {0} /\ Last(st) = st[n] /\ r \in Seq(FrameType) /\ Len(r) = n - 1
      /\ \A i \in 1 .. n - 1 : r[i] = st[i]
  <2>1. PICK e \in FrameType : TRUE
    BY EmptySeq
  <2> QED
    BY <2>1, TopLemma
<1> HIDE DEF r, n
<1>2. (\A i \in 1 .. n - 1 : ~ Saver(r[i])) => m = w
  <2>1. (\A i \in 1 .. n - 1 : ~ Saver(r[i])) => \A i \in 1 .. n : ~ Saver(st[i])
    BY <1>1
  <2> QED
    BY <2>1 DEF Masks, n
<1>3. ASSUME NEW i \in 1 .. n - 1, Saver(r[i]), \A j \in 1 .. i - 1 : ~ Saver(r[j])
      PROVE  r[i].saved = w
  <2>1. i \in 1 .. n /\ r[i] = st[i] /\ \A j \in 1 .. i - 1 : r[j] = st[j]
    BY <1>1
  <2> QED
    BY <1>3, <2>1 DEF Masks, n
<1> QED
  BY <1>1, <1>2, <1>3 DEF Masks, r

LEMMA PopServed ==
    ASSUME NEW st \in Seq(FrameType), st # <<>>,
           NEW q, Served(st, q), Server(Last(st)) => q = <<>>
    PROVE  Served(Front(st), q)
<1> DEFINE r == Front(st)
           n == Len(st)
<1>1. /\ n \in Nat \ {0} /\ Last(st) = st[n] /\ r \in Seq(FrameType) /\ Len(r) = n - 1
      /\ \A i \in 1 .. n - 1 : r[i] = st[i]
  <2>1. PICK e \in FrameType : TRUE
    BY EmptySeq
  <2> QED
    BY <2>1, TopLemma
<1> HIDE DEF r, n
<1>2. CASE q = <<>>
  BY <1>2 DEF Served, Serves
<1>3. CASE q # <<>>
  <2>1. ~ Server(st[n])
    BY <1>1, <1>3
  <2>2. (\A i \in 1 .. n - 1 : ~ Server(r[i])) => q = <<>>
    <3>1. (\A i \in 1 .. n - 1 : ~ Server(r[i])) => \A i \in 1 .. n : ~ Server(st[i])
      BY <1>1, <2>1
    <3> QED
      BY <3>1 DEF Served, n
  <2>3. ASSUME NEW i \in 1 .. n - 1, Server(r[i]), \A j \in i + 1 .. n - 1 : ~ Server(r[j])
        PROVE  Serves(r[i], q)
    <3>1. i \in 1 .. n /\ r[i] = st[i]
      BY <1>1
    <3>2. \A j \in i + 1 .. n : ~ Server(st[j])
      BY <1>1, <2>1, <2>3
    <3> QED
      BY <2>3, <3>1, <3>2 DEF Served, n
  <2> QED
    BY <1>1, <2>2, <2>3 DEF Served, r
<1> QED
  BY <1>2, <1>3

LEMMA PopPosts ==
    ASSUME NEW st \in Seq(FrameType), st # <<>>,
           NEW q, Posts(st, q)
    PROVE  Posts(Front(st), q)
<1> DEFINE r == Front(st)
           n == Len(st)
<1>1. /\ n \in Nat \ {0} /\ Last(st) = st[n] /\ r \in Seq(FrameType) /\ Len(r) = n - 1
      /\ \A i \in 1 .. n - 1 : r[i] = st[i]
  <2>1. PICK e \in FrameType : TRUE
    BY EmptySeq
  <2> QED
    BY <2>1, TopLemma
<1> HIDE DEF r, n
<1>2. \A i \in 1 .. n - 1 : i \in 1 .. n /\ r[i] = st[i]
  BY <1>1
<1> QED
  BY <1>1, <1>2 DEF Posts, r, n

LEMMA PopHands ==
    ASSUME NEW st \in Seq(FrameType), st # <<>>,
           Apart(st), ~ Holds(Last(st))
    PROVE  Apart(Front(st)) /\ Hands(Front(st)) = Hands(st)
<1> DEFINE r == Front(st)
           n == Len(st)
<1>1. /\ n \in Nat \ {0} /\ Last(st) = st[n] /\ r \in Seq(FrameType) /\ Len(r) = n - 1
      /\ \A i \in 1 .. n - 1 : r[i] = st[i]
  <2>1. PICK e \in FrameType : TRUE
    BY EmptySeq
  <2> QED
    BY <2>1, TopLemma
<1> HIDE DEF r, n
<1>2. \A i \in 1 .. n - 1 : i \in 1 .. n /\ r[i] = st[i]
  BY <1>1
<1>3. \A i \in 1 .. n : Holds(st[i]) => i \in 1 .. n - 1
  BY <1>1
<1>4. Hands(r) = Hands(st)
  BY <1>1, <1>2, <1>3 DEF Hands, n
<1>5. Apart(r)
  BY <1>1, <1>2 DEF Apart, n
<1> QED
  BY <1>4, <1>5 DEF r

LEMMA PopUnmasks ==
    ASSUME NEW st \in Seq(FrameType), st # <<>>,
           NEW S, Unmasks(st, S), Last(st).f = "unmask" => Last(st).set = {}
    PROVE  Unmasks(Front(st), S)
<1> DEFINE r == Front(st)
           n == Len(st)
<1>1. /\ n \in Nat \ {0} /\ Last(st) = st[n] /\ r \in Seq(FrameType) /\ Len(r) = n - 1
      /\ \A i \in 1 .. n - 1 : r[i] = st[i]
  <2>1. PICK e \in FrameType : TRUE
    BY EmptySeq
  <2> QED
    BY <2>1, TopLemma
<1> HIDE DEF r, n
<1>2. ASSUME NEW s \in S PROVE \E i \in 1 .. n - 1 : r[i].f = "unmask" /\ s \in r[i].set
  <2>1. PICK i \in 1 .. n : st[i].f = "unmask" /\ s \in st[i].set
    BY DEF Unmasks, n
  <2>2. i \in 1 .. n - 1
    BY <1>1, <2>1
  <2> QED
    BY <1>1, <2>1, <2>2
<1> QED
  BY <1>1, <1>2 DEF Unmasks, r

(* A stack of one frame, and of none. *)
LEMMA SingleFrame ==
    ASSUME NEW fr \in FrameType, NEW m, NEW w, NEW q, NEW S
    PROVE  /\ <<fr>> \in Seq(FrameType) /\ Len(<<fr>>) = 1 /\ <<fr>>[1] = fr /\ <<fr>> # <<>>
           /\ Places(fr) => Shape(<<fr>>)
           /\ (IF Saver(fr) THEN fr.saved = w ELSE m = w) => Masks(<<fr>>, m, w)
           /\ (IF Server(fr) THEN Serves(fr, q) ELSE q = <<>>) => Served(<<fr>>, q)
           /\ ~ Calling(fr) => Posts(<<fr>>, q)
           /\ ~ Holds(fr) => Hands(<<fr>>) = {} /\ Apart(<<fr>>)
           /\ (S = {} \/ (fr.f = "unmask" /\ S \subseteq fr.set)) => Unmasks(<<fr>>, S)
<1> DEFINE r == <<fr>>
<1>1. r \in Seq(FrameType) /\ Len(r) = 1 /\ r[1] = fr /\ r # <<>>
  OBVIOUS
<1> HIDE DEF r
<1>2. /\ \A i \in 1 .. Len(r) : i = 1 /\ r[i] = fr
      /\ 1 \in 1 .. Len(r) /\ 2 .. Len(r) = {} /\ 1 .. 1 - 1 = {} /\ 1 + 1 .. Len(r) = {}
  BY <1>1
<1>3. Places(fr) => Shape(r)
  BY <1>2 DEF Shape
<1>4. (IF Saver(fr) THEN fr.saved = w ELSE m = w) => Masks(r, m, w)
  BY <1>2 DEF Masks
<1>5. (IF Server(fr) THEN Serves(fr, q) ELSE q = <<>>) => Served(r, q)
  BY <1>2 DEF Served
<1>6. ~ Calling(fr) => Posts(r, q)
  BY <1>2 DEF Posts
<1>7. ~ Holds(fr) => Hands(r) = {} /\ Apart(r)
  BY <1>2 DEF Hands, Apart
<1>8. (S = {} \/ (fr.f = "unmask" /\ S \subseteq fr.set)) => Unmasks(r, S)
  BY <1>2 DEF Unmasks
<1> QED
  BY <1>1, <1>3, <1>4, <1>5, <1>6, <1>7, <1>8 DEF r

LEMMA NoFrame ==
    ASSUME NEW m, NEW w, NEW q, NEW S
    PROVE  /\ <<>> \in Seq(FrameType) /\ Len(<<>>) = 0
           /\ Shape(<<>>) /\ Posts(<<>>, q) /\ Apart(<<>>) /\ Hands(<<>>) = {}
           /\ Masks(<<>>, m, w) <=> m = w
           /\ Served(<<>>, q) <=> q = <<>>
           /\ Unmasks(<<>>, S) <=> S = {}
<1>1. <<>> \in Seq(FrameType) /\ Len(<<>>) = 0
  OBVIOUS
<1>2. 1 .. Len(<<>>) = {} /\ 2 .. Len(<<>>) = {}
  BY <1>1
<1> QED
  BY <1>1, <1>2 DEF Shape, Posts, Apart, Hands, Masks, Served, Unmasks

-----------------------------------------------------------------------------
(* Queues and pools: a structure goes from one place to another. *)

(* sq_rem() takes out one element. *)
LEMMA RemLemma ==
    ASSUME NEW q \in Seq(Ent), IsInjective(q), NEW e \in Range(q)
    PROVE  /\ sq_rem(q, e) \in Seq(Ent) /\ IsInjective(sq_rem(q, e))
           /\ Range(sq_rem(q, e)) = Range(q) \ {e}
<1> DEFINE n == CHOOSE n \in 1 .. Len(q) : q[n] = e
<1>1. n \in 1 .. Len(q) /\ q[n] = e
  BY RangeLemma
<1>2. sq_rem(q, e) = RemoveAt(q, n)
  BY DEF sq_rem
<1> HIDE DEF n
<1>3. IsInjective(RemoveAt(q, n)) /\ Range(RemoveAt(q, n)) = Range(q) \ {q[n]}
  BY <1>1, RemoveRange
<1>4. RemoveAt(q, n) \in Seq(Ent)
  BY <1>1, RemoveLemma
<1> QED
  BY <1>1, <1>2, <1>3, <1>4

(* The head of a list is taken out with Tail. *)
LEMMA RemHead ==
    ASSUME NEW q \in Seq(Ent), IsInjective(q), q # <<>>
    PROVE  /\ Head(q) \in Range(q) /\ Head(q) \in Ent /\ sq_rem(q, Head(q)) = Tail(q)
           /\ Tail(q) \in Seq(Ent) /\ IsInjective(Tail(q)) /\ Range(Tail(q)) = Range(q) \ {Head(q)}
           /\ (CHOOSE n \in 1 .. Len(q) : q[n] = Head(q)) = 1
<1>1. Len(q) \in Nat \ {0} /\ 1 \in 1 .. Len(q) /\ Head(q) = q[1]
  BY EmptySeq
<1>2. Head(q) \in Range(q) /\ Head(q) \in Ent
  BY <1>1, RangeLemma
<1>3. (CHOOSE n \in 1 .. Len(q) : q[n] = Head(q)) = 1
  BY <1>1, PositionLemma
<1>4. Tail(q) = RemoveAt(q, 1)
  BY TailIsRemove
<1>5. sq_rem(q, Head(q)) = Tail(q)
  BY <1>2, <1>3, <1>4 DEF sq_rem
<1> QED
  BY <1>2, <1>3, <1>5, RemLemma

LEMMA SecondLemma ==
    ASSUME NEW q \in Seq(Ent), q # <<>>
    PROVE  /\ HeadOf(Tail(q)) = IF 1 < Len(q) THEN q[2] ELSE None
           /\ HeadOf(Tail(q)) \in Ent \cup {None}
<1> DEFINE t == Tail(q)
<1>1. Len(q) \in Nat \ {0} /\ t \in Seq(Ent) /\ Len(t) = Len(q) - 1
  BY EmptySeq, HeadTailProperties
<1>2. ASSUME 1 < Len(q) PROVE t[1] = q[2] /\ q[2] \in Ent
  BY <1>1, <1>2, HeadTailProperties
<1> HIDE DEF t
<1>3. CASE 1 < Len(q)
  <2>1. Len(t) # 0
    BY <1>1, <1>3
  <2>2. t # <<>> /\ Head(t) = t[1]
    BY <1>1, <2>1
  <2> QED
    BY <1>2, <1>3, <2>2 DEF HeadOf, t
<1>4. CASE ~ (1 < Len(q))
  <2>1. Len(t) = 0
    BY <1>1, <1>4
  <2>2. t = <<>>
    BY <1>1, <2>1, EmptySeq
  <2> QED
    BY <1>4, <2>2 DEF HeadOf, t
<1> QED
  BY <1>3, <1>4

(* Appending a new element. *)
LEMMA AppendLemma ==
    ASSUME NEW q \in Seq(Ent), IsInjective(q), NEW e \in Ent, e \notin Range(q)
    PROVE  /\ Append(q, e) \in Seq(Ent) /\ IsInjective(Append(q, e))
           /\ Range(Append(q, e)) = Range(q) \cup {e}
<1>1. Append(q, e) = InsertAt(q, Len(q) + 1, e)
  BY AppendIsInsert
<1>2. Len(q) + 1 \in 1 .. Len(q) + 1
  OBVIOUS
<1> QED
  BY <1>1, <1>2, InsertRange

(* A structure from the pool goes into the queue. *)
LEMMA TakeLemma ==
    ASSUME NEW p \in PoolType, NEW q \in Seq(Ent), NEW R, OnePlace(p, q, R),
           NEW isr \in BOOLEAN, Taken(p, isr) # None
    PROVE  LET e == Taken(p, isr) IN
           /\ e \in Ent /\ e \notin Range(q) /\ e \notin R
           /\ Rest(p, isr) \in PoolType /\ OnePlace(Rest(p, isr), Append(q, e), R)
<1> DEFINE e == Taken(p, isr)
<1>1. p.fix \in Seq(Ent) /\ p.irq \in Seq(Ent) /\ p.dyn \in SUBSET Ent
  BY DEF PoolType
<1>2. IsInjective(p.fix) /\ IsInjective(p.irq) /\ IsInjective(q)
  BY DEF OnePlace
<1>3. /\ Rest(p, isr) \in PoolType
      /\ IsInjective(Rest(p, isr).fix) /\ IsInjective(Rest(p, isr).irq)
      /\ e \in Free(p) /\ Free(Rest(p, isr)) = Free(p) \ {e}
      /\ Range(Rest(p, isr).fix) \subseteq Range(p.fix)
      /\ Range(Rest(p, isr).irq) \subseteq Range(p.irq) /\ Rest(p, isr).dyn \subseteq p.dyn
  <2>0. /\ Range(p.fix) \cap Range(p.irq) = {} /\ Range(p.fix) \cap p.dyn = {}
        /\ Range(p.irq) \cap p.dyn = {}
    BY SignalAssumption DEF OnePlace
  <2>1. CASE p.fix # <<>>
    <3>1. e = Head(p.fix) /\ Rest(p, isr) = [p EXCEPT !.fix = Tail(@)]
      BY <2>1 DEF Taken, Rest
    <3>2. /\ Rest(p, isr).fix = Tail(p.fix) /\ Rest(p, isr).irq = p.irq /\ Rest(p, isr).dyn = p.dyn
      BY <3>1 DEF PoolType
    <3>3. /\ e \in Range(p.fix) /\ Tail(p.fix) \in Seq(Ent) /\ IsInjective(Tail(p.fix))
          /\ Range(Tail(p.fix)) = Range(p.fix) \ {e}
      BY <1>1, <1>2, <2>1, <3>1, RemHead
    <3>4. Rest(p, isr) \in PoolType
      BY <3>1, <3>3 DEF PoolType
    <3>5. Free(Rest(p, isr)) = Free(p) \ {e} /\ e \in Free(p)
      BY <2>0, <3>2, <3>3 DEF Free
    <3> QED
      BY <1>2, <3>2, <3>3, <3>4, <3>5
  <2>2. CASE p.fix = <<>> /\ isr
    <3>1. p.irq # <<>> /\ e = Head(p.irq) /\ Rest(p, isr) = [p EXCEPT !.irq = Tail(@)]
      BY <2>2 DEF Taken, Rest
    <3>2. /\ Rest(p, isr).fix = p.fix /\ Rest(p, isr).irq = Tail(p.irq) /\ Rest(p, isr).dyn = p.dyn
      BY <3>1 DEF PoolType
    <3>3. /\ e \in Range(p.irq) /\ Tail(p.irq) \in Seq(Ent) /\ IsInjective(Tail(p.irq))
          /\ Range(Tail(p.irq)) = Range(p.irq) \ {e}
      BY <1>1, <1>2, <3>1, RemHead
    <3>4. Rest(p, isr) \in PoolType
      BY <3>1, <3>3 DEF PoolType
    <3>5. Free(Rest(p, isr)) = Free(p) \ {e} /\ e \in Free(p)
      BY <2>0, <3>2, <3>3 DEF Free
    <3> QED
      BY <1>2, <3>2, <3>3, <3>4, <3>5
  <2>3. CASE p.fix = <<>> /\ ~ isr
    <3>1. p.dyn # {} /\ e \in p.dyn /\ Rest(p, isr) = [p EXCEPT !.dyn = @ \ {e}]
      BY <2>3 DEF Taken, Rest
    <3> HIDE DEF e
    <3>2. /\ Rest(p, isr).fix = p.fix /\ Rest(p, isr).irq = p.irq /\ Rest(p, isr).dyn = p.dyn \ {e}
      BY <3>1 DEF PoolType
    <3>4. Rest(p, isr) \in PoolType
      BY <1>1, <3>1 DEF PoolType
    <3>5. Free(Rest(p, isr)) = Free(p) \ {e} /\ e \in Free(p)
      BY <2>0, <3>1, <3>2 DEF Free
    <3> QED
      BY <1>2, <3>2, <3>4, <3>5
  <2> QED
    BY <2>1, <2>2, <2>3
<1> HIDE DEF e
<1>4. e \in Ent /\ e \notin Range(q) /\ e \notin R
  BY <1>3 DEF OnePlace
<1>5. IsInjective(Append(q, e)) /\ Range(Append(q, e)) = Range(q) \cup {e}
  BY <1>2, <1>4, AppendLemma
<1>6. OnePlace(Rest(p, isr), Append(q, e), R)
  BY <1>3, <1>4, <1>5 DEF OnePlace
<1> QED
  BY <1>3, <1>4, <1>6 DEF e

(* A structure from the queue goes elsewhere. *)
LEMMA MoveLemma ==
    ASSUME NEW p \in PoolType, NEW q \in Seq(Ent), NEW R, OnePlace(p, q, R), NEW e \in Range(q)
    PROVE  /\ sq_rem(q, e) \in Seq(Ent) /\ Range(sq_rem(q, e)) = Range(q) \ {e}
           /\ e \in Ent /\ e \notin R /\ OnePlace(p, sq_rem(q, e), R \cup {e})
<1>1. /\ sq_rem(q, e) \in Seq(Ent) /\ IsInjective(sq_rem(q, e))
      /\ Range(sq_rem(q, e)) = Range(q) \ {e}
  BY RemLemma DEF OnePlace
<1>2. e \in Ent /\ e \notin R
  BY DEF OnePlace
<1>3. OnePlace(p, sq_rem(q, e), R \cup {e})
  BY <1>1, <1>2 DEF OnePlace
<1> QED
  BY <1>1, <1>2, <1>3

(* A structure comes back to the pool it is of. *)
LEMMA ReleaseLemma ==
    ASSUME NEW p \in PoolType, NEW q \in Seq(Ent), NEW R, OnePlace(p, q, R), NEW e \in R
    PROVE  Release(p, e) \in PoolType /\ OnePlace(Release(p, e), q, R \ {e})
<1>1. p.fix \in Seq(Ent) /\ p.irq \in Seq(Ent) /\ p.dyn \in SUBSET Ent
  BY DEF PoolType
<1>2. /\ e \in Ent /\ e \notin Range(p.fix) /\ e \notin Range(p.irq) /\ e \notin p.dyn
      /\ e \notin Range(q)
  BY DEF OnePlace, Free
<1>3. IsInjective(p.fix) /\ IsInjective(p.irq)
  BY DEF OnePlace
<1>4. /\ Release(p, e) \in PoolType
      /\ IsInjective(Release(p, e).fix) /\ IsInjective(Release(p, e).irq)
      /\ Range(Release(p, e).fix) \subseteq Fixed /\ Range(Release(p, e).irq) \subseteq Irq
      /\ Release(p, e).dyn \subseteq Dyn /\ Free(Release(p, e)) = Free(p) \cup {e}
  <2>1. CASE e \in Fixed
    <3>1. Release(p, e) = [p EXCEPT !.fix = Append(@, e)]
      BY <2>1, SignalAssumption DEF Release
    <3>2. /\ Append(p.fix, e) \in Seq(Ent) /\ IsInjective(Append(p.fix, e))
          /\ Range(Append(p.fix, e)) = Range(p.fix) \cup {e}
      BY <1>1, <1>2, <1>3, AppendLemma
    <3>3. /\ Release(p, e).fix = Append(p.fix, e) /\ Release(p, e).irq = p.irq
          /\ Release(p, e).dyn = p.dyn
      BY <3>1 DEF PoolType
    <3>4. Release(p, e) \in PoolType
      BY <3>1, <3>2 DEF PoolType
    <3> QED
      BY <1>3, <2>1, <3>2, <3>3, <3>4 DEF Free, OnePlace
  <2>2. CASE e \in Irq
    <3>1. Release(p, e) = [p EXCEPT !.irq = Append(@, e)]
      BY <2>2, SignalAssumption DEF Release
    <3>2. /\ Append(p.irq, e) \in Seq(Ent) /\ IsInjective(Append(p.irq, e))
          /\ Range(Append(p.irq, e)) = Range(p.irq) \cup {e}
      BY <1>1, <1>2, <1>3, AppendLemma
    <3>3. /\ Release(p, e).fix = p.fix /\ Release(p, e).irq = Append(p.irq, e)
          /\ Release(p, e).dyn = p.dyn
      BY <3>1 DEF PoolType
    <3>4. Release(p, e) \in PoolType
      BY <3>1, <3>2 DEF PoolType
    <3> QED
      BY <1>3, <2>2, <3>2, <3>3, <3>4 DEF Free, OnePlace
  <2>3. CASE e \in Dyn
    <3>1. Release(p, e) = [p EXCEPT !.dyn = @ \cup {e}]
      BY <2>3, SignalAssumption DEF Release
    <3>3. /\ Release(p, e).fix = p.fix /\ Release(p, e).irq = p.irq
          /\ Release(p, e).dyn = p.dyn \cup {e}
      BY <3>1 DEF PoolType
    <3>4. Release(p, e) \in PoolType
      BY <1>1, <1>2, <3>1 DEF PoolType
    <3> QED
      BY <1>3, <2>3, <3>3, <3>4 DEF Free, OnePlace
  <2> QED
    BY <1>2, <2>1, <2>2, <2>3 DEF Ent
<1>5. OnePlace(Release(p, e), q, R \ {e})
  BY <1>2, <1>4 DEF OnePlace
<1> QED
  BY <1>4, <1>5

-----------------------------------------------------------------------------
(* The operations on what the kernel keeps. *)

(* What an operation leaves alone: the side of sigq_t, that of sigpendq_t, *)
(* and the rest.                                                           *)
SameQ(x, y) == y.qpool = x.qpool /\ y.qsig = x.qsig /\ y.actq = x.actq /\ y.posted = x.posted
SameP(x, y) == y.ppool = x.ppool /\ y.psig = x.psig /\ y.pendq = x.pendq
SameR(x, y) ==
    /\ y.mask = x.mask /\ y.tramp = x.tramp /\ y.waiting = x.waiting
    /\ y.waitmask = x.waitmask /\ y.unb = x.unb

LEMMA SameLemma ==
    ASSUME NEW x, NEW y \in KType, NEW H
    PROVE  /\ QOK(x) /\ SameQ(x, y) => QOK(y)
           /\ POK(x, H) /\ SameP(x, y) => POK(y, H)
           /\ SameP(x, y) => Pending(y) = Pending(x) /\ (Once(x) => Once(y))
BY DEF SameQ, SameP, QOK, POK, Pending, Once, Actions

(* sig_queueaction() *)
LEMMA QueueLemma ==
    ASSUME NEW x, QOK(x), NEW s \in Sig, NEW isr \in BOOLEAN
    PROVE  LET y == sig_queueaction(x, s, isr) IN
           QOK(y) /\ SameP(x, y) /\ SameR(x, y) /\ y.posted = x.posted /\ y.panic = x.panic
<1> DEFINE y == sig_queueaction(x, s, isr)
           e == Taken(x.qpool, isr)
<1>1. CASE s \notin Handled \/ e = None
  <2>1. y = x
    BY <1>1 DEF sig_queueaction
  <2> QED
    BY <2>1 DEF SameP, SameR
<1>2. CASE s \in Handled /\ e # None
  <2>1. y = [x EXCEPT !.qpool = Rest(@, isr), !.qsig[e] = s, !.actq = Append(@, e)]
    BY <1>2 DEF sig_queueaction
  <2>2. x.qpool \in PoolType /\ x.actq \in Seq(Ent) /\ x.posted \in Seq(Ent)
    BY DEF QOK, KType
  <2>3. /\ e \in Ent /\ e \notin Range(x.actq) /\ e \notin Range(x.posted)
        /\ Rest(x.qpool, isr) \in PoolType
        /\ OnePlace(Rest(x.qpool, isr), Append(x.actq, e), Range(x.posted))
    BY <1>2, <2>2, TakeLemma DEF QOK
  <2> HIDE DEF e, y
  <2>4. y \in KType
    <3> DEFINE c == [x.qsig EXCEPT ![e] = s]
               d == Append(x.actq, e)
               p == Rest(x.qpool, isr)
    <3>1. x.qsig \in [Ent -> Sig \cup {0}] /\ x \in KType
      BY DEF QOK, KType
    <3>2. c \in [Ent -> Sig \cup {0}] /\ d \in Seq(Ent) /\ p \in PoolType
      BY <2>2, <2>3, <3>1
    <3>3. y = [x EXCEPT !.qpool = p, !.qsig = c, !.actq = d]
      BY <2>1, <3>1 DEF KType
    <3> HIDE DEF c, d, p
    <3> QED
      BY <3>1, <3>2, <3>3 DEF KType
  <2>5. /\ y.qpool = Rest(x.qpool, isr) /\ y.actq = Append(x.actq, e) /\ y.posted = x.posted
        /\ SameP(x, y) /\ SameR(x, y) /\ y.panic = x.panic
        /\ y.qsig = [x.qsig EXCEPT ![e] = s]
    BY <2>1 DEF QOK, KType, SameP, SameR
  <2>6. x.qsig \in [Ent -> Sig \cup {0}]
    BY DEF QOK, KType
  <2>7. Range(y.actq) = Range(x.actq) \cup {e}
    <3>1. IsInjective(x.actq)
      BY DEF QOK, OnePlace
    <3> QED
      BY <2>2, <2>3, <2>5, <3>1, AppendLemma
  <2>8. Actions(y)
    <3>1. Range(x.actq) \subseteq Ent /\ Range(x.posted) \subseteq Ent
      BY <2>2, RangeLemma
    <3>2. y.qsig[e] = s /\ \A d \in Ent \ {e} : y.qsig[d] = x.qsig[d]
      BY <2>3, <2>5, <2>6
    <3> QED
      BY <1>2, <2>5, <2>7, <3>1, <3>2 DEF Actions, QOK
  <2>9. QOK(y)
    BY <2>3, <2>4, <2>5, <2>8 DEF QOK
  <2> QED
    BY <2>5, <2>9 DEF y
<1> QED
  BY <1>1, <1>2

(* sig_addpendingsignal() *)
LEMMA AddLemma ==
    ASSUME NEW x, QOK(x), NEW H, POK(x, H), NEW s \in Sig, NEW isr \in BOOLEAN
    PROVE  LET y == AddPending(x, s, isr) IN
           /\ QOK(y) /\ POK(y, H) /\ SameQ(x, y) /\ SameR(x, y)
           /\ Pending(y) \subseteq Pending(x) \cup {s}
           /\ Once(x) /\ s \notin Pending(x) => Once(y)
<1> DEFINE y == AddPending(x, s, isr)
           e == Taken(x.ppool, isr)
<1>1. CASE e = None
  <2>1. y = [x EXCEPT !.panic = TRUE]
    BY <1>1 DEF AddPending
  <2> HIDE DEF y
  <2>2. y \in KType /\ SameQ(x, y) /\ SameR(x, y) /\ SameP(x, y)
    BY <2>1 DEF QOK, KType, SameQ, SameR, SameP
  <2>3. QOK(y) /\ POK(y, H) /\ Pending(y) = Pending(x) /\ (Once(x) => Once(y))
    BY <2>2, SameLemma
  <2> QED
    BY <2>2, <2>3 DEF y
<1>2. CASE e # None
  <2>1. y = [x EXCEPT !.ppool = Rest(@, isr), !.psig[e] = s, !.pendq = Append(@, e)]
    BY <1>2 DEF AddPending
  <2>2. x.ppool \in PoolType /\ x.pendq \in Seq(Ent) /\ x.psig \in [Ent -> Sig \cup {0}]
    BY DEF QOK, KType
  <2>3. /\ e \in Ent /\ e \notin Range(x.pendq)
        /\ Rest(x.ppool, isr) \in PoolType
        /\ OnePlace(Rest(x.ppool, isr), Append(x.pendq, e), H)
    BY <1>2, <2>2, TakeLemma DEF POK
  <2> HIDE DEF e, y
  <2>4. y \in KType
    <3> DEFINE c == [x.psig EXCEPT ![e] = s]
               d == Append(x.pendq, e)
               p == Rest(x.ppool, isr)
    <3>1. x \in KType
      BY DEF QOK
    <3>2. c \in [Ent -> Sig \cup {0}] /\ d \in Seq(Ent) /\ p \in PoolType
      BY <2>2, <2>3
    <3>3. y = [x EXCEPT !.ppool = p, !.psig = c, !.pendq = d]
      BY <2>1, <3>1 DEF KType
    <3> HIDE DEF c, d, p
    <3> QED
      BY <3>1, <3>2, <3>3 DEF KType
  <2>5. /\ y.ppool = Rest(x.ppool, isr) /\ y.pendq = Append(x.pendq, e)
        /\ SameQ(x, y) /\ SameR(x, y) /\ y.psig = [x.psig EXCEPT ![e] = s]
    BY <2>1 DEF QOK, KType, SameQ, SameR
  <2>7. Range(y.pendq) = Range(x.pendq) \cup {e} /\ Range(x.pendq) \subseteq Ent
    <3>1. IsInjective(x.pendq)
      BY DEF POK, OnePlace
    <3> QED
      BY <2>2, <2>3, <2>5, <3>1, AppendLemma, RangeLemma
  <2>8. y.psig[e] = s /\ \A d \in Range(x.pendq) : y.psig[d] = x.psig[d]
    BY <2>2, <2>3, <2>5, <2>7
  <2>9. Pending(y) \subseteq Pending(x) \cup {s}
    BY <2>7, <2>8 DEF Pending
  <2>6. QOK(y) /\ POK(y, H)
    BY <2>3, <2>4, <2>5, <2>9, SameLemma DEF POK
  <2>10. Once(x) /\ s \notin Pending(x) => Once(y)
    <3>1. SUFFICES ASSUME Once(x), s \notin Pending(x) PROVE Once(y)
      OBVIOUS
    <3>2. \A d \in Range(x.pendq) : x.psig[d] # s
      BY <3>1 DEF Pending
    <3> QED
      BY <2>7, <2>8, <3>1, <3>2 DEF Once
  <2> QED
    BY <2>5, <2>6, <2>9, <2>10 DEF y
<1> QED
  BY <1>1, <1>2

(* The wakeup *)
LEMMA WakeLemma ==
    ASSUME NEW x, x \in KType, NEW s \in Sig \cup {0}
    PROVE  LET y == Wake(x, s) IN
           /\ y \in KType /\ SameQ(x, y) /\ SameP(x, y) /\ y.mask = x.mask /\ y.tramp = x.tramp
           /\ y.waiting = FALSE
BY DEF Wake, KType, SameQ, SameP

(* sig_removependingsignal() takes one pending signal, of the number       *)
(* looked for.                                                             *)
LEMMA RemovePendingLemma ==
    ASSUME NEW x, QOK(x), NEW H, POK(x, H), NEW s \in Pending(x)
    PROVE  LET e == FirstOf(x, s)
               y == RemovePending(x, e) IN
           /\ e \in Ent /\ e \notin H /\ s \in Sig /\ x.psig[e] = s /\ QOK(y) /\ POK(y, H \cup {e})
           /\ SameQ(x, y) /\ SameR(x, y) /\ y.ppool = x.ppool /\ y.panic = x.panic
           /\ Pending(y) \subseteq Pending(x)
           /\ Once(x) => Once(y) /\ s \notin Pending(y)
<1> DEFINE e == FirstOf(x, s)
           y == RemovePending(x, e)
           I == {n \in 1 .. Len(x.pendq) : x.psig[x.pendq[n]] = s}
<1>1. x.ppool \in PoolType /\ x.pendq \in Seq(Ent) /\ x.psig \in [Ent -> Sig \cup {0}]
  BY DEF QOK, KType
<1>2. e \in Range(x.pendq) /\ x.psig[e] = s
  <2>1. I \subseteq Nat /\ I # {}
    <3>1. PICK d \in Range(x.pendq) : x.psig[d] = s
      BY DEF Pending
    <3>2. PICK n \in 1 .. Len(x.pendq) : x.pendq[n] = d
      BY <1>1, RangeLemma
    <3> QED
      BY <3>1, <3>2
  <2>2. Min(I) \in I
    BY <2>1, MinLemma
  <2>3. e = x.pendq[Min(I)]
    BY DEF FirstOf
  <2> HIDE DEF I, e
  <2>4. Min(I) \in 1 .. Len(x.pendq) /\ x.psig[x.pendq[Min(I)]] = s
    BY <2>2 DEF I
  <2> QED
    BY <1>1, <2>3, <2>4, RangeLemma
<1> HIDE DEF e, I
<1>3. /\ sq_rem(x.pendq, e) \in Seq(Ent) /\ Range(sq_rem(x.pendq, e)) = Range(x.pendq) \ {e}
      /\ e \in Ent /\ e \notin H /\ OnePlace(x.ppool, sq_rem(x.pendq, e), H \cup {e})
  BY <1>1, <1>2, MoveLemma DEF POK
<1>4. y = [x EXCEPT !.pendq = sq_rem(@, e)]
  BY DEF RemovePending
<1> HIDE DEF y
<1>5. /\ y \in KType /\ y.pendq = sq_rem(x.pendq, e) /\ SameQ(x, y) /\ SameR(x, y)
      /\ y.ppool = x.ppool /\ y.psig = x.psig /\ y.panic = x.panic
  BY <1>3, <1>4 DEF QOK, KType, SameQ, SameR
<1>7. Pending(y) \subseteq Pending(x)
  BY <1>3, <1>5 DEF Pending
<1>6. QOK(y) /\ POK(y, H \cup {e})
  BY <1>3, <1>5, <1>7, SameLemma DEF POK
<1>8. Once(x) => Once(y) /\ s \notin Pending(y)
  BY <1>2, <1>3, <1>5 DEF Once, Pending
<1> QED
  BY <1>2, <1>3, <1>5, <1>6, <1>7, <1>8 DEF e, y, POK

(* sig_tcbdispatch() *)
LEMMA DispatchLemma ==
    ASSUME NEW x, QOK(x), NEW H, POK(x, H), NEW s \in Sig, NEW isr \in BOOLEAN
    PROVE  LET y == Dispatch(x, s, isr) IN
           /\ QOK(y) /\ POK(y, H) /\ y.mask = x.mask /\ y.posted = x.posted
           /\ y.waiting => x.waiting /\ y.waitmask = x.waitmask
           /\ y.tramp = TRUE \/ (y.tramp = x.tramp /\ y.actq = x.actq)
           /\ s \in x.mask => y.tramp = x.tramp /\ y.actq = x.actq
           /\ Pending(y) \subseteq Pending(x) \cup {s}
           /\ Once(x) => Once(y)
           /\ s \notin x.mask \/ (x.waiting /\ s \in x.waitmask) => Pending(y) = Pending(x)
<1> DEFINE y == Dispatch(x, s, isr)
<1>0. x \in KType
  BY DEF QOK
<1>1. CASE s \in x.mask /\ x.waiting /\ s \in x.waitmask
  <2>1. y = Wake(x, s)
    BY <1>1 DEF Dispatch
  <2> HIDE DEF y
  <2>2. /\ y \in KType /\ SameQ(x, y) /\ SameP(x, y) /\ y.mask = x.mask /\ y.tramp = x.tramp
        /\ y.waiting = FALSE
    BY <1>0, <2>1, WakeLemma
  <2>3. QOK(y) /\ POK(y, H) /\ Pending(y) = Pending(x) /\ (Once(x) => Once(y))
    BY <2>2, SameLemma
  <2> QED
    BY <2>2, <2>3 DEF SameQ, y
<1>2. CASE s \in x.mask /\ ~ (x.waiting /\ s \in x.waitmask) /\ s \in Pending(x)
  <2>1. y = x
    BY <1>2 DEF Dispatch
  <2> QED
    BY <2>1
<1>3. CASE s \in x.mask /\ ~ (x.waiting /\ s \in x.waitmask) /\ s \notin Pending(x)
  <2>1. y = AddPending(x, s, isr)
    BY <1>3 DEF Dispatch
  <2> HIDE DEF y
  <2>2. /\ QOK(y) /\ POK(y, H) /\ SameQ(x, y) /\ SameR(x, y)
        /\ Pending(y) \subseteq Pending(x) \cup {s}
        /\ Once(x) => Once(y)
    BY <1>3, <2>1, AddLemma
  <2> QED
    BY <1>3, <2>2 DEF SameQ, SameR, y
<1>4. CASE s \notin x.mask
  <2> DEFINE z == sig_queueaction(x, s, isr)
             v == up_schedule_sigaction(z)
  <2>1. y = IF v.waiting THEN Wake(v, s) ELSE v
    BY <1>4 DEF Dispatch
  <2>2. QOK(z) /\ SameP(x, z) /\ SameR(x, z) /\ z.posted = x.posted
    BY QueueLemma
  <2>3. v = [z EXCEPT !.tramp = TRUE]
    BY DEF up_schedule_sigaction
  <2> HIDE DEF v, z, y
  <2>4. /\ v \in KType /\ SameQ(z, v) /\ SameP(z, v) /\ v.mask = z.mask /\ v.tramp = TRUE
        /\ v.waiting = z.waiting /\ v.waitmask = z.waitmask
    BY <2>2, <2>3 DEF QOK, KType, SameQ, SameP
  <2>5. /\ y \in KType /\ SameQ(z, y) /\ SameP(z, y) /\ y.mask = z.mask /\ y.tramp = TRUE
        /\ y.waiting => z.waiting /\ y.waitmask = z.waitmask
    <3>1. CASE v.waiting
      BY <2>1, <2>4, <3>1, WakeLemma DEF SameQ, SameP
    <3>2. CASE ~ v.waiting
      BY <2>1, <2>4, <3>2
    <3> QED
      BY <3>1, <3>2
  <2>6. SameP(x, y) /\ y.mask = x.mask /\ y.posted = x.posted
    BY <2>2, <2>5 DEF SameP, SameQ, SameR
  <2>7. QOK(y) /\ POK(y, H) /\ Pending(y) = Pending(x) /\ (Once(x) => Once(y))
    BY <2>2, <2>5, <2>6, SameLemma
  <2> QED
    BY <1>4, <2>2, <2>5, <2>6, <2>7 DEF SameR, y
<1> QED
  BY <1>1, <1>2, <1>3, <1>4

-----------------------------------------------------------------------------
(* QInv holds at the start, and every action keeps it. *)

LEMMA PoolLemma ==
    /\ Pool \in PoolType
    /\ OnePlace(Pool, <<>>, {})
<1>1. ASSUME NEW S, IsFiniteSet(S), S \subseteq Ent
      PROVE  SetToSeq(S) \in Seq(Ent) /\ IsInjective(SetToSeq(S)) /\ Range(SetToSeq(S)) = S
  <2> DEFINE q == SetToSeq(S)
             n == Cardinality(S)
  <2>1. /\ n \in Nat /\ q \in Seq(S) /\ Len(q) = n
        /\ \A i, j \in 1 .. n : q[i] = q[j] => i = j
        /\ \A x \in S : \E i \in 1 .. n : q[i] = x
    BY <1>1, Enumeration
  <2> HIDE DEF q, n
  <2>2. DOMAIN q = 1 .. n /\ \A i \in 1 .. n : q[i] \in S
    BY <2>1
  <2>3. IsInjective(q) /\ Range(q) = S
    BY <2>1, <2>2 DEF IsInjective, Range
  <2>4. q \in Seq(Ent)
    BY <1>1, <2>1
  <2> QED
    BY <2>3, <2>4 DEF q
<1>2. /\ IsFiniteSet(Fixed) /\ Fixed \subseteq Ent /\ IsFiniteSet(Irq) /\ Irq \subseteq Ent
      /\ Dyn \subseteq Ent
  BY SignalAssumption DEF Ent
<1>3. /\ Pool.fix = SetToSeq(Fixed) /\ Pool.irq = SetToSeq(Irq) /\ Pool.dyn = Dyn
      /\ Pool = [fix |-> SetToSeq(Fixed), irq |-> SetToSeq(Irq), dyn |-> Dyn]
  BY DEF Pool
<1>4. /\ SetToSeq(Fixed) \in Seq(Ent) /\ IsInjective(Pool.fix) /\ Range(Pool.fix) = Fixed
      /\ SetToSeq(Irq) \in Seq(Ent) /\ IsInjective(Pool.irq) /\ Range(Pool.irq) = Irq
  BY <1>1, <1>2, <1>3
<1>5. Pool \in PoolType
  BY <1>2, <1>3, <1>4 DEF PoolType
<1>6. IsInjective(<<>>) /\ Range(<<>>) = {}
  BY DEF IsInjective, Range
<1>7. Free(Pool) = Ent
  BY <1>3, <1>4 DEF Free, Ent
<1> QED
  BY <1>3, <1>4, <1>5, <1>6, <1>7 DEF OnePlace

LEMMA InitQ == Init => QInv
<1>1. SUFFICES ASSUME Init PROVE QInv
  OBVIOUS
<1>2. /\ k.mask = {} /\ k.pendq = <<>> /\ k.actq = <<>> /\ k.posted = <<>> /\ ~ k.waiting
      /\ k.qpool = Pool /\ k.ppool = Pool /\ k.tramp = FALSE
  BY <1>1 DEF Init
<1>3. stack = <<>> /\ snd = [at |-> "idle", sig |-> 0] /\ cpu = "R" /\ want = {}
  BY <1>1 DEF Init
<1>4. k \in KType
  <2>1. <<>> \in Seq(Ent) /\ Pool \in PoolType
    BY PoolLemma
  <2>2. [e \in Ent |-> 0] \in [Ent -> Sig \cup {0}]
    OBVIOUS
  <2> QED
    BY <1>1, <2>1, <2>2 DEF Init, KType
<1>5. IsInjective(<<>>) /\ Range(<<>>) = {}
  BY DEF IsInjective, Range
<1>6. QOK(k) /\ POK(k, {})
  BY <1>2, <1>4, <1>5, PoolLemma DEF QOK, POK, Actions, Pending
<1>7. Parts(k, stack) /\ Served(stack, k.actq)
  BY <1>2, <1>3, <1>6, NoFrame DEF Parts
<1>8. Turns /\ Len(stack) = 0
  BY <1>2, <1>3, NoFrame DEF Turns
<1> QED
  BY <1>3, <1>7, <1>8 DEF QInv, Scheduled, Sends, SndType

(* A step that leaves the stack alone. *)
LEMMA KernelStep ==
    ASSUME QInv, UNCHANGED <<stack, cpu, want>>, QOK(k'), POK(k', Hands(stack)),
           k'.posted = k.posted, k'.waiting => k.waiting,
           Sends(snd'), cpu = "R" => snd'.at = "idle",
           k'.tramp \/ snd'.at = "sched" \/ Served(stack, k'.actq)
    PROVE  QInv'
<1>1. Parts(k', stack')
  BY DEF QInv, Parts
<1>2. Turns'
  BY DEF QInv, Turns
<1>3. Scheduled'
  BY DEF Scheduled
<1> QED
  BY <1>1, <1>2, <1>3 DEF QInv

(* A step that R takes. *)
LEMMA StackStep ==
    ASSUME QInv, cpu = "R", UNCHANGED <<snd, cpu>>, want' \in SUBSET Sig,
           Parts(k', stack'), k'.waiting = FALSE, Served(stack', k'.actq)
    PROVE  QInv'
<1>1. Turns'
  BY DEF QInv, Turns
<1>2. Scheduled'
  BY DEF Scheduled
<1> QED
  BY <1>1, <1>2 DEF QInv

(* Where R runs, the queue is served by its stack. *)
LEMMA RunsLemma ==
    ASSUME QInv, Runs
    PROVE  /\ k.panic = FALSE /\ cpu = "R" /\ k.waiting = FALSE /\ k.tramp = FALSE
           /\ Served(stack, k.actq) /\ k \in KType /\ snd.at = "idle"
<1>1. k \in KType
  BY DEF QInv, Parts, QOK
<1>2. k.panic = FALSE /\ k.waiting = FALSE /\ k.tramp = FALSE
  BY <1>1 DEF Runs, KType
<1>3. snd.at = "idle"
  BY DEF QInv, Turns, Runs
<1> QED
  BY <1>1, <1>2, <1>3 DEF QInv, Scheduled, Runs

LEMMA AtLemma ==
    ASSUME QInv, NEW f, NEW a, At(f, a)
    PROVE  /\ Runs /\ stack \in Seq(FrameType) /\ stack # <<>> /\ Top = Last(stack)
           /\ Top \in FrameType /\ Top.f = f /\ Top.at = a /\ Places(Top)
<1>1. stack \in Seq(FrameType) /\ stack # <<>> /\ Runs /\ Top.f = f /\ Top.at = a
  BY DEF QInv, Parts, At, Top
<1>2. Len(stack) \in Nat \ {0} /\ Top = stack[Len(stack)] /\ Top \in FrameType
  BY <1>1, EmptySeq DEF Top, Last
<1>3. Places(Top)
  BY <1>2 DEF QInv, Parts, Shape
<1> QED
  BY <1>1, <1>2, <1>3 DEF Top

(* S in kill() *)
LEMMA SKillQ ==
    ASSUME QInv, NEW s \in TaskSig, SKill(s)
    PROVE  QInv'
<1>1. s \in Sig /\ QOK(k) /\ POK(k, Hands(stack)) /\ k \in KType
  BY SignalAssumption DEF QInv, Parts, QOK
<1>2. cpu = "S" /\ snd.at = "idle" /\ UNCHANGED <<stack, cpu, want>>
  BY DEF SKill, SendAt
<1>3. k.tramp \/ Served(stack, k.actq)
  BY <1>2 DEF QInv, Scheduled
<1>4. CASE snd' \in {[at |-> "queue", sig |-> s], [at |-> "find", sig |-> s]} /\ UNCHANGED k
  <2>1. Sends(snd')
    BY <1>1, <1>4 DEF Sends, SndType
  <2>2. QOK(k') /\ POK(k', Hands(stack)) /\ k' = k
    BY <1>1, <1>4
  <2> QED
    BY <1>2, <1>3, <2>1, <2>2, KernelStep
<1>5. CASE k' = Wake(k, s) /\ UNCHANGED snd
  <2>1. /\ k' \in KType /\ SameQ(k, k') /\ SameP(k, k') /\ k'.tramp = k.tramp
        /\ k'.waiting = FALSE
    BY <1>1, <1>5, WakeLemma
  <2>2. QOK(k') /\ POK(k', Hands(stack)) /\ k'.posted = k.posted /\ k'.actq = k.actq
    BY <1>1, <2>1, SameLemma DEF SameQ
  <2>3. Sends(snd')
    BY <1>5 DEF QInv
  <2> QED
    BY <1>2, <1>3, <2>1, <2>2, <2>3, KernelStep
<1> QED
  BY <1>4, <1>5 DEF SKill

LEMMA SFindQ ==
    ASSUME QInv, SFind
    PROVE  QInv'
<1>1. QOK(k) /\ POK(k, Hands(stack)) /\ Sends(snd)
  BY DEF QInv, Parts
<1>2. cpu = "S" /\ snd.at = "find" /\ UNCHANGED <<k, stack, cpu, want>>
  BY DEF SFind, SendAt
<1>3. Sends(snd')
  BY <1>1 DEF SFind, SendAt, Sends, SndType, Idle
<1>4. k.tramp \/ Served(stack, k.actq)
  BY <1>2 DEF QInv, Scheduled
<1>5. QOK(k') /\ POK(k', Hands(stack)) /\ k' = k
  BY <1>1, <1>2
<1> QED
  BY <1>2, <1>3, <1>4, <1>5, KernelStep

LEMMA SAddQ ==
    ASSUME QInv, SAdd
    PROVE  QInv'
<1>1. QOK(k) /\ POK(k, Hands(stack)) /\ snd.sig \in Sig
  BY SignalAssumption DEF QInv, Parts, SAdd, SendAt, Sends
<1>2. /\ cpu = "S" /\ snd.at = "add" /\ UNCHANGED <<stack, cpu, want>>
      /\ k' = AddPending(k, snd.sig, FALSE)
  BY DEF SAdd, SendAt
<1>3. Sends(snd')
  BY DEF SAdd, Sends, SndType, Idle
<1>4. k.tramp \/ Served(stack, k.actq)
  BY <1>2 DEF QInv, Scheduled
<1>5. QOK(k') /\ POK(k', Hands(stack)) /\ SameQ(k, k') /\ SameR(k, k')
  BY <1>1, <1>2, AddLemma
<1> QED
  BY <1>2, <1>3, <1>4, <1>5, KernelStep DEF SameQ, SameR

LEMMA SQueueQ ==
    ASSUME QInv, SQueue
    PROVE  QInv'
<1>1. QOK(k) /\ POK(k, Hands(stack)) /\ snd.sig \in Sig /\ Sends(snd)
  BY SignalAssumption DEF QInv, Parts, SQueue, SendAt, Sends
<1>2. cpu = "S" /\ UNCHANGED <<stack, cpu, want>> /\ k' = sig_queueaction(k, snd.sig, FALSE)
  BY DEF SQueue, SendAt
<1>3. Sends(snd') /\ snd'.at = "sched"
  BY <1>1 DEF SQueue, SendAt, Sends, SndType
<1>5. QOK(k') /\ SameP(k, k') /\ SameR(k, k') /\ k'.posted = k.posted
  BY <1>1, <1>2, QueueLemma
<1>6. POK(k', Hands(stack))
  BY <1>1, <1>5, SameLemma DEF QOK
<1> QED
  BY <1>2, <1>3, <1>5, <1>6, KernelStep DEF SameR

LEMMA SSchedQ ==
    ASSUME QInv, SSched
    PROVE  QInv'
<1>1. QOK(k) /\ POK(k, Hands(stack)) /\ Sends(snd) /\ k \in KType
  BY DEF QInv, Parts, QOK
<1>2. cpu = "S" /\ UNCHANGED <<stack, cpu, want>> /\ k' = [k EXCEPT !.tramp = TRUE]
  BY DEF SSched, SendAt, up_schedule_sigaction
<1>3. Sends(snd')
  BY <1>1 DEF SSched, SendAt, Sends, SndType
<1>5. k' \in KType /\ SameQ(k, k') /\ SameP(k, k') /\ k'.tramp = TRUE /\ k'.waiting = k.waiting
  BY <1>1, <1>2 DEF KType, SameQ, SameP
<1>6. QOK(k') /\ POK(k', Hands(stack)) /\ k'.posted = k.posted
  BY <1>1, <1>5, SameLemma DEF SameQ
<1> QED
  BY <1>2, <1>3, <1>5, <1>6, KernelStep

LEMMA SWakeQ ==
    ASSUME QInv, SWake
    PROVE  QInv'
<1>1. QOK(k) /\ POK(k, Hands(stack)) /\ Sends(snd) /\ k \in KType
  BY DEF QInv, Parts, QOK
<1>2. cpu = "S" /\ snd.at = "wake" /\ UNCHANGED <<stack, cpu, want>>
  BY DEF SWake, SendAt
<1>3. Sends(snd')
  BY DEF SWake, Sends, SndType, Idle
<1>4. k.tramp \/ Served(stack, k.actq)
  BY <1>2 DEF QInv, Scheduled
<1>5. snd.sig \in Sig \cup {0}
  BY <1>1 DEF Sends, SndType
<1>6. /\ k' \in KType /\ SameQ(k, k') /\ SameP(k, k') /\ k'.tramp = k.tramp
      /\ k'.waiting => k.waiting
  <2>1. CASE k.waiting
    <3>1. k' = Wake(k, snd.sig)
      BY <2>1 DEF SWake
    <3> QED
      BY <1>1, <1>5, <2>1, <3>1, WakeLemma
  <2>2. CASE ~ k.waiting
    <3>1. k' = k
      BY <2>2 DEF SWake
    <3> QED
      BY <1>1, <3>1 DEF SameQ, SameP
  <2> QED
    BY <2>1, <2>2
<1>7. QOK(k') /\ POK(k', Hands(stack)) /\ k'.posted = k.posted /\ k'.actq = k.actq
  BY <1>1, <1>6, SameLemma DEF SameQ
<1> QED
  BY <1>2, <1>3, <1>4, <1>6, <1>7, KernelStep

(* Interrupts *)
LEMMA IsrKillQ ==
    ASSUME QInv, NEW s \in IsrSig, IsrKill(s)
    PROVE  QInv'
<1>1. QOK(k) /\ POK(k, Hands(stack)) /\ s \in Sig /\ Sends(snd)
  BY SignalAssumption DEF QInv, Parts
<1>2. UNCHANGED <<stack, snd, cpu, want>> /\ k' = Dispatch(k, s, TRUE)
  BY DEF IsrKill
<1>3. /\ QOK(k') /\ POK(k', Hands(stack)) /\ k'.posted = k.posted
      /\ k'.waiting => k.waiting
      /\ k'.tramp = TRUE \/ (k'.tramp = k.tramp /\ k'.actq = k.actq)
  BY <1>1, <1>2, DispatchLemma
<1>4. Sends(snd') /\ (cpu = "R" => snd'.at = "idle")
  BY <1>1, <1>2 DEF QInv, Turns
<1>5. k'.tramp \/ snd'.at = "sched" \/ Served(stack, k'.actq)
  BY <1>2, <1>3 DEF QInv, Scheduled
<1> QED
  BY <1>2, <1>3, <1>4, <1>5, KernelStep

LEMMA TimeoutQ ==
    ASSUME QInv, sig_timeout
    PROVE  QInv'
<1>1. QOK(k) /\ POK(k, Hands(stack)) /\ Sends(snd) /\ k \in KType
  BY DEF QInv, Parts, QOK
<1>2. UNCHANGED <<stack, snd, cpu, want>> /\ k' = Wake(k, 0)
  BY DEF sig_timeout
<1>3. k' \in KType /\ SameQ(k, k') /\ SameP(k, k') /\ k'.tramp = k.tramp /\ k'.waiting = FALSE
  BY <1>1, <1>2, WakeLemma
<1>4. QOK(k') /\ POK(k', Hands(stack)) /\ k'.posted = k.posted /\ k'.actq = k.actq
  BY <1>1, <1>3, SameLemma DEF SameQ
<1>5. Sends(snd') /\ (cpu = "R" => snd'.at = "idle")
  BY <1>1, <1>2 DEF QInv, Turns
<1>6. k'.tramp \/ snd'.at = "sched" \/ Served(stack, k'.actq)
  BY <1>2, <1>3, <1>4 DEF QInv, Scheduled
<1> QED
  BY <1>2, <1>3, <1>4, <1>5, <1>6, KernelStep

LEMMA SwitchQ ==
    ASSUME QInv, Switch
    PROVE  QInv'
<1>1. UNCHANGED <<k, stack, snd, want>>
  BY DEF Switch
<1>2. /\ Parts(k', stack') /\ Sends(snd') /\ want' \in SUBSET Sig
  BY <1>1 DEF QInv
<1>3. Scheduled'
  <2>1. Scheduled
    BY DEF QInv
  <2> QED
    BY <1>1, <2>1 DEF Scheduled
<1>4. cpu' \in {"R", "S"}
  BY DEF Switch
<1>5. Turns'
  <2>1. CASE cpu = "R" /\ stack = <<>> /\ cpu' = "S"
    <3>1. Len(stack') = 0
      BY <1>1, <2>1
    <3> QED
      BY <1>1, <2>1, <3>1 DEF Turns, QInv
  <2>2. CASE cpu = "S" /\ snd.at = "idle" /\ ~ k.waiting /\ cpu' = "R"
    BY <1>1, <2>2 DEF Turns
  <2> QED
    BY <2>1, <2>2 DEF Switch
<1> QED
  BY <1>2, <1>3, <1>4, <1>5 DEF QInv

(* A fault changes nothing else. *)
LEMMA PanicStep ==
    ASSUME QInv, k' = [k EXCEPT !.panic = TRUE], UNCHANGED <<stack, snd, cpu, want>>
    PROVE  QInv'
<1>1. QOK(k) /\ POK(k, Hands(stack)) /\ k \in KType
  BY DEF QInv, Parts, QOK
<1>2. k' \in KType /\ SameQ(k, k') /\ SameP(k, k') /\ k'.tramp = k.tramp /\ k'.waiting = k.waiting
  BY <1>1 DEF KType, SameQ, SameP
<1>3. QOK(k') /\ POK(k', Hands(stack)) /\ k'.posted = k.posted /\ k'.actq = k.actq
  BY <1>1, <1>2, SameLemma DEF SameQ
<1>4. Sends(snd') /\ (cpu = "R" => snd'.at = "idle")
  BY DEF QInv, Turns
<1>5. k'.tramp \/ snd'.at = "sched" \/ Served(stack, k'.actq)
  BY <1>2, <1>3 DEF QInv, Scheduled
<1> QED
  BY <1>2, <1>3, <1>4, <1>5, KernelStep

(* R in up_sigdeliver() and sig_deliver() *)
LEMMA DeliverFrame ==
    ASSUME QInv, NEW off \in BOOLEAN
    PROVE  LET fr == Deliver(off) IN
           /\ fr \in FrameType /\ fr.f = "deliver" /\ fr.at = "loop" /\ Places(fr) /\ ~ Waits(fr)
           /\ ~ Saver(fr) /\ Server(fr) /\ Serves(fr, k.actq) /\ ~ Calling(fr) /\ ~ Holds(fr)
<1> DEFINE fr == Deliver(off)
<1>1. k.actq \in Seq(Ent)
  BY DEF QInv, Parts, QOK, KType
<1>2. HeadOf(k.actq) \in Ent \cup {None} /\ (k.actq # <<>> => HeadOf(k.actq) = Head(k.actq))
  <2>1. CASE k.actq = <<>>
    BY <2>1 DEF HeadOf
  <2>2. CASE k.actq # <<>>
    <3>1. Head(k.actq) \in Ent
      BY <1>1, <2>2
    <3> QED
      BY <2>2, <3>1 DEF HeadOf
  <2> QED
    BY <2>1, <2>2
<1>3. fr \in FrameType /\ fr.f = "deliver" /\ fr.at = "loop" /\ fr.sigq = HeadOf(k.actq)
  BY <1>2 DEF Deliver, Frame, FrameType
<1> QED
  BY <1>2, <1>3 DEF Places, Waits, Saver, Server, Serves, Calling, Holds

LEMMA UnmaskFrame ==
    ASSUME NEW x \in KType, Pending(x) \subseteq Sig
    PROVE  LET fr == Unmask(x) IN
           /\ fr \in FrameType /\ fr.f = "unmask" /\ fr.at = "loop" /\ Places(fr) /\ ~ Waits(fr)
           /\ ~ Saver(fr) /\ ~ Server(fr) /\ ~ Calling(fr) /\ ~ Holds(fr)
           /\ fr.set = Pending(x) \ x.mask
<1> DEFINE fr == Unmask(x)
<1>1. Pending(x) \ x.mask \subseteq Sig
  OBVIOUS
<1>2. /\ fr \in FrameType /\ fr.f = "unmask" /\ fr.at = "loop" /\ fr.sigq = None
      /\ fr.set = Pending(x) \ x.mask
  BY <1>1 DEF Unmask, Frame, FrameType
<1> QED
  BY <1>2 DEF Places, Waits, Saver, Server, Calling, Holds

LEMMA UpSigdeliverQ ==
    ASSUME QInv, up_sigdeliver
    PROVE  QInv'
<1> DEFINE fr == Deliver(~ IrqsOn)
<1>1. /\ Parts(k, stack) /\ k \in KType /\ cpu = "R" /\ ~ k.waiting /\ want \in SUBSET Sig
  BY DEF QInv, Parts, QOK, up_sigdeliver
<1>2. /\ k' = [k EXCEPT !.tramp = FALSE] /\ stack' = Append(stack, fr)
      /\ UNCHANGED <<snd, cpu, want>>
  BY DEF up_sigdeliver
<1>3. (~ IrqsOn) \in BOOLEAN
  OBVIOUS
<1>4. /\ fr \in FrameType /\ Places(fr) /\ ~ Waits(fr)
      /\ Server(fr) /\ Serves(fr, k.actq) /\ ~ Calling(fr) /\ ~ Holds(fr)
  BY <1>3, DeliverFrame
<1> HIDE DEF fr
<1>5. k' \in KType /\ SameQ(k, k') /\ SameP(k, k') /\ k'.waiting = FALSE
  BY <1>1, <1>2 DEF KType, SameQ, SameP
<1>6. /\ stack' \in Seq(FrameType) /\ Shape(stack') /\ Posts(stack', k.posted) /\ Apart(stack')
      /\ Hands(stack') = Hands(stack) /\ Served(stack', k.actq)
  BY <1>1, <1>2, <1>4, PushedLemma, PushShape, PushPosts, PushHands, PushServer DEF Parts
<1>7. Parts(k', stack') /\ Served(stack', k'.actq)
  BY <1>1, <1>5, <1>6, SameLemma DEF Parts, SameQ
<1> QED
  BY <1>1, <1>2, <1>5, <1>7, StackStep

LEMMA DeliverNextQ ==
    ASSUME QInv, DeliverNext
    PROVE  QInv'
<1>1. /\ Runs /\ stack \in Seq(FrameType) /\ stack # <<>> /\ Top = Last(stack)
      /\ Top \in FrameType /\ Top.f = "deliver" /\ Top.at = "loop"
  BY AtLemma DEF DeliverNext
<1>2. cpu = "R" /\ k.waiting = FALSE /\ Served(stack, k.actq) /\ k \in KType
  BY <1>1, RunsLemma
<1>3. UNCHANGED <<snd, cpu, want>> /\ want \in SUBSET Sig /\ Parts(k, stack)
  BY DEF DeliverNext, QInv
<1>4. k.actq \in Seq(Ent) /\ IsInjective(k.actq)
  BY <1>2, <1>3 DEF KType, Parts, QOK, OnePlace
<1>5. Serves(Top, k.actq)
  <2>1. Len(stack) \in Nat \ {0} /\ Top = stack[Len(stack)]
    BY <1>1, TopLemma
  <2>2. Server(stack[Len(stack)]) /\ Len(stack) + 1 .. Len(stack) = {}
    BY <1>1, <2>1 DEF Server
  <2> QED
    BY <1>2, <2>1, <2>2 DEF Served
<1>6. k.actq # <<>> => Top.sigq = Head(k.actq) /\ Head(k.actq) \in Ent
  BY <1>1, <1>4, <1>5 DEF Serves
<1>7. CASE Top.sigq = None /\ Return /\ UNCHANGED k
  <2>1. stack' = Front(stack) /\ k' = k
    BY <1>7 DEF Return
  <2>2. k.actq = <<>>
    BY <1>6, <1>7, SignalAssumption DEF Ent
  <2>3. ~ Holds(Last(stack))
    BY <1>1 DEF Holds
  <2>4. /\ stack' \in Seq(FrameType) /\ Shape(stack') /\ Posts(stack', k.posted) /\ Apart(stack')
        /\ Hands(stack') = Hands(stack) /\ Served(stack', k.actq)
    BY <1>1, <1>2, <1>3, <2>1, <2>2, <2>3, TopLemma, PopShape, PopPosts, PopHands, PopServed
    DEF Parts
  <2>5. Parts(k', stack')
    BY <1>3, <2>1, <2>4 DEF Parts
  <2> QED
    BY <1>2, <1>3, <2>1, <2>4, <2>5, StackStep
<1>8. CASE /\ Top.sigq \in Range(k.actq)
           /\ LET n == CHOOSE i \in 1 .. Len(k.actq) : k.actq[i] = Top.sigq
              IN  Becomes([Top EXCEPT !.at = "post",
                              !.next = IF n < Len(k.actq) THEN k.actq[n + 1] ELSE None])
           /\ UNCHANGED k
  <2>1. Len(k.actq) \in Nat \ {0} /\ k.actq # <<>>
    BY <1>4, <1>8, RangeLemma
  <2>2. (CHOOSE i \in 1 .. Len(k.actq) : k.actq[i] = Top.sigq) = 1
    BY <1>4, <1>6, <2>1, RemHead
  <2> DEFINE nx == IF 1 < Len(k.actq) THEN k.actq[2] ELSE None
             fr == [Top EXCEPT !.at = "post", !.next = nx]
  <2>3. stack' = SetTop(stack, fr) /\ k' = k
    <3> DEFINE c == CHOOSE i \in 1 .. Len(k.actq) : k.actq[i] = Top.sigq
    <3>1. /\ Becomes([Top EXCEPT !.at = "post",
                         !.next = IF c < Len(k.actq) THEN k.actq[c + 1] ELSE None])
          /\ k' = k
      BY <1>8
    <3>2. c = 1
      BY <2>2
    <3> HIDE DEF c
    <3>3. (IF c < Len(k.actq) THEN k.actq[c + 1] ELSE None) = nx
      BY <3>2
    <3> QED
      BY <3>1, <3>3 DEF Becomes, SetTop
  <2>4. nx = HeadOf(Tail(k.actq)) /\ nx \in Ent \cup {None}
    BY <1>4, <2>1, SecondLemma
  <2> HIDE DEF nx
  <2>5. /\ fr \in FrameType /\ fr.f = "deliver" /\ fr.at = "post" /\ fr.sigq = Top.sigq
        /\ fr.next = nx
    BY <1>1, <2>4 DEF FrameType
  <2> HIDE DEF fr
  <2>6. /\ Places(fr) /\ ~ Waits(fr) /\ Server(fr) /\ Serves(fr, k.actq) /\ ~ Calling(fr)
        /\ ~ Holds(fr) /\ ~ Holds(Last(stack))
    BY <1>1, <1>6, <2>4, <2>5 DEF Places, Waits, Server, Serves, Calling, Holds
  <2>7. /\ stack' \in Seq(FrameType) /\ Shape(stack') /\ Posts(stack', k.posted) /\ Apart(stack')
        /\ Hands(stack') = Hands(stack) /\ Served(stack', k.actq)
    <3>1. SetTop(stack, fr) \in Seq(FrameType)
      BY <1>1, <2>5, TopLemma DEF SetTop
    <3>2. Shape(SetTop(stack, fr)) /\ Posts(SetTop(stack, fr), k.posted)
      BY <1>1, <1>3, <2>5, <2>6, TopShape, TopPosts DEF Parts
    <3>3. Apart(SetTop(stack, fr)) /\ Hands(SetTop(stack, fr)) = Hands(stack)
      BY <1>1, <1>3, <2>5, <2>6, TopHands DEF Parts
    <3> QED
      BY <1>1, <2>3, <2>5, <2>6, <3>1, <3>2, <3>3, TopServer
  <2>8. Parts(k', stack')
    BY <1>3, <2>3, <2>7 DEF Parts
  <2> QED
    BY <1>2, <1>3, <2>3, <2>7, <2>8, StackStep
<1>9. CASE k' = [k EXCEPT !.panic = TRUE] /\ UNCHANGED stack
  BY <1>2, <1>3, <1>9, PanicStep
<1> QED
  BY <1>7, <1>8, <1>9 DEF DeliverNext

(* R replaces its top frame. *)
LEMMA ReplaceStep ==
    ASSUME QInv, NEW f, NEW a, At(f, a), NEW fr \in FrameType, Places(fr), ~ Waits(fr),
           stack' = SetTop(stack, fr), UNCHANGED <<snd, cpu, want>>, QOK(k'),
           k'.waiting = FALSE, POK(k', Hands(stack')), Apart(stack'),
           Posts(stack', k'.posted), Served(stack', k'.actq)
    PROVE  QInv'
<1>1. stack \in Seq(FrameType) /\ stack # <<>> /\ Runs
  BY AtLemma
<1>2. stack' \in Seq(FrameType)
  BY <1>1, TopLemma DEF SetTop
<1>3. Shape(stack')
  BY <1>1, TopShape DEF QInv, Parts
<1>4. cpu = "R" /\ want' \in SUBSET Sig
  BY <1>1 DEF QInv, Runs
<1> QED
  BY <1>2, <1>3, <1>4, StackStep DEF Parts

LEMMA DeliverLemma ==
    ASSUME QInv, NEW a, At("deliver", a)
    PROVE  /\ Serves(Top, k.actq)
           /\ ~ Holds(Last(stack)) /\ Server(Last(stack))
           /\ Calling(Top) => Top.sigq \in Range(k.posted) /\ Top.sigq \in Ent
<1>1. /\ Runs /\ stack \in Seq(FrameType) /\ stack # <<>> /\ Top = Last(stack)
      /\ Top \in FrameType /\ Top.f = "deliver"
  BY AtLemma
<1>2. Len(stack) \in Nat \ {0} /\ Top = stack[Len(stack)]
  BY <1>1, TopLemma
<1>3. Server(stack[Len(stack)]) /\ Len(stack) + 1 .. Len(stack) = {}
  BY <1>1, <1>2 DEF Server
<1>4. Served(stack, k.actq)
  BY <1>1, RunsLemma
<1>5. Serves(Top, k.actq)
  BY <1>2, <1>3, <1>4 DEF Served
<1>6. Calling(Top) => Top.sigq \in Range(k.posted)
  BY <1>2 DEF QInv, Parts, Posts
<1>7. Range(k.posted) \subseteq Ent
  <2>1. k.posted \in Seq(Ent)
    BY DEF QInv, Parts, QOK, KType
  <2> QED
    BY <2>1, RangeLemma
<1> QED
  BY <1>1, <1>2, <1>3, <1>5, <1>6, <1>7 DEF Holds

LEMMA DeliverPostQ ==
    ASSUME QInv, DeliverPost
    PROVE  QInv'
<1>1. /\ Runs /\ stack \in Seq(FrameType) /\ stack # <<>> /\ Top = Last(stack)
      /\ Top \in FrameType /\ Top.f = "deliver" /\ Top.at = "post" /\ At("deliver", "post")
  BY AtLemma DEF DeliverPost
<1>2. cpu = "R" /\ k.waiting = FALSE /\ k \in KType /\ UNCHANGED <<snd, cpu, want>>
  BY <1>1, RunsLemma DEF DeliverPost
<1>3. QOK(k) /\ POK(k, Hands(stack)) /\ Apart(stack) /\ Posts(stack, k.posted)
  BY DEF QInv, Parts
<1>4. Serves(Top, k.actq) /\ ~ Holds(Last(stack))
  BY <1>1, DeliverLemma
<1>5. CASE /\ Top.sigq \in Range(k.actq)
           /\ k' = [k EXCEPT !.actq = sq_rem(@, Top.sigq), !.posted = Append(@, Top.sigq)]
           /\ Becomes([Top EXCEPT !.at = "call"])
  <2> DEFINE e == Top.sigq
             fr == [Top EXCEPT !.at = "call"]
             q == sq_rem(k.actq, e)
             p == Append(k.posted, e)
  <2>1. stack' = SetTop(stack, fr) /\ k' = [k EXCEPT !.actq = q, !.posted = p]
    BY <1>5 DEF Becomes, SetTop
  <2>2. /\ k.actq \in Seq(Ent) /\ k.posted \in Seq(Ent) /\ k.qpool \in PoolType
        /\ IsInjective(k.actq) /\ IsInjective(k.posted) /\ k.actq # <<>> /\ e \in Range(k.actq)
    <3>1. /\ k.actq \in Seq(Ent) /\ k.posted \in Seq(Ent) /\ k.qpool \in PoolType
          /\ IsInjective(k.actq) /\ IsInjective(k.posted) /\ e \in Range(k.actq)
      BY <1>2, <1>3, <1>5 DEF KType, QOK, OnePlace
    <3>2. Range(<<>>) = {}
      BY DEF Range
    <3> QED
      BY <3>1, <3>2
  <2>3. e = Head(k.actq) /\ Top.next = HeadOf(Tail(k.actq)) /\ q = Tail(k.actq)
    BY <1>1, <1>4, <2>2, RemHead DEF Serves
  <2>4. /\ q \in Seq(Ent) /\ Range(q) = Range(k.actq) \ {e}
        /\ e \in Ent /\ e \notin Range(k.posted)
        /\ OnePlace(k.qpool, q, Range(k.posted) \cup {e})
    BY <1>3, <2>2, MoveLemma DEF QOK
  <2>5. p \in Seq(Ent) /\ IsInjective(p) /\ Range(p) = Range(k.posted) \cup {e}
    BY <2>2, <2>4, AppendLemma
  <2>6. fr \in FrameType /\ fr.f = "deliver" /\ fr.at = "call" /\ fr.sigq = e /\ fr.next = Top.next
    BY <1>1 DEF FrameType
  <2> HIDE DEF e, fr, q, p
  <2>7. /\ k' \in KType /\ k'.actq = q /\ k'.posted = p /\ k'.qpool = k.qpool /\ k'.qsig = k.qsig
        /\ SameP(k, k') /\ k'.waiting = FALSE
    BY <1>2, <2>1, <2>4, <2>5 DEF KType, SameP
  <2>8. QOK(k')
    <3>1. Actions(k')
      BY <1>3, <2>2, <2>4, <2>5, <2>7 DEF QOK, Actions
    <3> QED
      BY <2>4, <2>5, <2>7, <3>1 DEF QOK
  <2>9. /\ Places(fr) /\ ~ Waits(fr) /\ Server(fr) /\ ~ Holds(fr) /\ ~ Calling(Last(stack))
    BY <1>1, <2>6 DEF Places, Waits, Server, Holds, Calling
  <2>10. Serves(fr, q)
    BY <2>3, <2>6 DEF Serves, HeadOf
  <2>11. Posts(stack', p)
    BY <1>1, <1>3, <2>1, <2>4, <2>5, <2>6, <2>9, TopPosted
  <2>12. Apart(stack') /\ Hands(stack') = Hands(stack) /\ Served(stack', q)
    BY <1>1, <1>3, <1>4, <2>1, <2>6, <2>9, <2>10, TopHands, TopServer
  <2>13. POK(k', Hands(stack'))
    BY <1>3, <2>7, <2>12, SameLemma
  <2> QED
    BY <1>1, <1>2, <2>1, <2>6, <2>7, <2>8, <2>9, <2>11, <2>12, <2>13, ReplaceStep
<1>6. CASE k' = [k EXCEPT !.panic = TRUE] /\ UNCHANGED stack
  BY <1>2, <1>6, PanicStep
<1> QED
  BY <1>5, <1>6 DEF DeliverPost

LEMMA DeliverCallQ ==
    ASSUME QInv, DeliverCall
    PROVE  QInv'
<1>1. /\ Runs /\ stack \in Seq(FrameType) /\ stack # <<>> /\ Top = Last(stack)
      /\ Top \in FrameType /\ Top.f = "deliver" /\ Top.at = "call" /\ At("deliver", "call")
  BY AtLemma DEF DeliverCall
<1>2. cpu = "R" /\ k.waiting = FALSE /\ k \in KType /\ UNCHANGED <<snd, cpu, want>>
  BY <1>1, RunsLemma DEF DeliverCall
<1>3. QOK(k) /\ POK(k, Hands(stack)) /\ Apart(stack) /\ Posts(stack, k.posted)
  BY DEF QInv, Parts
<1>4. /\ Serves(Top, k.actq) /\ ~ Holds(Last(stack)) /\ Calling(Last(stack))
      /\ Top.sigq \in Range(k.posted)
  BY <1>1, DeliverLemma DEF Calling
<1> DEFINE m == k.mask \cup SaMask[k.qsig[Top.sigq]] \cup {k.qsig[Top.sigq]}
           fr == [Top EXCEPT !.at = "handler", !.saved = k.mask]
<1>5. k' = [k EXCEPT !.mask = m] /\ stack' = SetTop(stack, fr)
  BY DEF DeliverCall, Becomes, SetTop
<1>6. k.mask \in SUBSET Sig /\ m \in SUBSET Sig
  <2>1. k.qsig[Top.sigq] \in Handled /\ k.mask \in SUBSET Sig
    BY <1>2, <1>3, <1>4 DEF QOK, Actions, KType
  <2> QED
    BY <2>1, SignalAssumption
<1>7. /\ fr \in FrameType /\ fr.f = "deliver" /\ fr.at = "handler" /\ fr.sigq = Top.sigq
      /\ fr.next = Top.next
  BY <1>1, <1>6 DEF FrameType
<1> HIDE DEF m, fr
<1>8. k' \in KType /\ SameQ(k, k') /\ SameP(k, k') /\ k'.waiting = FALSE
  BY <1>2, <1>5, <1>6 DEF KType, SameQ, SameP
<1>9. /\ Places(fr) /\ ~ Waits(fr) /\ Server(fr) /\ ~ Holds(fr) /\ Serves(fr, k.actq)
  BY <1>1, <1>4, <1>7 DEF Places, Waits, Server, Holds, Serves
<1>10. Posts(stack', k.posted)
  BY <1>1, <1>3, <1>4, <1>5, <1>7, TopPosts
<1>11. Apart(stack') /\ Hands(stack') = Hands(stack) /\ Served(stack', k.actq)
  BY <1>1, <1>3, <1>4, <1>5, <1>7, <1>9, TopHands, TopServer
<1>12. QOK(k') /\ POK(k', Hands(stack')) /\ k'.actq = k.actq /\ k'.posted = k.posted
  BY <1>3, <1>8, <1>11, SameLemma DEF SameQ
<1> QED
  BY <1>1, <1>2, <1>5, <1>7, <1>8, <1>9, <1>10, <1>11, <1>12, ReplaceStep

(* The top frame goes on, with another one on it. *)
LEMMA CallStep ==
    ASSUME QInv, NEW f, NEW a, At(f, a), NEW fr \in FrameType, Places(fr), ~ Waits(fr),
           Holds(fr) <=> Holds(Top), Holds(fr) => fr.sigq = Top.sigq /\ fr.at # "loop",
           Calling(fr) => Calling(Top) /\ fr.sigq = Top.sigq,
           NEW g \in FrameType, Places(g), ~ Waits(g), ~ Holds(g), ~ Calling(g),
           stack' = Append(SetTop(stack, fr), g), UNCHANGED <<snd, cpu, want>>,
           k' \in KType, SameQ(k, k'), SameP(k, k'), k'.waiting = FALSE,
           \/ Server(g) /\ Serves(g, k.actq)
           \/ ~ Server(g) /\ Server(fr) /\ Serves(fr, k.actq)
    PROVE  QInv'
<1> DEFINE st == SetTop(stack, fr)
<1>1. stack \in Seq(FrameType) /\ stack # <<>> /\ Runs /\ Top = Last(stack)
  BY AtLemma
<1>2. QOK(k) /\ POK(k, Hands(stack)) /\ Apart(stack) /\ Posts(stack, k.posted) /\ Shape(stack)
  BY DEF QInv, Parts
<1>3. st \in Seq(FrameType)
  BY <1>1, TopLemma DEF SetTop
<1>4. Shape(st) /\ Posts(st, k.posted) /\ Apart(st) /\ Hands(st) = Hands(stack)
  BY <1>1, <1>2, TopShape, TopPosts, TopHands
<1>5. Server(fr) /\ Serves(fr, k.actq) => Served(st, k.actq)
  BY <1>1, TopServer
<1> HIDE DEF st
<1>6. stack' = Append(st, g)
  BY DEF st
<1>7. /\ stack' \in Seq(FrameType) /\ Shape(stack') /\ Posts(stack', k.posted)
      /\ Apart(stack') /\ Hands(stack') = Hands(stack)
  BY <1>3, <1>4, <1>6, PushedLemma, PushShape, PushPosts, PushHands
<1>8. Served(stack', k.actq)
  BY <1>3, <1>5, <1>6, PushServer, PushServed
<1>9. QOK(k') /\ POK(k', Hands(stack')) /\ k'.actq = k.actq /\ k'.posted = k.posted
  BY <1>2, <1>7, SameLemma DEF SameQ
<1>10. Parts(k', stack')
  BY <1>7, <1>9 DEF Parts
<1>11. cpu = "R" /\ want' \in SUBSET Sig
  BY <1>1 DEF QInv, Runs
<1> QED
  BY <1>8, <1>9, <1>10, <1>11, StackStep

LEMMA SetAt ==
    ASSUME QInv, NEW f, NEW a, At(f, a), NEW b
    PROVE  [stack EXCEPT ![Len(stack)].at = b] = SetTop(stack, [Top EXCEPT !.at = b])
<1>1. stack \in Seq(FrameType) /\ stack # <<>> /\ Top = Last(stack)
  BY AtLemma
<1>2. Top = stack[Len(stack)]
  BY <1>1 DEF Last
<1> QED
  BY <1>2 DEF SetTop

LEMMA DeliverReturnQ ==
    ASSUME QInv, DeliverReturn
    PROVE  QInv'
<1>1. /\ Runs /\ stack \in Seq(FrameType) /\ stack # <<>> /\ Top = Last(stack)
      /\ Top \in FrameType /\ Top.f = "deliver" /\ Top.at = "handler" /\ At("deliver", "handler")
  BY AtLemma DEF DeliverReturn
<1>2. cpu = "R" /\ k.waiting = FALSE /\ k \in KType /\ UNCHANGED <<snd, cpu, want>>
  BY <1>1, RunsLemma DEF DeliverReturn
<1>3. POK(k, Hands(stack))
  BY DEF QInv, Parts
<1>4. Serves(Top, k.actq)
  BY <1>1, DeliverLemma
<1> DEFINE fr == [Top EXCEPT !.at = "after"]
           g == Unmask(k')
<1>5. k' = [k EXCEPT !.mask = Top.saved] /\ stack' = Append(SetTop(stack, fr), g)
  BY <1>1, SetAt DEF DeliverReturn
<1>6. k' \in KType /\ SameQ(k, k') /\ SameP(k, k') /\ k'.waiting = FALSE
  <2>1. Top.saved \in SUBSET Sig
    BY <1>1 DEF FrameType
  <2>2. k' = [k EXCEPT !.mask = Top.saved]
    BY <1>5
  <2> QED
    BY <1>2, <2>1, <2>2 DEF KType, SameQ, SameP
<1>7. Pending(k') \subseteq Sig
  BY <1>3, <1>6, SameLemma DEF POK
<1>8. /\ g \in FrameType /\ Places(g) /\ ~ Waits(g) /\ ~ Server(g) /\ ~ Calling(g) /\ ~ Holds(g)
  BY <1>6, <1>7, UnmaskFrame
<1>9. /\ fr \in FrameType /\ fr.f = "deliver" /\ fr.at = "after" /\ fr.sigq = Top.sigq
      /\ fr.next = Top.next
  BY <1>1 DEF FrameType
<1> HIDE DEF fr, g
<1>10. /\ Places(fr) /\ ~ Waits(fr) /\ ~ Holds(fr) /\ ~ Holds(Top) /\ Calling(Top) /\ Server(fr)
       /\ Serves(fr, k.actq)
  BY <1>1, <1>4, <1>9 DEF Places, Waits, Holds, Calling, Server, Serves
<1> QED
  BY <1>1, <1>2, <1>5, <1>6, <1>8, <1>9, <1>10, CallStep

LEMMA DeliverAfterQ ==
    ASSUME QInv, DeliverAfter
    PROVE  QInv'
<1>1. /\ Runs /\ stack \in Seq(FrameType) /\ stack # <<>> /\ Top = Last(stack)
      /\ Top \in FrameType /\ Top.f = "deliver" /\ Top.at = "after" /\ At("deliver", "after")
  BY AtLemma DEF DeliverAfter
<1>2. cpu = "R" /\ k.waiting = FALSE /\ k \in KType /\ UNCHANGED <<snd, cpu, want>>
  BY <1>1, RunsLemma DEF DeliverAfter
<1>3. QOK(k) /\ POK(k, Hands(stack)) /\ Apart(stack) /\ Posts(stack, k.posted)
  BY DEF QInv, Parts
<1>4. /\ Serves(Top, k.actq) /\ ~ Holds(Last(stack)) /\ Top.sigq \in Range(k.posted)
      /\ Calling(Last(stack))
  BY <1>1, DeliverLemma DEF Calling
<1> DEFINE e == Top.sigq
           fr == [Top EXCEPT !.at = "loop", !.sigq = Top.next, !.next = None]
           q == sq_rem(k.posted, e)
           p == Release(k.qpool, e)
<1>5. stack' = SetTop(stack, fr) /\ k' = [k EXCEPT !.posted = q, !.qpool = p]
  BY DEF DeliverAfter, Becomes, SetTop
<1>6. /\ k.actq \in Seq(Ent) /\ k.posted \in Seq(Ent) /\ k.qpool \in PoolType
      /\ IsInjective(k.posted)
  BY <1>2, <1>3 DEF KType, QOK
<1>7. q \in Seq(Ent) /\ IsInjective(q) /\ Range(q) = Range(k.posted) \ {e}
  BY <1>4, <1>6, RemLemma
<1>8. p \in PoolType /\ OnePlace(p, k.actq, Range(k.posted) \ {e})
  BY <1>3, <1>4, <1>6, ReleaseLemma DEF QOK
<1>9. fr \in FrameType /\ fr.f = "deliver" /\ fr.at = "loop" /\ fr.sigq = Top.next
  BY <1>1 DEF FrameType
<1> HIDE DEF e, fr, q, p
<1>10. /\ k' \in KType /\ k'.actq = k.actq /\ k'.posted = q /\ k'.qpool = p /\ k'.qsig = k.qsig
       /\ SameP(k, k') /\ k'.waiting = FALSE
  BY <1>2, <1>5, <1>7, <1>8 DEF KType, SameP
<1>11. QOK(k')
  <2>1. Actions(k')
    BY <1>3, <1>7, <1>10 DEF QOK, Actions
  <2> QED
    BY <1>7, <1>8, <1>10, <2>1 DEF QOK
<1>12. /\ Places(fr) /\ ~ Waits(fr) /\ Server(fr) /\ ~ Holds(fr) /\ ~ Calling(fr)
       /\ Serves(fr, k.actq)
  BY <1>1, <1>4, <1>9 DEF Places, Waits, Server, Holds, Calling, Serves
<1>13. Posts(stack', q)
  <2>1. Range(q) = Range(k.posted) \ {Last(stack).sigq}
    BY <1>1, <1>7 DEF e
  <2> QED
    BY <1>1, <1>3, <1>4, <1>5, <1>9, <1>12, <2>1, TopUnposted
<1>14. Apart(stack') /\ Hands(stack') = Hands(stack) /\ Served(stack', k.actq)
  BY <1>1, <1>3, <1>4, <1>5, <1>9, <1>12, TopHands, TopServer
<1>15. POK(k', Hands(stack'))
  BY <1>3, <1>10, <1>14, SameLemma
<1> QED
  BY <1>1, <1>2, <1>5, <1>9, <1>10, <1>11, <1>12, <1>13, <1>14, <1>15, ReplaceStep

(* R in sig_unmaskpendingsignal() *)
LEMMA UnmaskNextQ ==
    ASSUME QInv, UnmaskNext
    PROVE  QInv'
<1>1. /\ Runs /\ stack \in Seq(FrameType) /\ stack # <<>> /\ Top = Last(stack)
      /\ Top \in FrameType /\ Top.f = "unmask" /\ Top.at = "loop" /\ At("unmask", "loop")
  BY AtLemma DEF UnmaskNext
<1>2. /\ cpu = "R" /\ k.waiting = FALSE /\ k \in KType /\ UNCHANGED <<snd, cpu, want>>
      /\ want \in SUBSET Sig /\ Served(stack, k.actq)
  BY <1>1, RunsLemma DEF UnmaskNext, QInv
<1>3. /\ QOK(k) /\ POK(k, Hands(stack)) /\ Apart(stack) /\ Posts(stack, k.posted) /\ Shape(stack)
  BY DEF QInv, Parts
<1>4. ~ Holds(Last(stack)) /\ ~ Server(Last(stack))
  <2>1. Len(stack) \in Nat \ {0} /\ Top = stack[Len(stack)]
    BY <1>1, TopLemma
  <2> QED
    BY <1>1, <1>3, <2>1 DEF Apart, Server
<1>5. CASE Top.set = {} /\ Return /\ UNCHANGED k
  <2>1. stack' = Front(stack) /\ k' = k
    BY <1>5 DEF Return
  <2>2. stack' \in Seq(FrameType)
    BY <1>1, <2>1, TopLemma
  <2>3. /\ Shape(stack') /\ Posts(stack', k.posted) /\ Apart(stack')
        /\ Hands(stack') = Hands(stack) /\ Served(stack', k.actq)
    BY <1>1, <1>2, <1>3, <1>4, <2>1, PopShape, PopPosts, PopHands, PopServed
  <2>4. Parts(k', stack')
    BY <1>3, <2>1, <2>2, <2>3 DEF Parts
  <2> QED
    BY <1>2, <2>1, <2>3, <2>4, StackStep
<1> DEFINE s == Min(Top.set)
           rest == [Top EXCEPT !.set = @ \ {s}]
<1>6. rest \in FrameType /\ rest.f = "unmask" /\ rest.at = "loop" /\ rest.sigq = Top.sigq
  BY <1>1 DEF FrameType
<1>7. CASE Top.set # {} /\ s \notin Pending(k) /\ Becomes(rest) /\ UNCHANGED k
  <2>1. stack' = SetTop(stack, rest) /\ k' = k
    BY <1>7 DEF Becomes, SetTop
  <2> HIDE DEF rest
  <2>2. /\ Places(rest) /\ ~ Waits(rest) /\ ~ Server(rest) /\ ~ Holds(rest) /\ ~ Calling(rest)
    BY <1>1, <1>4, <1>6 DEF Places, Waits, Server, Holds, Calling
  <2>3. /\ Posts(stack', k.posted) /\ Apart(stack') /\ Hands(stack') = Hands(stack)
        /\ Served(stack', k.actq)
    BY <1>1, <1>2, <1>3, <1>4, <1>6, <2>1, <2>2, TopPosts, TopHands, TopServed
  <2> QED
    BY <1>1, <1>2, <1>3, <1>6, <2>1, <2>2, <2>3, ReplaceStep
<1>8. CASE /\ Top.set # {} /\ s \in Pending(k)
           /\ k' = sig_queueaction(RemovePending(k, FirstOf(k, s)), s, FALSE)
           /\ Becomes([rest EXCEPT !.at = "sched", !.sigq = FirstOf(k, s)])
  <2> DEFINE e == FirstOf(k, s)
             y == RemovePending(k, e)
             fr == [rest EXCEPT !.at = "sched", !.sigq = e]
  <2>1. /\ e \in Ent /\ e \notin Hands(stack) /\ s \in Sig /\ QOK(y)
        /\ POK(y, Hands(stack) \cup {e}) /\ SameQ(k, y) /\ SameR(k, y)
    BY <1>3, <1>8, RemovePendingLemma
  <2>2. k' = sig_queueaction(y, s, FALSE) /\ stack' = SetTop(stack, fr)
    BY <1>8 DEF Becomes, SetTop
  <2> HIDE DEF y, e, s, rest
  <2>3. QOK(k') /\ SameP(y, k') /\ SameR(y, k') /\ k'.posted = y.posted
    BY <2>1, <2>2, QueueLemma
  <2>4. POK(k', Hands(stack) \cup {e}) /\ k'.waiting = FALSE /\ k'.posted = k.posted
    BY <1>2, <2>1, <2>3, SameLemma DEF QOK, SameR, SameQ
  <2>5. fr \in FrameType /\ fr.f = "unmask" /\ fr.at = "sched" /\ fr.sigq = e
    BY <1>6, <2>1 DEF FrameType
  <2>6. e # None
    BY <2>1, SignalAssumption DEF Ent
  <2> HIDE DEF fr
  <2>7. /\ Places(fr) /\ ~ Waits(fr) /\ Server(fr) /\ Holds(fr) /\ ~ Calling(fr)
        /\ Serves(fr, k'.actq) /\ fr.at # "loop" /\ fr.sigq \notin Hands(stack)
    BY <2>1, <2>5, <2>6 DEF Places, Waits, Server, Holds, Calling, Serves
  <2>8. Posts(stack', k'.posted) /\ Served(stack', k'.actq)
    BY <1>1, <1>3, <2>2, <2>4, <2>5, <2>7, TopPosts, TopServer
  <2>9. Apart(stack') /\ Hands(stack') = Hands(stack) \cup {e}
    BY <1>1, <1>3, <1>4, <2>2, <2>5, <2>7, TopTakes
  <2> QED
    BY <1>1, <1>2, <2>2, <2>3, <2>4, <2>5, <2>7, <2>8, <2>9, ReplaceStep
<1> QED
  BY <1>5, <1>7, <1>8 DEF UnmaskNext

LEMMA UnmaskSchedQ ==
    ASSUME QInv, UnmaskSched
    PROVE  QInv'
<1>1. /\ Runs /\ stack \in Seq(FrameType) /\ stack # <<>> /\ Top = Last(stack)
      /\ Top \in FrameType /\ Top.f = "unmask" /\ Top.at = "sched" /\ At("unmask", "sched")
  BY AtLemma DEF UnmaskSched
<1>2. k.waiting = FALSE /\ k \in KType /\ UNCHANGED <<k, snd, cpu, want>>
  BY <1>1, RunsLemma DEF UnmaskSched
<1> DEFINE fr == [Top EXCEPT !.at = "release"]
           g == Deliver(TRUE)
<1>3. stack' = Append(SetTop(stack, fr), g)
  BY <1>1, SetAt DEF UnmaskSched
<1>4. /\ g \in FrameType /\ Places(g) /\ ~ Waits(g) /\ Server(g) /\ Serves(g, k.actq)
      /\ ~ Calling(g) /\ ~ Holds(g)
  BY DeliverFrame
<1>5. fr \in FrameType /\ fr.f = "unmask" /\ fr.at = "release" /\ fr.sigq = Top.sigq
  BY <1>1 DEF FrameType
<1> HIDE DEF fr, g
<1>6. /\ Places(fr) /\ ~ Waits(fr) /\ (Holds(fr) <=> Holds(Top)) /\ ~ Calling(fr)
  BY <1>1, <1>5 DEF Places, Waits, Holds, Calling
<1>7. k' \in KType /\ SameQ(k, k') /\ SameP(k, k') /\ k'.waiting = FALSE
  BY <1>2 DEF SameQ, SameP
<1> QED
  BY <1>1, <1>2, <1>3, <1>4, <1>5, <1>6, <1>7, CallStep

LEMMA UnmaskReleaseQ ==
    ASSUME QInv, UnmaskRelease
    PROVE  QInv'
<1>1. /\ Runs /\ stack \in Seq(FrameType) /\ stack # <<>> /\ Top = Last(stack)
      /\ Top \in FrameType /\ Top.f = "unmask" /\ Top.at = "release" /\ At("unmask", "release")
  BY AtLemma DEF UnmaskRelease
<1>2. /\ cpu = "R" /\ k.waiting = FALSE /\ k \in KType /\ UNCHANGED <<snd, cpu, want>>
      /\ Served(stack, k.actq)
  BY <1>1, RunsLemma DEF UnmaskRelease
<1>3. QOK(k) /\ POK(k, Hands(stack)) /\ Apart(stack) /\ Posts(stack, k.posted)
  BY DEF QInv, Parts
<1> DEFINE fr == [Top EXCEPT !.at = "loop", !.sigq = None]
           p == Release(k.ppool, Top.sigq)
<1>4. /\ stack' = SetTop(stack, fr)
      /\ k' = IF Top.sigq = None THEN k ELSE [k EXCEPT !.ppool = p]
  BY DEF UnmaskRelease, Becomes, SetTop
<1>5. fr \in FrameType /\ fr.f = "unmask" /\ fr.at = "loop" /\ fr.sigq = None
  BY <1>1 DEF FrameType
<1> HIDE DEF fr
<1>6. /\ Places(fr) /\ ~ Waits(fr) /\ ~ Server(fr) /\ ~ Server(Last(stack)) /\ ~ Holds(fr)
      /\ ~ Calling(fr)
  BY <1>1, <1>5 DEF Places, Waits, Server, Holds, Calling
<1>7. Posts(stack', k.posted) /\ Served(stack', k.actq)
  BY <1>1, <1>2, <1>3, <1>4, <1>5, <1>6, TopPosts, TopServed
<1>8. CASE Top.sigq = None
  <2>1. k' = k /\ ~ Holds(Last(stack))
    BY <1>1, <1>4, <1>8 DEF Holds
  <2>2. Apart(stack') /\ Hands(stack') = Hands(stack)
    BY <1>1, <1>3, <1>4, <1>5, <1>6, <2>1, TopHands
  <2> QED
    BY <1>1, <1>2, <1>3, <1>4, <1>5, <1>6, <1>7, <2>1, <2>2, ReplaceStep
<1>9. CASE Top.sigq # None
  <2>1. k' = [k EXCEPT !.ppool = p] /\ Holds(Last(stack))
    BY <1>1, <1>4, <1>9 DEF Holds
  <2>2. /\ Apart(stack') /\ Top.sigq \in Hands(stack)
        /\ Hands(stack') = Hands(stack) \ {Top.sigq}
    BY <1>1, <1>3, <1>4, <1>5, <1>6, <2>1, TopGives
  <2>3. k.ppool \in PoolType /\ k.pendq \in Seq(Ent)
    BY <1>2 DEF KType
  <2>4. p \in PoolType /\ OnePlace(p, k.pendq, Hands(stack) \ {Top.sigq})
    BY <1>3, <2>2, <2>3, ReleaseLemma DEF POK
  <2> HIDE DEF p
  <2>5. /\ k' \in KType /\ SameQ(k, k') /\ k'.ppool = p /\ k'.pendq = k.pendq
        /\ k'.psig = k.psig /\ k'.waiting = FALSE
    BY <1>2, <2>1, <2>4 DEF KType, SameQ
  <2>6. QOK(k') /\ k'.actq = k.actq /\ k'.posted = k.posted
    BY <1>3, <2>5, SameLemma DEF SameQ
  <2>7. POK(k', Hands(stack'))
    BY <1>3, <2>2, <2>4, <2>5 DEF POK, Pending
  <2> QED
    BY <1>1, <1>2, <1>4, <1>5, <1>6, <1>7, <2>2, <2>5, <2>6, <2>7, ReplaceStep
<1> QED
  BY <1>8, <1>9

(* Calls of R's program *)
LEMMA CallsLemma ==
    ASSUME QInv, NEW a, Calls(a)
    PROVE  /\ Runs /\ stack = <<>> /\ Hands(stack) = {} /\ k.actq = <<>>
           /\ cpu = "R" /\ k.waiting = FALSE /\ k \in KType /\ QOK(k) /\ POK(k, {})
<1>1. Runs /\ stack = <<>>
  BY DEF Calls
<1>2. cpu = "R" /\ k.waiting = FALSE /\ k \in KType /\ Served(stack, k.actq)
  BY <1>1, RunsLemma
<1>3. Hands(stack) = {} /\ k.actq = <<>>
  BY <1>1, <1>2, NoFrame
<1> QED
  BY <1>1, <1>2, <1>3 DEF QInv, Parts

(* ... that leave one frame. *)
LEMMA OneFrameStep ==
    ASSUME QInv, cpu = "R", NEW fr \in FrameType, Places(fr), ~ Calling(fr), ~ Holds(fr),
           stack' = <<fr>>, UNCHANGED <<snd, cpu>>, want' \in SUBSET Sig,
           QOK(k'), POK(k', {}), k'.waiting = FALSE,
           IF Server(fr) THEN Serves(fr, k'.actq) ELSE k'.actq = <<>>
    PROVE  QInv'
<1>1. /\ <<fr>> \in Seq(FrameType) /\ Shape(<<fr>>) /\ Served(<<fr>>, k'.actq)
      /\ Posts(<<fr>>, k'.posted) /\ Hands(<<fr>>) = {} /\ Apart(<<fr>>)
  BY SingleFrame
<1>2. Parts(k', stack')
  BY <1>1 DEF Parts
<1> QED
  BY <1>1, <1>2, StackStep

LEMMA SigprocmaskQ ==
    ASSUME QInv, NEW m \in SUBSET Sig, sigprocmask(m)
    PROVE  QInv'
<1>1. /\ Runs /\ stack = <<>> /\ Hands(stack) = {} /\ k.actq = <<>>
      /\ cpu = "R" /\ k.waiting = FALSE /\ k \in KType /\ QOK(k) /\ POK(k, {})
  BY CallsLemma DEF sigprocmask
<1>2. /\ k' = [k EXCEPT !.mask = m] /\ want' = m /\ stack' = <<Unmask(k')>>
      /\ UNCHANGED <<snd, cpu>>
  BY DEF sigprocmask
<1>3. k' \in KType /\ SameQ(k, k') /\ SameP(k, k') /\ k'.waiting = FALSE
  <2>1. k' = [k EXCEPT !.mask = m]
    BY <1>2
  <2> QED
    BY <1>1, <2>1 DEF KType, SameQ, SameP
<1>4. QOK(k') /\ POK(k', {}) /\ k'.actq = <<>> /\ Pending(k') \subseteq Sig
  BY <1>1, <1>3, SameLemma DEF SameQ, POK
<1> DEFINE fr == Unmask(k')
<1>5. /\ fr \in FrameType /\ Places(fr) /\ ~ Server(fr) /\ ~ Calling(fr) /\ ~ Holds(fr)
  BY <1>3, <1>4, UnmaskFrame
<1>6. stack' = <<fr>>
  BY <1>2
<1> HIDE DEF fr
<1> QED
  BY <1>1, <1>2, <1>3, <1>4, <1>5, <1>6, OneFrameStep

LEMMA SelfKillQ ==
    ASSUME QInv, NEW s \in TaskSig, SelfKill(s)
    PROVE  QInv'
<1>1. /\ Runs /\ stack = <<>> /\ Hands(stack) = {} /\ k.actq = <<>>
      /\ cpu = "R" /\ k.waiting = FALSE /\ k \in KType /\ QOK(k) /\ POK(k, {})
  BY CallsLemma DEF SelfKill
<1>2. UNCHANGED <<snd, cpu, want>> /\ want \in SUBSET Sig /\ s \in Sig /\ Sends(snd) /\ Turns
  BY SignalAssumption DEF SelfKill, QInv
<1>3. CASE s \in k.mask /\ k' = Dispatch(k, s, FALSE) /\ UNCHANGED stack
  <2>1. /\ QOK(k') /\ POK(k', Hands(stack)) /\ k'.posted = k.posted
        /\ k'.waiting => k.waiting
        /\ k'.tramp = k.tramp /\ k'.actq = k.actq
    <3>1. POK(k, Hands(stack)) /\ FALSE \in BOOLEAN
      BY <1>1
    <3> QED
      BY <1>1, <1>2, <1>3, <3>1, DispatchLemma
  <2>2. Served(stack, k'.actq)
    BY <1>1, <2>1, NoFrame
  <2>3. Sends(snd') /\ (cpu = "R" => snd'.at = "idle")
    BY <1>2 DEF Turns
  <2> QED
    BY <1>2, <1>3, <2>1, <2>2, <2>3, KernelStep
<1>4. CASE k' = sig_queueaction(k, s, FALSE) /\ stack' = <<Frame("unmask", "sched")>>
  <2> DEFINE fr == Frame("unmask", "sched")
  <2>1. fr \in FrameType /\ fr.f = "unmask" /\ fr.at = "sched" /\ fr.sigq = None
    BY DEF Frame, FrameType
  <2>2. QOK(k') /\ SameP(k, k') /\ SameR(k, k')
    BY <1>1, <1>2, <1>4, QueueLemma
  <2>3. POK(k', {}) /\ k'.waiting = FALSE
    BY <1>1, <2>2, SameLemma DEF QOK, SameR
  <2>4. stack' = <<fr>>
    BY <1>4
  <2> HIDE DEF fr
  <2>5. /\ Places(fr) /\ Server(fr) /\ Serves(fr, k'.actq) /\ ~ Calling(fr) /\ ~ Holds(fr)
    BY <2>1 DEF Places, Server, Serves, Calling, Holds
  <2> QED
    BY <1>1, <1>2, <2>1, <2>2, <2>3, <2>4, <2>5, OneFrameStep
<1> QED
  BY <1>3, <1>4 DEF SelfKill

(* R waits. *)
LEMMA BlockQ ==
    ASSUME QInv, Runs, stack = <<>>, NEW fr \in FrameType, Waits(fr), fr.at = "resumed",
           NEW m \in SUBSET Sig, NEW wm \in SUBSET Sig, Block(fr, m, wm), UNCHANGED <<snd, want>>
    PROVE  QInv'
<1>1. /\ cpu = "R" /\ k.waiting = FALSE /\ k \in KType /\ k.actq = <<>> /\ QOK(k) /\ POK(k, {})
  BY RunsLemma, NoFrame DEF QInv, Parts
<1> DEFINE g == [fr EXCEPT !.off = TRUE]
<1>2. /\ k' = [k EXCEPT !.waiting = TRUE, !.mask = m, !.waitmask = wm]
      /\ stack' = <<g>> /\ cpu' = "S"
  BY DEF Block
<1>3. g \in FrameType /\ g.f = fr.f /\ g.at = "resumed"
  BY DEF FrameType
<1> HIDE DEF g
<1>4. /\ Places(g) /\ ~ Server(g) /\ ~ Calling(g) /\ ~ Holds(g) /\ Waits(g)
  BY <1>3 DEF Places, Server, Calling, Holds, Waits
<1>5. k' \in KType /\ SameQ(k, k') /\ SameP(k, k')
  BY <1>1, <1>2 DEF KType, SameQ, SameP
<1>6. QOK(k') /\ POK(k', {}) /\ k'.actq = <<>>
  BY <1>1, <1>5, SameLemma DEF SameQ
<1>7. /\ stack' \in Seq(FrameType) /\ Shape(stack') /\ Served(stack', k'.actq)
      /\ Posts(stack', k'.posted) /\ Hands(stack') = {} /\ Apart(stack')
      /\ Len(stack') = 1 /\ stack'[1] = g /\ stack' # <<>>
  BY <1>2, <1>3, <1>4, <1>6, SingleFrame
<1>8. Parts(k', stack') /\ Scheduled'
  BY <1>6, <1>7 DEF Parts, Scheduled
<1>9. Turns'
  BY <1>2, <1>4, <1>7 DEF Turns
<1> QED
  BY <1>2, <1>8, <1>9 DEF QInv

(* A pending signal is taken and its structure released at once. *)
LEMMA TakePending ==
    ASSUME QOK(k), POK(k, {}), NEW s \in Pending(k),
           k' = [RemovePending(k, FirstOf(k, s)) EXCEPT !.ppool = Release(@, FirstOf(k, s))]
    PROVE  /\ QOK(k') /\ POK(k', {}) /\ SameQ(k, k') /\ SameR(k, k') /\ FirstOf(k, s) \in Ent
           /\ Pending(k') \subseteq Pending(k) /\ (Once(k) => Once(k'))
<1> DEFINE e == FirstOf(k, s)
           y == RemovePending(k, e)
           p == Release(y.ppool, e)
<1>1. /\ e \in Ent /\ QOK(y) /\ POK(y, {} \cup {e}) /\ SameQ(k, y) /\ SameR(k, y)
      /\ Pending(y) \subseteq Pending(k) /\ (Once(k) => Once(y))
  BY RemovePendingLemma
<1>2. k' = [y EXCEPT !.ppool = p]
  OBVIOUS
<1> HIDE DEF y, e
<1>3. y \in KType /\ y.ppool \in PoolType /\ y.pendq \in Seq(Ent) /\ POK(y, {e})
  BY <1>1 DEF QOK, KType
<1>4. p \in PoolType /\ OnePlace(p, y.pendq, {e} \ {e})
  BY <1>3, ReleaseLemma DEF POK
<1> HIDE DEF p
<1>5. /\ k' \in KType /\ SameQ(y, k') /\ SameR(y, k') /\ k'.ppool = p /\ k'.pendq = y.pendq
      /\ k'.psig = y.psig
  BY <1>2, <1>3, <1>4 DEF KType, SameQ, SameR
<1>6. QOK(k') /\ SameQ(k, k') /\ SameR(k, k')
  BY <1>1, <1>5, SameLemma DEF SameQ, SameR
<1>7. Pending(k') = Pending(y) /\ (Once(y) => Once(k'))
  BY <1>5 DEF Pending, Once
<1>8. POK(k', {})
  <2>1. {e} \ {e} = {}
    OBVIOUS
  <2> QED
    BY <1>3, <1>4, <1>5, <1>7, <2>1 DEF POK
<1> QED
  BY <1>1, <1>6, <1>7, <1>8 DEF e

LEMMA MinPending ==
    ASSUME NEW F, F \subseteq Sig, F # {}
    PROVE  Min(F) \in F
<1>1. F \subseteq Nat
  BY SignalAssumption
<1> QED
  BY <1>1, MinLemma

LEMMA SigtimedwaitQ ==
    ASSUME QInv, NEW set \in SUBSET Sig, NEW timed \in BOOLEAN, sigtimedwait(set, timed)
    PROVE  QInv'
<1>1. /\ Runs /\ stack = <<>> /\ Hands(stack) = {} /\ k.actq = <<>>
      /\ cpu = "R" /\ k.waiting = FALSE /\ k \in KType /\ QOK(k) /\ POK(k, {})
  BY CallsLemma DEF sigtimedwait
<1>2. UNCHANGED <<snd, want>> /\ want \in SUBSET Sig
  BY DEF sigtimedwait, QInv
<1> DEFINE found == set \cap Pending(k)
           e == FirstOf(k, Min(found))
           fr == [Frame("wait", "resumed") EXCEPT !.set = set, !.timed = timed]
           g == [fr EXCEPT !.at = "ret", !.sigq = e, !.timed = FALSE]
<1>3. fr \in FrameType /\ fr.f = "wait" /\ fr.at = "resumed"
  BY DEF Frame, FrameType
<1>4. CASE /\ found # {}
           /\ k' = [RemovePending(k, e) EXCEPT !.ppool = Release(@, e)]
           /\ stack' = <<g>>
           /\ UNCHANGED cpu
  <2>1. Min(found) \in Pending(k)
    BY <1>4, MinPending
  <2>2. QOK(k') /\ POK(k', {}) /\ SameQ(k, k') /\ SameR(k, k') /\ e \in Ent
    BY <1>1, <1>4, <2>1, TakePending
  <2> HIDE DEF e, fr
  <2>3. g \in FrameType /\ g.f = "wait" /\ g.at = "ret"
    BY <1>3, <2>2 DEF FrameType
  <2>4. stack' = <<g>> /\ UNCHANGED cpu
    BY <1>4
  <2> HIDE DEF g
  <2>5. /\ Places(g) /\ ~ Server(g) /\ ~ Calling(g) /\ ~ Holds(g)
    BY <2>3 DEF Places, Server, Calling, Holds
  <2>6. k'.waiting = FALSE /\ k'.actq = <<>>
    BY <1>1, <2>2 DEF SameQ, SameR
  <2> QED
    BY <1>1, <1>2, <2>2, <2>3, <2>4, <2>5, <2>6, OneFrameStep
<1>5. CASE Block(fr, k.mask, set)
  <2>1. Waits(fr) /\ k.mask \in SUBSET Sig
    BY <1>1, <1>3 DEF Waits, KType
  <2> HIDE DEF fr
  <2> QED
    BY <1>1, <1>2, <1>3, <1>5, <2>1, BlockQ
<1> QED
  BY <1>4, <1>5 DEF sigtimedwait

LEMMA SigsuspendQ ==
    ASSUME QInv, NEW m \in SUBSET Sig, sigsuspend(m)
    PROVE  QInv'
<1>1. /\ Runs /\ stack = <<>> /\ Hands(stack) = {} /\ k.actq = <<>>
      /\ cpu = "R" /\ k.waiting = FALSE /\ k \in KType /\ QOK(k) /\ POK(k, {})
  BY CallsLemma DEF sigsuspend
<1>2. UNCHANGED <<snd, want>> /\ Sends(snd) /\ Turns /\ Pending(k) \subseteq Sig
  BY <1>1 DEF sigsuspend, QInv, POK
<1> DEFINE found == Pending(k) \ m
           e == FirstOf(k, Min(found))
           fr == [Frame("suspend", "resumed") EXCEPT !.saved = k.mask]
<1>4. CASE /\ found # {}
           /\ k' = [RemovePending(k, e) EXCEPT !.ppool = Release(@, e)]
           /\ UNCHANGED <<stack, cpu>>
  <2>1. Min(found) \in Pending(k)
    BY <1>2, <1>4, MinPending
  <2>2. QOK(k') /\ POK(k', {}) /\ SameQ(k, k') /\ SameR(k, k')
    BY <1>1, <1>4, <2>1, TakePending
  <2>3. /\ POK(k', Hands(stack)) /\ k'.posted = k.posted /\ (k'.waiting => k.waiting)
        /\ Served(stack, k'.actq)
    BY <1>1, <2>2, NoFrame DEF SameQ, SameR
  <2>4. Sends(snd') /\ (cpu = "R" => snd'.at = "idle")
    BY <1>2 DEF Turns
  <2> QED
    BY <1>2, <1>4, <2>2, <2>3, <2>4, KernelStep
<1>5. CASE Block(fr, m, {})
  <2>1. k.mask \in SUBSET Sig /\ {} \in SUBSET Sig
    BY <1>1 DEF KType
  <2>2. fr \in FrameType /\ fr.f = "suspend" /\ fr.at = "resumed"
    BY <2>1 DEF Frame, FrameType
  <2>3. Waits(fr)
    BY <2>2 DEF Waits
  <2> HIDE DEF fr
  <2> QED
    BY <1>1, <1>2, <1>5, <2>1, <2>2, <2>3, BlockQ
<1> QED
  BY <1>4, <1>5 DEF sigsuspend

(* The frame of a call that waits is alone. *)
LEMMA LoneFrame ==
    ASSUME QInv, NEW f \in {"wait", "suspend"}, NEW a, At(f, a)
    PROVE  /\ Len(stack) = 1 /\ stack[1] = Top /\ Front(stack) = <<>> /\ stack \in Seq(FrameType)
           /\ Top \in FrameType /\ Top.f = f /\ k.actq = <<>> /\ Hands(stack) = {}
           /\ cpu = "R" /\ k.waiting = FALSE /\ k \in KType /\ QOK(k) /\ POK(k, {})
<1>1. /\ Runs /\ stack \in Seq(FrameType) /\ stack # <<>> /\ Top = Last(stack)
      /\ Top \in FrameType /\ Top.f = f /\ Top.at = a /\ Places(Top)
  BY AtLemma
<1>2. cpu = "R" /\ k.waiting = FALSE /\ k \in KType /\ Served(stack, k.actq)
  BY <1>1, RunsLemma
<1>3. /\ Len(stack) \in Nat \ {0} /\ Top = stack[Len(stack)] /\ Front(stack) \in Seq(FrameType)
      /\ Len(Front(stack)) = Len(stack) - 1
  BY <1>1, TopLemma
<1>4. Len(stack) = 1
  <2>1. Waits(Top)
    BY <1>1 DEF Waits
  <2>2. ~ (Len(stack) \in 2 .. Len(stack))
    BY <1>3, <2>1 DEF QInv, Parts, Shape
  <2> QED
    BY <1>3, <2>2
<1>5. Front(stack) = <<>>
  BY <1>3, <1>4, EmptySeq
<1>6. \A i \in 1 .. Len(stack) : stack[i] = Top
  BY <1>3, <1>4
<1>7. ~ Server(Top) /\ ~ Holds(Top)
  BY <1>1 DEF Places, Server, Holds
<1>8. k.actq = <<>>
  BY <1>2, <1>6, <1>7 DEF Served
<1>9. Hands(stack) = {}
  BY <1>6, <1>7 DEF Hands
<1> QED
  BY <1>1, <1>2, <1>3, <1>4, <1>5, <1>8, <1>9 DEF QInv, Parts

LEMMA WaitReturnQ ==
    ASSUME QInv, WaitReturn
    PROVE  QInv'
<1>1. /\ Front(stack) = <<>> /\ k.actq = <<>> /\ cpu = "R" /\ k.waiting = FALSE /\ k \in KType
      /\ QOK(k) /\ POK(k, {})
  BY LoneFrame DEF WaitReturn
<1>2. /\ k' = [k EXCEPT !.waitmask = {}, !.unb = 0] /\ stack' = <<>>
      /\ UNCHANGED <<snd, cpu, want>> /\ want' \in SUBSET Sig
  BY <1>1 DEF WaitReturn, Return, QInv
<1>3. k' \in KType /\ SameQ(k, k') /\ SameP(k, k') /\ k'.waiting = FALSE
  BY <1>1, <1>2 DEF KType, SameQ, SameP
<1>4. QOK(k') /\ POK(k', {}) /\ k'.actq = <<>>
  BY <1>1, <1>3, SameLemma DEF SameQ
<1>5. Parts(k', stack') /\ Served(stack', k'.actq)
  BY <1>2, <1>4, NoFrame DEF Parts
<1> QED
  BY <1>1, <1>2, <1>3, <1>5, StackStep

LEMMA SuspendReturnQ ==
    ASSUME QInv, SuspendReturn
    PROVE  QInv'
<1>1. /\ k.actq = <<>> /\ cpu = "R" /\ k.waiting = FALSE /\ k \in KType /\ Top \in FrameType
      /\ QOK(k) /\ POK(k, {})
  BY LoneFrame DEF SuspendReturn
<1>2. /\ k' = [k EXCEPT !.mask = Top.saved, !.unb = 0] /\ stack' = <<Unmask(k')>>
      /\ UNCHANGED <<snd, cpu, want>> /\ want' \in SUBSET Sig
  BY DEF SuspendReturn, QInv
<1>3. k' \in KType /\ SameQ(k, k') /\ SameP(k, k') /\ k'.waiting = FALSE
  <2>1. Top.saved \in SUBSET Sig
    BY <1>1 DEF FrameType
  <2>2. k' = [k EXCEPT !.mask = Top.saved, !.unb = 0]
    BY <1>2
  <2> QED
    BY <1>1, <2>1, <2>2 DEF KType, SameQ, SameP
<1>4. QOK(k') /\ POK(k', {}) /\ k'.actq = <<>> /\ Pending(k') \subseteq Sig
  BY <1>1, <1>3, SameLemma DEF SameQ, POK
<1> DEFINE fr == Unmask(k')
<1>5. /\ fr \in FrameType /\ Places(fr) /\ ~ Server(fr) /\ ~ Calling(fr) /\ ~ Holds(fr)
  BY <1>3, <1>4, UnmaskFrame
<1>6. stack' = <<fr>>
  BY <1>2
<1> HIDE DEF fr
<1> QED
  BY <1>1, <1>2, <1>3, <1>4, <1>5, <1>6, OneFrameStep

-----------------------------------------------------------------------------
LEMMA NextQ ==
    ASSUME QInv, [Next]_vars
    PROVE  QInv'
<1>1. CASE UNCHANGED vars
  BY <1>1 DEF vars, QInv, Scheduled, Turns
<1>2. CASE RStep
  BY <1>2, UpSigdeliverQ, DeliverNextQ, DeliverPostQ, DeliverCallQ, DeliverReturnQ, DeliverAfterQ,
     UnmaskNextQ, UnmaskSchedQ, UnmaskReleaseQ, WaitReturnQ, SuspendReturnQ
  DEF RStep
<1>3. CASE SStep
  BY <1>3, SFindQ, SAddQ, SQueueQ, SSchedQ, SWakeQ DEF SStep
<1>4. CASE Switch \/ sig_timeout
  BY <1>4, SwitchQ, TimeoutQ
<1>5. ASSUME NEW s \in TaskSig, SKill(s) \/ SelfKill(s) PROVE QInv'
  BY <1>5, SKillQ, SelfKillQ
<1>6. ASSUME NEW s \in IsrSig, IsrKill(s) PROVE QInv'
  BY <1>6, IsrKillQ
<1>7. ASSUME NEW m \in SUBSET Sig, sigprocmask(m) \/ sigsuspend(m) PROVE QInv'
  BY <1>7, SigprocmaskQ, SigsuspendQ
<1>8. ASSUME NEW m \in SUBSET Sig, NEW timed \in BOOLEAN, sigtimedwait(m, timed) PROVE QInv'
  BY <1>8, SigtimedwaitQ
<1> QED
  BY <1>1, <1>2, <1>3, <1>4, <1>5, <1>6, <1>7, <1>8 DEF Next

LEMMA QInvImplies == QInv => QueuesSound
<1>1. SUFFICES ASSUME QInv PROVE QueuesSound
  OBVIOUS
<1>2. k \in KType /\ QOK(k) /\ POK(k, Hands(stack)) /\ Apart(stack)
  BY <1>1 DEF QInv, Parts, QOK
<1>3. TypeOK
  BY <1>1, <1>2 DEF TypeOK, KType, QInv, Sends, SndType
<1>4. PoolsConserved
  <2>1. {stack[n].sigq : n \in InHand} = Hands(stack)
    BY DEF InHand, Hands, Holds
  <2>2. \A m, n \in InHand : stack[m].sigq = stack[n].sigq => m = n
    BY <1>2 DEF InHand, Apart, Holds
  <2> QED
    BY <1>2, <2>1, <2>2 DEF PoolsConserved, QOK, POK
<1>5. DeliveryScheduled
  <2>1. SUFFICES ASSUME k.actq # <<>>, ~ k.tramp, snd.at # "sched"
                 PROVE  \E n \in 1 .. Len(stack) : stack[n].f = "deliver" \/ stack[n].at = "sched"
    BY DEF DeliveryScheduled
  <2>2. Served(stack, k.actq)
    BY <1>1, <2>1 DEF QInv, Scheduled
  <2> QED
    BY <2>1, <2>2 DEF Served, Server
<1> QED
  BY <1>3, <1>4, <1>5 DEF QueuesSound

(* The queues of signals are sound and served: every sigq_t and every      *)
(* sigpendq_t is in one place, free structures in the pool they are of,    *)
(* and a queued handler always has a sig_deliver() that will come to it,   *)
(* whatever signals are sent when.                                         *)
THEOREM QueuesSoundHolds == Spec => []QueuesSound
<1>1. QInv /\ [Next]_vars => QInv'
  BY NextQ
<1> QED
  BY InitQ, QInvImplies, <1>1, PTL DEF Spec

-----------------------------------------------------------------------------
(* MInv holds at the start, and every action keeps it, if no signal is     *)
(* sent by both a task and an interrupt handler.                           *)

LEMMA FewerUnmasks ==
    ASSUME NEW st, NEW S, Unmasks(st, S), NEW T, T \subseteq S
    PROVE  Unmasks(st, T)
BY DEF Unmasks

LEMMA InitM == Init => MInv
<1>1. SUFFICES ASSUME Init PROVE MInv
  OBVIOUS
<1>2. /\ k.mask = {} /\ k.pendq = <<>> /\ k.waiting = FALSE
      /\ stack = <<>> /\ snd.at = "idle" /\ want = {}
  BY <1>1 DEF Init
<1>3. Range(<<>>) = {}
  BY DEF Range
<1>4. Pending(k) = {} /\ Once(k)
  BY <1>2, <1>3 DEF Pending, Once
<1>5. Masks(stack, k.mask, want) /\ Unmasks(stack, Pending(k) \ k.mask)
  BY <1>2, <1>4, NoFrame
<1> QED
  BY <1>2, <1>4, <1>5 DEF MInv, Sender

(* A step that leaves the stack alone. *)
LEMMA KernelStepM ==
    ASSUME MInv, UNCHANGED <<stack, want>>, k'.mask = k.mask,
           Pending(k') \subseteq Pending(k) \cup k.mask, Once(k'), Sender',
           k'.waiting => Pending(k') \cap k'.waitmask = {}
    PROVE  MInv'
<1>1. Masks(stack', k'.mask, want')
  BY DEF MInv
<1>2. Unmasks(stack', Pending(k') \ k'.mask)
  <2>1. Pending(k') \ k'.mask \subseteq Pending(k) \ k.mask
    OBVIOUS
  <2> QED
    BY <2>1, FewerUnmasks DEF MInv
<1> QED
  BY <1>1, <1>2 DEF MInv

(* ... and the pending signals too. *)
LEMMA QuietStep ==
    ASSUME MInv, UNCHANGED <<stack, want>>, k' \in KType, SameP(k, k'), k'.mask = k.mask, Sender',
           k'.waiting => k.waiting /\ k'.waitmask = k.waitmask
    PROVE  MInv'
<1>1. Pending(k') = Pending(k) /\ Once(k')
  BY SameLemma DEF MInv
<1> QED
  BY <1>1, KernelStepM DEF MInv

(* A step that R takes. *)
LEMMA StackStepM ==
    ASSUME QInv, cpu = "R", UNCHANGED snd, k'.waiting = FALSE, Once(k'),
           Masks(stack', k'.mask, want'), Unmasks(stack', Pending(k') \ k'.mask)
    PROVE  MInv'
<1>1. snd'.at = "idle"
  BY DEF QInv, Turns
<1> QED
  BY <1>1 DEF MInv, Sender

(* S in kill() *)
LEMMA SKillM ==
    ASSUME QInv, MInv, NEW s \in TaskSig, SKill(s)
    PROVE  MInv'
<1>1. s \in Sig /\ k \in KType
  BY SignalAssumption DEF QInv, Parts, QOK
<1>2. snd.at = "idle" /\ UNCHANGED <<stack, cpu, want>>
  BY DEF SKill, SendAt
<1>3. CASE snd' = [at |-> "queue", sig |-> s] /\ UNCHANGED k
  <2>1. Sender'
    BY <1>3 DEF Sender
  <2> QED
    BY <1>1, <1>2, <1>3, <2>1, QuietStep DEF SameP
<1>4. CASE k' = Wake(k, s) /\ UNCHANGED snd
  <2>1. k' \in KType /\ SameP(k, k') /\ k'.waiting = FALSE /\ k'.mask = k.mask
    BY <1>1, <1>4, WakeLemma
  <2>2. Sender'
    BY <1>2, <1>4 DEF Sender
  <2> QED
    BY <1>2, <2>1, <2>2, QuietStep
<1>5. CASE /\ s \in k.mask /\ ~ (k.waiting /\ s \in k.waitmask)
           /\ snd' = [at |-> "find", sig |-> s] /\ UNCHANGED k
  <2>1. Sender'
    BY <1>5 DEF Sender
  <2> QED
    BY <1>1, <1>2, <1>5, <2>1, QuietStep DEF SameP
<1> QED
  BY <1>3, <1>4, <1>5 DEF SKill

LEMMA SFindM ==
    ASSUME QInv, MInv, SFind
    PROVE  MInv'
<1>1. snd \in SndType /\ k \in KType /\ Sender
  BY DEF QInv, Sends, Parts, QOK, MInv
<1>2. snd.at = "find" /\ UNCHANGED <<k, stack, cpu, want>>
  BY DEF SFind, SendAt
<1>3. Sender'
  <2>1. CASE snd.sig \in Pending(k)
    <3>1. snd'.at = "idle"
      BY <2>1 DEF SFind, Idle
    <3> QED
      BY <3>1 DEF Sender
  <2>2. CASE snd.sig \notin Pending(k)
    <3>1. snd'.at = "add" /\ snd'.sig = snd.sig /\ k' = k
      BY <1>1, <1>2, <2>2 DEF SFind, SndType
    <3> QED
      BY <1>1, <1>2, <2>2, <3>1 DEF Sender
  <2> QED
    BY <2>1, <2>2
<1> QED
  BY <1>1, <1>2, <1>3, QuietStep DEF SameP

LEMMA SAddM ==
    ASSUME QInv, MInv, SAdd
    PROVE  MInv'
<1>1. /\ snd.at = "add" /\ UNCHANGED <<stack, cpu, want>> /\ k' = AddPending(k, snd.sig, FALSE)
      /\ snd' = Idle
  BY DEF SAdd, SendAt
<1>2. /\ QOK(k) /\ POK(k, Hands(stack)) /\ snd.sig \in Sig /\ FALSE \in BOOLEAN
  BY <1>1, SignalAssumption DEF QInv, Parts, Sends
<1>3. /\ SameR(k, k') /\ Pending(k') \subseteq Pending(k) \cup {snd.sig}
      /\ Once(k) /\ snd.sig \notin Pending(k) => Once(k')
  BY <1>1, <1>2, AddLemma
<1>4. /\ snd.sig \in k.mask /\ ~ (k.waiting /\ snd.sig \in k.waitmask) /\ snd.sig \notin Pending(k)
      /\ Once(k) /\ (k.waiting => Pending(k) \cap k.waitmask = {})
  BY <1>1 DEF MInv, Sender
<1>5. Sender'
  BY <1>1 DEF Sender, Idle
<1>6. k'.waiting => Pending(k') \cap k'.waitmask = {}
  BY <1>3, <1>4 DEF SameR
<1> QED
  BY <1>1, <1>3, <1>4, <1>5, <1>6, KernelStepM DEF SameR

LEMMA SQueueM ==
    ASSUME QInv, MInv, SQueue
    PROVE  MInv'
<1>1. /\ UNCHANGED <<stack, cpu, want>> /\ k' = sig_queueaction(k, snd.sig, FALSE)
      /\ snd' = [snd EXCEPT !.at = "sched"] /\ snd.at = "queue"
  BY DEF SQueue, SendAt
<1>2. QOK(k) /\ snd.sig \in Sig /\ snd \in SndType /\ FALSE \in BOOLEAN
  BY <1>1, SignalAssumption DEF QInv, Parts, Sends
<1>3. QOK(k') /\ SameP(k, k') /\ SameR(k, k')
  BY <1>1, <1>2, QueueLemma
<1>4. Sender'
  BY <1>1, <1>2 DEF Sender, SndType
<1> QED
  BY <1>1, <1>3, <1>4, QuietStep DEF QOK, SameR

LEMMA SSchedM ==
    ASSUME QInv, MInv, SSched
    PROVE  MInv'
<1>1. /\ UNCHANGED <<stack, cpu, want>> /\ k' = [k EXCEPT !.tramp = TRUE]
      /\ snd' = [snd EXCEPT !.at = "wake"]
  BY DEF SSched, up_schedule_sigaction
<1>2. k \in KType /\ snd \in SndType
  BY DEF QInv, Parts, QOK, Sends
<1>3. /\ k' \in KType /\ SameP(k, k') /\ k'.mask = k.mask
      /\ k'.waiting = k.waiting /\ k'.waitmask = k.waitmask
  BY <1>1, <1>2 DEF KType, SameP
<1>4. Sender'
  BY <1>1, <1>2 DEF Sender, SndType
<1> QED
  BY <1>1, <1>3, <1>4, QuietStep

LEMMA SWakeM ==
    ASSUME QInv, MInv, SWake
    PROVE  MInv'
<1>1. UNCHANGED <<stack, cpu, want>> /\ snd' = Idle
  BY DEF SWake
<1>2. k \in KType /\ snd.sig \in Sig \cup {0}
  BY DEF QInv, Parts, QOK, Sends, SndType
<1>3. Sender'
  BY <1>1 DEF Sender, Idle
<1>4. CASE k.waiting /\ k' = Wake(k, snd.sig)
  <2>1. k' \in KType /\ SameP(k, k') /\ k'.waiting = FALSE /\ k'.mask = k.mask
    BY <1>2, <1>4, WakeLemma
  <2> QED
    BY <1>1, <1>3, <2>1, QuietStep
<1>5. CASE k' = k
  BY <1>1, <1>2, <1>3, <1>5, QuietStep DEF SameP
<1> QED
  BY <1>4, <1>5 DEF SWake

(* Interrupts *)
LEMMA IsrKillM ==
    ASSUME QInv, MInv, TaskSig \cap IsrSig = {}, NEW s \in IsrSig, IsrKill(s)
    PROVE  MInv'
<1>1. UNCHANGED <<stack, snd, cpu, want>> /\ k' = Dispatch(k, s, TRUE)
  BY DEF IsrKill
<1>2. QOK(k) /\ POK(k, Hands(stack)) /\ s \in Sig /\ TRUE \in BOOLEAN /\ Sends(snd)
  BY SignalAssumption DEF QInv, Parts
<1>3. /\ k'.mask = k.mask /\ (k'.waiting => k.waiting /\ k'.waitmask = k.waitmask)
      /\ Pending(k') \subseteq Pending(k) \cup {s} /\ (Once(k) => Once(k'))
      /\ s \notin k.mask \/ (k.waiting /\ s \in k.waitmask) => Pending(k') = Pending(k)
  BY <1>1, <1>2, DispatchLemma
<1>4. Sender /\ Once(k) /\ (k.waiting => Pending(k) \cap k.waitmask = {})
  BY DEF MInv
<1>5. snd.at # "idle" => snd.sig # s
  BY <1>2 DEF Sends
<1>6. Sender'
  BY <1>1, <1>3, <1>4, <1>5 DEF Sender
<1>7. Pending(k') \subseteq Pending(k) \cup k.mask
  BY <1>3
<1>8. k'.waiting => Pending(k') \cap k'.waitmask = {}
  BY <1>3, <1>4
<1> QED
  BY <1>1, <1>3, <1>4, <1>6, <1>7, <1>8, KernelStepM

LEMMA TimeoutM ==
    ASSUME QInv, MInv, sig_timeout
    PROVE  MInv'
<1>1. UNCHANGED <<stack, snd, cpu, want>> /\ k' = Wake(k, 0) /\ k \in KType
  BY DEF sig_timeout, QInv, Parts, QOK
<1>2. k' \in KType /\ SameP(k, k') /\ k'.waiting = FALSE /\ k'.mask = k.mask
  BY <1>1, WakeLemma
<1>3. Sender'
  <2>1. Pending(k') = Pending(k)
    BY <1>2, SameLemma
  <2> QED
    BY <1>1, <1>2, <2>1 DEF MInv, Sender
<1> QED
  BY <1>1, <1>2, <1>3, QuietStep

LEMMA SwitchM ==
    ASSUME QInv, MInv, Switch
    PROVE  MInv'
<1>1. UNCHANGED <<k, stack, snd, want>>
  BY DEF Switch
<1>2. Sender
  BY DEF MInv
<1>3. Sender' /\ k' \in KType /\ SameP(k, k')
  BY <1>1, <1>2 DEF Sender, SameP, QInv, Parts, QOK
<1> QED
  BY <1>1, <1>3, QuietStep

(* R: what the steps on its stack start from. *)
LEMMA MLemma ==
    ASSUME QInv, MInv, NEW f, NEW a, At(f, a)
    PROVE  /\ stack \in Seq(FrameType) /\ stack # <<>> /\ Top = Last(stack)
           /\ Top \in FrameType /\ Top.f = f /\ Top.at = a
           /\ cpu = "R" /\ k.waiting = FALSE /\ k \in KType
           /\ Masks(stack, k.mask, want) /\ Unmasks(stack, Pending(k) \ k.mask) /\ Once(k)
BY AtLemma, RunsLemma DEF MInv

(* A step that changes the top frame in neither mask nor set. *)
LEMMA PlainTop ==
    ASSUME QInv, MInv, NEW f, NEW a, At(f, a), NEW fr \in FrameType, fr.f = f, fr.set = Top.set,
           ~ Saver(Top), ~ Saver(fr), stack' = SetTop(stack, fr), UNCHANGED <<snd, want>>,
           k' \in KType, SameP(k, k'), k'.mask = k.mask, k'.waiting = FALSE
    PROVE  MInv'
<1>1. /\ stack \in Seq(FrameType) /\ stack # <<>> /\ Top = Last(stack) /\ Top.f = f
      /\ cpu = "R"
      /\ Masks(stack, k.mask, want) /\ Unmasks(stack, Pending(k) \ k.mask) /\ Once(k)
  BY MLemma
<1>2. Pending(k') = Pending(k) /\ Once(k')
  BY <1>1, SameLemma
<1>3. Masks(stack', k'.mask, want')
  BY <1>1, TopMasks
<1>4. Unmasks(stack', Pending(k') \ k'.mask)
  BY <1>1, <1>2, TopUnmasks
<1> QED
  BY <1>1, <1>2, <1>3, <1>4, StackStepM

LEMMA PanicM ==
    ASSUME QInv, MInv, k' = [k EXCEPT !.panic = TRUE], UNCHANGED <<stack, snd, cpu, want>>
    PROVE  MInv'
<1>1. k \in KType
  BY DEF QInv, Parts, QOK
<1>2. /\ k' \in KType /\ SameP(k, k') /\ k'.mask = k.mask
      /\ k'.waiting = k.waiting /\ k'.waitmask = k.waitmask
  BY <1>1 DEF KType, SameP
<1>3. Pending(k') = Pending(k)
  BY <1>2, SameLemma
<1>4. Sender'
  BY <1>2, <1>3 DEF MInv, Sender
<1> QED
  BY <1>2, <1>4, QuietStep

LEMMA UpSigdeliverM ==
    ASSUME QInv, MInv, up_sigdeliver
    PROVE  MInv'
<1> DEFINE fr == Deliver(~ IrqsOn)
<1>1. /\ stack \in Seq(FrameType) /\ k \in KType /\ cpu = "R" /\ ~ k.waiting
      /\ Masks(stack, k.mask, want) /\ Unmasks(stack, Pending(k) \ k.mask) /\ Once(k)
  BY DEF QInv, Parts, QOK, MInv, up_sigdeliver
<1>2. /\ k' = [k EXCEPT !.tramp = FALSE] /\ stack' = Append(stack, fr)
      /\ UNCHANGED <<snd, cpu, want>>
  BY DEF up_sigdeliver
<1>3. (~ IrqsOn) \in BOOLEAN
  OBVIOUS
<1>4. fr \in FrameType /\ ~ Saver(fr)
  BY <1>3, DeliverFrame
<1> HIDE DEF fr
<1>5. k' \in KType /\ SameP(k, k') /\ k'.mask = k.mask /\ k'.waiting = FALSE
  BY <1>1, <1>2 DEF KType, SameP
<1>6. Pending(k') = Pending(k) /\ Once(k')
  BY <1>1, <1>5, SameLemma
<1>7. Masks(stack', k'.mask, want')
  BY <1>1, <1>2, <1>4, <1>5, PushMasks
<1>8. Unmasks(stack, Pending(k') \ k'.mask)
  BY <1>1, <1>5, <1>6
<1>9. Unmasks(stack', Pending(k') \ k'.mask)
  BY <1>1, <1>2, <1>4, <1>8, PushUnmasks
<1> QED
  BY <1>1, <1>2, <1>5, <1>6, <1>7, <1>9, StackStepM

LEMMA DeliverNextM ==
    ASSUME QInv, MInv, DeliverNext
    PROVE  MInv'
<1>1. /\ stack \in Seq(FrameType) /\ stack # <<>> /\ Top = Last(stack)
      /\ Top \in FrameType /\ Top.f = "deliver" /\ Top.at = "loop"
      /\ cpu = "R" /\ k.waiting = FALSE /\ k \in KType
      /\ Masks(stack, k.mask, want) /\ Unmasks(stack, Pending(k) \ k.mask) /\ Once(k)
      /\ At("deliver", "loop") /\ UNCHANGED <<snd, cpu, want>>
  BY MLemma DEF DeliverNext
<1>2. ~ Saver(Top)
  BY <1>1 DEF Saver
<1>3. CASE Return /\ UNCHANGED k
  <2>1. Masks(stack', k'.mask, want') /\ Unmasks(stack', Pending(k') \ k'.mask)
    BY <1>1, <1>2, <1>3, PopMasks, PopUnmasks DEF Return
  <2> QED
    BY <1>1, <1>3, <2>1, StackStepM
<1>4. CASE /\ Top.sigq \in Range(k.actq)
           /\ LET n == CHOOSE i \in 1 .. Len(k.actq) : k.actq[i] = Top.sigq
              IN  Becomes([Top EXCEPT !.at = "post",
                              !.next = IF n < Len(k.actq) THEN k.actq[n + 1] ELSE None])
           /\ UNCHANGED k
  <2> DEFINE n == CHOOSE i \in 1 .. Len(k.actq) : k.actq[i] = Top.sigq
             nx == IF n < Len(k.actq) THEN k.actq[n + 1] ELSE None
             fr == [Top EXCEPT !.at = "post", !.next = nx]
  <2>1. stack' = SetTop(stack, fr) /\ k' = k
    BY <1>4 DEF Becomes, SetTop
  <2>2. nx \in Ent \cup {None}
    <3>1. k.actq \in Seq(Ent)
      BY <1>1 DEF KType
    <3>2. n \in 1 .. Len(k.actq)
      BY <1>4, <3>1, RangeLemma
    <3> HIDE DEF n
    <3>3. n < Len(k.actq) => n + 1 \in 1 .. Len(k.actq)
      BY <3>1, <3>2
    <3> QED
      BY <3>1, <3>3
  <2> HIDE DEF nx
  <2>3. fr \in FrameType /\ fr.f = "deliver" /\ fr.at = "post" /\ fr.set = Top.set
    BY <1>1, <2>2 DEF FrameType
  <2> HIDE DEF fr
  <2>4. ~ Saver(fr)
    BY <2>3 DEF Saver
  <2> QED
    BY <1>1, <1>2, <2>1, <2>3, <2>4, PlainTop DEF SameP
<1>5. CASE k' = [k EXCEPT !.panic = TRUE] /\ UNCHANGED stack
  BY <1>1, <1>5, PanicM
<1> QED
  BY <1>3, <1>4, <1>5 DEF DeliverNext

LEMMA DeliverPostM ==
    ASSUME QInv, QInv', MInv, DeliverPost
    PROVE  MInv'
<1>1. /\ stack \in Seq(FrameType) /\ stack # <<>> /\ Top = Last(stack)
      /\ Top \in FrameType /\ Top.f = "deliver" /\ Top.at = "post"
      /\ cpu = "R" /\ k.waiting = FALSE /\ k \in KType
      /\ At("deliver", "post") /\ UNCHANGED <<snd, cpu, want>>
  BY MLemma DEF DeliverPost
<1>2. CASE /\ k' = [k EXCEPT !.actq = sq_rem(@, Top.sigq), !.posted = Append(@, Top.sigq)]
           /\ Becomes([Top EXCEPT !.at = "call"])
  <2> DEFINE fr == [Top EXCEPT !.at = "call"]
  <2>1. stack' = SetTop(stack, fr)
    BY <1>2 DEF Becomes, SetTop
  <2>2. fr \in FrameType /\ fr.f = "deliver" /\ fr.at = "call" /\ fr.set = Top.set
    BY <1>1 DEF FrameType
  <2>3. k' \in KType
    BY DEF QInv, Parts, QOK
  <2>4. SameP(k, k') /\ k'.mask = k.mask /\ k'.waiting = FALSE
    BY <1>1, <1>2 DEF KType, SameP
  <2> HIDE DEF fr
  <2>5. ~ Saver(Top) /\ ~ Saver(fr)
    BY <1>1, <2>2 DEF Saver
  <2> QED
    BY <1>1, <2>1, <2>2, <2>3, <2>4, <2>5, PlainTop
<1>3. CASE k' = [k EXCEPT !.panic = TRUE] /\ UNCHANGED stack
  BY <1>1, <1>3, PanicM
<1> QED
  BY <1>2, <1>3 DEF DeliverPost

LEMMA DeliverCallM ==
    ASSUME QInv, QInv', MInv, DeliverCall
    PROVE  MInv'
<1>1. /\ stack \in Seq(FrameType) /\ stack # <<>> /\ Top = Last(stack)
      /\ Top \in FrameType /\ Top.f = "deliver" /\ Top.at = "call"
      /\ cpu = "R" /\ k.waiting = FALSE /\ k \in KType
      /\ Masks(stack, k.mask, want) /\ Unmasks(stack, Pending(k) \ k.mask) /\ Once(k)
      /\ UNCHANGED <<snd, cpu, want>>
  BY MLemma DEF DeliverCall
<1> DEFINE m == k.mask \cup SaMask[k.qsig[Top.sigq]] \cup {k.qsig[Top.sigq]}
           fr == [Top EXCEPT !.at = "handler", !.saved = k.mask]
<1>2. k' = [k EXCEPT !.mask = m] /\ stack' = SetTop(stack, fr)
  BY DEF DeliverCall, Becomes, SetTop
<1>3. fr \in FrameType /\ fr.f = "deliver" /\ fr.at = "handler" /\ fr.saved = k.mask
  BY <1>1 DEF FrameType, KType
<1>4. k' \in KType
  BY DEF QInv, Parts, QOK
<1>5. k.mask \subseteq m
  OBVIOUS
<1> HIDE DEF m, fr
<1>6. SameP(k, k') /\ k'.mask = m /\ k'.waiting = FALSE
  BY <1>1, <1>2 DEF KType, SameP
<1>7. Pending(k') = Pending(k) /\ Once(k')
  BY <1>1, <1>4, <1>6, SameLemma
<1>8. ~ Saver(Last(stack)) /\ Saver(fr)
  BY <1>1, <1>3 DEF Saver
<1>9. Masks(stack', k'.mask, want')
  BY <1>1, <1>2, <1>3, <1>8, TopSaves
<1>10. Unmasks(stack', Pending(k') \ k'.mask)
  <2>1. Pending(k') \ k'.mask \subseteq Pending(k) \ k.mask
    BY <1>5, <1>6, <1>7
  <2> QED
    BY <1>1, <1>2, <1>3, <2>1, TopUnmasks
<1> QED
  BY <1>1, <1>6, <1>7, <1>9, <1>10, StackStepM

LEMMA DeliverReturnM ==
    ASSUME QInv, QInv', MInv, DeliverReturn
    PROVE  MInv'
<1>1. /\ stack \in Seq(FrameType) /\ stack # <<>> /\ Top = Last(stack)
      /\ Top \in FrameType /\ Top.f = "deliver" /\ Top.at = "handler"
      /\ cpu = "R" /\ k.waiting = FALSE /\ k \in KType
      /\ Masks(stack, k.mask, want) /\ Once(k)
      /\ At("deliver", "handler") /\ UNCHANGED <<snd, cpu, want>>
  BY MLemma DEF DeliverReturn
<1> DEFINE fr == [Top EXCEPT !.at = "after"]
           g == Unmask(k')
<1>2. k' = [k EXCEPT !.mask = Top.saved] /\ stack' = Append(SetTop(stack, fr), g)
  BY <1>1, SetAt DEF DeliverReturn
<1>3. k' \in KType /\ Pending(k') \subseteq Sig
  BY DEF QInv, Parts, QOK, POK
<1>4. SameP(k, k') /\ k'.mask = Top.saved /\ k'.waiting = FALSE
  <2>1. k' = [k EXCEPT !.mask = Top.saved]
    BY <1>2
  <2> QED
    BY <1>1, <2>1 DEF KType, SameP
<1>5. Once(k')
  BY <1>1, <1>3, <1>4, SameLemma
<1>6. g \in FrameType /\ g.f = "unmask" /\ ~ Saver(g) /\ g.set = Pending(k') \ k'.mask
  BY <1>3, UnmaskFrame
<1>7. fr \in FrameType /\ fr.f = "deliver" /\ fr.at = "after"
  BY <1>1 DEF FrameType
<1> HIDE DEF fr, g
<1>8. Saver(Last(stack)) /\ ~ Saver(fr)
  BY <1>1, <1>7 DEF Saver
<1>9. SetTop(stack, fr) \in Seq(FrameType)
  BY <1>1, <1>7, TopLemma DEF SetTop
<1>10. Masks(SetTop(stack, fr), k'.mask, want')
  BY <1>1, <1>4, <1>7, <1>8, TopRestores
<1>11. Masks(stack', k'.mask, want') /\ Unmasks(stack', Pending(k') \ k'.mask)
  BY <1>2, <1>6, <1>9, <1>10, PushMasks, PushUnmasks
<1> QED
  BY <1>1, <1>4, <1>5, <1>11, StackStepM

LEMMA DeliverAfterM ==
    ASSUME QInv, QInv', MInv, DeliverAfter
    PROVE  MInv'
<1>1. /\ stack \in Seq(FrameType) /\ stack # <<>> /\ Top = Last(stack)
      /\ Top \in FrameType /\ Top.f = "deliver" /\ Top.at = "after"
      /\ cpu = "R" /\ k.waiting = FALSE /\ k \in KType
      /\ At("deliver", "after") /\ UNCHANGED <<snd, cpu, want>>
  BY MLemma DEF DeliverAfter
<1> DEFINE fr == [Top EXCEPT !.at = "loop", !.sigq = Top.next, !.next = None]
           q == sq_rem(k.posted, Top.sigq)
           p == Release(k.qpool, Top.sigq)
<1>2. stack' = SetTop(stack, fr) /\ k' = [k EXCEPT !.posted = q, !.qpool = p]
  BY DEF DeliverAfter, Becomes, SetTop
<1>3. fr \in FrameType /\ fr.f = "deliver" /\ fr.at = "loop" /\ fr.set = Top.set
  BY <1>1 DEF FrameType
<1>4. k' \in KType
  BY DEF QInv, Parts, QOK
<1> HIDE DEF fr, q, p
<1>5. SameP(k, k') /\ k'.mask = k.mask /\ k'.waiting = FALSE
  BY <1>1, <1>2 DEF KType, SameP
<1>6. ~ Saver(Top) /\ ~ Saver(fr)
  BY <1>1, <1>3 DEF Saver
<1> QED
  BY <1>1, <1>2, <1>3, <1>4, <1>5, <1>6, PlainTop

LEMMA UnmaskNextM ==
    ASSUME QInv, MInv, UnmaskNext
    PROVE  MInv'
<1>1. /\ stack \in Seq(FrameType) /\ stack # <<>> /\ Top = Last(stack)
      /\ Top \in FrameType /\ Top.f = "unmask" /\ Top.at = "loop"
      /\ cpu = "R" /\ k.waiting = FALSE /\ k \in KType
      /\ Masks(stack, k.mask, want) /\ Unmasks(stack, Pending(k) \ k.mask) /\ Once(k)
      /\ UNCHANGED <<snd, cpu, want>>
  BY MLemma DEF UnmaskNext
<1>2. QOK(k) /\ POK(k, Hands(stack)) /\ ~ Saver(Last(stack))
  BY <1>1 DEF QInv, Parts, Saver
<1>3. CASE Top.set = {} /\ Return /\ UNCHANGED k
  <2>1. Masks(stack', k'.mask, want') /\ Unmasks(stack', Pending(k') \ k'.mask)
    BY <1>1, <1>2, <1>3, PopMasks, PopUnmasks DEF Return
  <2> QED
    BY <1>1, <1>3, <2>1, StackStepM
<1> DEFINE s == Min(Top.set)
           rest == [Top EXCEPT !.set = @ \ {s}]
<1>4. rest \in FrameType /\ rest.f = "unmask" /\ rest.set = Top.set \ {s}
  BY <1>1 DEF FrameType
<1>5. CASE s \notin Pending(k) /\ Becomes(rest) /\ UNCHANGED k
  <2>1. stack' = SetTop(stack, rest) /\ k' = k /\ s \notin Pending(k)
    BY <1>5 DEF Becomes, SetTop
  <2> HIDE DEF rest, s
  <2>2. ~ Saver(rest)
    BY <1>4 DEF Saver
  <2>3. Last(stack).set \cap (Pending(k) \ k.mask) \subseteq rest.set
    BY <1>1, <1>4, <2>1
  <2>4. Masks(stack', k'.mask, want') /\ Unmasks(stack', Pending(k') \ k'.mask)
    BY <1>1, <1>2, <1>4, <2>1, <2>2, <2>3, TopMasks, TopUnmasks
  <2> QED
    BY <1>1, <2>1, <2>4, StackStepM
<1>6. CASE /\ s \in Pending(k)
           /\ k' = sig_queueaction(RemovePending(k, FirstOf(k, s)), s, FALSE)
           /\ Becomes([rest EXCEPT !.at = "sched", !.sigq = FirstOf(k, s)])
  <2> DEFINE e == FirstOf(k, s)
             y == RemovePending(k, e)
             fr == [rest EXCEPT !.at = "sched", !.sigq = e]
  <2>1. /\ e \in Ent /\ s \in Sig /\ QOK(y) /\ SameR(k, y) /\ Pending(y) \subseteq Pending(k)
        /\ Once(y) /\ s \notin Pending(y)
    BY <1>1, <1>2, <1>6, RemovePendingLemma
  <2>2. k' = sig_queueaction(y, s, FALSE) /\ stack' = SetTop(stack, fr)
    BY <1>6 DEF Becomes, SetTop
  <2> HIDE DEF y, e, s, rest
  <2>3. QOK(k') /\ SameP(y, k') /\ SameR(y, k')
    BY <2>1, <2>2, QueueLemma
  <2>4. /\ Pending(k') \subseteq Pending(k) /\ s \notin Pending(k') /\ Once(k')
        /\ k'.mask = k.mask /\ k'.waiting = FALSE
    BY <1>1, <2>1, <2>3, SameLemma DEF QOK, SameR
  <2>5. fr \in FrameType /\ fr.f = "unmask" /\ fr.set = Top.set \ {s}
    BY <1>4, <2>1 DEF FrameType
  <2> HIDE DEF fr
  <2>6. ~ Saver(fr)
    BY <2>5 DEF Saver
  <2>7. /\ Last(stack).set \cap (Pending(k') \ k'.mask) \subseteq fr.set
        /\ Pending(k') \ k'.mask \subseteq Pending(k) \ k.mask
    BY <1>1, <2>4, <2>5
  <2>8. Masks(stack', k'.mask, want')
    BY <1>1, <1>2, <2>2, <2>4, <2>5, <2>6, TopMasks
  <2>9. Unmasks(stack', Pending(k') \ k'.mask)
    <3> DEFINE S == Pending(k) \ k.mask
               T == Pending(k') \ k'.mask
    <3>1. Unmasks(stack, S) /\ T \subseteq S /\ Last(stack).set \cap T \subseteq fr.set
      BY <1>1, <2>7
    <3> HIDE DEF S, T
    <3>2. Unmasks(SetTop(stack, fr), T)
      BY <1>1, <2>5, <3>1, TopUnmasks
    <3> QED
      BY <2>2, <3>2 DEF T
  <2> QED
    BY <1>1, <2>4, <2>8, <2>9, StackStepM
<1> QED
  BY <1>3, <1>5, <1>6 DEF UnmaskNext

LEMMA UnmaskSchedM ==
    ASSUME QInv, MInv, UnmaskSched
    PROVE  MInv'
<1>1. /\ stack \in Seq(FrameType) /\ stack # <<>> /\ Top = Last(stack)
      /\ Top \in FrameType /\ Top.f = "unmask" /\ Top.at = "sched"
      /\ cpu = "R" /\ k.waiting = FALSE
      /\ Masks(stack, k.mask, want) /\ Unmasks(stack, Pending(k) \ k.mask) /\ Once(k)
      /\ At("unmask", "sched") /\ UNCHANGED <<k, snd, cpu, want>>
  BY MLemma DEF UnmaskSched
<1> DEFINE fr == [Top EXCEPT !.at = "release"]
           g == Deliver(TRUE)
<1>2. stack' = Append(SetTop(stack, fr), g)
  BY <1>1, SetAt DEF UnmaskSched
<1>3. g \in FrameType /\ ~ Saver(g)
  BY DeliverFrame
<1>4. fr \in FrameType /\ fr.f = "unmask" /\ fr.set = Top.set
  BY <1>1 DEF FrameType
<1> HIDE DEF fr, g
<1>5. ~ Saver(Last(stack)) /\ ~ Saver(fr)
  BY <1>1, <1>4 DEF Saver
<1>6. SetTop(stack, fr) \in Seq(FrameType)
  BY <1>1, <1>4, TopLemma DEF SetTop
<1>7. Masks(SetTop(stack, fr), k.mask, want) /\ Unmasks(SetTop(stack, fr), Pending(k) \ k.mask)
  BY <1>1, <1>4, <1>5, TopMasks, TopUnmasks
<1>8. Masks(stack', k'.mask, want') /\ Unmasks(stack', Pending(k') \ k'.mask)
  BY <1>1, <1>2, <1>3, <1>6, <1>7, PushMasks, PushUnmasks
<1> QED
  BY <1>1, <1>8, StackStepM

LEMMA UnmaskReleaseM ==
    ASSUME QInv, QInv', MInv, UnmaskRelease
    PROVE  MInv'
<1>1. /\ Top \in FrameType /\ Top.f = "unmask" /\ Top.at = "release"
      /\ k.waiting = FALSE /\ k \in KType
      /\ At("unmask", "release") /\ UNCHANGED <<snd, cpu, want>>
  BY MLemma DEF UnmaskRelease
<1> DEFINE fr == [Top EXCEPT !.at = "loop", !.sigq = None]
           p == Release(k.ppool, Top.sigq)
<1>2. /\ stack' = SetTop(stack, fr)
      /\ k' = IF Top.sigq = None THEN k ELSE [k EXCEPT !.ppool = p]
  BY DEF UnmaskRelease, Becomes, SetTop
<1>3. fr \in FrameType /\ fr.f = "unmask" /\ fr.set = Top.set
  BY <1>1 DEF FrameType
<1>4. k' \in KType
  BY DEF QInv, Parts, QOK
<1> HIDE DEF fr, p
<1>5. k'.psig = k.psig /\ k'.pendq = k.pendq /\ k'.mask = k.mask /\ k'.waiting = FALSE
  BY <1>1, <1>2 DEF KType
<1>6. /\ stack \in Seq(FrameType) /\ stack # <<>> /\ Top = Last(stack) /\ cpu = "R"
      /\ Masks(stack, k.mask, want) /\ Unmasks(stack, Pending(k) \ k.mask) /\ Once(k)
  BY <1>1, MLemma
<1>7. Pending(k') = Pending(k) /\ Once(k')
  BY <1>5, <1>6 DEF Pending, Once
<1>8. ~ Saver(Last(stack)) /\ ~ Saver(fr)
  BY <1>1, <1>3, <1>6 DEF Saver
<1>9. Masks(stack', k'.mask, want') /\ Unmasks(stack', Pending(k') \ k'.mask)
  BY <1>1, <1>2, <1>3, <1>5, <1>6, <1>7, <1>8, TopMasks, TopUnmasks
<1> QED
  BY <1>1, <1>5, <1>6, <1>7, <1>9, StackStepM

(* Calls of R's program: it starts without frames. *)
LEMMA CallsM ==
    ASSUME QInv, MInv, Runs, stack = <<>>
    PROVE  k.mask = want /\ Pending(k) \ k.mask = {} /\ Once(k) /\ snd.at = "idle"
<1>1. cpu = "R"
  BY DEF Runs
<1>2. Masks(<<>>, k.mask, want) /\ Unmasks(<<>>, Pending(k) \ k.mask) /\ Once(k)
  BY DEF MInv
<1>3. k.mask = want
  BY <1>2, NoFrame
<1>4. Pending(k) \ k.mask = {}
  BY <1>2, NoFrame
<1> QED
  BY <1>1, <1>2, <1>3, <1>4 DEF QInv, Turns

(* ... and goes on in sig_unmaskpendingsignal() with a new mask. *)
LEMMA UnmaskM ==
    ASSUME QInv, MInv, cpu = "R", UNCHANGED snd, k' \in KType, SameP(k, k'), k'.waiting = FALSE,
           k'.mask = want', Pending(k) \subseteq Sig, stack' = <<Unmask(k')>>
    PROVE  MInv'
<1> DEFINE fr == Unmask(k')
           S == Pending(k') \ k'.mask
<1>1. Pending(k') = Pending(k) /\ Once(k')
  BY SameLemma DEF MInv
<1>2. fr \in FrameType /\ fr.f = "unmask" /\ fr.set = S /\ ~ Saver(fr)
  BY <1>1, UnmaskFrame
<1>3. stack' = <<fr>>
  OBVIOUS
<1> HIDE DEF fr, S
<1>4. Masks(<<fr>>, k'.mask, want')
  BY <1>2, SingleFrame
<1>5. Unmasks(<<fr>>, S)
  BY <1>2, SingleFrame
<1> QED
  BY <1>1, <1>3, <1>4, <1>5, StackStepM DEF S

LEMMA SigprocmaskM ==
    ASSUME QInv, MInv, NEW m \in SUBSET Sig, sigprocmask(m)
    PROVE  MInv'
<1>1. cpu = "R" /\ k.waiting = FALSE /\ k \in KType /\ Pending(k) \subseteq Sig
  BY CallsLemma DEF sigprocmask, POK
<1>2. /\ k' = [k EXCEPT !.mask = m] /\ want' = m /\ stack' = <<Unmask(k')>>
      /\ UNCHANGED <<snd, cpu>>
  BY DEF sigprocmask
<1>3. k' \in KType /\ SameP(k, k') /\ k'.waiting = FALSE /\ k'.mask = m
  <2>1. k' = [k EXCEPT !.mask = m]
    BY <1>2
  <2> QED
    BY <1>1, <2>1 DEF KType, SameP
<1> QED
  BY <1>1, <1>2, <1>3, UnmaskM

LEMMA SelfKillM ==
    ASSUME QInv, MInv, NEW s \in TaskSig, SelfKill(s)
    PROVE  MInv'
<1>1. /\ Runs /\ stack = <<>> /\ cpu = "R" /\ k.waiting = FALSE /\ k \in KType
      /\ QOK(k) /\ POK(k, {})
  BY CallsLemma DEF SelfKill
<1>2. k.mask = want /\ Pending(k) \ k.mask = {} /\ Once(k) /\ snd.at = "idle"
  BY <1>1, CallsM
<1>3. UNCHANGED <<snd, cpu, want>> /\ s \in Sig /\ FALSE \in BOOLEAN
  BY SignalAssumption DEF SelfKill
<1>4. CASE s \in k.mask /\ k' = Dispatch(k, s, FALSE) /\ UNCHANGED stack
  <2>1. /\ k'.mask = k.mask /\ (k'.waiting => k.waiting)
        /\ Pending(k') \subseteq Pending(k) \cup {s} /\ (Once(k) => Once(k'))
    BY <1>1, <1>3, <1>4, DispatchLemma
  <2>2. Sender'
    BY <1>2, <1>3 DEF Sender
  <2>3. Pending(k') \subseteq Pending(k) \cup k.mask /\ ~ k'.waiting
    BY <1>1, <1>4, <2>1
  <2> QED
    BY <1>2, <1>3, <1>4, <2>1, <2>2, <2>3, KernelStepM
<1>5. CASE k' = sig_queueaction(k, s, FALSE) /\ stack' = <<Frame("unmask", "sched")>>
  <2> DEFINE fr == Frame("unmask", "sched")
             S == Pending(k') \ k'.mask
  <2>1. fr \in FrameType /\ fr.f = "unmask"
    BY DEF Frame, FrameType
  <2>2. QOK(k') /\ SameP(k, k') /\ SameR(k, k')
    BY <1>1, <1>3, <1>5, QueueLemma
  <2>3. Pending(k') = Pending(k) /\ Once(k') /\ k'.waiting = FALSE /\ k'.mask = k.mask
    BY <1>1, <1>2, <2>2, SameLemma DEF QOK, SameR
  <2>4. stack' = <<fr>> /\ ~ Saver(fr)
    BY <1>5, <2>1 DEF Saver
  <2>5. S = {} /\ k'.mask = want'
    BY <1>2, <1>3, <2>3
  <2> HIDE DEF fr, S
  <2>6. Masks(<<fr>>, k'.mask, want')
    BY <2>1, <2>4, <2>5, SingleFrame
  <2>7. Unmasks(<<fr>>, S)
    BY <2>1, <2>5, SingleFrame
  <2> QED
    BY <1>1, <1>3, <2>3, <2>4, <2>6, <2>7, StackStepM DEF S
<1> QED
  BY <1>4, <1>5 DEF SelfKill

(* R waits for signals of which none is pending. *)
LEMMA BlockM ==
    ASSUME QInv, MInv, Runs, stack = <<>>, NEW fr \in FrameType, Waits(fr),
           NEW m \in SUBSET Sig, NEW wm \in SUBSET Sig, Block(fr, m, wm), UNCHANGED <<snd, want>>,
           Pending(k) \ m = {}, Pending(k) \cap wm = {},
           IF fr.f = "suspend" THEN fr.saved = want ELSE m = want
    PROVE  MInv'
<1>1. k \in KType /\ Once(k) /\ snd.at = "idle"
  BY CallsM DEF QInv, Parts, QOK
<1> DEFINE g == [fr EXCEPT !.off = TRUE]
           S == Pending(k') \ k'.mask
<1>2. /\ k' = [k EXCEPT !.waiting = TRUE, !.mask = m, !.waitmask = wm]
      /\ stack' = <<g>>
  BY DEF Block
<1>3. g \in FrameType /\ g.f = fr.f /\ g.saved = fr.saved
  BY DEF FrameType
<1> HIDE DEF g
<1>4. k' \in KType /\ SameP(k, k') /\ k'.mask = m /\ k'.waitmask = wm
  BY <1>1, <1>2 DEF KType, SameP
<1>5. Pending(k') = Pending(k) /\ Once(k')
  BY <1>1, <1>4, SameLemma
<1>6. S = {} /\ Pending(k') \cap k'.waitmask = {}
  BY <1>4, <1>5
<1> HIDE DEF S
<1>7. IF Saver(g) THEN g.saved = want' ELSE m = want'
  BY <1>3 DEF Saver, Waits
<1>8. Masks(<<g>>, m, want')
  BY <1>3, <1>7, SingleFrame
<1>9. Unmasks(<<g>>, S)
  BY <1>3, <1>6, SingleFrame
<1>10. Masks(stack', k'.mask, want') /\ Unmasks(stack', Pending(k') \ k'.mask)
  BY <1>2, <1>4, <1>8, <1>9 DEF S
<1>11. Sender'
  BY <1>1 DEF Sender
<1> QED
  BY <1>5, <1>6, <1>10, <1>11 DEF MInv

LEMMA SigtimedwaitM ==
    ASSUME QInv, MInv, NEW set \in SUBSET Sig, NEW timed \in BOOLEAN, sigtimedwait(set, timed)
    PROVE  MInv'
<1>1. /\ Runs /\ stack = <<>> /\ cpu = "R" /\ k.waiting = FALSE /\ k \in KType
      /\ QOK(k) /\ POK(k, {})
  BY CallsLemma DEF sigtimedwait
<1>2. k.mask = want /\ Pending(k) \ k.mask = {} /\ Once(k)
  BY <1>1, CallsM
<1>3. UNCHANGED <<snd, want>>
  BY DEF sigtimedwait
<1> DEFINE found == set \cap Pending(k)
           e == FirstOf(k, Min(found))
           fr == [Frame("wait", "resumed") EXCEPT !.set = set, !.timed = timed]
           g == [fr EXCEPT !.at = "ret", !.sigq = e, !.timed = FALSE]
<1>4. fr \in FrameType /\ fr.f = "wait" /\ fr.at = "resumed"
  BY DEF Frame, FrameType
<1>5. CASE /\ found # {}
           /\ k' = [RemovePending(k, e) EXCEPT !.ppool = Release(@, e)]
           /\ stack' = <<g>>
           /\ UNCHANGED cpu
  <2>1. Min(found) \in Pending(k)
    BY <1>5, MinPending
  <2>2. SameR(k, k') /\ e \in Ent /\ Pending(k') \subseteq Pending(k) /\ Once(k')
    BY <1>1, <1>2, <1>5, <2>1, TakePending
  <2> HIDE DEF e, fr
  <2>3. g \in FrameType /\ g.f = "wait" /\ g.at = "ret"
    BY <1>4, <2>2 DEF FrameType
  <2>4. stack' = <<g>> /\ UNCHANGED cpu
    BY <1>5
  <2> DEFINE S == Pending(k') \ k'.mask
  <2>5. k'.waiting = FALSE /\ k'.mask = want' /\ S = {}
    BY <1>1, <1>2, <1>3, <2>2 DEF SameR
  <2> HIDE DEF g, S
  <2>6. ~ Saver(g)
    BY <2>3 DEF Saver
  <2>7. Masks(<<g>>, k'.mask, want')
    BY <2>3, <2>5, <2>6, SingleFrame
  <2>8. Unmasks(<<g>>, S)
    BY <2>3, <2>5, SingleFrame
  <2> QED
    BY <1>1, <1>3, <2>2, <2>4, <2>5, <2>7, <2>8, StackStepM DEF S
<1>6. CASE found = {} /\ Block(fr, k.mask, set)
  <2>1. Waits(fr) /\ k.mask \in SUBSET Sig
    BY <1>1, <1>4 DEF Waits, KType
  <2>2. Pending(k) \cap set = {} /\ fr.f # "suspend"
    BY <1>4, <1>6
  <2> HIDE DEF fr
  <2> QED
    BY <1>1, <1>2, <1>3, <1>4, <1>6, <2>1, <2>2, BlockM
<1> QED
  BY <1>5, <1>6 DEF sigtimedwait

LEMMA SigsuspendM ==
    ASSUME QInv, MInv, NEW m \in SUBSET Sig, sigsuspend(m)
    PROVE  MInv'
<1>1. /\ Runs /\ stack = <<>> /\ cpu = "R" /\ k.waiting = FALSE /\ k \in KType
      /\ QOK(k) /\ POK(k, {}) /\ Pending(k) \subseteq Sig
  BY CallsLemma DEF sigsuspend, POK
<1>2. k.mask = want /\ Pending(k) \ k.mask = {} /\ Once(k) /\ snd.at = "idle"
  BY <1>1, CallsM
<1>3. UNCHANGED <<snd, want>>
  BY DEF sigsuspend
<1> DEFINE found == Pending(k) \ m
           e == FirstOf(k, Min(found))
           fr == [Frame("suspend", "resumed") EXCEPT !.saved = k.mask]
<1>4. CASE /\ found # {}
           /\ k' = [RemovePending(k, e) EXCEPT !.ppool = Release(@, e)]
           /\ UNCHANGED <<stack, cpu>>
  <2>1. Min(found) \in Pending(k)
    BY <1>1, <1>4, MinPending
  <2>2. SameR(k, k') /\ Pending(k') \subseteq Pending(k) /\ Once(k')
    BY <1>1, <1>2, <1>4, <2>1, TakePending
  <2>3. k'.mask = k.mask /\ ~ k'.waiting /\ Pending(k') \subseteq Pending(k) \cup k.mask
    BY <1>1, <2>2 DEF SameR
  <2>4. Sender'
    BY <1>2, <1>3 DEF Sender
  <2> QED
    BY <1>3, <1>4, <2>2, <2>3, <2>4, KernelStepM
<1>5. CASE found = {} /\ Block(fr, m, {})
  <2>1. k.mask \in SUBSET Sig /\ {} \in SUBSET Sig
    BY <1>1 DEF KType
  <2>2. fr \in FrameType /\ fr.f = "suspend" /\ fr.saved = k.mask
    BY <2>1 DEF Frame, FrameType
  <2>3. Waits(fr) /\ fr.saved = want /\ Pending(k) \ m = {} /\ Pending(k) \cap {} = {}
    BY <1>2, <1>5, <2>2 DEF Waits
  <2> HIDE DEF fr
  <2> QED
    BY <1>1, <1>3, <1>5, <2>1, <2>2, <2>3, BlockM
<1> QED
  BY <1>4, <1>5 DEF sigsuspend

(* The frame of a call that waits, alone on the stack, saved the mask, or  *)
(* nothing is blocked but for it.                                          *)
LEMMA LoneM ==
    ASSUME MInv, Len(stack) = 1, stack[1].f \in {"wait", "suspend"}
    PROVE  /\ Pending(k) \ k.mask = {}
           /\ stack[1].f = "wait" => k.mask = want
           /\ stack[1].f = "suspend" => stack[1].saved = want
<1>1. 1 .. Len(stack) = {1} /\ 1 .. 1 - 1 = {}
  OBVIOUS
<1>2. Masks(stack, k.mask, want) /\ Unmasks(stack, Pending(k) \ k.mask)
  BY DEF MInv
<1>3. Pending(k) \ k.mask = {}
  BY <1>1, <1>2 DEF Unmasks
<1>4. CASE stack[1].f = "wait"
  BY <1>1, <1>2, <1>3, <1>4 DEF Masks, Saver
<1>5. CASE stack[1].f = "suspend"
  <2>1. Saver(stack[1])
    BY <1>5 DEF Saver
  <2> QED
    BY <1>1, <1>2, <1>3, <1>5, <2>1 DEF Masks
<1> QED
  BY <1>4, <1>5

LEMMA WaitReturnM ==
    ASSUME QInv, MInv, WaitReturn
    PROVE  MInv'
<1>1. /\ Len(stack) = 1 /\ stack[1].f = "wait" /\ Front(stack) = <<>> /\ cpu = "R"
      /\ k.waiting = FALSE /\ k \in KType
  BY LoneFrame DEF WaitReturn
<1>2. /\ k' = [k EXCEPT !.waitmask = {}, !.unb = 0] /\ stack' = <<>>
      /\ UNCHANGED <<snd, cpu, want>>
  BY <1>1 DEF WaitReturn, Return
<1>3. k' \in KType /\ SameP(k, k') /\ k'.waiting = FALSE /\ k'.mask = k.mask
  BY <1>1, <1>2 DEF KType, SameP
<1>4. Pending(k') = Pending(k) /\ Once(k')
  BY <1>3, SameLemma DEF MInv
<1>5. k.mask = want /\ Pending(k) \ k.mask = {}
  BY <1>1, LoneM
<1>6. k'.mask = want' /\ Pending(k') \ k'.mask = {}
  BY <1>2, <1>3, <1>4, <1>5
<1>7. Masks(<<>>, k'.mask, want')
  BY <1>6, NoFrame
<1>8. Unmasks(<<>>, Pending(k') \ k'.mask)
  BY <1>6, NoFrame
<1> QED
  BY <1>1, <1>2, <1>3, <1>4, <1>7, <1>8, StackStepM

LEMMA SuspendReturnM ==
    ASSUME QInv, MInv, SuspendReturn
    PROVE  MInv'
<1>1. /\ Len(stack) = 1 /\ stack[1] = Top /\ Top.f = "suspend" /\ Top \in FrameType
      /\ cpu = "R" /\ k.waiting = FALSE /\ k \in KType /\ POK(k, {})
  BY LoneFrame DEF SuspendReturn
<1>2. /\ k' = [k EXCEPT !.mask = Top.saved, !.unb = 0] /\ stack' = <<Unmask(k')>>
      /\ UNCHANGED <<snd, cpu, want>>
  BY DEF SuspendReturn
<1>3. k' \in KType /\ SameP(k, k') /\ k'.waiting = FALSE /\ k'.mask = Top.saved
  <2>1. Top.saved \in SUBSET Sig
    BY <1>1 DEF FrameType
  <2>2. k' = [k EXCEPT !.mask = Top.saved, !.unb = 0]
    BY <1>2
  <2> QED
    BY <1>1, <2>1, <2>2 DEF KType, SameP
<1>4. Top.saved = want /\ Pending(k) \subseteq Sig
  BY <1>1, LoneM DEF POK
<1> QED
  BY <1>1, <1>2, <1>3, <1>4, UnmaskM

-----------------------------------------------------------------------------
LEMMA NextM ==
    ASSUME QInv, QInv', MInv, TaskSig \cap IsrSig = {}, [Next]_vars
    PROVE  MInv'
<1>1. CASE UNCHANGED vars
  BY <1>1 DEF vars, MInv, Sender
<1>2. CASE RStep
  BY <1>2, UpSigdeliverM, DeliverNextM, DeliverPostM, DeliverCallM, DeliverReturnM, DeliverAfterM,
     UnmaskNextM, UnmaskSchedM, UnmaskReleaseM, WaitReturnM, SuspendReturnM
  DEF RStep
<1>3. CASE SStep
  BY <1>3, SFindM, SAddM, SQueueM, SSchedM, SWakeM DEF SStep
<1>4. CASE Switch \/ sig_timeout
  BY <1>4, SwitchM, TimeoutM
<1>5. ASSUME NEW s \in TaskSig, SKill(s) \/ SelfKill(s) PROVE MInv'
  BY <1>5, SKillM, SelfKillM
<1>6. ASSUME NEW s \in IsrSig, IsrKill(s) PROVE MInv'
  BY <1>6, IsrKillM
<1>7. ASSUME NEW m \in SUBSET Sig, sigprocmask(m) \/ sigsuspend(m) PROVE MInv'
  BY <1>7, SigprocmaskM, SigsuspendM
<1>8. ASSUME NEW m \in SUBSET Sig, NEW timed \in BOOLEAN, sigtimedwait(m, timed) PROVE MInv'
  BY <1>8, SigtimedwaitM
<1> QED
  BY <1>1, <1>2, <1>3, <1>4, <1>5, <1>6, <1>7, <1>8 DEF Next

LEMMA MInvImplies ==
    ASSUME QInv, MInv
    PROVE  Undisturbed
<1>1. stack = <<>> => k.mask = want /\ Pending(k) \subseteq k.mask
  <2>1. SUFFICES ASSUME stack = <<>> PROVE k.mask = want /\ Pending(k) \ k.mask = {}
    OBVIOUS
  <2>2. Masks(<<>>, k.mask, want) /\ Unmasks(<<>>, Pending(k) \ k.mask)
    BY <2>1 DEF MInv
  <2>3. k.mask = want
    BY <2>2, NoFrame
  <2>4. Pending(k) \ k.mask = {}
    BY <2>2, NoFrame
  <2> QED
    BY <2>3, <2>4
<1>2. ASSUME k.waiting
      PROVE  /\ Pending(k) \subseteq k.mask \ k.waitmask
             /\ Last(stack).f = "wait" => k.mask = want
  <2>1. /\ stack # <<>> /\ Len(stack) <= 1 /\ stack \in Seq(FrameType)
        /\ \A i \in 1 .. Len(stack) : Waits(stack[i])
    BY <1>2 DEF QInv, Turns, Parts
  <2>2. Len(stack) \in Nat \ {0} /\ Last(stack) = stack[Len(stack)]
    BY <2>1, TopLemma
  <2>3. Len(stack) = 1 /\ Last(stack) = stack[1]
    BY <2>1, <2>2
  <2>4. stack[1].f \in {"wait", "suspend"}
    BY <2>1, <2>3 DEF Waits
  <2>5. Pending(k) \ k.mask = {} /\ (stack[1].f = "wait" => k.mask = want)
    BY <2>3, <2>4, LoneM
  <2>6. Pending(k) \cap k.waitmask = {}
    BY <1>2 DEF MInv
  <2> QED
    BY <2>3, <2>5, <2>6
<1> QED
  BY <1>1, <1>2 DEF Undisturbed, NothingHeldBack, MaskRestored

(* Handlers leave R as they found it: whenever its program runs or waits,  *)
(* its mask is the one it asked for and no signal it does not block, or    *)
(* waits for, is pending.  The hypothesis is about kill(): its search for  *)
(* a pending signal and the addition are two steps, between which an       *)
(* interrupt handler may add the same signal; sig_unmaskpendingsignal()    *)
(* then removes one of the two.                                            *)
THEOREM UndisturbedHolds ==
    ASSUME TaskSig \cap IsrSig = {}
    PROVE  Spec => []Undisturbed
<1> DEFINE I == QInv /\ MInv
<1>1. Init => I
  BY InitQ, InitM
<1>2. I /\ [Next]_vars => I'
  BY NextQ, NextM
<1>3. I => Undisturbed
  BY MInvImplies
<1> HIDE DEF I
<1> QED
  BY <1>1, <1>2, <1>3, PTL DEF Spec
=============================================================================
