----------------------------- MODULE MCWorkQueue -----------------------------
(* Instances of WorkQueue for TLC. *)
EXTENDS WorkQueue

CONSTANTS w1, w2, c1

TwoWorks == {w1, w2}
OneClient == {c1}

(* The queues and builds: the low priority queue from its start, the high  *)
(* priority queue after it.                                                *)
AllKinds == {k \in [hp : BOOLEAN, sorting : BOOLEAN, boot : BOOLEAN] : k.boot = ~ k.hp}
SortedKind == {[hp |-> TRUE, sorting |-> TRUE, boot |-> FALSE]}
BootKind == {[hp |-> TRUE, sorting |-> TRUE, boot |-> TRUE]}
=============================================================================
