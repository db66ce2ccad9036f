------------------------------- MODULE MCSignal ------------------------------
(* Instances of Signal for TLC. *)
EXTENDS Signal

CONSTANTS e1, e2, e3

OneFixed == {e1}
OneIrq == {e2}
OneDyn == {e3}

(* The handler of 1 runs with 2 blocked too. *)
BlocksTwo == [s \in Handled |-> IF s = 1 THEN {2} ELSE {}]
=============================================================================
