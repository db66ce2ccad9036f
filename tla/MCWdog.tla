------------------------------- MODULE MCWdog --------------------------------
(* Instances of Wdog for TLC. *)
EXTENDS Wdog

CONSTANTS p1, p2, h1

InPool == {p1, p2}
InHeap == {h1}
=============================================================================
