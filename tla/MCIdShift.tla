------------------------------ MODULE MCIdShift ------------------------------
(***************************************************************************)
(* IdShift for TLC: the names of paths are interchangeable, and a call may *)
(* shift up or down.                                                       *)
(***************************************************************************)
EXTENDS IdShift, TLC

UpAndDown == {3, -3}
NamePermutations == Permutations(Names)
=============================================================================
