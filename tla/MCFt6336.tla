------------------------------ MODULE MCFt6336 ------------------------------
EXTENDS Ft6336

CONSTANTS p, q

MCPositions == {p, q}
(* What uninitialised memory may hold: 0 as in fresh pages, 255 as in the  *)
(* driver's own mark of an empty entry, each point, and an index that is   *)
(* outside of the array.                                                   *)
AnyGarbage == {0, 1, 7, 255}
(* A controller that keeps in a bank what it held, or marks it with an     *)
(* invalid id.                                                             *)
KeptIds == [b \in Slots |-> {15} \cup {i \in Slots : i >= b}]
=============================================================================
