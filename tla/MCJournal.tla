------------------------------ MODULE MCJournal ------------------------------
(* Small instances of Journal for TLC. *)
EXTENDS Journal

CONSTANTS m1, c1, p1, p2, e1, e2

TwoPlants == {p1, p2}
=============================================================================
