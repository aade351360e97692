----------------------------- MODULE MCRunQueue -----------------------------
(* RunQueue for TLC: calls are interchangeable, lanes are not (they are     *)
(* named) but are used symmetrically by the code.                           *)
EXTENDS RunQueue, TLC

Symmetry == Permutations(Calls)
=============================================================================
