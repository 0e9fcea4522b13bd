------------------------------ MODULE MCMoving ------------------------------
(***************************************************************************)
(* Moving with the computers and messages of its runs.                     *)
(***************************************************************************)
EXTENDS Moving, TLC

CONSTANTS k1, k2, m1, m2

Symmetry == Permutations(Messages)
=============================================================================
