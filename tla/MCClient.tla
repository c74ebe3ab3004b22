------------------------------ MODULE MCClient ------------------------------
(***************************************************************************)
(* Instances of Client for TLC: few connections, a tiny int and short      *)
(* snapshots.                                                              *)
(***************************************************************************)
EXTENDS Client, TLC

CONSTANTS d1, d2

Symmetry == Permutations(Connections)
=============================================================================
