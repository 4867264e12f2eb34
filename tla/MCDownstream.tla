----------------------------- MODULE MCDownstream -----------------------------
(* Small instances of Downstream for TLC.                                   *)
EXTENDS Downstream, TLC

Symmetry == Permutations(Requests)
=============================================================================
