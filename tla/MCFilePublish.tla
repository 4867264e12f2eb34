---------------------------- MODULE MCFilePublish ----------------------------
(* Small instances of FilePublish for TLC.                                  *)
EXTENDS FilePublish, TLC

Symmetry == Permutations(Writers)
=============================================================================
