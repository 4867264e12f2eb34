------------------------------ MODULE MCCassette ------------------------------
(* Small instances of Cassette for TLC.                                     *)
EXTENDS Cassette, TLC
=============================================================================
