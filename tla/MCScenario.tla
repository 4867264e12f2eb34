----------------------------- MODULE MCScenario -----------------------------
(* Small instances of Scenario for TLC.                                     *)
EXTENDS Scenario, TLC
=============================================================================
