-------------------------------- MODULE MCRun --------------------------------
(* Small instances of Run for TLC.                                          *)
EXTENDS Run, TLC

Scenario(trials, required, latency) ==
    [trials |-> trials, required |-> required, latency |-> latency]

Good == Scenario(<<"passed">>, 1, "none")

\* Contracts of two scenarios: all is well; a tolerated failure and a tolerated
\* error; a failed latency alone; more failures than evidence keeps, with a
\* scenario that passes and one that stopped early; errors only.
MCOutcomes ==
    {<<Good, Good>>,
     <<Scenario(<<"failed", "passed", "error">>, 1, "holds"), Good>>,
     <<Scenario(<<"passed", "passed">>, 2, "fails"), Good>>,
     <<Scenario(<<"failed", "passed", "failed">>, 2, "fails"),
       Scenario(<<"failed">>, 2, "none")>>,
     <<Good, Scenario(<<"error", "error">>, 1, "fails")>>}
=============================================================================
