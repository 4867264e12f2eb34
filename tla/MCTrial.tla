------------------------------- MODULE MCTrial -------------------------------
(* Small instances of Trial for TLC.                                        *)
EXTENDS Trial, TLC

CONSTANTS t1, t2, x1, x2, MaxTurns

\* Every valid list of at most MaxTurns turns.
AllScripts ==
    {script \in UNION {[1..n -> Kinds] : n \in 1..MaxTurns} : ValidScript(script)}

\* Of the task returned: progress, an end that asks for input and an end whose
\* inner message names another task; and an end of the other task.
MCDeliveries ==
    {[outer |-> [task |-> t, context |-> x1], kind |-> k,
      names |-> [task |-> n, context |-> x1], resumable |-> r] :
        <<t, k, n, r>> \in {<<t1, "progress", t1, FALSE>>, <<t1, "terminal", t1, TRUE>>,
                            <<t1, "terminal", t2, FALSE>>, <<t2, "terminal", t2, FALSE>>}}
=============================================================================
