------------------------------ MODULE Scenario ------------------------------
(***************************************************************************)
(* One scenario: runner._run_scenario repeats a trial, one after the other *)
(* or under a semaphore, and turns the results into a verdict.             *)
(*                                                                         *)
(* `fate` is the result each trial has, or would have if it were run; it   *)
(* lets the verdict of a run that stopped early be compared with the       *)
(* verdict of the run that did not.  The trial itself is module Trial.     *)
(***************************************************************************)
EXTENDS Integers, FiniteSets, FiniteSetsExt

CONSTANTS
    MaxTrials,  \* Scenario.trials is 1..MaxTrials
    MaxParallel \* MAX_PARALLEL_TRIALS

ASSUME BoundsAssumption ==
    /\ MaxTrials \in Nat \ {0}
    /\ MaxParallel \in Nat \ {0}

VARIABLES
    trials,    \* scenario.trials
    required,  \* scenario.required_trials
    parallel,  \* max_parallel_trials, checked by _validate_parallel_trials
    earlyStop, \* --early-stop
    latency,   \* "none", or whether the percentiles of the samples hold
    fate,      \* what each trial results in: "passes", "fails" or "errors"
    phase,     \* "idle", "running" or "done", per trial
    stopped,   \* whether the sequential loop broke
    verdict    \* "none", "passed" or "failed"

settings == <<trials, required, parallel, earlyStop, latency, fate>>
vars == <<settings, phase, stopped, verdict>>

Indices == 1..MaxTrials
Fates == {"passes", "fails", "errors"}
Latencies == {"none", "met", "missed"}

\* Fault: the required number is rounded down.
RequiredRoundedDown(n) == 0..n

\* Scenario.required_trials: every trial, a configured number of them, or
\* ceil(pass_rate * trials) for a pass rate above 0.
RequiredTrials(n) == 1..n

Init ==
    /\ trials \in Indices
    /\ required \in RequiredTrials(trials)
    /\ parallel \in 1..MaxParallel
    /\ earlyStop \in BOOLEAN
    /\ latency \in Latencies
    /\ fate \in [Indices -> Fates]
    /\ phase = [i \in Indices |-> "idle"]
    /\ stopped = FALSE
    /\ verdict = "none"

Running == {i \in Indices : phase[i] = "running"}
Done == {i \in Indices : phase[i] = "done"}
Passed(S) == {i \in S : fate[i] = "passes"}

\* The loop and the semaphore both start the trials in the order of their
\* index, the loop one at a time.
StartTrial(i) ==
    /\ i <= trials
    /\ phase[i] = "idle"
    /\ \A j \in 1..(i - 1) : phase[j] # "idle"
    /\ Cardinality(Running) < parallel
    /\ ~stopped
    /\ phase' = [phase EXCEPT ![i] = "running"]
    /\ UNCHANGED <<settings, stopped, verdict>>

\* Fault: the last tolerated failure already counts.
HopelessTooSoon(S) ==
    Cardinality(S \ Passed(S)) >= trials - required

\* Too many failures to reach the required number of successes.
Hopeless(S) ==
    Cardinality(S \ Passed(S)) > trials - required

\* The check of the sequential loop after each trial.
Breaks(i) ==
    /\ parallel = 1
    /\ earlyStop
    /\ latency = "none"
    /\ Hopeless(Done \union {i})

\* A trial returns its result; the loop then checks whether to break.
FinishTrial(i) ==
    /\ phase[i] = "running"
    /\ phase' = [phase EXCEPT ![i] = "done"]
    /\ stopped' = Breaks(i)
    /\ UNCHANGED <<settings, verdict>>

\* _evaluate_latency over the trials that raised no error.
LatencyHolds ==
    \/ latency = "none"
    \/ latency = "met" /\ \E i \in Done : fate[i] # "errors"

\* Fault: only a loop that broke is judged.
JudgeBrokenLoop ==
    /\ verdict = "none"
    /\ stopped
    /\ verdict' = "failed"
    /\ UNCHANGED <<settings, phase, stopped>>

\* The loop is over, or gather returned.
Judge ==
    /\ verdict = "none"
    /\ Running = {}
    /\ stopped \/ Done = 1..trials
    /\ verdict' = IF Cardinality(Passed(Done)) >= required /\ LatencyHolds
                  THEN "passed" ELSE "failed"
    /\ UNCHANGED <<settings, phase, stopped>>

Next ==
    \/ \E i \in Indices :
          \/ StartTrial(i)
          \/ FinishTrial(i)
    \/ Judge

Spec == Init /\ [][Next]_vars

\* The event loop runs what is ready, and a trial ends (Trial!TrialEnds).
FairSpec ==
    /\ Spec
    /\ \A i \in Indices : WF_vars(StartTrial(i)) /\ WF_vars(FinishTrial(i))
    /\ WF_vars(Judge)

-----------------------------------------------------------------------------
TypeOK ==
    /\ trials \in Indices
    /\ required \in 1..trials
    /\ parallel \in 1..MaxParallel
    /\ earlyStop \in BOOLEAN
    /\ latency \in Latencies
    /\ fate \in [Indices -> Fates]
    /\ phase \in [Indices -> {"idle", "running", "done"}]
    /\ stopped \in BOOLEAN
    /\ verdict \in {"none", "passed", "failed"}

\* What running every trial would conclude.
FullVerdict ==
    IF /\ Cardinality(Passed(1..trials)) >= required
       /\ \/ latency = "none"
          \/ latency = "met" /\ \E i \in 1..trials : fate[i] # "errors"
    THEN "passed" ELSE "failed"

\* Neither --early-stop nor --jobs changes a verdict: it is the one that
\* running every trial to its end, in any order, would give.  Percentiles are
\* taken over all of them.
VerdictIsFull ==
    verdict # "none" =>
        /\ verdict = FullVerdict
        /\ latency # "none" => Done = 1..trials

\* Every scenario is judged.
ScenarioEnds == <>(verdict # "none")
=============================================================================
