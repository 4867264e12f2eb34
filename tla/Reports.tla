------------------------------- MODULE Reports -------------------------------
(***************************************************************************)
(* What the tool tells about the result of a run: the verdict of a suite,  *)
(* the diagnostics of the terminal, the JUnit document, the evidence       *)
(* bundle and the comparison of diff.                                      *)
(*                                                                         *)
(* A suite is [card, scenarios] with card "none", "holds" or "fails"; a    *)
(* scenario is [trials, required, latency], where a trial "passed",        *)
(* "failed" a check or ended with an "error" and latency is like card.     *)
(* Names are positions in the contract; wording and durations are left out,*)
(* and so is the order of the entries of a document: they are the places   *)
(* <<0, 0>> of the card, <<k, 0>> of the latency of the k-th scenario and  *)
(* <<k, j>> of its j-th trial.                                             *)
(***************************************************************************)
EXTENDS Integers, FiniteSets, Sequences, SequencesExt

CONSTANT MaxEvidenceTrials \* MAX_EVIDENCE_TRIALS

ASSUME EvidenceAssumption == MaxEvidenceTrials \in Nat \ {0}

Tested == {"none", "holds", "fails"}
Scenarios == [trials : Seq({"passed", "failed", "error"}), required : Nat, latency : Tested]
PassedTrials(s) == Cardinality({k \in DOMAIN s.trials : s.trials[k] = "passed"})

\* Whether failed trials of the scenario are tolerated by its pass rate.
Tolerates(s) == PassedTrials(s) >= s.required

ScenarioPassed(s) == Tolerates(s) /\ s.latency # "fails"

SuitePassed(r) == r.card # "fails" /\ \A k \in DOMAIN r.scenarios : ScenarioPassed(r.scenarios[k])

-----------------------------------------------------------------------------
(* The places of a suite.                                                   *)

CardOf(r, statuses) == IF r.card \in statuses THEN {<<0, 0>>} ELSE {}

LatencyOf(r, statuses) ==
    {<<k, 0>> : k \in {i \in DOMAIN r.scenarios : r.scenarios[i].latency \in statuses}}

Trials(r) ==
    UNION {{<<k, j>> : j \in DOMAIN r.scenarios[k].trials} : k \in DOMAIN r.scenarios}

ScenarioOf(r, place) == r.scenarios[place[1]]
TrialOf(r, place) == ScenarioOf(r, place).trials[place[2]]

\* The trials of one of the kinds, by whether their scenario tolerates them.
TrialsOf(r, kinds, tolerated) ==
    {t \in Trials(r) : TrialOf(r, t) \in kinds /\ Tolerates(ScenarioOf(r, t)) = tolerated}

-----------------------------------------------------------------------------
(* The terminal.                                                            *)

\* _render_scenario_failures: the lines below a scenario that failed.
ScenarioDiagnostics(s) ==
    (IF Len(s.trials) > 1 /\ ~Tolerates(s) THEN {"rate"} ELSE {})
    \union (IF s.latency = "fails" THEN {"latency"} ELSE {})
    \union (IF PassedTrials(s) < Len(s.trials) THEN {"trial"} ELSE {})

\* render_terminal, and of a diff's candidate render_diff_terminal.
Diagnostics(r) ==
    (IF r.card = "fails" THEN {<<0, "card">>} ELSE {})
    \union UNION {{<<k, line>> : line \in ScenarioDiagnostics(r.scenarios[k])} :
                  k \in {j \in DOMAIN r.scenarios : ~ScenarioPassed(r.scenarios[j])}}

-----------------------------------------------------------------------------
(* render_junit: a test case for the card, for every trial and for every     *)
(* latency expectation, and the totals, which are counted apart.            *)

CheckCase(status) == IF status = "holds" THEN "passed" ELSE "failure"

TrialCase(s, trial) ==
    CASE trial = "passed" -> "passed"
      [] trial # "passed" /\ Tolerates(s) -> "skipped"
      [] trial = "error" /\ ~Tolerates(s) -> "error"
      [] trial = "failed" /\ ~Tolerates(s) -> "failure"

JUnitCases(r) ==
    [c \in CardOf(r, {"holds", "fails"}) \union LatencyOf(r, {"holds", "fails"})
              \union Trials(r) |->
        CASE c = <<0, 0>> -> CheckCase(r.card)
          [] c # <<0, 0>> /\ c[2] = 0 -> CheckCase(ScenarioOf(r, c).latency)
          [] OTHER -> TrialCase(ScenarioOf(r, c), TrialOf(r, c))]

One(condition) == IF condition THEN 1 ELSE 0

\* Fault: a failed trial counts although its scenario tolerates it.
FailuresOfAllTrials(r) ==
    Cardinality({t \in Trials(r) : TrialOf(r, t) = "failed"})
        + Cardinality(LatencyOf(r, {"fails"})) + One(r.card = "fails")

JUnitFailures(r) ==
    Cardinality(TrialsOf(r, {"failed"}, FALSE))
        + Cardinality(LatencyOf(r, {"fails"})) + One(r.card = "fails")

JUnitTotals(r) ==
    [tests |-> Cardinality(Trials(r)) + Cardinality(LatencyOf(r, {"holds", "fails"}))
                 + One(r.card # "none"),
     failures |-> JUnitFailures(r),
     errors |-> Cardinality(TrialsOf(r, {"error"}, FALSE)),
     skipped |-> Cardinality(TrialsOf(r, {"failed", "error"}, TRUE))]

-----------------------------------------------------------------------------
(* write_evidence                                                           *)

\* The failed trials of the suite, tolerated ones included.
FailedTrials(r) == {t \in Trials(r) : TrialOf(r, t) # "passed"}

Precedes(t, u) == t[1] < u[1] \/ (t[1] = u[1] /\ t[2] < u[2])

\* The first of them, in the order of the suite.
SelectedTrials(r) ==
    {t \in FailedTrials(r) :
        Cardinality({u \in FailedTrials(r) : Precedes(u, t)}) < MaxEvidenceTrials}

\* The lines of failures.jsonl: the card, latencies and trials.
EvidenceRecords(r) ==
    {[kind |-> "agent_card", of |-> c] : c \in CardOf(r, {"fails"})}
    \union {[kind |-> "latency", of |-> c] : c \in LatencyOf(r, {"fails"})}
    \union {[kind |-> "trial", of |-> c] : c \in SelectedTrials(r)}

Manifest(r) ==
    [passed |-> SuitePassed(r),
     failed_trials |-> Cardinality(FailedTrials(r)),
     recorded_trials |-> Cardinality(SelectedTrials(r)),
     failed_latency_contracts |-> Cardinality(LatencyOf(r, {"fails"})),
     agent_card_failed |-> r.card = "fails",
     truncated |-> Cardinality(SelectedTrials(r)) # Cardinality(FailedTrials(r))]

-----------------------------------------------------------------------------
(* compare_results                                                          *)

CardStatus(r) ==
    CASE r.card = "none" -> "not_run"
      [] r.card = "holds" -> "passed"
      [] r.card = "fails" -> "failed"

\* A scenario the suite does not have was not run.
ScenarioStatus(r, k) ==
    IF k \notin DOMAIN r.scenarios THEN "not_run"
    ELSE IF ScenarioPassed(r.scenarios[k]) THEN "passed" ELSE "failed"

Change(before, after) ==
    CASE before = after -> "unchanged"
      [] before = "passed" /\ after # "passed" -> "regression"
      [] before # "passed" /\ after = "passed" -> "improvement"
      [] OTHER -> "changed"

Check(before, after) ==
    [baseline |-> before, candidate |-> after, change |-> Change(before, after)]

\* The check of the card, 0, and of each of the n scenarios of the contract.
DiffChecks(base, cand, n) ==
    [k \in (IF {base.card, cand.card} = {"none"} THEN 1 ELSE 0)..n |->
        IF k = 0 THEN Check(CardStatus(base), CardStatus(cand))
        ELSE Check(ScenarioStatus(base, k), ScenarioStatus(cand, k))]
=============================================================================
