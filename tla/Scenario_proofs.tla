--------------------------- MODULE Scenario_proofs ---------------------------
(* Early stop and parallel trials do not change a verdict, proved for any   *)
(* number of trials, any required number of successes and any degree of     *)
(* parallelism.                                                             *)
EXTENDS Scenario, FiniteSetTheorems, TLAPS

\* The trials are within bounds, no more of them run than may, and a loop that
\* broke did so with nothing running, no percentiles to take, and too many
\* failures for the required number of successes.
LoopInv ==
    /\ TypeOK
    /\ \A i \in Indices : phase[i] # "idle" => i <= trials
    /\ Cardinality(Running) <= parallel
    /\ stopped => Running = {} /\ latency = "none" /\ Hopeless(Done)

\* Once it is judged, the scenario stays as it was judged.
JudgedInv ==
    verdict # "none" =>
        /\ Running = {}
        /\ stopped \/ Done = 1..trials
        /\ verdict = FullVerdict

\* The type invariant, for the settings _validate_parallel_trials and
\* Scenario.required_trials allow.
THEOREM TypeCorrect == Spec => []TypeOK
<1>1. Init => TypeOK
  BY BoundsAssumption DEF Init, TypeOK, Indices, RequiredTrials, Fates, Latencies
<1>2. TypeOK /\ [Next]_vars => TypeOK'
  <2> SUFFICES ASSUME TypeOK, [Next]_vars PROVE TypeOK'
    OBVIOUS
  <2>1. UNCHANGED settings => /\ (trials \in Indices)'
                              /\ (required \in 1..trials)'
                              /\ (parallel \in 1..MaxParallel)'
                              /\ (earlyStop \in BOOLEAN)'
                              /\ (latency \in Latencies)'
                              /\ (fate \in [Indices -> Fates])'
    BY DEF settings, TypeOK
  <2>2. ASSUME NEW i \in Indices, StartTrial(i) \/ FinishTrial(i) PROVE TypeOK'
    <3>1. /\ UNCHANGED <<settings, verdict>> /\ stopped' \in BOOLEAN
          /\ \E p \in {"running", "done"} : phase' = [phase EXCEPT ![i] = p]
      BY <2>2 DEF StartTrial, FinishTrial, Breaks, TypeOK
    <3>2. phase' \in [Indices -> {"idle", "running", "done"}]
      BY <3>1 DEF TypeOK
    <3>3. QED
      BY <2>1, <3>1, <3>2 DEF TypeOK
  <2>3. CASE Judge
    BY <2>1, <2>3 DEF Judge, TypeOK
  <2>4. CASE UNCHANGED vars
    BY <2>1, <2>4 DEF vars, TypeOK
  <2>5. QED
    BY <2>2, <2>3, <2>4 DEF Next
<1>3. QED
  BY <1>1, <1>2, PTL DEF Spec

-----------------------------------------------------------------------------
(* Counting trials.                                                         *)

LEMMA TrialsFinite ==
    /\ IsFiniteSet(Indices)
    /\ TypeOK => IsFiniteSet(Running) /\ Cardinality(Running) \in Nat
<1>1. IsFiniteSet(Indices)
  BY FS_Interval, BoundsAssumption DEF Indices
<1>2. Running \subseteq Indices
  BY DEF Running
<1>3. QED
  BY <1>1, <1>2, FS_Subset, FS_CardinalityType

\* Failures beyond the tolerated number cannot be made up for.
LEMMA HopelessStays ==
    ASSUME TypeOK, NEW S, S \subseteq 1..trials, Hopeless(S)
    PROVE  Cardinality(Passed(1..trials)) < required
<1> DEFINE All == 1..trials
<1> DEFINE Lost == S \ Passed(S)
<1>0. trials \in Nat /\ required \in Nat
  BY BoundsAssumption DEF TypeOK, Indices
<1>1. IsFiniteSet(All) /\ Cardinality(All) = trials
  <2>1. IsFiniteSet(1..trials)
        /\ Cardinality(1..trials) = IF 1 > trials THEN 0 ELSE trials - 1 + 1
    BY <1>0, FS_Interval
  <2>2. QED
    BY <1>0, <2>1
<1>2. Passed(All) \subseteq All /\ Lost \subseteq All /\ Passed(All) \intersect Lost = {}
  BY DEF Passed
<1> HIDE DEF All
<1>3. IsFiniteSet(Passed(All)) /\ IsFiniteSet(Lost)
  BY <1>1, <1>2, FS_Subset
<1>4. /\ IsFiniteSet(Passed(All) \union Lost)
      /\ Cardinality(Passed(All) \union Lost) =
            Cardinality(Passed(All)) + Cardinality(Lost)
  <2>1. Cardinality(Passed(All) \intersect Lost) = 0
    BY <1>2, FS_EmptySet
  <2>2. Cardinality(Passed(All)) \in Nat /\ Cardinality(Lost) \in Nat
    BY <1>3, FS_CardinalityType
  <2>3. /\ IsFiniteSet(Passed(All) \union Lost)
        /\ Cardinality(Passed(All) \union Lost) =
             Cardinality(Passed(All)) + Cardinality(Lost)
                - Cardinality(Passed(All) \intersect Lost)
    BY <1>3, FS_Union
  <2>4. QED
    BY <2>1, <2>2, <2>3
<1>5. Cardinality(Passed(All) \union Lost) <= trials
  <2>1. Passed(All) \union Lost \subseteq All
    BY <1>2
  <2>2. QED
    BY <1>1, <2>1, FS_Subset
<1>6. Cardinality(Lost) > trials - required
  BY DEF Hopeless
<1>7. Cardinality(Passed(All)) \in Nat /\ Cardinality(Lost) \in Nat
  BY <1>3, FS_CardinalityType
<1>8. Cardinality(Passed(All)) < required
  BY <1>0, <1>4, <1>5, <1>6, <1>7
<1>9. QED
  BY <1>8 DEF All

LEMMA FewerPass ==
    ASSUME TypeOK, NEW S, S \subseteq 1..trials
    PROVE  /\ Cardinality(Passed(S)) <= Cardinality(Passed(1..trials))
           /\ Cardinality(Passed(S)) \in Nat /\ Cardinality(Passed(1..trials)) \in Nat
<1>1. IsFiniteSet(1..trials)
  BY FS_Interval, BoundsAssumption DEF TypeOK, Indices
<1>2. Passed(1..trials) \subseteq 1..trials /\ Passed(S) \subseteq Passed(1..trials)
  BY DEF Passed
<1>3. IsFiniteSet(Passed(1..trials))
  BY <1>1, <1>2, FS_Subset
<1>4. QED
  BY <1>2, <1>3, FS_Subset, FS_CardinalityType

-----------------------------------------------------------------------------
(* The loop.                                                                *)

LEMMA StartLoopInv ==
    ASSUME LoopInv, TypeOK', NEW i \in Indices, StartTrial(i)
    PROVE  LoopInv'
<1>1. /\ UNCHANGED settings /\ ~stopped /\ ~stopped' /\ i <= trials
      /\ phase' = [phase EXCEPT ![i] = "running"] /\ phase[i] = "idle"
      /\ Cardinality(Running) < parallel
  BY DEF StartTrial
<1>2. Running' = Running \union {i} /\ i \notin Running
  BY <1>1 DEF LoopInv, TypeOK, Running
<1>3. Cardinality(Running') = Cardinality(Running) + 1 /\ Cardinality(Running) \in Nat
  BY <1>2, TrialsFinite, FS_AddElement DEF LoopInv
<1>4. UNCHANGED parallel /\ parallel \in Nat
  BY <1>1, BoundsAssumption DEF settings, LoopInv, TypeOK
<1>5. \A k \in Indices : phase'[k] # "idle" => k <= trials'
  BY <1>1 DEF LoopInv, TypeOK, settings
<1>6. Cardinality(Running') <= parallel'
  BY <1>1, <1>3, <1>4
<1>7. QED
  BY <1>1, <1>5, <1>6 DEF LoopInv

LEMMA FinishLoopInv ==
    ASSUME LoopInv, TypeOK', NEW i \in Indices, FinishTrial(i)
    PROVE  LoopInv'
<1>1. /\ UNCHANGED settings /\ phase[i] = "running" /\ stopped' = Breaks(i)
      /\ phase' = [phase EXCEPT ![i] = "done"]
  BY DEF FinishTrial
<1>2. Running' = Running \ {i} /\ i \in Running /\ Done' = Done \union {i}
  BY <1>1 DEF LoopInv, TypeOK, Running, Done
<1>3. Cardinality(Running') = Cardinality(Running) - 1 /\ Cardinality(Running) \in Nat
      /\ IsFiniteSet(Running) /\ IsFiniteSet(Running')
  BY <1>2, TrialsFinite, FS_RemoveElement, FS_Subset DEF LoopInv
<1>4. UNCHANGED <<parallel, trials, latency, required, fate>> /\ parallel \in Nat
  BY <1>1, BoundsAssumption DEF settings, LoopInv, TypeOK
<1>5. \A k \in Indices : phase'[k] # "idle" => k <= trials'
  BY <1>1, <1>4 DEF LoopInv, TypeOK
<1>6. Cardinality(Running') <= parallel'
  BY <1>3, <1>4 DEF LoopInv
<1>7. stopped' => Running' = {} /\ latency' = "none" /\ Hopeless(Done)'
  <2> SUFFICES ASSUME stopped' PROVE Running' = {} /\ latency' = "none" /\ Hopeless(Done)'
    OBVIOUS
  <2>1. parallel = 1 /\ latency = "none" /\ Hopeless(Done \union {i})
    BY <1>1 DEF Breaks
  <2>2. Cardinality(Running') = 0
    <3>1. Cardinality(Running') \in Nat
      BY <1>3, FS_CardinalityType
    <3>2. QED
      BY <1>3, <2>1, <3>1 DEF LoopInv
  <2>3. Running' = {}
    BY <1>3, <2>2, FS_EmptySet
  <2>4. QED
    BY <1>2, <1>4, <2>1, <2>3 DEF Hopeless, Passed
<1>8. QED
  BY <1>5, <1>6, <1>7 DEF LoopInv

LEMMA LoopInvariant == Spec => []LoopInv
<1>1. Init => LoopInv
  <2> SUFFICES ASSUME Init PROVE LoopInv
    OBVIOUS
  <2>1. TypeOK
    BY BoundsAssumption DEF Init, TypeOK, Indices, RequiredTrials, Fates, Latencies
  <2>2. Running = {} /\ Cardinality({}) = 0
    BY FS_EmptySet DEF Init, Running
  <2>3. QED
    BY <2>1, <2>2, BoundsAssumption DEF Init, LoopInv, TypeOK
<1>2. LoopInv /\ TypeOK' /\ [Next]_vars => LoopInv'
  <2>1. LoopInv /\ TypeOK' /\ (Judge \/ UNCHANGED vars) => LoopInv'
    <3> SUFFICES ASSUME LoopInv, TypeOK', Judge \/ UNCHANGED vars PROVE LoopInv'
      OBVIOUS
    <3>1. UNCHANGED <<trials, required, parallel, latency, fate, phase, stopped>>
      BY DEF Judge, vars, settings
    <3>2. Running' = Running /\ Done' = Done /\ Hopeless(Done)' = Hopeless(Done)
      BY <3>1 DEF Running, Done, Hopeless, Passed
    <3>3. QED
      BY <3>1, <3>2 DEF LoopInv
  <2>2. QED
    BY <2>1, StartLoopInv, FinishLoopInv DEF Next
<1>3. QED
  BY <1>1, <1>2, TypeCorrect, PTL DEF Spec

\* What may still be done in a scenario that was judged: nothing.
LEMMA JudgedIsOver ==
    ASSUME LoopInv, JudgedInv, verdict # "none", NEW i \in Indices
    PROVE  ~StartTrial(i) /\ ~FinishTrial(i)
<1>1. Running = {} /\ (stopped \/ Done = 1..trials)
  BY DEF JudgedInv
<1>2. ~FinishTrial(i)
  BY <1>1 DEF FinishTrial, Running
<1>3. ~StartTrial(i)
  BY <1>1 DEF StartTrial, Done, Indices
<1>4. QED
  BY <1>2, <1>3

LEMMA JudgeIsRight ==
    ASSUME LoopInv, Judge
    PROVE  JudgedInv'
<1>1. /\ Running = {} /\ (stopped \/ Done = 1..trials)
      /\ UNCHANGED <<settings, phase, stopped>>
      /\ verdict' = IF Cardinality(Passed(Done)) >= required /\ LatencyHolds
                    THEN "passed" ELSE "failed"
  BY DEF Judge
<1>2. /\ Running' = Running /\ Done' = Done /\ stopped' = stopped /\ trials' = trials
      /\ FullVerdict' = FullVerdict
  BY <1>1 DEF settings, Running, Done, FullVerdict, Passed
<1>3. verdict' = FullVerdict
  <2>1. CASE Done = 1..trials
    BY <1>1, <2>1 DEF FullVerdict, LatencyHolds
  <2>2. CASE stopped
    <3>1. Done \subseteq 1..trials /\ Hopeless(Done) /\ TypeOK
      BY <2>2 DEF LoopInv, Done, Indices, TypeOK
    <3>2. Cardinality(Passed(1..trials)) < required
      BY <3>1, HopelessStays
    <3>3. /\ Cardinality(Passed(Done)) <= Cardinality(Passed(1..trials))
          /\ Cardinality(Passed(Done)) \in Nat /\ Cardinality(Passed(1..trials)) \in Nat
      BY <3>1, FewerPass
    <3>4. required \in Nat
      BY <3>1, BoundsAssumption DEF TypeOK, Indices
    <3>5. QED
      BY <1>1, <3>2, <3>3, <3>4 DEF FullVerdict
  <2>3. QED
    BY <1>1, <2>1, <2>2
<1>4. QED
  BY <1>1, <1>2, <1>3 DEF JudgedInv

\* The verdict of a scenario is the one that running every trial to its end
\* would give, whether the loop broke early, or the trials ran in parallel and
\* ended in any order, and percentiles are taken over all of them.
THEOREM VerdictsAreFull == Spec => []VerdictIsFull
<1>1. Init => JudgedInv
  BY DEF Init, JudgedInv
<1>2. LoopInv /\ JudgedInv /\ [Next]_vars => JudgedInv'
  <2> SUFFICES ASSUME LoopInv, JudgedInv, [Next]_vars PROVE JudgedInv'
    OBVIOUS
  <2>1. CASE UNCHANGED vars
    BY <2>1 DEF vars, settings, JudgedInv, Running, Done, FullVerdict, Passed
  <2>2. ASSUME NEW i \in Indices, StartTrial(i) \/ FinishTrial(i) PROVE JudgedInv'
    <3>1. verdict = "none" /\ verdict' = verdict
      BY <2>2, JudgedIsOver DEF StartTrial, FinishTrial
    <3>2. QED
      BY <3>1 DEF JudgedInv
  <2>3. QED
    BY <2>1, <2>2, JudgeIsRight DEF Next
<1>3. LoopInv /\ JudgedInv => VerdictIsFull
  BY DEF LoopInv, JudgedInv, VerdictIsFull
<1>4. QED
  BY <1>1, <1>2, <1>3, LoopInvariant, PTL DEF Spec
=============================================================================
