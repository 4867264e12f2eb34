-------------------------- MODULE Downstream_proofs --------------------------
(* What the recording agent guarantees to the turns that count its calls,  *)
(* proved for any number of requests and turns and any limit.              *)
EXTENDS Downstream, SequenceTheorems, TLAPS

Places == {"unsent", "reading", "refused", "appending", "recorded", "answered"}
Stages == {"ready", "asked", "replied", "over"}

RecorderTypes ==
    /\ calls \in Seq(Requests)
    /\ pc \in [Requests -> Places]
    /\ cause \in [Requests -> 0..Turns]
    /\ lock \in SUBSET Requests
    /\ turn \in Index
    /\ stage \in Stages
    /\ mark \in Nat
    /\ settled \in [Index -> SUBSET Requests]
    /\ checked \in SUBSET Index
    /\ slice \in [Index -> Seq(Requests)]

\* A thread that is about to append holds the lock alone, and found room.
LockInv ==
    \A r \in Requests : pc[r] = "appending" =>
        lock = {r} /\ Len(calls) < MaxCalls

\* A request is caused by a turn that has been asked.
CauseInv ==
    \A r \in Requests : pc[r] # "unsent" =>
        /\ cause[r] \in 1..turn
        /\ stage = "ready" => cause[r] < turn

\* The mark of a running turn separates the calls of earlier turns, and all
\* that was counted before, from what this turn will count.
MarkInv ==
    /\ mark <= Len(calls)
    /\ stage \in {"asked", "replied"} =>
          /\ \A i \in 1..mark : cause[calls[i]] < turn
          /\ \A t \in Index : Counted(t) \subseteq {calls[i] : i \in 1..mark}
    /\ \A t \in Index : /\ Counted(t) \subseteq ToSet(calls)
                        /\ settled[t] \subseteq {r \in Requests : pc[r] = "answered"}
                        /\ t \in checked => t < turn \/ stage = "over"
                        /\ t \notin checked => slice[t] = <<>>

RecorderInv == RecorderTypes /\ LockInv /\ CallsAreRecordedOnce

CountInv == RecorderInv /\ CauseInv /\ MarkInv /\ CallsCountOnce /\ SettledCallsCount

-----------------------------------------------------------------------------
(* The threads of the server.                                               *)

LEMMA AppendCalls ==
    ASSUME NEW T, NEW q \in Seq(T), NEW e \in T
    PROVE  /\ Append(q, e) \in Seq(T)
           /\ Len(Append(q, e)) = Len(q) + 1 /\ Len(q) \in Nat
           /\ \A i \in 1..Len(q) : Append(q, e)[i] = q[i]
           /\ ToSet(Append(q, e)) = ToSet(q) \union {e}
           /\ IsInjective(q) /\ e \notin ToSet(q) => IsInjective(Append(q, e))
<1>1. /\ DOMAIN q = 1..Len(q) /\ DOMAIN Append(q, e) = 1..(Len(q) + 1)
      /\ Len(q) \in Nat
      /\ \A i \in 1..Len(q) : Append(q, e)[i] = q[i]
      /\ Append(q, e)[Len(q) + 1] = e
  OBVIOUS
<1>2. 1..(Len(q) + 1) = 1..Len(q) \union {Len(q) + 1}
  BY <1>1
<1>3. ToSet(Append(q, e)) = ToSet(q) \union {e}
  BY <1>1, <1>2 DEF ToSet
<1>4. IsInjective(q) /\ e \notin ToSet(q) => IsInjective(Append(q, e))
  BY <1>1, <1>2 DEF ToSet, IsInjective
<1>5. QED
  BY <1>1, <1>3, <1>4

\* What a step of a thread shows the trial.
ThreadShows ==
    /\ UNCHANGED trialVars
    /\ Len(calls) <= Len(calls')
    /\ \A i \in 1..Len(calls) : calls'[i] = calls[i]
    /\ \A r \in Requests :
          /\ pc[r] # "unsent" => pc'[r] # "unsent" /\ cause'[r] = cause[r]
          /\ pc[r] = "answered" => pc'[r] = "answered"
          /\ pc[r] = "unsent" /\ pc'[r] # "unsent" =>
                /\ cause'[r] \in 1..turn
                /\ stage = "ready" => cause'[r] < turn

LEMMA ThreadStep ==
    ASSUME RecorderInv, NEW r \in Requests, Thread(r)
    PROVE  RecorderInv' /\ ThreadShows
<1> USE DEF RecorderInv
<1>0. /\ calls \in Seq(Requests) /\ Len(calls) \in Nat /\ MaxCalls \in Nat
      /\ Append(calls, r) \in Seq(Requests)
      /\ Len(Append(calls, r)) = Len(calls) + 1
      /\ \A i \in 1..Len(calls) : Append(calls, r)[i] = calls[i]
      /\ ToSet(Append(calls, r)) = ToSet(calls) \union {r}
      /\ IsInjective(calls) /\ r \notin ToSet(calls) => IsInjective(Append(calls, r))
  BY AppendCalls, SizesAssumption DEF RecorderTypes
<1>1. ASSUME NEW t \in Index, Send(r, t) PROVE RecorderInv' /\ ThreadShows
  <2>1. RecorderTypes'
    BY <1>1 DEF Send, RecorderTypes, Places, Index, trialVars
  <2>2. t \in 1..turn /\ (stage = "ready" => t < turn)
    BY <1>1 DEF Send, RecorderTypes, Index
  <2>3. ThreadShows
    BY <1>0, <1>1, <2>2 DEF Send, ThreadShows, RecorderTypes
  <2>4. QED
    BY <1>1, <2>1, <2>3
    DEF Send, LockInv, CallsAreRecordedOnce, Accepted, RecorderTypes
<1>2. CASE Refuse(r) \/ Answer(r)
  <2>1. RecorderTypes'
    BY <1>2 DEF Refuse, Answer, RecorderTypes, Places, trialVars
  <2>2. ThreadShows
    BY <1>0, <1>2 DEF Refuse, Answer, ThreadShows, RecorderTypes
  <2>3. QED
    BY <1>2, <2>1, <2>2
    DEF Refuse, Answer, LockInv, CallsAreRecordedOnce, Accepted, RecorderTypes
<1>3. CASE Lock(r)
  <2>1. RecorderTypes'
    BY <1>3 DEF Lock, Room, RecorderTypes, Places, trialVars
  <2>2. ThreadShows
    BY <1>0, <1>3 DEF Lock, Room, ThreadShows, RecorderTypes
  <2>3. LockInv' /\ CallsAreRecordedOnce'
    BY <1>0, <1>3 DEF Lock, Room, LockInv, CallsAreRecordedOnce, Accepted, RecorderTypes
  <2>4. QED
    BY <2>1, <2>2, <2>3
<1>4. CASE Record(r)
  <2>1. RecorderTypes'
    BY <1>0, <1>4 DEF Record, RecorderTypes, Places, trialVars
  <2>2. ThreadShows
    BY <1>0, <1>4 DEF Record, ThreadShows, RecorderTypes
  <2>3. LockInv'
    BY <1>4 DEF Record, LockInv, RecorderTypes
  <2>4. r \notin ToSet(calls) /\ Len(calls) < MaxCalls
    BY <1>4 DEF Record, LockInv, CallsAreRecordedOnce, Accepted
  <2>5. {x \in Requests : Accepted(x)}' = {x \in Requests : Accepted(x)} \union {r}
    BY <1>4 DEF Record, Accepted, RecorderTypes
  <2>6. CallsAreRecordedOnce'
    BY <1>0, <1>4, <2>4, <2>5 DEF Record, CallsAreRecordedOnce
  <2>7. QED
    BY <2>1, <2>2, <2>3, <2>6
<1>5. CASE Unlock(r)
  <2>1. RecorderTypes'
    BY <1>5 DEF Unlock, RecorderTypes, trialVars
  <2>2. ThreadShows
    BY <1>0, <1>5 DEF Unlock, ThreadShows
  <2>3. LockInv' /\ CallsAreRecordedOnce'
    BY <1>5 DEF Unlock, LockInv, CallsAreRecordedOnce, Accepted
  <2>4. QED
    BY <2>1, <2>2, <2>3
<1>6. QED
  BY <1>1, <1>2, <1>3, <1>4, <1>5 DEF Thread

-----------------------------------------------------------------------------
(* The turns.                                                               *)

LEMMA ThreadCountInv ==
    ASSUME CountInv, RecorderInv', ThreadShows
    PROVE  CountInv'
<1>0. /\ UNCHANGED <<turn, stage, mark, settled, checked, slice>>
      /\ Len(calls) \in Nat /\ Len(calls') \in Nat /\ mark \in Nat /\ mark <= Len(calls)
      /\ DOMAIN calls = 1..Len(calls) /\ DOMAIN (calls') = 1..Len(calls')
      /\ Len(calls) <= Len(calls') /\ MaxCalls \in Nat
  BY SizesAssumption
  DEF ThreadShows, trialVars, CountInv, RecorderInv, RecorderTypes, MarkInv
<1>1. CauseInv'
  BY <1>0 DEF CountInv, CauseInv, ThreadShows
<1>2. /\ \A i \in 1..mark : calls'[i] = calls[i] /\ calls[i] \in ToSet(calls)
      /\ ToSet(calls) \subseteq ToSet(calls')
  BY <1>0 DEF ThreadShows, ToSet
<1>3. \A r \in ToSet(calls) : r \in Requests /\ cause'[r] = cause[r]
  BY DEF CountInv, RecorderInv, CallsAreRecordedOnce, Accepted, ThreadShows
<1>4. \A t \in Index : Counted(t)' = Counted(t) /\ Counted(t) \subseteq ToSet(calls)
  BY <1>0 DEF Counted, CountInv, MarkInv
<1>5. \A i \in 1..mark : cause'[calls'[i]] = cause[calls[i]]
  BY <1>2, <1>3
<1>6. \A t \in Index : settled[t] \subseteq {r \in Requests : pc'[r] = "answered"}
  BY DEF CountInv, MarkInv, ThreadShows
<1>7. MarkInv'
  BY <1>0, <1>2, <1>4, <1>5, <1>6 DEF CountInv, MarkInv
<1>8. CallsCountOnce'
  BY <1>0, <1>3, <1>4 DEF CountInv, CallsCountOnce
<1>9. SettledCallsCount'
  <2>1. \A t \in Index : \A r \in settled[t] : cause'[r] = cause[r]
    BY DEF CountInv, MarkInv, ThreadShows
  <2>2. checked \subseteq Index
    BY DEF CountInv, RecorderInv, RecorderTypes
  <2>3. Len(calls') < MaxCalls => Len(calls) < MaxCalls
    BY <1>0
  <2>4. QED
    BY <1>0, <1>4, <2>1, <2>2, <2>3 DEF CountInv, SettledCallsCount
<1>10. QED
  BY <1>1, <1>7, <1>8, <1>9 DEF CountInv

LEMMA QuietRecorder ==
    ASSUME RecorderInv, UNCHANGED threadVars,
           turn' \in Index, stage' \in Stages, mark' \in Nat,
           settled' \in [Index -> SUBSET Requests], checked' \in SUBSET Index,
           slice' \in [Index -> Seq(Requests)]
    PROVE  RecorderInv'
BY DEF RecorderInv, RecorderTypes, LockInv, CallsAreRecordedOnce, Accepted, threadVars

\* What becomes of the turn.
LEMMA NextTurnTypes ==
    ASSUME RecorderTypes, NextTurn
    PROVE  /\ turn' \in Index /\ stage' \in {"ready", "over"} /\ turn <= turn'
           /\ stage' = "ready" => turn < turn'
BY SizesAssumption DEF RecorderTypes, NextTurn, Index

LEMMA TurnEnds ==
    ASSUME CountInv, NextTurn, UNCHANGED <<threadVars, mark, settled>>,
           NEW t \in Index, t = turn, checked' \in {checked, checked \union {turn}},
           stage # "over", slice' \in [Index -> Seq(Requests)],
           \A u \in Index \ {t} : slice'[u] = slice[u],
           t \notin checked' => slice'[t] = <<>>,
           ToSet(slice'[t]) \subseteq ToSet(calls),
           CallsCountOnce', SettledCallsCount'
    PROVE  CountInv'
<1>1. /\ turn' \in Index /\ stage' \in {"ready", "over"} /\ turn <= turn'
      /\ stage' = "ready" => turn < turn'
      /\ UNCHANGED <<calls, pc, cause, lock, mark, settled>>
      /\ turn \in Nat /\ turn' \in Nat
  BY NextTurnTypes, SizesAssumption, SMTT(30)
  DEF CountInv, RecorderInv, RecorderTypes, threadVars, Index
<1>2. RecorderInv'
  BY <1>1, QuietRecorder DEF CountInv, RecorderInv, RecorderTypes, Stages
<1>3. CauseInv'
  BY <1>1, SizesAssumption, SMTT(30) DEF CountInv, RecorderInv, RecorderTypes, CauseInv, Index
<1>4. MarkInv'
  <2>1. \A u \in Index : u \in checked' => u < turn' \/ stage' = "over"
    <3>1. CASE stage' = "over"
      BY <3>1
    <3>2. CASE stage' = "ready"
      BY <1>1, <3>2 DEF CountInv, MarkInv, Index
    <3>3. QED
      BY <1>1, <3>1, <3>2
  <2>2. QED
    BY <1>1, <2>1 DEF CountInv, MarkInv, Counted
<1>5. QED
  BY <1>2, <1>3, <1>4 DEF CountInv

LEMMA SinceMark ==
    ASSUME NEW T, NEW q \in Seq(T), NEW m \in 0..Len(q)
    PROVE  /\ SubSeq(q, m + 1, Len(q)) \in Seq(T)
           /\ ToSet(SubSeq(q, m + 1, Len(q))) = {q[i] : i \in (m + 1)..Len(q)}
<1> DEFINE u == SubSeq(q, m + 1, Len(q))
<1>1. /\ u \in Seq(T) /\ Len(q) \in Nat /\ DOMAIN u = 1..(Len(q) - m)
      /\ \A k \in 1..(Len(q) - m) : u[k] = q[m + k]
  OBVIOUS
<1> HIDE DEF u
<1>2. \A i \in (m + 1)..Len(q) : i - m \in 1..(Len(q) - m) /\ m + (i - m) = i
  BY <1>1
<1>3. \A k \in 1..(Len(q) - m) : m + k \in (m + 1)..Len(q)
  BY <1>1
<1>4. ToSet(u) = {q[i] : i \in (m + 1)..Len(q)}
  <2>1. ToSet(u) = {u[k] : k \in 1..(Len(q) - m)}
    BY <1>1 DEF ToSet
  <2>2. \A k \in 1..(Len(q) - m) : u[k] \in {q[i] : i \in (m + 1)..Len(q)}
    BY <1>1, <1>3
  <2>3. \A i \in (m + 1)..Len(q) : q[i] = u[i - m] /\ i - m \in 1..(Len(q) - m)
    BY <1>1, <1>2
  <2>4. QED
    BY <2>1, <2>2, <2>3
<1>5. QED
  BY <1>1, <1>4 DEF u

LEMMA EvaluateCounts ==
    ASSUME CountInv, Evaluate
    PROVE  CountInv'
<1>0. /\ calls \in Seq(Requests) /\ Len(calls) \in Nat /\ mark \in 0..Len(calls)
      /\ turn \in Index /\ turn \notin checked /\ stage = "replied"
      /\ UNCHANGED <<calls, pc, cause, lock, mark, settled>>
      /\ slice' = [slice EXCEPT ![turn] = CallsSince(mark)]
      /\ checked' = checked \union {turn} /\ checked \in SUBSET Index
      /\ slice \in [Index -> Seq(Requests)]
      /\ NextTurn
  <2>1. turn \notin checked
    <3>1. turn \in Index /\ stage = "replied"
      BY DEF Evaluate, CountInv, RecorderInv, RecorderTypes
    <3>2. turn \in checked => turn < turn
      BY <3>1 DEF CountInv, MarkInv
    <3>3. QED
      BY <3>1, <3>2 DEF Index
  <2>2. /\ calls \in Seq(Requests) /\ Len(calls) \in Nat /\ mark \in Nat
        /\ mark <= Len(calls)
        /\ turn \in Index /\ checked \in SUBSET Index
        /\ slice \in [Index -> Seq(Requests)]
    BY DEF CountInv, MarkInv, RecorderInv, RecorderTypes
  <2>3. QED
    BY <2>1, <2>2 DEF Evaluate, threadVars
<1> PICK t \in Index : t = turn
  BY <1>0
<1>1. /\ CallsSince(mark) \in Seq(Requests)
      /\ ToSet(CallsSince(mark)) = {calls[i] : i \in (mark + 1)..Len(calls)}
  BY <1>0, SinceMark DEF CallsSince
<1>2. /\ slice' \in [Index -> Seq(Requests)]
      /\ Counted(t)' = {calls[i] : i \in (mark + 1)..Len(calls)}
      /\ \A u \in Index \ {t} : slice'[u] = slice[u] /\ Counted(u)' = Counted(u)
  BY <1>0, <1>1 DEF Counted
<1>3. /\ DOMAIN calls = 1..Len(calls) /\ IsInjective(calls)
      /\ ToSet(calls) \subseteq {r \in Requests : Accepted(r)}
  BY <1>0 DEF CountInv, RecorderInv, CallsAreRecordedOnce
<1>4. ToSet(slice'[t]) \subseteq ToSet(calls)
  <2>1. ToSet(slice'[t]) = {calls[i] : i \in (mark + 1)..Len(calls)}
    BY <1>2 DEF Counted
  <2>2. \A i \in (mark + 1)..Len(calls) : i \in 1..Len(calls)
    BY <1>0
  <2>3. QED
    BY <1>3, <2>1, <2>2 DEF ToSet
<1>5. CallsCountOnce'
  <2>1. \A u \in Index : Counted(u) \intersect Counted(t)' = {}
    <3>1. \A u \in Index : Counted(u) \subseteq {calls[i] : i \in 1..mark}
      BY <1>0 DEF CountInv, MarkInv
    <3>2. \A i \in 1..mark, k \in (mark + 1)..Len(calls) : calls[i] # calls[k]
      <4>1. \A i \in 1..mark, k \in (mark + 1)..Len(calls) :
               i \in 1..Len(calls) /\ k \in 1..Len(calls) /\ i # k
        BY <1>0
      <4>2. QED
        BY <1>3, <4>1 DEF IsInjective
    <3>3. QED
      BY <1>2, <3>1, <3>2
  <2>2. \A r \in Counted(t)' : cause[r] <= t
    <3>1. \A r \in ToSet(calls) : cause[r] \in 1..turn
      BY <1>3 DEF Accepted, CountInv, CauseInv
    <3>2. QED
      BY <1>0, <1>4, <3>1 DEF Counted, Index
  <2>3. \A u \in Index : u # t => Counted(u)' = Counted(u)
    BY <1>2
  <2>4. CallsCountOnce
    BY DEF CountInv
  <2>5. \A u, v \in Index : u # v => Counted(u)' \intersect Counted(v)' = {}
    <3>1. ASSUME NEW u \in Index, NEW v \in Index, u # v
          PROVE  Counted(u)' \intersect Counted(v)' = {}
      <4>1. CASE u = t
        BY <2>1, <2>3, <3>1, <4>1
      <4>2. CASE v = t
        BY <2>1, <2>3, <3>1, <4>2
      <4>3. CASE u # t /\ v # t
        BY <2>3, <2>4, <3>1, <4>3 DEF CallsCountOnce
      <4>4. QED
        BY <4>1, <4>2, <4>3
    <3>2. QED
      BY <3>1
  <2>6. \A u \in Index : \A r \in Counted(u)' : cause'[r] <= u
    BY <1>0, <2>2, <2>3, <2>4 DEF CallsCountOnce
  <2>7. QED
    BY <2>5, <2>6 DEF CallsCountOnce
<1>6. SettledCallsCount'
  <2>1. ASSUME Len(calls) < MaxCalls, NEW r \in settled[t], cause[r] = t
        PROVE  r \in Counted(t)'
    <3>1. r \in ToSet(calls)
      BY <2>1 DEF CountInv, MarkInv, RecorderInv, CallsAreRecordedOnce, Accepted
    <3>2. PICK i \in 1..Len(calls) : calls[i] = r
      BY <1>3, <3>1 DEF ToSet
    <3>3. ~(i \in 1..mark)
      <4>1. \A k \in 1..mark : cause[calls[k]] < turn
        BY <1>0 DEF CountInv, MarkInv
      <4>2. ~(turn < turn)
        BY <1>0 DEF Index
      <4>3. QED
        BY <2>1, <3>2, <4>1, <4>2
    <3>4. i \in (mark + 1)..Len(calls)
      BY <1>0, <3>3
    <3>5. QED
      BY <1>2, <3>2, <3>4
  <2>2. QED
    BY <1>0, <1>2, <2>1 DEF CountInv, SettledCallsCount
<1>7. QED
  BY <1>0, <1>2, <1>4, <1>5, <1>6, TurnEnds DEF threadVars

LEMMA SkipCounts ==
    ASSUME CountInv, SkipTurn
    PROVE  CountInv'
<1>1. /\ NextTurn /\ stage # "over" /\ turn \in Index
      /\ UNCHANGED <<threadVars, mark, settled, checked, slice>>
      /\ slice \in [Index -> Seq(Requests)]
  BY DEF SkipTurn, CountInv, RecorderInv, RecorderTypes
<1>2. CallsCountOnce' /\ SettledCallsCount'
  BY <1>1 DEF CountInv, CallsCountOnce, SettledCallsCount, Counted, threadVars
<1>3. /\ ToSet(slice[turn]) \subseteq ToSet(calls)
      /\ turn \notin checked => slice[turn] = <<>>
  BY <1>1 DEF CountInv, MarkInv, Counted
<1>4. QED
  BY <1>1, <1>2, <1>3, TurnEnds DEF threadVars

LEMMA StartCounts ==
    ASSUME CountInv, StartTurn
    PROVE  CountInv'
<1>0. /\ stage = "ready" /\ stage' = "asked" /\ mark' = Len(calls)
      /\ UNCHANGED <<threadVars, turn, settled, checked, slice>>
      /\ Len(calls) \in Nat /\ DOMAIN calls = 1..Len(calls)
  BY DEF StartTurn, CountInv, RecorderInv, RecorderTypes
<1>1. RecorderInv'
  BY <1>0, QuietRecorder DEF CountInv, RecorderInv, RecorderTypes, Stages
<1>2. CauseInv' /\ CallsCountOnce' /\ SettledCallsCount'
  BY <1>0 DEF CountInv, CauseInv, CallsCountOnce, SettledCallsCount, Counted, threadVars
<1>3. \A i \in 1..Len(calls) : cause[calls[i]] < turn
  BY <1>0 DEF CountInv, CauseInv, RecorderInv, CallsAreRecordedOnce, Accepted, ToSet
<1>4. ToSet(calls) = {calls[i] : i \in 1..Len(calls)}
  BY <1>0 DEF ToSet
<1>5. MarkInv'
  <2>1. \A t \in Index : Counted(t)' = Counted(t)
    BY <1>0 DEF Counted
  <2>2. UNCHANGED <<calls, pc, cause>>
    BY <1>0 DEF threadVars
  <2>3. \A t \in Index : Counted(t) \subseteq {calls[i] : i \in 1..Len(calls)}
    BY <1>4 DEF CountInv, MarkInv
  <2>4. QED
    BY <1>0, <1>3, <2>1, <2>2, <2>3 DEF CountInv, MarkInv
<1>6. QED
  BY <1>1, <1>2, <1>5 DEF CountInv

LEMMA ReplyCounts ==
    ASSUME CountInv, AgentReplies
    PROVE  CountInv'
<1>0. /\ stage = "asked" /\ stage' = "replied" /\ turn \in Index
      /\ settled' = [settled EXCEPT ![turn] = {r \in Requests : pc[r] = "answered"}]
      /\ UNCHANGED <<threadVars, turn, mark, checked, slice>>
      /\ settled \in [Index -> SUBSET Requests] /\ checked \in SUBSET Index
  BY DEF AgentReplies, CountInv, RecorderInv, RecorderTypes
<1>1. RecorderInv'
  BY <1>0, QuietRecorder DEF CountInv, RecorderInv, RecorderTypes, Stages
<1>2. CauseInv' /\ CallsCountOnce'
  BY <1>0 DEF CountInv, CauseInv, CallsCountOnce, Counted, threadVars
<1>3. turn \notin checked
  BY <1>0, SizesAssumption DEF CountInv, MarkInv, Index
<1>4. SettledCallsCount'
  BY <1>0, <1>3 DEF CountInv, SettledCallsCount, Counted, threadVars
<1>5. MarkInv'
  BY <1>0 DEF CountInv, MarkInv, Counted, threadVars
<1>6. QED
  BY <1>1, <1>2, <1>4, <1>5 DEF CountInv

LEMMA InitCounts == Init => CountInv
<1> SUFFICES ASSUME Init PROVE CountInv
  OBVIOUS
<1>1. /\ <<>> \in Seq(Requests) /\ Len(<<>>) = 0 /\ ToSet(<<>>) = {}
      /\ IsInjective(<<>>)
  BY DEF ToSet, IsInjective
<1>2. RecorderTypes
  BY <1>1, SizesAssumption DEF Init, RecorderTypes, Places, Stages, Index
<1>3. RecorderInv
  BY <1>1, <1>2, SizesAssumption
  DEF Init, RecorderInv, LockInv, CallsAreRecordedOnce, Accepted
<1>4. QED
  BY <1>1, <1>3, SizesAssumption
  DEF Init, CountInv, CauseInv, MarkInv, CallsCountOnce, SettledCallsCount, Counted, Index

LEMMA CountInvariant == Spec => []CountInv
<1>1. CountInv /\ [Next]_vars => CountInv'
  <2>1. ASSUME CountInv, NEW r \in Requests, Thread(r) PROVE CountInv'
    BY <2>1, ThreadStep, ThreadCountInv DEF CountInv
  <2>2. ASSUME CountInv, UNCHANGED vars PROVE CountInv'
    BY <2>2 DEF vars, threadVars, trialVars, CountInv, RecorderInv, RecorderTypes,
                LockInv, CauseInv, MarkInv, CallsAreRecordedOnce, CallsCountOnce,
                SettledCallsCount, Counted, Accepted
  <2>3. QED
    BY <2>1, <2>2, EvaluateCounts, SkipCounts, StartCounts, ReplyCounts DEF Next
<1>2. QED
  BY <1>1, InitCounts, PTL DEF Spec

\* The lock keeps the list right however many threads race for its last free
\* place: it never exceeds the limit, holds each call once, and misses none
\* while there is room.
THEOREM ThreadsRecordOnce == Spec => []CallsAreRecordedOnce
<1>1. CountInv => CallsAreRecordedOnce
  BY DEF CountInv, RecorderInv
<1>2. QED
  BY <1>1, CountInvariant, PTL

\* The slices of the turns are disjoint, and no turn is charged with a call
\* that a later turn caused, however long requests stay on their way.
THEOREM TurnsCountOnce == Spec => []CallsCountOnce
<1>1. CountInv => CallsCountOnce
  BY DEF CountInv
<1>2. QED
  BY <1>1, CountInvariant, PTL

\* What the agent did before it answered a turn is held against that turn.
THEOREM SettledCallsAreCounted == Spec => []SettledCallsCount
<1>1. CountInv => SettledCallsCount
  BY DEF CountInv
<1>2. QED
  BY <1>1, CountInvariant, PTL
=============================================================================
