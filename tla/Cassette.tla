------------------------------- MODULE Cassette -------------------------------
(***************************************************************************)
(* A recording and its replay.  Recorder.wrap appends the outcome of every *)
(* operation that returns to one flat list; Cassette.next_turn serves that *)
(* list in order to whoever asks.  Nothing on the tape says which trial an *)
(* outcome belongs to: what a trial is served depends on how many outcomes *)
(* the trials before it consumed.                                          *)
(*                                                                         *)
(* The trials of all scenarios run one after the other, when recording and *)
(* when replaying.  A turn's outcome is abstracted to its quality under    *)
(* the recorded contract and two revisions of it, a stricter and a laxer   *)
(* one.                                                                    *)
(***************************************************************************)
EXTENDS Integers, Sequences, FiniteSets, SequencesExt

CONSTANTS
    Scenarios, \* the number of scenarios
    Trials,    \* trials of each scenario
    Turns,     \* turns of each trial
    Tolerated  \* failures a scenario tolerates

ASSUME SizesAssumption ==
    /\ {Scenarios, Trials, Turns} \subseteq Nat \ {0}
    /\ Tolerated \in 0..(Trials - 1)

VARIABLES
    contract,  \* the contract replayed: "same", "stricter" or "laxer"
    earlyStop, \* whether it is replayed with --early-stop
    phase,     \* "recording", "replaying" or "done"
    at,        \* the turn that runs next: [scenario, trial, turn]
    tape,      \* Recorder.turns
    position,  \* Cassette._position
    live,      \* the result of each trial when recorded
    replayed,  \* its result when replayed
    served     \* the places the replay served an outcome to, in order

vars == <<contract, earlyStop, phase, at, tape, position, live, replayed, served>>

Contracts == {"same", "stricter", "laxer"}
Qualities == {"good", "marginal", "bad"}
Runs == (1..Scenarios) \X (1..Trials)
Start == [scenario |-> 1, trial |-> 1, turn |-> 1]

Init ==
    /\ contract \in Contracts
    /\ earlyStop \in BOOLEAN
    /\ phase = "recording"
    /\ at = Start
    /\ tape = <<>>
    /\ position = 0
    /\ live = [r \in Runs |-> "none"]
    /\ replayed = [r \in Runs |-> "none"]
    /\ served = <<>>

Run == <<at.scenario, at.trial>>

\* What the expectations of the recorded contract say of an outcome, and what
\* those of the replayed one say.
Recorded(q) == q # "bad"

Accepted(q) ==
    CASE contract = "same" -> Recorded(q)
      [] contract = "stricter" -> q = "good"
      [] contract = "laxer" -> TRUE

Failures(results) ==
    Cardinality({t \in 1..Trials :
        results[<<at.scenario, t>>] \in {"failed", "error"}})

\* _run_scenario goes on to the next trial, or breaks.
Advance(breaks, next) ==
    LET over == breaks \/ at.trial = Trials IN
    \/ /\ ~over
       /\ at' = [at EXCEPT !.trial = @ + 1, !.turn = 1]
       /\ UNCHANGED phase
    \/ /\ over
       /\ at.scenario < Scenarios
       /\ at' = [scenario |-> at.scenario + 1, trial |-> 1, turn |-> 1]
       /\ UNCHANGED phase
    \/ /\ over
       /\ at.scenario = Scenarios
       /\ at' = Start
       /\ phase' = next

\* The loop of _run_trial after a turn that held or did not.
AfterTurn(held, breaks, next) ==
    IF held /\ at.turn < Turns
    THEN /\ at' = [at EXCEPT !.turn = @ + 1]
         /\ UNCHANGED phase
    ELSE Advance(breaks, next)

Result(results, value) == [results EXCEPT ![Run] = value]

-----------------------------------------------------------------------------
(* record: the live run.                                                    *)

ResultOf(held, results) ==
    IF held /\ at.turn < Turns THEN results
    ELSE Result(results, IF held THEN "passed" ELSE "failed")

\* Fault: only the outcomes that hold are recorded.
LiveReplyKeptIfGood(q) ==
    /\ phase = "recording"
    /\ tape' = IF Recorded(q) THEN Append(tape, [place |-> at, quality |-> q])
               ELSE tape
    /\ live' = ResultOf(Recorded(q), live)
    /\ AfterTurn(Recorded(q), FALSE, "replaying")
    /\ UNCHANGED <<contract, earlyStop, position, replayed, served>>

\* Fault: the operation is wrapped twice.
LiveReplyTwice(q) ==
    /\ phase = "recording"
    /\ LET entry == [place |-> at, quality |-> q] IN tape' = tape \o <<entry, entry>>
    /\ live' = ResultOf(Recorded(q), live)
    /\ AfterTurn(Recorded(q), FALSE, "replaying")
    /\ UNCHANGED <<contract, earlyStop, position, replayed, served>>

\* Recorder.wrap: the operation returned, and its outcome is on the tape
\* whatever its evaluation says.
LiveReply(q) ==
    /\ phase = "recording"
    /\ tape' = Append(tape, [place |-> at, quality |-> q])
    /\ live' = ResultOf(Recorded(q), live)
    /\ AfterTurn(Recorded(q), FALSE, "replaying")
    /\ UNCHANGED <<contract, earlyStop, position, replayed, served>>

\* The turn raised before an outcome was there (a refused action, a file that
\* cannot be read, an error reply, a timeout, a broken stream): the trial ends
\* with an error and the tape does not show that it ran.
LiveRaises ==
    /\ phase = "recording"
    /\ live' = Result(live, "error")
    /\ Advance(FALSE, "replaying")
    /\ UNCHANGED <<contract, earlyStop, tape, position, replayed, served>>

-----------------------------------------------------------------------------
(* run --replay.                                                            *)

\* Fault: the loop breaks although --early-stop was not given.
BreaksUnasked(results) == Failures(results) > Tolerated

Breaks(results) == earlyStop /\ Failures(results) > Tolerated

NextTurn == tape[position + 1].quality

ReplayTurn ==
    /\ phase = "replaying"
    /\ position < Len(tape)
    /\ LET held == Accepted(NextTurn)
       IN /\ replayed' = ResultOf(held, replayed)
          /\ AfterTurn(held, Breaks(replayed'), "done")
    /\ position' = position + 1
    /\ served' = Append(served, at)
    /\ UNCHANGED <<contract, earlyStop, tape, live>>

\* An exception inside the trial becomes its result, and nothing is served.
ReplayFails ==
    /\ phase = "replaying"
    /\ replayed' = Result(replayed, "error")
    /\ Advance(Breaks(replayed'), "done")
    /\ UNCHANGED <<contract, earlyStop, tape, position, live, served>>

\* CassetteError of next_turn.
TapeRunsOut == ReplayFails /\ position >= Len(tape)

\* The turn raises before it asks the tape: an action without a task or a
\* subscription, a file that cannot be read.  The contract decides that: the
\* recorded one and a laxer one refuse a turn only in a trial where one was
\* refused before, a stricter one refuses any.
ReplayRefuses == ReplayFails /\ (contract # "stricter" => live[Run] = "error")

Next ==
    \/ \E q \in Qualities : LiveReply(q)
    \/ LiveRaises
    \/ ReplayTurn
    \/ TapeRunsOut
    \/ ReplayRefuses

Spec == Init /\ [][Next]_vars

-----------------------------------------------------------------------------
\* The order in which a run visits its turns.
Before(p, q) ==
    \/ p.scenario < q.scenario
    \/ p.scenario = q.scenario /\ p.trial < q.trial
    \/ p.scenario = q.scenario /\ p.trial = q.trial /\ p.turn < q.turn

OnTape(r) == {k \in DOMAIN tape : <<tape[k].place.scenario, tape[k].place.trial>> = r}

\* The tape is the run: in the order of the run, without a repetition, and
\* complete for every trial that ended with a verdict; a failed trial's last
\* outcome is the one that failed it.
TapeIsTheRun ==
    /\ \A j, k \in DOMAIN tape : j < k => Before(tape[j].place, tape[k].place)
    /\ \A r \in Runs :
          /\ live[r] = "passed" => Cardinality(OnTape(r)) = Turns
          /\ live[r] = "failed" =>
                \E k \in OnTape(r) :
                    /\ tape[k].quality = "bad"
                    /\ \A j \in OnTape(r) : j <= k

NoErrors == \A r \in Runs : live[r] # "error"

\* Replaying an undisturbed recording with its own contract gives the recorded
\* results and uses the tape up; the tape never runs out.
UndisturbedReplay ==
    (phase = "done" /\ contract = "same" /\ ~earlyStop /\ NoErrors) =>
        /\ replayed = live
        /\ position = Len(tape)

Consumed(r) ==
    Cardinality({k \in DOMAIN served : <<served[k].scenario, served[k].trial>> = r})

Earlier(e, r) == e[1] < r[1] \/ (e[1] = r[1] /\ e[2] < r[2])

\* Whatever the replayed contract, a trial is served its own outcomes as long
\* as every trial before it took as many as were recorded for it.
ServedInStep ==
    \A k \in DOMAIN served :
        LET r == <<served[k].scenario, served[k].trial>>
        IN (/\ \A e \in Runs :
                  Earlier(e, r) => Consumed(e) = Cardinality(OnTape(e))
            /\ served[k].turn <= Cardinality(OnTape(r)))
                => served[k] = tape[k].place
=============================================================================
