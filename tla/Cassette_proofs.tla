---------------------------- MODULE Cassette_proofs ----------------------------
(***************************************************************************)
(* A tape is the run it was recorded from, an undisturbed replay repeats   *)
(* it, and a replay stays in step with it, for every number of scenarios,  *)
(* trials and turns.                                                       *)
(*                                                                         *)
(* Recording and replaying both walk through the places of the run: the    *)
(* places come in the order of the run and, within a trial, from the first *)
(* turn on (Walk).  Two walks that agree on how many turns each trial took *)
(* agree place by place.                                                   *)
(***************************************************************************)
EXTENDS Cassette, FiniteSetTheorems, SequenceTheorems, TLAPS

Places == [scenario : 1..Scenarios, trial : 1..Trials, turn : 1..Turns]
Entries == [place : Places, quality : Qualities]
RunOf(p) == <<p.scenario, p.trial>>
AtTurn(p, n) == [p EXCEPT !.turn = n]

TypeInv ==
    /\ contract \in Contracts
    /\ earlyStop \in BOOLEAN
    /\ phase \in {"recording", "replaying", "done"}
    /\ at \in Places
    /\ tape \in Seq(Entries)
    /\ position \in Nat
    /\ live \in [Runs -> {"none", "passed", "failed", "error"}]
    /\ replayed \in [Runs -> {"none", "passed", "failed", "error"}]
    /\ served \in Seq(Places)

-----------------------------------------------------------------------------
(* Walks.                                                                   *)

\* In the order of the run, and no turn of a trial before the ones it follows.
Walked(h) ==
    /\ \A j, k \in DOMAIN h : j < k => Before(h[j], h[k])
    /\ \A k \in DOMAIN h : \A n \in 1..(h[k].turn - 1) :
          \E j \in DOMAIN h : h[j] = AtTurn(h[k], n)

\* And p is the place that comes next.
Walk(h, p) ==
    /\ Walked(h)
    /\ \A k \in DOMAIN h : Before(h[k], p)
    /\ \A n \in 1..(p.turn - 1) : \E j \in DOMAIN h : h[j] = AtTurn(p, n)

TapePlaces == [k \in DOMAIN tape |-> tape[k].place]

WalkInv ==
    /\ Walked(TapePlaces)
    /\ Walked(served)
    /\ phase = "recording" => Walk(TapePlaces, at) /\ served = <<>> /\ position = 0
    /\ phase = "replaying" => Walk(served, at)
    /\ Len(served) = position
    /\ position <= Len(tape)

-----------------------------------------------------------------------------
(* The verdicts of the recorded trials.                                     *)

VerdictInv ==
    /\ phase = "recording" => \A r \in Runs : live[r] # "none" => Earlier(r, Run)
    /\ \A r \in Runs :
          /\ live[r] = "passed" =>
                \A n \in 1..Turns : \E k \in DOMAIN tape :
                    tape[k].place = [scenario |-> r[1], trial |-> r[2], turn |-> n]
          /\ live[r] = "failed" =>
                \E k \in OnTape(r) :
                    /\ tape[k].quality = "bad"
                    /\ \A j \in OnTape(r) : j <= k

-----------------------------------------------------------------------------
(* The replay of an undisturbed recording.                                  *)

\* Where the run goes after a turn that held or did not; past the last scenario
\* when it ends.
AfterPlace(p, held) ==
    IF held /\ p.turn < Turns THEN AtTurn(p, p.turn + 1)
    ELSE IF p.trial < Trials
    THEN [scenario |-> p.scenario, trial |-> p.trial + 1, turn |-> 1]
    ELSE [scenario |-> p.scenario + 1, trial |-> 1, turn |-> 1]

After(e) == AfterPlace(e.place, Recorded(e.quality))

\* The outcome decides its trial.
Decides(e) == ~Recorded(e.quality) \/ e.place.turn = Turns

ChainInv ==
    NoErrors =>
        /\ tape # <<>> => tape[1].place = Start
        /\ \A k \in 1..(Len(tape) - 1) : tape[k + 1].place = After(tape[k])
        /\ \A k \in DOMAIN tape : Decides(tape[k]) =>
              live[RunOf(tape[k].place)] =
                  IF Recorded(tape[k].quality) THEN "passed" ELSE "failed"
        /\ phase = "recording" =>
              at = IF tape = <<>> THEN Start ELSE After(tape[Len(tape)])
        /\ phase # "recording" =>
              tape # <<>> /\ After(tape[Len(tape)]).scenario = Scenarios + 1

Undisturbed == contract = "same" /\ ~earlyStop /\ NoErrors

ReplayInv ==
    Undisturbed =>
        /\ phase = "replaying" =>
              /\ position < Len(tape)
              /\ at = tape[position + 1].place
              /\ \A r \in Runs : Earlier(r, Run) => replayed[r] = live[r]
        /\ phase = "done" => replayed = live /\ position = Len(tape)

CassetteInv ==
    /\ TypeInv
    /\ WalkInv
    /\ VerdictInv
    /\ ChainInv
    /\ ReplayInv

-----------------------------------------------------------------------------
(* How a walk goes on.                                                      *)

NextTrial(p, q) ==
    /\ q.turn = 1
    /\ p.scenario < q.scenario \/ (p.scenario = q.scenario /\ p.trial < q.trial)

LEMMA PlaceOfTurn ==
    ASSUME NEW p \in Places, NEW n \in 1..Turns
    PROVE  /\ AtTurn(p, n) \in Places
           /\ AtTurn(p, n).scenario = p.scenario
           /\ AtTurn(p, n).trial = p.trial
           /\ AtTurn(p, n).turn = n
BY DEF Places, AtTurn

LEMMA SameTurn ==
    ASSUME NEW p \in Places, NEW q \in Places,
           p.scenario = q.scenario, p.trial = q.trial, p.turn = q.turn
    PROVE  p = q
BY DEF Places

LEMMA BeforeIsAnOrder ==
    ASSUME NEW p \in Places, NEW q \in Places
    PROVE  /\ ~Before(p, p)
           /\ ~(Before(p, q) /\ Before(q, p))
           /\ p # q => Before(p, q) \/ Before(q, p)
           /\ \A m \in Places : Before(p, q) /\ Before(q, m) => Before(p, m)
           /\ \A m \in Places : Before(p, q) /\ NextTrial(q, m) => Before(p, m)
           /\ NextTrial(p, q) => Before(p, q)
<1> USE SizesAssumption
<1>1. /\ ~Before(p, p)
      /\ ~(Before(p, q) /\ Before(q, p))
      /\ \A m \in Places : Before(p, q) /\ Before(q, m) => Before(p, m)
      /\ \A m \in Places : Before(p, q) /\ NextTrial(q, m) => Before(p, m)
      /\ NextTrial(p, q) => Before(p, q)
  BY DEF Before, NextTrial, Places
<1>2. p # q => Before(p, q) \/ Before(q, p)
  BY SameTurn DEF Before, Places
<1> QED
  BY <1>1, <1>2

LEMMA WalkSkips ==
    ASSUME NEW h \in Seq(Places), NEW p \in Places, NEW q \in Places,
           Walk(h, p), NextTrial(p, q)
    PROVE  Walk(h, q)
<1>1. \A k \in DOMAIN h : Before(h[k], q)
  BY BeforeIsAnOrder DEF Walk
<1>2. \A n \in 1..(q.turn - 1) : \E j \in DOMAIN h : h[j] = AtTurn(q, n)
  BY DEF NextTrial
<1> QED
  BY <1>1, <1>2 DEF Walk

LEMMA WalkGrows ==
    ASSUME NEW h \in Seq(Places), NEW p \in Places, Walk(h, p)
    PROVE  /\ Append(h, p) \in Seq(Places)
           /\ Walked(Append(h, p))
           /\ \A q \in Places : NextTrial(p, q) => Walk(Append(h, p), q)
           /\ p.turn < Turns => Walk(Append(h, p), AtTurn(p, p.turn + 1))
<1> DEFINE g == Append(h, p)
<1>1. /\ g \in Seq(Places) /\ DOMAIN g = 1..(Len(h) + 1) /\ DOMAIN h = 1..Len(h)
      /\ g[Len(h) + 1] = p /\ \A k \in DOMAIN h : g[k] = h[k]
      /\ Len(h) \in Nat
  OBVIOUS
<1> HIDE DEF g
<1>2. Walked(g)
  <2>1. ASSUME NEW j \in DOMAIN g, NEW k \in DOMAIN g, j < k
        PROVE  Before(g[j], g[k])
    BY <1>1, <2>1 DEF Walk, Walked
  <2>2. ASSUME NEW k \in DOMAIN g, NEW n \in 1..(g[k].turn - 1)
        PROVE  \E j \in DOMAIN g : g[j] = AtTurn(g[k], n)
    <3>1. CASE k \in DOMAIN h
      <4>1. PICK j \in DOMAIN h : h[j] = AtTurn(h[k], n)
        BY <1>1, <2>2, <3>1 DEF Walk, Walked
      <4> QED
        BY <1>1, <3>1, <4>1
    <3>2. CASE k = Len(h) + 1
      <4>1. PICK j \in DOMAIN h : h[j] = AtTurn(p, n)
        BY <1>1, <2>2, <3>2 DEF Walk
      <4> QED
        BY <1>1, <3>2, <4>1
    <3> QED
      BY <1>1, <3>1, <3>2
  <2> QED
    BY <2>1, <2>2 DEF Walked
<1>3. \A k \in DOMAIN g : g[k] = p \/ Before(g[k], p)
  BY <1>1 DEF Walk
<1>4. \A k \in DOMAIN g : g[k] \in Places
  BY <1>1
<1>5. ASSUME NEW q \in Places, NextTrial(p, q)
      PROVE  Walk(g, q)
  <2>1. \A k \in DOMAIN g : Before(g[k], q)
    BY <1>3, <1>4, <1>5, BeforeIsAnOrder
  <2>2. \A n \in 1..(q.turn - 1) : \E j \in DOMAIN g : g[j] = AtTurn(q, n)
    BY <1>5 DEF NextTrial
  <2> QED
    BY <1>2, <2>1, <2>2 DEF Walk
<1>6. ASSUME p.turn < Turns
      PROVE  Walk(g, AtTurn(p, p.turn + 1))
  <2> DEFINE q == AtTurn(p, p.turn + 1)
  <2>0. p.turn \in Nat \ {0} /\ p.turn + 1 \in 1..Turns
    BY <1>6, SizesAssumption DEF Places
  <2>1. /\ q \in Places /\ q.turn = p.turn + 1
        /\ q.scenario = p.scenario /\ q.trial = p.trial
    BY <2>0, PlaceOfTurn
  <2>2. \A n \in 1..Turns : AtTurn(q, n) = AtTurn(p, n)
    BY DEF AtTurn, Places
  <2> HIDE DEF q
  <2>3. Before(p, q)
    BY <2>0, <2>1 DEF Before
  <2>4. \A k \in DOMAIN g : Before(g[k], q)
    BY <1>3, <1>4, <2>1, <2>3, BeforeIsAnOrder
  <2>5. ASSUME NEW n \in 1..(q.turn - 1)
        PROVE  \E j \in DOMAIN g : g[j] = AtTurn(q, n)
    <3>0. n \in 1..Turns /\ n <= p.turn
      BY <2>0, <2>1, SizesAssumption
    <3>1. CASE n = p.turn
      <4>1. AtTurn(p, n) = p
        BY <3>1 DEF AtTurn, Places
      <4> QED
        BY <1>1, <2>2, <3>0, <4>1
    <3>2. CASE n < p.turn
      <4>1. PICK j \in DOMAIN h : h[j] = AtTurn(p, n)
        BY <2>0, <3>0, <3>2 DEF Walk
      <4> QED
        BY <1>1, <2>2, <3>0, <4>1
    <3> QED
      BY <2>0, <3>0, <3>1, <3>2
  <2>6. Walk(g, q)
    BY <1>2, <2>4, <2>5 DEF Walk
  <2> QED
    BY <2>6 DEF q
<1> QED
  BY <1>1, <1>2, <1>5, <1>6 DEF g

-----------------------------------------------------------------------------
(* The steps.                                                               *)

\* A step ends the trial at hand: the next one begins, or the run is over.
Ends(next) ==
    \/ UNCHANGED phase /\ at' \in Places /\ NextTrial(at, at')
    \/ phase' = next /\ at' = Start

\* Or it goes on to the next turn of the trial.
GoesOn ==
    /\ UNCHANGED phase
    /\ at.turn < Turns
    /\ at' = AtTurn(at, at.turn + 1)
    /\ at' \in Places

LEMMA StartIsAPlace == Start \in Places
BY SizesAssumption DEF Start, Places

LEMMA TrialEnds ==
    ASSUME at \in Places, NEW breaks, NEW next, Advance(breaks, next)
    PROVE  Ends(next)
<1> USE SizesAssumption DEF Advance
<1>1. CASE at.trial # Trials /\ at' = [at EXCEPT !.trial = @ + 1, !.turn = 1] /\ UNCHANGED phase
  <2>1. at.trial + 1 \in 1..Trials /\ 1 \in 1..Turns
    BY <1>1 DEF Places
  <2>2. at' = [scenario |-> at.scenario, trial |-> at.trial + 1, turn |-> 1]
    BY <1>1 DEF Places
  <2>3. at' \in Places
    BY <2>1, <2>2 DEF Places
  <2> QED
    BY <1>1, <2>1, <2>2, <2>3 DEF Ends, NextTrial, Places
<1>2. CASE /\ at.scenario < Scenarios
           /\ at' = [scenario |-> at.scenario + 1, trial |-> 1, turn |-> 1]
           /\ UNCHANGED phase
  BY <1>2 DEF Ends, NextTrial, Places
<1>3. CASE at' = Start /\ phase' = next
  BY <1>3 DEF Ends
<1> QED
  BY <1>1, <1>2, <1>3

LEMMA TurnEnds ==
    ASSUME at \in Places, NEW held \in BOOLEAN, NEW breaks, NEW next,
           AfterTurn(held, breaks, next)
    PROVE  \/ GoesOn /\ held
           \/ Ends(next) /\ ~(held /\ at.turn < Turns)
<1>1. CASE held /\ at.turn < Turns
  <2>1. at' = AtTurn(at, at.turn + 1) /\ UNCHANGED phase
    BY <1>1 DEF AfterTurn, AtTurn
  <2>2. at.turn + 1 \in 1..Turns
    BY <1>1, SizesAssumption DEF Places
  <2> QED
    BY <1>1, <2>1, <2>2, PlaceOfTurn DEF GoesOn
<1>2. CASE ~(held /\ at.turn < Turns)
  BY <1>2, TrialEnds DEF AfterTurn
<1> QED
  BY <1>1, <1>2

\* Where the step goes exactly, unless the loop breaks.
Follows(held, next) ==
    LET q == AfterPlace(at, held) IN
    \/ q \in Places /\ at' = q /\ UNCHANGED phase
    \/ q.scenario = Scenarios + 1 /\ phase' = next /\ at' = Start

LEMMA TurnFollows ==
    ASSUME at \in Places, NEW held \in BOOLEAN, NEW next, AfterTurn(held, FALSE, next)
    PROVE  Follows(held, next)
<1> DEFINE q == AfterPlace(at, held)
<1> USE SizesAssumption
<1>1. CASE held /\ at.turn < Turns
  <2>1. at.turn + 1 \in 1..Turns
    BY <1>1 DEF Places
  <2>2. q = AtTurn(at, at.turn + 1) /\ q \in Places
    BY <1>1, <2>1, PlaceOfTurn DEF AfterPlace
  <2>3. at' = q /\ UNCHANGED phase
    BY <1>1, <2>2 DEF AfterTurn, AtTurn
  <2> QED
    BY <2>2, <2>3 DEF Follows
<1>2. CASE ~(held /\ at.turn < Turns)
  <2>1. Advance(FALSE, next)
    BY <1>2 DEF AfterTurn
  <2>2. CASE at.trial < Trials
    <3>1. q = [scenario |-> at.scenario, trial |-> at.trial + 1, turn |-> 1]
      BY <1>2, <2>2 DEF AfterPlace
    <3>2. at' = [at EXCEPT !.trial = @ + 1, !.turn = 1] /\ UNCHANGED phase
      BY <2>1, <2>2 DEF Advance, Places
    <3>3. at' = [scenario |-> at.scenario, trial |-> at.trial + 1, turn |-> 1]
      BY <3>2 DEF Places
    <3>4. q \in Places
      BY <2>2, <3>1 DEF Places
    <3> QED
      BY <3>1, <3>2, <3>3, <3>4 DEF Follows
  <2>3. CASE at.trial = Trials
    <3>1. q = [scenario |-> at.scenario + 1, trial |-> 1, turn |-> 1]
      BY <1>2, <2>3 DEF AfterPlace
    <3>2. CASE at.scenario < Scenarios /\ at' = q /\ UNCHANGED phase
      <4>1. q \in Places
        BY <3>1, <3>2 DEF Places
      <4> QED
        BY <3>2, <4>1 DEF Follows
    <3>3. CASE at.scenario = Scenarios /\ at' = Start /\ phase' = next
      <4>1. q.scenario = Scenarios + 1
        BY <3>1, <3>3
      <4> QED
        BY <3>3, <4>1 DEF Follows
    <3> QED
      BY <2>1, <2>3, <3>1, <3>2, <3>3 DEF Advance
  <2> QED
    BY <2>2, <2>3 DEF Places
<1> QED
  BY <1>1, <1>2

\* The trials before a place, seen from the one it follows.
LEMMA AfterOf ==
    ASSUME NEW p \in Places, NEW held \in BOOLEAN
    PROVE  LET q == AfterPlace(p, held)
               stays == held /\ p.turn < Turns
           IN /\ stays => RunOf(q) = RunOf(p)
              /\ ~stays => \A r \in Runs :
                    Earlier(r, RunOf(q)) => Earlier(r, RunOf(p)) \/ r = RunOf(p)
              /\ q.scenario = Scenarios + 1 =>
                    ~stays /\ \A r \in Runs : Earlier(r, RunOf(p)) \/ r = RunOf(p)
<1> DEFINE q == AfterPlace(p, held)
           stays == held /\ p.turn < Turns
<1> USE SizesAssumption
<1>1. CASE stays
  <2>1. q = AtTurn(p, p.turn + 1) /\ q.scenario = p.scenario /\ q.trial = p.trial
    BY <1>1 DEF AfterPlace, AtTurn, Places
  <2>2. RunOf(q) = RunOf(p) /\ q.scenario # Scenarios + 1
    BY <2>1 DEF RunOf, Places
  <2> QED
    BY <1>1, <2>2
<1>2. CASE ~stays /\ p.trial < Trials
  <2>1. q = [scenario |-> p.scenario, trial |-> p.trial + 1, turn |-> 1]
    BY <1>2 DEF AfterPlace
  <2> QED
    BY <1>2, <2>1 DEF RunOf, Places, Earlier, Runs
<1>3. CASE ~stays /\ p.trial = Trials
  <2>1. q = [scenario |-> p.scenario + 1, trial |-> 1, turn |-> 1]
    BY <1>3 DEF AfterPlace
  <2> QED
    BY <1>3, <2>1 DEF RunOf, Places, Earlier, Runs
<1> QED
  BY <1>1, <1>2, <1>3 DEF Places

\* The entry that a live reply adds.
Reply(q) == [place |-> at, quality |-> q]

LEMMA TapeGrows ==
    ASSUME TypeInv, NEW q \in Qualities, tape' = Append(tape, Reply(q))
    PROVE  /\ Reply(q) \in Entries
           /\ tape' \in Seq(Entries)
           /\ DOMAIN tape' = 1..(Len(tape) + 1) /\ Len(tape') = Len(tape) + 1
           /\ DOMAIN tape = 1..Len(tape) /\ Len(tape) \in Nat
           /\ tape'[Len(tape) + 1] = Reply(q)
           /\ \A k \in DOMAIN tape : tape'[k] = tape[k]
           /\ TapePlaces \in Seq(Places)
           /\ TapePlaces' = Append(TapePlaces, at)
<1>1. Reply(q) \in Entries
  BY DEF TypeInv, Entries, Reply
<1>2. /\ tape' \in Seq(Entries)
      /\ DOMAIN tape' = 1..(Len(tape) + 1) /\ Len(tape') = Len(tape) + 1
      /\ DOMAIN tape = 1..Len(tape) /\ Len(tape) \in Nat
      /\ tape'[Len(tape) + 1] = Reply(q)
      /\ \A k \in DOMAIN tape : tape'[k] = tape[k]
  BY <1>1 DEF TypeInv
<1>3. \A k \in DOMAIN tape : tape[k].place \in Places
  <2>1. \A k \in DOMAIN tape : tape[k] \in Entries
    BY DEF TypeInv
  <2> QED
    BY <2>1 DEF Entries
<1>4. TapePlaces \in Seq(Places) /\ Len(TapePlaces) = Len(tape)
  <2>1. TapePlaces = [k \in 1..Len(tape) |-> tape[k].place]
    BY <1>2 DEF TapePlaces
  <2> QED
    BY <1>2, <1>3, <2>1
<1>5. TapePlaces' = Append(TapePlaces, at)
  <2> DEFINE g == Append(TapePlaces, at)
  <2>1. TapePlaces' = [k \in 1..(Len(tape) + 1) |-> tape'[k].place]
    BY <1>2 DEF TapePlaces
  <2>2. g \in Seq(Places) /\ Len(g) = Len(tape) + 1
    BY <1>4 DEF TypeInv
  <2>3. \A k \in DOMAIN tape : tape'[k].place \in Places
    BY <1>2, <1>3
  <2>4. tape'[Len(tape) + 1].place = at /\ at \in Places
    BY <1>2 DEF Reply, TypeInv
  <2>5. TapePlaces' \in Seq(Places) /\ Len(TapePlaces') = Len(tape) + 1
    BY <1>2, <2>1, <2>3, <2>4
  <2>6. ASSUME NEW k \in 1..(Len(tape) + 1)
        PROVE  TapePlaces'[k] = g[k]
    <3>0. k = Len(tape) + 1 \/ k \in DOMAIN tape
      BY <1>2
    <3>1. CASE k = Len(tape) + 1
      BY <1>2, <1>4, <2>1, <2>4, <3>1
    <3>2. CASE k \in DOMAIN tape
      <4>1. TapePlaces'[k] = tape[k].place
        BY <1>2, <2>1, <3>2
      <4>2. g[k] = TapePlaces[k]
        BY <1>2, <1>4, <3>2
      <4> QED
        BY <3>2, <4>1, <4>2 DEF TapePlaces
    <3> QED
      BY <3>0, <3>1, <3>2
  <2> HIDE DEF g
  <2>7. TapePlaces' = g
    BY <2>2, <2>5, <2>6, SeqEqual
  <2> QED
    BY <2>7 DEF g
<1> QED
  BY <1>1, <1>2, <1>4, <1>5

Verdicts == {"none", "passed", "failed", "error"}

LEMMA ResultsOfRuns ==
    ASSUME at \in Places, NEW results \in [Runs -> Verdicts], NEW v \in Verdicts
    PROVE  /\ Run \in Runs
           /\ Result(results, v) \in [Runs -> Verdicts]
           /\ \A r \in Runs : Result(results, v)[r] = IF r = Run THEN v ELSE results[r]
BY DEF Places, Run, Runs, Result

LEMMA ResultsOfTurns ==
    ASSUME at \in Places, NEW results \in [Runs -> Verdicts], NEW held \in BOOLEAN
    PROVE  /\ ResultOf(held, results) \in [Runs -> Verdicts]
           /\ held /\ at.turn < Turns => ResultOf(held, results) = results
           /\ ~(held /\ at.turn < Turns) =>
                 \A r \in Runs : ResultOf(held, results)[r] =
                     IF r = Run THEN (IF held THEN "passed" ELSE "failed") ELSE results[r]
BY ResultsOfRuns DEF ResultOf, Verdicts

\* What the two steps of the recording and the two of the replay come to.
Recording(q) ==
    /\ phase = "recording"
    /\ tape' = Append(tape, Reply(q))
    /\ live' = ResultOf(Recorded(q), live)
    /\ \/ GoesOn /\ Recorded(q)
       \/ Ends("replaying") /\ ~(Recorded(q) /\ at.turn < Turns)
    /\ Follows(Recorded(q), "replaying")
    /\ UNCHANGED <<contract, earlyStop, position, replayed, served>>

Raising ==
    /\ phase = "recording"
    /\ live' = Result(live, "error")
    /\ Ends("replaying")
    /\ UNCHANGED <<contract, earlyStop, tape, position, replayed, served>>

Serving ==
    /\ phase = "replaying"
    /\ position < Len(tape)
    /\ position' = position + 1
    /\ served' = Append(served, at)
    /\ LET held == Accepted(NextTurn)
       IN /\ replayed' = ResultOf(held, replayed)
          /\ \/ GoesOn /\ held
             \/ Ends("done") /\ ~(held /\ at.turn < Turns)
          /\ ~earlyStop => Follows(held, "done")
    /\ UNCHANGED <<contract, earlyStop, tape, live>>

Failing ==
    /\ phase = "replaying"
    /\ position < Len(tape) /\ contract = "same" => live[Run] = "error"
    /\ replayed' = Result(replayed, "error")
    /\ Ends("done")
    /\ UNCHANGED <<contract, earlyStop, tape, position, live, served>>

LEMMA Served ==
    ASSUME TypeInv, position < Len(tape)
    PROVE  /\ position + 1 \in DOMAIN tape /\ tape[position + 1] \in Entries
           /\ NextTurn \in Qualities /\ Accepted(NextTurn) \in BOOLEAN
           /\ contract = "same" => (Accepted(NextTurn) <=> Recorded(NextTurn))
<1>1. position + 1 \in DOMAIN tape /\ tape[position + 1] \in Entries
  BY DEF TypeInv
<1> QED
  BY <1>1 DEF NextTurn, Entries, Accepted, Recorded, TypeInv, Contracts

LEMMA Steps ==
    ASSUME TypeInv, Next
    PROVE  (\E q \in Qualities : Recording(q)) \/ Raising \/ Serving \/ Failing
<1> USE DEF TypeInv
<1>1. ASSUME NEW q \in Qualities, LiveReply(q)
      PROVE  Recording(q)
  <2>0. Recorded(q) \in BOOLEAN
    BY DEF Recorded
  <2>1. AfterTurn(Recorded(q), FALSE, "replaying")
    BY <1>1 DEF LiveReply
  <2>2. \/ GoesOn /\ Recorded(q)
        \/ Ends("replaying") /\ ~(Recorded(q) /\ at.turn < Turns)
    BY <2>0, <2>1, TurnEnds, Zenon
  <2>3. Follows(Recorded(q), "replaying")
    BY <2>0, <2>1, TurnFollows
  <2> QED
    BY <1>1, <2>2, <2>3 DEF LiveReply, Recording, Reply
<1>2. CASE LiveRaises
  BY <1>2, TrialEnds DEF LiveRaises, Raising
<1>3. CASE ReplayTurn
  <2> DEFINE held == Accepted(NextTurn)
  <2>1. /\ phase = "replaying" /\ position < Len(tape)
        /\ replayed' = ResultOf(held, replayed)
        /\ AfterTurn(held, Breaks(replayed'), "done")
    BY <1>3 DEF ReplayTurn
  <2>2. held \in BOOLEAN
    BY <2>1, Served
  <2>3. \/ GoesOn /\ held
        \/ Ends("done") /\ ~(held /\ at.turn < Turns)
    BY <2>1, <2>2, TurnEnds, Zenon
  <2>4. ~earlyStop => Follows(held, "done")
    <3>1. ~earlyStop => Breaks(replayed') = FALSE
      BY DEF Breaks
    <3> QED
      BY <2>1, <2>2, <3>1, TurnFollows, Zenon
  <2> QED
    BY <1>3, <2>1, <2>3, <2>4 DEF ReplayTurn, Serving
<1>4. CASE TapeRunsOut \/ ReplayRefuses
  <2>1. position >= Len(tape) => ~(position < Len(tape))
    BY DEF TypeInv
  <2> QED
    BY <1>4, <2>1, TrialEnds DEF TapeRunsOut, ReplayRefuses, ReplayFails, Failing
<1> QED
  BY <1>1, <1>2, <1>3, <1>4 DEF Next

LEMMA TypeSteps == TypeInv /\ [Next]_vars => TypeInv'
<1> SUFFICES ASSUME TypeInv, [Next]_vars
             PROVE  TypeInv'
  OBVIOUS
<1>1. ASSUME NEW q \in Qualities, Recording(q)
      PROVE  TypeInv'
  <2>1. tape' \in Seq(Entries)
    BY <1>1, TapeGrows DEF Recording
  <2>2. live' \in [Runs -> Verdicts]
    BY <1>1, ResultsOfTurns DEF Recording, TypeInv, Verdicts, Recorded
  <2>3. at' \in Places /\ phase' \in {"recording", "replaying", "done"}
    BY <1>1, StartIsAPlace DEF Recording, Ends, GoesOn, TypeInv
  <2> QED
    BY <1>1, <2>1, <2>2, <2>3 DEF Recording, TypeInv, Verdicts
<1>2. CASE Raising
  <2>1. live' \in [Runs -> Verdicts]
    BY <1>2, ResultsOfRuns DEF Raising, TypeInv, Verdicts
  <2>2. at' \in Places /\ phase' \in {"recording", "replaying", "done"}
    BY <1>2, StartIsAPlace DEF Raising, Ends, TypeInv
  <2> QED
    BY <1>2, <2>1, <2>2 DEF Raising, TypeInv, Verdicts
<1>3. CASE Serving
  <2>1. replayed' \in [Runs -> Verdicts]
    BY <1>3, Served, ResultsOfTurns DEF Serving, TypeInv, Verdicts
  <2>2. at' \in Places /\ phase' \in {"recording", "replaying", "done"}
    BY <1>3, StartIsAPlace DEF Serving, Ends, GoesOn, TypeInv
  <2>3. served' \in Seq(Places) /\ position' \in Nat
    BY <1>3 DEF Serving, TypeInv
  <2> QED
    BY <1>3, <2>1, <2>2, <2>3 DEF Serving, TypeInv, Verdicts
<1>4. CASE Failing
  <2>1. replayed' \in [Runs -> Verdicts]
    BY <1>4, ResultsOfRuns DEF Failing, TypeInv, Verdicts
  <2>2. at' \in Places /\ phase' \in {"recording", "replaying", "done"}
    BY <1>4, StartIsAPlace DEF Failing, Ends, TypeInv
  <2> QED
    BY <1>4, <2>1, <2>2 DEF Failing, TypeInv, Verdicts
<1>5. CASE UNCHANGED vars
  BY <1>5 DEF vars, TypeInv
<1> QED
  BY <1>1, <1>2, <1>3, <1>4, <1>5, Steps

LEMMA WalkSteps == TypeInv /\ WalkInv /\ [Next]_vars => WalkInv'
<1> SUFFICES ASSUME TypeInv, WalkInv, [Next]_vars
             PROVE  WalkInv'
  OBVIOUS
<1>0. TypeInv'
  BY TypeSteps
<1>1. Walk(<<>>, Start) /\ Walked(<<>>)
  BY DEF Walk, Walked, Start
<1>2. ASSUME NEW q \in Qualities, Recording(q)
      PROVE  WalkInv'
  <2>1. /\ TapePlaces \in Seq(Places) /\ TapePlaces' = Append(TapePlaces, at)
        /\ Len(tape') = Len(tape) + 1 /\ Len(tape) \in Nat
    BY <1>2, TapeGrows DEF Recording
  <2>2. Walk(TapePlaces, at) /\ at \in Places /\ at' \in Places
    BY <1>0, <1>2 DEF Recording, WalkInv, TypeInv
  <2>3. /\ Walked(TapePlaces')
        /\ NextTrial(at, at') => Walk(TapePlaces', at')
        /\ GoesOn => Walk(TapePlaces', at')
    BY <2>1, <2>2, WalkGrows DEF GoesOn
  <2>4. phase' = "recording" => Walk(TapePlaces', at')
    BY <1>2, <2>3 DEF Recording, Ends
  <2>5. phase' = "replaying" => Walk(served', at')
    BY <1>1, <1>2 DEF Recording, Ends, GoesOn, WalkInv
  <2> QED
    BY <1>2, <2>1, <2>3, <2>4, <2>5 DEF Recording, WalkInv, TypeInv
<1>3. CASE Raising
  <2>1. TapePlaces' = TapePlaces /\ TapePlaces \in Seq(Places)
    <3>1. \A k \in DOMAIN tape : tape[k] \in Entries
      BY DEF TypeInv
    <3>2. TapePlaces = [k \in 1..Len(tape) |-> tape[k].place]
      BY DEF TapePlaces, TypeInv
    <3>3. TapePlaces \in Seq(Places)
      BY <3>1, <3>2 DEF TypeInv, Entries
    <3> QED
      BY <1>3, <3>3 DEF Raising, TapePlaces
  <2>2. Walk(TapePlaces, at) /\ at \in Places /\ at' \in Places
    BY <1>0, <1>3 DEF Raising, WalkInv, TypeInv
  <2>3. NextTrial(at, at') => Walk(TapePlaces', at')
    BY <2>1, <2>2, WalkSkips
  <2>4. phase' = "replaying" => Walk(served', at')
    BY <1>1, <1>3 DEF Raising, Ends, WalkInv
  <2> QED
    BY <1>3, <2>1, <2>3, <2>4 DEF Raising, Ends, WalkInv
<1>4. CASE Serving
  <2>1. Walk(served, at) /\ at \in Places /\ at' \in Places /\ served \in Seq(Places)
    BY <1>0, <1>4 DEF Serving, WalkInv, TypeInv
  <2>2. /\ Walked(served')
        /\ NextTrial(at, at') => Walk(served', at')
        /\ GoesOn => Walk(served', at')
    BY <1>4, <2>1, WalkGrows DEF GoesOn, Serving
  <2>3. TapePlaces' = TapePlaces
    BY <1>4 DEF Serving, TapePlaces
  <2>4. Len(served') = position' /\ position' <= Len(tape)
    BY <1>4, <2>1 DEF Serving, WalkInv, TypeInv
  <2> QED
    BY <1>4, <2>2, <2>3, <2>4 DEF Serving, Ends, GoesOn, WalkInv
<1>5. CASE Failing
  <2>1. Walk(served, at) /\ at \in Places /\ at' \in Places /\ served \in Seq(Places)
    BY <1>0, <1>5 DEF Failing, WalkInv, TypeInv
  <2>2. NextTrial(at, at') => Walk(served', at')
    BY <1>5, <2>1, WalkSkips DEF Failing
  <2>3. TapePlaces' = TapePlaces
    BY <1>5 DEF Failing, TapePlaces
  <2> QED
    BY <1>5, <2>2, <2>3 DEF Failing, Ends, WalkInv
<1>6. CASE UNCHANGED vars
  <2>1. TapePlaces' = TapePlaces
    BY <1>6 DEF vars, TapePlaces
  <2> QED
    BY <1>6, <2>1 DEF vars, WalkInv
<1> QED
  BY <1>2, <1>3, <1>4, <1>5, <1>6, Steps

LEMMA OrderOfRuns ==
    ASSUME at \in Places
    PROVE  /\ Run \in Runs /\ ~Earlier(Run, Run)
           /\ GoesOn => Run' = Run
           /\ at' \in Places /\ NextTrial(at, at') =>
                 \A r \in Runs : Earlier(r, Run) \/ r = Run => Earlier(r, Run')
BY SizesAssumption DEF Places, Run, Runs, Earlier, GoesOn, NextTrial, AtTurn

LEMMA VerdictSteps == TypeInv /\ WalkInv /\ VerdictInv /\ [Next]_vars => VerdictInv'
<1> SUFFICES ASSUME TypeInv, WalkInv, VerdictInv, [Next]_vars
             PROVE  VerdictInv'
  OBVIOUS
<1>0. TypeInv' /\ at \in Places /\ Run \in Runs /\ live \in [Runs -> Verdicts]
  BY TypeSteps, OrderOfRuns DEF TypeInv, Verdicts
<1>1. ASSUME NEW q \in Qualities, Recording(q)
      PROVE  VerdictInv'
  <2> DEFINE last == Len(tape) + 1
  <2>1. /\ DOMAIN tape' = 1..last /\ DOMAIN tape = 1..(last - 1) /\ last \in Nat \ {0}
        /\ tape'[last] = Reply(q)
        /\ \A k \in DOMAIN tape : tape'[k] = tape[k]
    BY <1>1, TapeGrows DEF Recording
  <2> HIDE DEF last
  <2>2. /\ live' = ResultOf(Recorded(q), live)
        /\ \/ GoesOn /\ Recorded(q)
           \/ Ends("replaying") /\ ~(Recorded(q) /\ at.turn < Turns)
        /\ phase = "recording"
    BY <1>1 DEF Recording
  <2>3. live[Run] = "none"
    BY <1>0, <2>2, OrderOfRuns DEF VerdictInv, Verdicts
  <2> DEFINE stays == Recorded(q) /\ at.turn < Turns
  <2>4. /\ stays => live' = live
        /\ ~stays => \A r \in Runs :
              live'[r] = IF r = Run THEN (IF Recorded(q) THEN "passed" ELSE "failed")
                         ELSE live[r]
        /\ \A r \in Runs : r # Run => live'[r] = live[r]
    <3>1. Recorded(q) \in BOOLEAN
      BY DEF Recorded
    <3>2. /\ stays => live' = live
          /\ ~stays =>
                \A r \in Runs : live'[r] =
                    IF r = Run THEN (IF Recorded(q) THEN "passed" ELSE "failed") ELSE live[r]
      BY <1>0, <2>2, <3>1, ResultsOfTurns
    <3> QED
      BY <3>2, Zenon
  <2>5. ASSUME phase' = "recording", NEW r \in Runs, live'[r] # "none"
        PROVE  Earlier(r, Run')
    <3>1. r = Run \/ Earlier(r, Run)
      BY <2>2, <2>4, <2>5 DEF VerdictInv
    <3>2. CASE GoesOn /\ Recorded(q)
      <4>1. live' = live /\ Run' = Run
        BY <1>0, <2>4, <3>2, OrderOfRuns DEF GoesOn
      <4> QED
        BY <2>3, <2>5, <3>1, <4>1
    <3>3. CASE Ends("replaying")
      BY <1>0, <2>2, <2>5, <3>1, <3>3, OrderOfRuns DEF Ends
    <3> QED
      BY <2>2, <3>2, <3>3
  <2>6. ASSUME NEW r \in Runs, live'[r] = "passed", NEW n \in 1..Turns
        PROVE  \E k \in DOMAIN tape' :
                  tape'[k].place = [scenario |-> r[1], trial |-> r[2], turn |-> n]
    <3>1. CASE live[r] = "passed"
      <4>1. PICK k \in DOMAIN tape :
               tape[k].place = [scenario |-> r[1], trial |-> r[2], turn |-> n]
        BY <2>6, <3>1 DEF VerdictInv
      <4> QED
        BY <2>1, <4>1
    <3>2. CASE live[r] # "passed"
      <4>1. r = Run /\ ~stays /\ Recorded(q)
        BY <2>3, <2>4, <2>6, <3>2
      <4>2. at.turn = Turns
        BY <1>0, <2>2, <4>1, SizesAssumption DEF Places
      <4>3. AtTurn(at, n) = [scenario |-> r[1], trial |-> r[2], turn |-> n]
        BY <1>0, <4>1 DEF AtTurn, Places, Run
      <4>4. CASE n = Turns
        <5>1. AtTurn(at, n) = at
          BY <1>0, <4>2, <4>4 DEF AtTurn, Places
        <5> QED
          BY <2>1, <4>3, <5>1 DEF Reply
      <4>5. CASE n # Turns
        <5>1. n \in 1..(at.turn - 1)
          BY <2>6, <4>2, <4>5, SizesAssumption
        <5>2. PICK j \in DOMAIN TapePlaces : TapePlaces[j] = AtTurn(at, n)
          BY <2>2, <5>1 DEF WalkInv, Walk
        <5>3. j \in DOMAIN tape /\ tape[j].place = AtTurn(at, n)
          BY <5>2 DEF TapePlaces
        <5> QED
          BY <2>1, <4>3, <5>3
      <4> QED
        BY <4>4, <4>5
    <3> QED
      BY <3>1, <3>2
  <2>7. ASSUME NEW r \in Runs, live'[r] = "failed"
        PROVE  \E k \in OnTape(r)' :
                  /\ tape'[k].quality = "bad"
                  /\ \A j \in OnTape(r)' : j <= k
    <3>1. CASE r = Run
      <4>1. ~Recorded(q) /\ q = "bad"
        BY <2>2, <2>3, <2>4, <2>7, <3>1 DEF Recorded
      <4>2. last \in OnTape(r)' /\ tape'[last].quality = "bad"
        BY <2>1, <3>1, <4>1 DEF OnTape, Reply, Run
      <4>3. \A j \in OnTape(r)' : j <= last
        BY <2>1 DEF OnTape
      <4> QED
        BY <4>2, <4>3
    <3>2. CASE r # Run
      <4>1. PICK k \in OnTape(r) : /\ tape[k].quality = "bad"
                                   /\ \A j \in OnTape(r) : j <= k
        BY <2>4, <2>7, <3>2 DEF VerdictInv
      <4>2. last \notin OnTape(r)'
        BY <2>1, <3>2 DEF OnTape, Reply, Run
      <4>3. OnTape(r)' = OnTape(r)
        BY <2>1, <4>2 DEF OnTape
      <4> QED
        BY <2>1, <4>1, <4>3 DEF OnTape
    <3> QED
      BY <3>1, <3>2
  <2> QED
    BY <2>5, <2>6, <2>7 DEF VerdictInv
<1>2. CASE Raising
  <2>1. /\ \A r \in Runs : live'[r] = IF r = Run THEN "error" ELSE live[r]
        /\ UNCHANGED tape /\ Ends("replaying") /\ phase = "recording"
    BY <1>0, <1>2, ResultsOfRuns DEF Raising, Verdicts
  <2>2. ASSUME phase' = "recording", NEW r \in Runs, live'[r] # "none"
        PROVE  Earlier(r, Run')
    BY <1>0, <2>1, <2>2, OrderOfRuns DEF VerdictInv, Ends
  <2>3. \A r \in Runs : live'[r] \in {"passed", "failed"} => live'[r] = live[r]
    BY <2>1
  <2> QED
    BY <2>1, <2>2, <2>3 DEF VerdictInv, OnTape
<1>3. CASE Serving \/ Failing
  <2>1. phase' # "recording" /\ UNCHANGED <<tape, live>>
    BY <1>3 DEF Serving, Failing, Ends, GoesOn
  <2> QED
    BY <2>1 DEF VerdictInv, OnTape
<1>4. CASE UNCHANGED vars
  BY <1>4 DEF vars, VerdictInv, OnTape, Run
<1> QED
  BY <1>1, <1>2, <1>3, <1>4, Steps

LEMMA TapeTypes ==
    ASSUME TypeInv
    PROVE  /\ Len(tape) \in Nat /\ DOMAIN tape = 1..Len(tape)
           /\ \A k \in DOMAIN tape :
                 tape[k] \in Entries /\ tape[k].place \in Places /\ tape[k].quality \in Qualities
<1>1. Len(tape) \in Nat /\ DOMAIN tape = 1..Len(tape) /\ \A k \in DOMAIN tape : tape[k] \in Entries
  BY DEF TypeInv
<1> QED
  BY <1>1 DEF Entries

LEMMA ChainSteps == TypeInv /\ VerdictInv /\ ChainInv /\ [Next]_vars => ChainInv'
<1> SUFFICES ASSUME TypeInv, VerdictInv, ChainInv, [Next]_vars, NoErrors'
             PROVE  ChainInv'
  BY DEF ChainInv
<1>0. at \in Places /\ Run \in Runs /\ live \in [Runs -> Verdicts]
  BY OrderOfRuns DEF TypeInv, Verdicts
<1>1. ASSUME NEW q \in Qualities, Recording(q)
      PROVE  ChainInv'
  <2> DEFINE last == Len(tape) + 1
             held == Recorded(q)
             stays == held /\ at.turn < Turns
  <2>1. /\ DOMAIN tape' = 1..last /\ DOMAIN tape = 1..(last - 1) /\ last \in Nat \ {0}
        /\ Len(tape') = last /\ Len(tape) = last - 1
        /\ tape'[last] = Reply(q)
        /\ \A k \in DOMAIN tape : tape'[k] = tape[k]
    BY <1>1, TapeGrows DEF Recording
  <2>2. tape' # <<>> /\ (tape = <<>> <=> last = 1)
    BY <2>1 DEF TypeInv
  <2>3. held \in BOOLEAN
    BY DEF Recorded
  <2>4. Reply(q).place = at /\ Reply(q).quality = q /\ After(Reply(q)) = AfterPlace(at, held)
    BY DEF Reply, After
  <2>5. /\ stays => live' = live
        /\ ~stays => \A r \in Runs :
              live'[r] = IF r = Run THEN (IF held THEN "passed" ELSE "failed") ELSE live[r]
    BY <1>0, <1>1, <2>3, ResultsOfTurns DEF Recording
  <2>6. live[Run] = "none"
    BY <1>0, <1>1, OrderOfRuns DEF VerdictInv, Verdicts, Recording
  <2>7. \A r \in Runs : r # Run => live'[r] = live[r]
    BY <2>5, Zenon
  <2>8. NoErrors
    BY <2>6, <2>7 DEF NoErrors
  <2> HIDE DEF last, held
  <2>9. tape'[1].place = Start
    BY <1>1, <2>1, <2>2, <2>4, <2>8 DEF ChainInv, Recording
  <2>10. ASSUME NEW k \in 1..(last - 1)
         PROVE  tape'[k + 1].place = After(tape'[k])
    <3>1. CASE k < last - 1
      BY <2>1, <2>8, <3>1 DEF ChainInv
    <3>2. CASE k = last - 1
      <4>1. at = After(tape[k])
        BY <1>1, <2>1, <2>2, <2>8, <3>2 DEF ChainInv, Recording
      <4> QED
        BY <2>1, <2>4, <3>2, <4>1
    <3> QED
      BY <2>1, <3>1, <3>2
  <2>11. ASSUME NEW k \in DOMAIN tape', Decides(tape'[k])
         PROVE  live'[RunOf(tape'[k].place)] =
                    IF Recorded(tape'[k].quality) THEN "passed" ELSE "failed"
    <3>1. CASE k \in DOMAIN tape
      <4> DEFINE r == RunOf(tape[k].place)
      <4>1. r \in Runs
        BY <3>1, TapeTypes DEF RunOf, Runs, Places
      <4>2. live[r] = IF Recorded(tape[k].quality) THEN "passed" ELSE "failed"
        BY <2>1, <2>8, <2>11, <3>1 DEF ChainInv
      <4>3. r # Run
        BY <2>6, <4>2
      <4> HIDE DEF r
      <4>4. live'[r] = live[r]
        BY <2>7, <4>1, <4>3
      <4> QED
        BY <2>1, <3>1, <4>2, <4>4 DEF r
    <3>2. CASE k = last
      <4>1. RunOf(tape'[k].place) = Run /\ tape'[k].quality = q
        BY <2>1, <2>4, <3>2 DEF RunOf, Run
      <4>2. ~stays
        BY <1>0, <2>1, <2>4, <2>11, <3>2, SizesAssumption DEF Decides, Places, held
      <4> QED
        BY <1>0, <2>5, <4>1, <4>2 DEF held
    <3> QED
      BY <2>1, <3>1, <3>2
  <2>12. Follows(held, "replaying") /\ phase = "recording"
    BY <1>1 DEF Recording, held
  <2>13. \/ at' = After(Reply(q)) /\ phase' = "recording"
         \/ After(Reply(q)).scenario = Scenarios + 1 /\ phase' = "replaying"
    BY <2>4, <2>12 DEF Follows
  <2> QED
    BY <2>1, <2>2, <2>9, <2>10, <2>11, <2>13 DEF ChainInv
<1>2. CASE Raising
  <2>1. live'[Run] = "error"
    BY <1>0, <1>2, ResultsOfRuns DEF Raising, Verdicts
  <2> QED
    BY <1>0, <2>1 DEF NoErrors
<1>3. CASE Serving \/ Failing
  <2>1. phase # "recording" /\ phase' # "recording" /\ UNCHANGED <<tape, live>>
    BY <1>3 DEF Serving, Failing, Ends, GoesOn
  <2> QED
    BY <2>1 DEF ChainInv, NoErrors
<1>4. CASE UNCHANGED vars
  BY <1>4 DEF vars, ChainInv, NoErrors
<1> QED
  BY <1>1, <1>2, <1>3, <1>4, Steps

LEMMA ReplaySteps ==
    TypeInv /\ WalkInv /\ ChainInv /\ ReplayInv /\ [Next]_vars /\ ChainInv' => ReplayInv'
<1> SUFFICES ASSUME TypeInv, WalkInv, ChainInv, ReplayInv, [Next]_vars, ChainInv', Undisturbed'
             PROVE  ReplayInv'
  BY DEF ReplayInv
<1>0. /\ at \in Places /\ Run \in Runs /\ position \in Nat
      /\ replayed \in [Runs -> Verdicts] /\ live \in [Runs -> Verdicts]
  BY OrderOfRuns DEF TypeInv, Verdicts
<1>1. ASSUME NEW q \in Qualities, Recording(q)
      PROVE  ReplayInv'
  <2>1. CASE phase' = "recording"
    BY <2>1 DEF ReplayInv
  <2>2. CASE phase' = "replaying" /\ at' = Start
    <3>1. tape' # <<>> /\ tape'[1].place = Start /\ position' = 0 /\ Len(tape') > position'
      <4>1. tape' # <<>> /\ tape'[1].place = Start
        BY <2>2 DEF ChainInv, Undisturbed
      <4>2. position' = 0
        BY <1>1 DEF Recording, WalkInv
      <4> QED
        BY <1>1, <4>1, <4>2, TapeGrows DEF Recording
    <3> QED
      BY <2>2, <3>1 DEF ReplayInv, Run, Start, Earlier, Runs
  <2> QED
    BY <1>1, <2>1, <2>2 DEF Recording, Ends, GoesOn
<1>2. CASE Raising
  <2>1. live'[Run] = "error"
    BY <1>0, <1>2, ResultsOfRuns DEF Raising, Verdicts
  <2> QED
    BY <1>0, <1>2, <2>1 DEF Undisturbed, NoErrors, Raising
<1>3. CASE Serving
  <2> DEFINE e == tape[position + 1]
             held == Accepted(NextTurn)
             stays == held /\ at.turn < Turns
             a == AfterPlace(at, held)
  <2>1. /\ Undisturbed /\ NoErrors /\ phase = "replaying" /\ position < Len(tape)
        /\ position' = position + 1 /\ UNCHANGED <<tape, live>>
        /\ replayed' = ResultOf(held, replayed)
        /\ Follows(held, "done")
    BY <1>3 DEF Serving, Undisturbed, NoErrors
  <2>2. /\ e.place = at
        /\ \A r \in Runs : Earlier(r, Run) => replayed[r] = live[r]
    BY <2>1 DEF ReplayInv
  <2>3. /\ position + 1 \in DOMAIN tape /\ held \in BOOLEAN
        /\ held <=> Recorded(e.quality)
    BY <2>1, Served DEF Undisturbed, NextTurn
  <2>4. After(e) = a
    <3>1. Recorded(e.quality) \in BOOLEAN
      BY DEF Recorded
    <3>2. held = Recorded(e.quality)
      BY <2>3, <3>1
    <3> HIDE DEF held
    <3> QED
      BY <2>2, <3>2 DEF After
  <2>5. /\ stays => RunOf(a) = Run
        /\ ~stays => \A r \in Runs : Earlier(r, RunOf(a)) => Earlier(r, Run) \/ r = Run
        /\ a.scenario = Scenarios + 1 =>
              ~stays /\ \A r \in Runs : Earlier(r, Run) \/ r = Run
    <3>1. RunOf(at) = Run
      BY DEF RunOf, Run
    <3> HIDE DEF held
    <3> QED
      BY <1>0, <2>3, <3>1, AfterOf
  <2>6. /\ stays => replayed' = replayed
        /\ ~stays => \A r \in Runs : replayed'[r] =
              IF r = Run THEN (IF held THEN "passed" ELSE "failed") ELSE replayed[r]
        /\ replayed' \in [Runs -> Verdicts]
    <3> HIDE DEF held
    <3> QED
      BY <1>0, <2>1, <2>3, ResultsOfTurns
  <2> HIDE DEF held, a, e
  <2>7. ~stays => live[Run] = IF held THEN "passed" ELSE "failed"
    <3>1. ASSUME ~stays
          PROVE  Decides(e)
      BY <1>0, <2>2, <2>3, <3>1, SizesAssumption DEF Decides, Places
    <3>2. RunOf(e.place) = Run
      BY <2>2 DEF RunOf, Run
    <3> QED
      BY <2>1, <2>3, <3>1, <3>2 DEF ChainInv, e
  <2>8. position + 1 < Len(tape) => tape[position + 2].place = a /\ a \in Places
    <3>1. ASSUME position + 1 < Len(tape)
          PROVE  tape[position + 2].place = After(e)
      <4>1. position + 1 \in 1..(Len(tape) - 1) /\ (position + 1) + 1 = position + 2
        BY <1>0, <3>1, TapeTypes
      <4> QED
        BY <2>1, <4>1 DEF ChainInv, e
    <3>2. position + 1 < Len(tape) => position + 2 \in DOMAIN tape
      BY <1>0, TapeTypes
    <3> QED
      BY <2>4, <3>1, <3>2, TapeTypes
  <2>9. position + 1 = Len(tape) => a.scenario = Scenarios + 1
    BY <2>1, <2>4 DEF ChainInv, e
  <2>10. position + 1 <= Len(tape) /\ Len(tape) \in Nat
    BY <1>0, <2>1, TapeTypes
  <2>11. a \in Places => a.scenario # Scenarios + 1
    BY SizesAssumption DEF Places
  <2>12. CASE a \in Places /\ at' = a /\ UNCHANGED phase
    <3>1. position + 1 < Len(tape)
      BY <1>0, <2>9, <2>10, <2>11, <2>12
    <3>2. position' < Len(tape) /\ at' = tape[position' + 1].place
      BY <1>0, <2>1, <2>8, <2>12, <3>1
    <3>3. Run' = RunOf(a)
      BY <2>12 DEF Run, RunOf
    <3>4. ASSUME NEW r \in Runs, Earlier(r, RunOf(a))
          PROVE  replayed'[r] = live[r]
      BY <2>2, <2>5, <2>6, <2>7, <3>4
    <3> QED
      BY <2>1, <2>12, <3>2, <3>3, <3>4 DEF ReplayInv
  <2>13. CASE a.scenario = Scenarios + 1 /\ phase' = "done"
    <3>1. position + 1 = Len(tape)
      BY <1>0, <2>8, <2>10, <2>11, <2>13
    <3>2. \A r \in Runs : replayed'[r] = live[r]
      BY <2>2, <2>5, <2>6, <2>7, <2>13
    <3>3. replayed' = live
      BY <1>0, <2>6, <3>2
    <3> QED
      BY <2>1, <2>13, <3>1, <3>3 DEF ReplayInv
  <2> QED
    BY <2>1, <2>12, <2>13 DEF Follows, a
<1>4. CASE Failing
  <2>1. Undisturbed /\ phase = "replaying" /\ ~(position < Len(tape))
    BY <1>0, <1>4 DEF Failing, Undisturbed, NoErrors
  <2> QED
    BY <2>1 DEF ReplayInv
<1>5. CASE UNCHANGED vars
  BY <1>5 DEF vars, ReplayInv, Undisturbed, NoErrors, Run
<1> QED
  BY <1>1, <1>2, <1>3, <1>4, <1>5, Steps

LEMMA CassetteStarts == Init => CassetteInv
<1> SUFFICES ASSUME Init
             PROVE  CassetteInv
  OBVIOUS
<1> USE DEF Init
<1>1. TypeInv
  <2>1. <<>> \in Seq(Entries) /\ <<>> \in Seq(Places)
    OBVIOUS
  <2> QED
    BY <2>1, StartIsAPlace DEF TypeInv
<1>2. WalkInv
  BY DEF WalkInv, Walk, Walked, TapePlaces, Start
<1>3. VerdictInv
  BY DEF VerdictInv
<1>4. ChainInv /\ ReplayInv
  BY DEF ChainInv, ReplayInv
<1> QED
  BY <1>1, <1>2, <1>3, <1>4 DEF CassetteInv

LEMMA CassetteInvariant == Spec => []CassetteInv
<1>1. CassetteInv /\ [Next]_vars => CassetteInv'
  BY TypeSteps, WalkSteps, VerdictSteps, ChainSteps, ReplaySteps DEF CassetteInv
<1> QED
  BY <1>1, CassetteStarts, PTL DEF Spec

-----------------------------------------------------------------------------
(* The properties.                                                          *)

\* The entries of a trial are told apart by their turns.
LEMMA TapeOfTrial ==
    ASSUME TypeInv, WalkInv, NEW r \in Runs
    PROVE  /\ IsFiniteSet(OnTape(r))
           /\ [k \in OnTape(r) |-> tape[k].place.turn] \in Injection(OnTape(r), 1..Turns)
<1>1. IsFiniteSet(OnTape(r))
  <2>1. IsFiniteSet(1..Len(tape)) /\ OnTape(r) \in SUBSET (1..Len(tape))
    BY TapeTypes, FS_Interval DEF OnTape
  <2> QED
    BY <2>1, FS_Subset
<1>2. \A k \in OnTape(r) : tape[k].place \in Places /\ tape[k].place.turn \in 1..Turns
  BY TapeTypes DEF OnTape, Places
<1>3. ASSUME NEW j \in OnTape(r), NEW k \in OnTape(r), tape[j].place.turn = tape[k].place.turn
      PROVE  j = k
  <2>1. /\ j \in 1..Len(tape) /\ k \in 1..Len(tape) /\ Len(tape) \in Nat
        /\ j \in DOMAIN TapePlaces /\ k \in DOMAIN TapePlaces
        /\ TapePlaces[j] = tape[j].place /\ TapePlaces[k] = tape[k].place
    BY TapeTypes DEF OnTape, TapePlaces
  <2>2. tape[j].place = tape[k].place
    <3>1. /\ tape[j].place.scenario = tape[k].place.scenario
          /\ tape[j].place.trial = tape[k].place.trial
      BY DEF OnTape
    <3> QED
      BY <1>2, <1>3, <3>1, SameTurn
  <2>3. ~(j < k) /\ ~(k < j)
    BY <1>2, <2>1, <2>2, BeforeIsAnOrder DEF WalkInv, Walked
  <2> QED
    BY <2>1, <2>3
<1> QED
  BY <1>1, <1>2, <1>3 DEF Injection, IsInjective

\* The recorder misses no outcome of a trial that ended with a verdict, writes
\* none twice, and writes them in the order of the run.
THEOREM TapesAreRuns == Spec => []TapeIsTheRun
<1>1. CassetteInv => TapeIsTheRun
  <2> SUFFICES ASSUME CassetteInv
               PROVE  TapeIsTheRun
    OBVIOUS
  <2> USE DEF CassetteInv
  <2>1. ASSUME NEW j \in DOMAIN tape, NEW k \in DOMAIN tape, j < k
        PROVE  Before(tape[j].place, tape[k].place)
    <3>1. j \in DOMAIN TapePlaces /\ k \in DOMAIN TapePlaces
      BY DEF TapePlaces
    <3> QED
      BY <2>1, <3>1 DEF WalkInv, Walked, TapePlaces
  <2>2. ASSUME NEW r \in Runs, live[r] = "passed"
        PROVE  Cardinality(OnTape(r)) = Turns
    <3> DEFINE f == [k \in OnTape(r) |-> tape[k].place.turn]
    <3>1. f \in Injection(OnTape(r), 1..Turns) /\ IsFiniteSet(OnTape(r))
      BY TapeOfTrial
    <3>2. ASSUME NEW n \in 1..Turns
          PROVE  \E k \in OnTape(r) : f[k] = n
      <4>1. PICK k \in DOMAIN tape :
               tape[k].place = [scenario |-> r[1], trial |-> r[2], turn |-> n]
        BY <2>2 DEF VerdictInv
      <4>2. k \in OnTape(r) /\ tape[k].place.turn = n
        BY <4>1 DEF OnTape, Runs
      <4> QED
        BY <4>2
    <3> HIDE DEF f
    <3>3. f \in Surjection(OnTape(r), 1..Turns)
      BY <3>1, <3>2 DEF Surjection, Injection
    <3>4. IsFiniteSet(1..Turns) /\ Cardinality(1..Turns) = Turns
      BY FS_Interval, SizesAssumption
    <3> QED
      BY <3>1, <3>3, <3>4, FS_Injection
  <2>3. ASSUME NEW r \in Runs, live[r] = "failed"
        PROVE  \E k \in OnTape(r) :
                  /\ tape[k].quality = "bad"
                  /\ \A j \in OnTape(r) : j <= k
    BY <2>3 DEF VerdictInv
  <2> QED
    BY <2>1, <2>2, <2>3 DEF TapeIsTheRun
<1> QED
  BY <1>1, CassetteInvariant, PTL

\* A recording in which no operation raised, replayed with its own contract,
\* gives every trial the verdict it was recorded with and leaves no outcome over.
THEOREM ReplaysRepeat == Spec => []UndisturbedReplay
<1>1. CassetteInv => UndisturbedReplay
  BY DEF CassetteInv, ReplayInv, Undisturbed, UndisturbedReplay
<1> QED
  BY <1>1, CassetteInvariant, PTL

\* A set of natural numbers has a least one.
LEMMA Least ==
    ASSUME NEW T \in SUBSET Nat, T # {}
    PROVE  \E x \in T : \A y \in T : x <= y
<1> DEFINE U == {0..x : x \in T}
           R == StrictSubsetOrdering(Nat)
<1>1. IsWellFoundedOn(R, FiniteSubsetsOf(Nat))
  BY FS_StrictSubsetOrderingWellFounded
<1>2. U \subseteq FiniteSubsetsOf(Nat) /\ U # {}
  <2>1. \A x \in T : IsFiniteSet(0..x) /\ (0..x) \subseteq Nat
    BY FS_Interval
  <2> QED
    BY <2>1 DEF FiniteSubsetsOf
<1>3. \E u \in U : \A v \in U : <<v, u>> \notin R
  <2> HIDE DEF U, R
  <2> QED
    BY <1>1, <1>2, WFMin
<1>4. PICK x \in T : \A y \in T : <<0..y, 0..x>> \notin R
  BY <1>3
<1>5. ASSUME NEW y \in T, y < x
      PROVE  FALSE
  <2>1. (0..y) \subseteq (0..x) /\ x \in 0..x /\ x \notin 0..y
    BY <1>5
  <2>2. 0..y \in SUBSET Nat /\ 0..x \in SUBSET Nat /\ 0..y # 0..x
    BY <2>1
  <2>3. <<0..y, 0..x>> \in R
    BY <2>1, <2>2 DEF StrictSubsetOrdering
  <2> QED
    BY <1>4, <2>3
<1> QED
  BY <1>5

ServedTo(r) == {k \in DOMAIN served : <<served[k].scenario, served[k].trial>> = r}

LEMMA Orders ==
    ASSUME NEW p \in Places, NEW q \in Places
    PROVE  /\ RunOf(p) \in Runs
           /\ Before(p, q) <=> \/ Earlier(RunOf(p), RunOf(q))
                               \/ RunOf(p) = RunOf(q) /\ p.turn < q.turn
           /\ ~(Earlier(RunOf(p), RunOf(q)) /\ RunOf(p) = RunOf(q))
           /\ ~(Earlier(RunOf(p), RunOf(q)) /\ Earlier(RunOf(q), RunOf(p)))
           /\ \A r \in Runs : Earlier(RunOf(p), RunOf(q)) /\ Earlier(RunOf(q), r)
                                 => Earlier(RunOf(p), r)
BY DEF Places, RunOf, Runs, Earlier, Before

LEMMA TurnOfRun ==
    ASSUME NEW p \in Places, NEW q \in Places, RunOf(p) = RunOf(q)
    PROVE  AtTurn(p, q.turn) = q
BY DEF Places, RunOf, AtTurn

\* The places served and those on the tape agree before k; then they agree at
\* k, unless a trial before it was served more or less than was recorded for it.
LEMMA InStep ==
    ASSUME CassetteInv, NEW k \in DOMAIN served,
           \A j \in 1..(k - 1) : served[j] = tape[j].place,
           \A e \in Runs : Earlier(e, RunOf(served[k])) =>
                              Cardinality(ServedTo(e)) = Cardinality(OnTape(e)),
           LET r == RunOf(served[k]) IN
           \/ Cardinality(ServedTo(r)) = Cardinality(OnTape(r))
           \/ served[k].turn <= Cardinality(OnTape(r))
    PROVE  served[k] = tape[k].place
<1> USE DEF CassetteInv
<1> DEFINE s == served[k]
           p == tape[k].place
<1>1. /\ DOMAIN served = 1..Len(served) /\ Len(served) \in Nat
      /\ DOMAIN tape = 1..Len(tape) /\ Len(tape) \in Nat
      /\ DOMAIN TapePlaces = DOMAIN tape
      /\ Len(served) <= Len(tape)
      /\ \A j \in DOMAIN served : served[j] \in Places /\ j \in DOMAIN tape /\ j \in Nat
      /\ \A j \in DOMAIN tape : /\ tape[j].place \in Places /\ TapePlaces[j] = tape[j].place
                                /\ j \in Nat
  <2>1. DOMAIN TapePlaces = DOMAIN tape /\ \A j \in DOMAIN tape : TapePlaces[j] = tape[j].place
    BY DEF TapePlaces
  <2>2. Len(served) <= Len(tape)
    BY DEF WalkInv
  <2>3. /\ DOMAIN served = 1..Len(served) /\ Len(served) \in Nat
        /\ \A j \in DOMAIN served : served[j] \in Places
    BY DEF TypeInv
  <2> QED
    BY <2>1, <2>2, <2>3, TapeTypes
<1>2. s \in Places /\ p \in Places /\ k \in DOMAIN tape /\ k \in Nat
  BY <1>1
<1>3. \A e \in Runs : IsFiniteSet(ServedTo(e)) /\ IsFiniteSet(OnTape(e))
  <2>1. \A e \in Runs : ServedTo(e) \in SUBSET (1..Len(served))
    BY <1>1 DEF ServedTo
  <2>2. IsFiniteSet(1..Len(served))
    BY <1>1, FS_Interval
  <2> QED
    BY <2>1, <2>2, FS_Subset, TapeOfTrial
<1>4. /\ \A i, j \in DOMAIN served : i < j => Before(served[i], served[j])
      /\ \A i, j \in DOMAIN tape : i < j => Before(tape[i].place, tape[j].place)
  BY <1>1 DEF WalkInv, Walked
<1>5. SUFFICES ASSUME Before(s, p) \/ Before(p, s)
               PROVE  FALSE
  BY <1>2, BeforeIsAnOrder
<1> HIDE DEF s, p
<1>6. CASE RunOf(s) = RunOf(p) /\ s.turn < p.turn
  <2>1. s.turn \in 1..(p.turn - 1)
    BY <1>2, <1>6 DEF Places
  <2>2. PICK j \in DOMAIN tape : tape[j].place = AtTurn(p, s.turn)
    <3>1. \E j \in DOMAIN TapePlaces : TapePlaces[j] = AtTurn(p, s.turn)
      <4>1. k \in DOMAIN TapePlaces /\ TapePlaces[k] = p
        BY <1>1, <1>2 DEF p
      <4> QED
        BY <2>1, <4>1 DEF WalkInv, Walked
    <3> QED
      BY <1>1, <3>1
  <2>3. tape[j].place = s
    BY <1>2, <1>6, <2>2, TurnOfRun
  <2>4. Before(s, p)
    BY <1>2, <1>6, Orders
  <2>5. j < k
    BY <1>1, <1>2, <1>4, <2>3, <2>4, BeforeIsAnOrder DEF p
  <2>6. served[j] = s /\ j \in DOMAIN served
    BY <1>1, <2>3, <2>5
  <2> QED
    BY <1>2, <1>4, <2>5, <2>6, BeforeIsAnOrder DEF s
<1>7. CASE RunOf(p) = RunOf(s) /\ p.turn < s.turn
  <2>1. p.turn \in 1..(s.turn - 1)
    BY <1>2, <1>7 DEF Places
  <2>2. PICK j \in DOMAIN served : served[j] = AtTurn(s, p.turn)
    BY <1>1, <1>2, <2>1 DEF WalkInv, Walked, s
  <2>3. served[j] = p
    BY <1>2, <1>7, <2>2, TurnOfRun
  <2>4. Before(p, s)
    BY <1>2, <1>7, Orders
  <2>5. j < k
    BY <1>1, <1>2, <1>4, <2>3, <2>4, BeforeIsAnOrder DEF s
  <2>6. tape[j].place = p /\ j \in DOMAIN tape
    BY <1>1, <2>3, <2>5
  <2> QED
    BY <1>2, <1>4, <2>5, <2>6, BeforeIsAnOrder DEF p
<1>8. CASE Earlier(RunOf(p), RunOf(s))
  <2> DEFINE e == RunOf(p)
  <2>1. e \in Runs
    BY <1>2, Orders
  <2>2. k \in OnTape(e) /\ k \notin ServedTo(e)
    BY <1>2, <1>8, Orders DEF OnTape, ServedTo, RunOf, s, p
  <2>3. ASSUME NEW j \in ServedTo(e)
        PROVE  j \in OnTape(e)
    <3>1. j \in DOMAIN served /\ RunOf(served[j]) = e
      BY DEF ServedTo, RunOf
    <3>2. Before(served[j], s)
      BY <1>1, <1>2, <1>8, <3>1, Orders
    <3>3. j < k
      BY <1>1, <1>2, <1>4, <3>1, <3>2, BeforeIsAnOrder DEF s
    <3>4. tape[j].place = served[j]
      BY <1>1, <3>1, <3>3
    <3> QED
      BY <1>1, <3>1, <3>4 DEF OnTape, RunOf
  <2>4. ServedTo(e) \in SUBSET OnTape(e) /\ ServedTo(e) # OnTape(e)
    BY <2>2, <2>3
  <2>5. Cardinality(ServedTo(e)) = Cardinality(OnTape(e))
    BY <1>8, <2>1 DEF s
  <2> HIDE DEF e
  <2> QED
    BY <1>3, <2>1, <2>4, <2>5, FS_Subset
<1>9. CASE Earlier(RunOf(s), RunOf(p))
  <2> DEFINE e == RunOf(s)
  <2>1. e \in Runs
    BY <1>2, Orders
  <2>2. k \in ServedTo(e) /\ k \notin OnTape(e)
    BY <1>2, <1>9, Orders DEF OnTape, ServedTo, RunOf, s, p
  <2>3. ASSUME NEW j \in OnTape(e)
        PROVE  j < k /\ served[j] = tape[j].place /\ j \in ServedTo(e)
    <3>1. j \in DOMAIN tape /\ RunOf(tape[j].place) = e
      BY DEF OnTape, RunOf
    <3>2. Before(tape[j].place, p)
      BY <1>1, <1>2, <1>9, <3>1, Orders
    <3>3. j < k
      BY <1>1, <1>2, <1>4, <3>1, <3>2, BeforeIsAnOrder DEF p
    <3>4. tape[j].place = served[j] /\ j \in DOMAIN served
      BY <1>1, <3>1, <3>3
    <3> QED
      BY <3>1, <3>3, <3>4 DEF ServedTo, RunOf
  <2>4. Cardinality(ServedTo(e)) # Cardinality(OnTape(e))
    <3>1. OnTape(e) \in SUBSET ServedTo(e) /\ OnTape(e) # ServedTo(e)
      BY <2>2, <2>3
    <3> HIDE DEF e
    <3> QED
      BY <1>3, <2>1, <3>1, FS_Subset
  <2> DEFINE f == [j \in OnTape(e) |-> tape[j].place.turn]
  <2>5. f \in Injection(OnTape(e), 1..Turns)
    BY <2>1, TapeOfTrial
  <2>6. ASSUME NEW j \in OnTape(e)
        PROVE  f[j] \in 1..(s.turn - 1)
    <3>1. j < k /\ served[j] = tape[j].place /\ j \in DOMAIN served /\ RunOf(served[j]) = e
      BY <2>3 DEF ServedTo, RunOf
    <3>2. Before(served[j], s)
      BY <1>4, <3>1 DEF s
    <3>3. served[j] \in Places /\ served[j].turn < s.turn
      BY <1>1, <1>2, <3>1, <3>2, Orders
    <3> QED
      BY <1>2, <3>1, <3>3 DEF Places
  <2> HIDE DEF f
  <2>7. f \in Injection(OnTape(e), 1..(s.turn - 1))
    BY <2>5, <2>6 DEF Injection
  <2>8. s.turn \in Nat \ {0}
    BY <1>2 DEF Places
  <2>9. Cardinality(OnTape(e)) <= s.turn - 1
    <3>1. IsFiniteSet(1..(s.turn - 1)) /\ Cardinality(1..(s.turn - 1)) = s.turn - 1
      <4> DEFINE b == s.turn - 1
      <4>1. 1 \in Int /\ b \in Int /\ ~(1 > b + 1) /\ (1 > b => b = 0)
        BY <2>8
      <4> HIDE DEF b
      <4>2. IsFiniteSet(1..b) /\ Cardinality(1..b) = IF 1 > b THEN 0 ELSE b - 1 + 1
        BY <4>1, FS_Interval
      <4>3. IsFiniteSet(1..b) /\ Cardinality(1..b) = b
        BY <4>1, <4>2
      <4> QED
        BY <4>3 DEF b
    <3> QED
      BY <2>7, <3>1, FS_Injection
  <2>10. Cardinality(OnTape(e)) \in Nat
    BY <1>3, <2>1, FS_CardinalityType
  <2>11. s.turn <= Cardinality(OnTape(e))
    BY <2>4 DEF s
  <2> HIDE DEF e
  <2> QED
    BY <2>8, <2>9, <2>10, <2>11
<1> QED
  BY <1>2, <1>5, <1>6, <1>7, <1>8, <1>9, Orders

\* Whatever contract is replayed, a trial is served its own outcomes as long as
\* every trial before it took as many as were recorded for it.
THEOREM ReplaysStayInStep == Spec => []ServedInStep
<1>1. CassetteInv => ServedInStep
  <2> SUFFICES ASSUME CassetteInv, NEW m \in DOMAIN served,
                      \A e \in Runs : Earlier(e, RunOf(served[m])) =>
                                         Cardinality(ServedTo(e)) = Cardinality(OnTape(e)),
                      served[m].turn <= Cardinality(OnTape(RunOf(served[m])))
               PROVE  served[m] = tape[m].place
    BY DEF ServedInStep, Consumed, ServedTo, RunOf
  <2> DEFINE T == {j \in 1..m : served[j] # tape[j].place}
  <2>1. /\ DOMAIN served = 1..Len(served) /\ Len(served) \in Nat /\ m \in Nat
        /\ \A j \in DOMAIN served : served[j] \in Places
    BY DEF CassetteInv, TypeInv
  <2>2. SUFFICES ASSUME T # {}
                 PROVE  FALSE
    BY <2>1
  <2>3. PICK k \in T : \A j \in T : k <= j
    <3>1. T \in SUBSET Nat
      BY <2>1
    <3> HIDE DEF T
    <3> QED
      BY <2>2, <3>1, Least
  <2>4. k \in DOMAIN served /\ k <= m /\ k \in Nat /\ served[k] # tape[k].place
    BY <2>1, <2>3
  <2>5. \A j \in 1..(k - 1) : served[j] = tape[j].place
    BY <2>1, <2>3, <2>4
  <2>6. \/ RunOf(served[k]) = RunOf(served[m]) /\ served[k].turn <= served[m].turn
        \/ Earlier(RunOf(served[k]), RunOf(served[m]))
    <3>1. CASE k = m
      BY <2>1, <3>1 DEF Places
    <3>2. CASE k < m
      <4>1. Before(served[k], served[m])
        BY <2>4, <3>2 DEF CassetteInv, WalkInv, Walked
      <4> QED
        BY <2>1, <2>4, <4>1, Orders DEF Places
    <3> QED
      BY <2>1, <2>4, <3>1, <3>2
  <2>7. RunOf(served[k]) \in Runs /\ served[k] \in Places /\ served[m] \in Places
    BY <2>1, <2>4, Orders
  <2>8. ASSUME NEW e \in Runs, Earlier(e, RunOf(served[k]))
        PROVE  Cardinality(ServedTo(e)) = Cardinality(OnTape(e))
    <3>1. Earlier(e, RunOf(served[m]))
      BY <2>6, <2>7, <2>8 DEF Earlier, Runs, RunOf, Places
    <3> QED
      BY <3>1
  <2>9. \/ Cardinality(ServedTo(RunOf(served[k]))) = Cardinality(OnTape(RunOf(served[k])))
        \/ served[k].turn <= Cardinality(OnTape(RunOf(served[k])))
    <3>1. CASE Earlier(RunOf(served[k]), RunOf(served[m]))
      BY <2>7, <3>1
    <3>2. CASE RunOf(served[k]) = RunOf(served[m]) /\ served[k].turn <= served[m].turn
      <4> DEFINE r == RunOf(served[k])
      <4>1. IsFiniteSet(OnTape(r))
        BY <2>7, TapeOfTrial DEF CassetteInv
      <4>2. Cardinality(OnTape(r)) \in Nat
        BY <4>1, FS_CardinalityType
      <4>3. served[m].turn <= Cardinality(OnTape(r))
        BY <3>2
      <4>4. served[k].turn \in Int /\ served[m].turn \in Int
        BY <2>7 DEF Places
      <4> HIDE DEF r
      <4>5. served[k].turn <= Cardinality(OnTape(r))
        BY <3>2, <4>2, <4>3, <4>4
      <4> QED
        BY <4>5 DEF r
    <3> QED
      BY <2>6, <3>1, <3>2
  <2> QED
    BY <2>4, <2>5, <2>8, <2>9, InStep
<1> QED
  BY <1>1, CassetteInvariant, PTL
=============================================================================
