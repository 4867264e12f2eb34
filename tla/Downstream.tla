------------------------------ MODULE Downstream ------------------------------
(***************************************************************************)
(* The recording agent of downstream.py and the turns that read it.  Every *)
(* request of the tested agent is served by a thread of its own, which     *)
(* records the call under the server's lock and then answers.  The trial   *)
(* is a coroutine of another thread: it notes the number of calls before a *)
(* turn and reads the calls since then after it.  Which turn a call is     *)
(* counted in depends on nothing else.                                     *)
(*                                                                         *)
(* `cause` is the turn whose message made the agent send a request; the    *)
(* program does not know it.  The agent may answer a turn while requests   *)
(* it caused are still on their way, or before it sends them.              *)
(***************************************************************************)
EXTENDS Integers, Sequences, FiniteSets, SequencesExt

CONSTANTS
    Requests, \* HTTP requests the agent may send, each used once
    Turns,    \* the number of turns of a run, over all trials
    MaxCalls  \* MAX_DOWNSTREAM_CALLS

ASSUME SizesAssumption ==
    /\ Turns \in Nat \ {0}
    /\ MaxCalls \in Nat \ {0}

VARIABLES
    calls,   \* _DownstreamServer.calls
    pc,      \* where the thread of each request is
    cause,   \* the turn that made the agent send it, or 0
    lock,    \* the threads inside `with self._lock`
    turn,    \* the turn that runs, or the next one
    stage,   \* "ready", "asked", "replied" or "over"
    mark,    \* recorded_calls
    settled, \* the requests answered before the agent answered each turn
    checked, \* the turns whose delegation was evaluated
    slice    \* what calls_since gave each of them

threadVars == <<calls, pc, cause, lock>>
trialVars == <<turn, stage, mark, settled, checked, slice>>
vars == <<threadVars, trialVars>>

Index == 1..Turns

Init ==
    /\ calls = <<>>
    /\ pc = [r \in Requests |-> "unsent"]
    /\ cause = [r \in Requests |-> 0]
    /\ lock = {}
    /\ turn = 1
    /\ stage = "ready"
    /\ mark = 0
    /\ settled = [t \in Index |-> {}]
    /\ checked = {}
    /\ slice = [t \in Index |-> <<>>]

-----------------------------------------------------------------------------
(* The tested agent and the threads of the server.                          *)

\* While a turn runs, or long after it.
Send(r, t) ==
    /\ pc[r] = "unsent"
    /\ t < turn \/ (t = turn /\ stage # "ready")
    /\ pc' = [pc EXCEPT ![r] = "reading"]
    /\ cause' = [cause EXCEPT ![r] = t]
    /\ UNCHANGED <<calls, lock, trialVars>>

\* Another path (404), a body that is too long or no JSON-RPC (400), or
\* parameters of another shape, at which the thread raises without an answer.
Refuse(r) ==
    /\ pc[r] = "reading"
    /\ pc' = [pc EXCEPT ![r] = "refused"]
    /\ UNCHANGED <<calls, cause, lock, trialVars>>

\* Where the thread that holds the lock goes on: a call beyond the limit is
\* answered all the same.
Room == IF Len(calls) < MaxCalls THEN "appending" ELSE "recorded"

\* Fault: the limit is read without the lock.
LockNothing(r) ==
    /\ pc[r] = "reading"
    /\ pc' = [pc EXCEPT ![r] = Room]
    /\ UNCHANGED <<calls, cause, lock, trialVars>>

Lock(r) ==
    /\ pc[r] = "reading"
    /\ lock = {}
    /\ lock' = {r}
    /\ pc' = [pc EXCEPT ![r] = Room]
    /\ UNCHANGED <<calls, cause, trialVars>>

Record(r) ==
    /\ pc[r] = "appending"
    /\ calls' = Append(calls, r)
    /\ pc' = [pc EXCEPT ![r] = "recorded"]
    /\ UNCHANGED <<cause, lock, trialVars>>

Unlock(r) ==
    /\ pc[r] = "recorded"
    /\ r \in lock
    /\ lock' = {}
    /\ UNCHANGED <<calls, pc, cause, trialVars>>

\* Fault: the answer is sent first.
AnswerEarly(r) ==
    /\ pc[r] \in {"reading", "recorded"}
    /\ r \notin lock
    /\ pc' = [pc EXCEPT ![r] = "answered"]
    /\ UNCHANGED <<calls, cause, lock, trialVars>>

Answer(r) ==
    /\ pc[r] = "recorded"
    /\ r \notin lock
    /\ pc' = [pc EXCEPT ![r] = "answered"]
    /\ UNCHANGED <<calls, cause, lock, trialVars>>

-----------------------------------------------------------------------------
(* The trial.                                                               *)

\* Fault: the mark is taken once and for all.
StartTurnUnmarked ==
    /\ stage = "ready"
    /\ stage' = "asked"
    /\ UNCHANGED <<threadVars, turn, mark, settled, checked, slice>>

\* recorded(), then the turn's message is sent.
StartTurn ==
    /\ stage = "ready"
    /\ mark' = Len(calls)
    /\ stage' = "asked"
    /\ UNCHANGED <<threadVars, turn, settled, checked, slice>>

AgentReplies ==
    /\ stage = "asked"
    /\ settled' = [settled EXCEPT ![turn] = {r \in Requests : pc[r] = "answered"}]
    /\ stage' = "replied"
    /\ UNCHANGED <<threadVars, turn, mark, checked, slice>>

NextTurn ==
    IF turn < Turns
    THEN turn' = turn + 1 /\ stage' = "ready"
    ELSE UNCHANGED turn /\ stage' = "over"

CallsSince(index) == SubSeq(calls, index + 1, Len(calls))

\* evaluate_delegation on calls_since(recorded_calls).
Evaluate ==
    /\ stage = "replied"
    /\ slice' = [slice EXCEPT ![turn] = CallsSince(mark)]
    /\ checked' = checked \union {turn}
    /\ NextTurn
    /\ UNCHANGED <<threadVars, mark, settled>>

\* The turn raised, or its contract has no delegation checks.
SkipTurn ==
    /\ stage \in {"asked", "replied"}
    /\ NextTurn
    /\ UNCHANGED <<threadVars, mark, settled, checked, slice>>

Thread(r) ==
    \/ \E t \in Index : Send(r, t)
    \/ Refuse(r)
    \/ Lock(r)
    \/ Record(r)
    \/ Unlock(r)
    \/ Answer(r)

Next ==
    \/ \E r \in Requests : Thread(r)
    \/ StartTurn
    \/ AgentReplies
    \/ Evaluate
    \/ SkipTurn

Spec == Init /\ [][Next]_vars

-----------------------------------------------------------------------------
Counted(t) == ToSet(slice[t])
Accepted(r) == pc[r] \in {"recorded", "answered"}

\* The list is bounded, holds every call once, and below the limit it holds
\* every call the server has accepted, even of threads that raced.
CallsAreRecordedOnce ==
    /\ Len(calls) <= MaxCalls
    /\ IsInjective(calls)
    /\ ToSet(calls) \subseteq {r \in Requests : Accepted(r)}
    /\ Len(calls) < MaxCalls => ToSet(calls) = {r \in Requests : Accepted(r)}

\* No call is counted in two turns, and none in a turn before the one that
\* caused it.
CallsCountOnce ==
    /\ \A t, u \in Index : t # u => Counted(t) \intersect Counted(u) = {}
    /\ \A t \in Index : \A r \in Counted(t) : cause[r] <= t

\* A call that a turn caused and that was answered before the agent answered
\* the turn is counted in that turn, unless the limit was reached: the threads
\* record before they answer.
SettledCallsCount ==
    \A t \in checked : Len(calls) < MaxCalls =>
        \A r \in settled[t] : cause[r] = t => r \in Counted(t)
=============================================================================
