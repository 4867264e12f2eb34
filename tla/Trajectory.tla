----------------------------- MODULE Trajectory -----------------------------
(***************************************************************************)
(* assertions.py: the state an outcome ended in and those it went through. *)
(***************************************************************************)
EXTENDS Integers, Sequences, FiniteSetsExt

FAILURE_STATES == {"canceled", "failed", "rejected"}

\* expected is "any" where the contract names no state.
StateHolds(expected, state) ==
    IF expected = "any" THEN state \notin FAILURE_STATES ELSE state = expected

\* any(state == item for state in pending), when so many states were read: up
\* to the first that equals item, or more than there are.
Advance(states, read, item) ==
    LET ahead == {k \in DOMAIN states : k > read /\ states[k] = item}
    IN IF ahead = {} THEN Len(states) + 1 ELSE Min(ahead)

InOrder(expected, states) ==
    LET read[n \in 0..Len(expected)] ==
            IF n = 0 THEN 0 ELSE Advance(states, read[n - 1], expected[n])
    IN read[Len(expected)] <= Len(states)

StatesHold(expectation, states) ==
    CASE expectation.test = "none" -> TRUE
      [] expectation.test = "equals" -> states = expectation.states
      [] expectation.test = "contains_in_order" -> InOrder(expectation.states, states)

-----------------------------------------------------------------------------
\* contains_in_order: the expected states are a subsequence of the actual ones.
Embeds(expected, states) ==
    \E f \in [DOMAIN expected -> DOMAIN states] :
        /\ \A k \in DOMAIN expected : states[f[k]] = expected[k]
        /\ \A j, k \in DOMAIN expected : j < k => f[j] < f[k]
=============================================================================
