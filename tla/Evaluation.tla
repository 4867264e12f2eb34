----------------------------- MODULE Evaluation -----------------------------
(***************************************************************************)
(* What the tool decides between two awaits: whether a document is loaded  *)
(* (module Loading); of what came back, what the failures of a turn are    *)
(* (assertions.py, as runner._run_trial applies it) and what is shown of   *)
(* it (module Disclosure).  Each of these is one step.                     *)
(***************************************************************************)
EXTENDS Loading, Disclosure, Assertions

CONSTANT Cases \* families of expectations, outcomes and responses

\* What the configuration admits.
Valid(e) ==
    /\ \A k \in DOMAIN e.data : ValidData(e.data[k])
    /\ \A k \in DOMAIN e.files : ValidFile(e.files[k])

ASSUME CasesAssumption ==
    \A c \in Cases : c.responses \subseteq Responses /\ \A e \in c.expects : Valid(e)

VARIABLES
    expect,  \* the turn's expectations
    outcome, \* what came back, beside the response
    failed   \* the checks that failed, by kind

documentVars == <<document, stage>>
turnVars == <<expect, outcome, failed, responseVars>>

NoFailures == [outcome |-> {}, data |-> {}, files |-> {}]

NoDocument == document = Null /\ stage = "none"
NoTurn == expect = Null /\ outcome = Null /\ response = Null

TurnInit == \E c \in Cases :
    /\ expect \in c.expects
    /\ outcome \in c.outcomes
    /\ response \in c.responses

Init ==
    /\ \/ LoadInit /\ NoTurn
       \/ NoDocument /\ TurnInit
    /\ failed = NoFailures
    /\ Received

\* The checks on the outcome as a whole.
OutcomeFailures ==
    {check \in {"state", "states", "limits", "delegation"} :
        \/ check = "state" /\ ~StateHolds(expect.state, outcome.state)
        \/ check = "states" /\ ~StatesHold(expect.states, outcome.states)
        \/ check = "limits" /\ ~outcome.limits
        \/ check = "delegation" /\ ~DelegationHolds(expect.delegation, outcome.calls)}

Judge ==
    /\ NoDocument
    /\ failed' =
          [outcome |-> OutcomeFailures,
           data |-> {k \in DOMAIN expect.data : ~DataHolds(expect.data[k], response.data)},
           files |-> {k \in DOMAIN expect.files : ~FilesHold(expect.files[k], outcome.files)}]
    /\ Report(failed' = NoFailures)
    /\ UNCHANGED <<expect, outcome>>

Next ==
    \/ Load /\ UNCHANGED turnVars
    \/ Judge /\ UNCHANGED documentVars
    \/ (Keep \/ Abandon) /\ UNCHANGED <<documentVars, expect, outcome, failed>>

Spec == Init /\ [][Next]_<<documentVars, turnVars>>

-----------------------------------------------------------------------------
\* What a value holds at every pointer, with numbers of one kind; two JSON
\* values are equal when these are.
Flat(v) ==
    {<<p, IF IsPresent(Resolve(v, p)) /\ Resolve(v, p).type \in {"int", "float"}
          THEN "number" ELSE Resolve(v, p).type,
       Resolve(v, p).atom>> : p \in Pointers}

StatesAsDocumented ==
    expect.states.test = "contains_in_order" =>
        ("states" \notin failed.outcome <=> Embeds(expect.states.states, outcome.states))

DataAsDocumented ==
    \A k \in DOMAIN expect.data :
        LET e == expect.data[k]
            holds == k \notin failed.data
            some == {j \in Located(e) : IsPresent(ValueAt(e, j))}
            texts == {ValueAt(e, j).atom : j \in {j \in some : ValueAt(e, j).type = "string"}}
        IN CASE e.test = "exists" -> holds <=> Located(e) # {} /\ (some # {}) = e.exists
             [] e.test = "equals" ->
                  holds <=> \E j \in some : Flat(ValueAt(e, j)) = Flat(e.equals)
             [] e.test = "bounds" ->
                  holds <=> \E j \in some :
                      /\ ValueAt(e, j).type \notin {"bool", "string", "null", "object", "array"}
                      /\ \A b \in e.gt \union {g - 1 : g \in e.gte} : ValueAt(e, j).atom > b
                      /\ \A b \in e.lt \union {l + 1 : l \in e.lte} : ValueAt(e, j).atom < b
             [] e.test = "json_schema" ->
                  holds <=> \E j \in some : ValueAt(e, j).type \in e.json_schema
             [] e.test = "matches" ->
                  /\ holds => \E t \in texts : e.matches[t] = "match"
                  /\ (\A t \in texts : e.matches[t] # "timeout") =>
                        (holds <=> \E t \in texts : e.matches[t] = "match")

\* One call carries all the text and data, not several together.
DelegationAsDocumented ==
    (expect.delegation.text \/ expect.delegation.data # <<>>) =>
        ("delegation" \notin failed.outcome =>
            \E k \in DOMAIN outcome.calls : ContentHolds(expect.delegation, outcome.calls[k]))

\* docs/assertions.md and docs/delegation.md: an assertion holds when one part
\* after its filters has what it asks for, booleans are not numbers, states
\* are matched as a subsequence, and one call carries all that is delegated.
\* None of it depends on the order of the parts, as long as no regular
\* expression times out.
VerdictsAsDocumented ==
    progress = "judged" => StatesAsDocumented /\ DataAsDocumented /\ DelegationAsDocumented
=============================================================================
