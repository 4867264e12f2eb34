----------------------------- MODULE Assertions -----------------------------
(***************************************************************************)
(* assertions.py: what an expectation of the contract says of the outcome  *)
(* of a turn.  Text checks, time limits and the values of secrets are      *)
(* comparisons of strings and durations; an outcome says whether they hold *)
(* ("limits", "leaks").  Of a data part the source and the media type are  *)
(* kept, of a file part what identifies it ("label") and its size.  An     *)
(* optional number is a set of at most one.                                *)
(*                                                                         *)
(* Regular expressions are external: a pattern says of every string        *)
(* whether it matches, differs or times out.  So is JSON Schema: a schema  *)
(* is the set of types it admits.                                          *)
(***************************************************************************)
EXTENDS JsonData, Trajectory

-----------------------------------------------------------------------------
(* Structured data.                                                         *)

\* Fault: bool is a subclass of int.
IsInstanceOfNumber(v) == v.type \in {"int", "float", "bool"}

IsNumber(v) == v.type \in {"int", "float"}

RECURSIVE JsonEqual(_, _)
JsonEqual(actual, expected) ==
    IF actual.type = "object" /\ expected.type = "object" THEN
        /\ ToSet(actual.keys) = ToSet(expected.keys)
        /\ \A key \in ToSet(actual.keys) :
              JsonEqual(Item(actual, key), Item(expected, key))
    ELSE IF actual.type = "array" /\ expected.type = "array" THEN
        /\ Len(actual.items) = Len(expected.items)
        /\ \A k \in DOMAIN actual.items :
              JsonEqual(actual.items[k], expected.items[k])
    ELSE IF IsNumber(actual) /\ IsNumber(expected) THEN
        actual.atom = expected.atom
    ELSE actual.type = expected.type /\ actual.atom = expected.atom

\* The values the path selects in the parts at the location, in their order.
Candidates(expectation, parts) ==
    LET located == SelectSeq(parts, LAMBDA part : MatchesLocation(expectation, part))
    IN [k \in DOMAIN located |-> Resolve(located[k].value, expectation.path)]

\* The search stops at a match and at a timeout.
MatchesPattern(search, values) ==
    FoldLeft(LAMBDA result, v : IF result # "differs" \/ v.type # "string" THEN result
                                ELSE search[v.atom],
             "differs", values) = "match"

MatchesNumericBounds(e, v) ==
    /\ IsNumber(v)
    /\ \A bound \in e.gt : v.atom > bound
    /\ \A bound \in e.gte : v.atom >= bound
    /\ \A bound \in e.lt : v.atom < bound
    /\ \A bound \in e.lte : v.atom <= bound

PredicateHolds(e, values) ==
    CASE e.test = "equals" -> \E k \in DOMAIN values : JsonEqual(values[k], e.equals)
      [] e.test = "matches" -> MatchesPattern(e.matches, values)
      [] e.test = "json_schema" -> \E k \in DOMAIN values : values[k].type \in e.json_schema
      [] e.test = "bounds" -> \E k \in DOMAIN values : MatchesNumericBounds(e, values[k])

DataHolds(e, parts) ==
    LET values == Candidates(e, parts)
        present == SelectSeq(values, IsPresent)
    IN /\ values # <<>>
       /\ IF e.test = "exists" THEN (present # <<>>) = e.exists
          ELSE present # <<>> /\ PredicateHolds(e, present)

\* DataExpectation.validate_expectation, beyond what the shape of e says.
ValidData(e) == (e.test = "exists" /\ ~e.exists) => e.path # <<>>

-----------------------------------------------------------------------------
(* File parts and downstream calls.                                         *)

\* A part given by URL has no size: the set is empty.
MatchesFile(e, part) ==
    /\ e.label \in {"any", part.label}
    /\ e.size # {} => part.size = e.size
    /\ \A least \in e.min_size : \E size \in part.size : size >= least
    /\ \A most \in e.max_size : \E size \in part.size : size <= most

\* FileExpectation.validate_filters.
ValidFile(e) ==
    /\ e.size # {} => e.min_size = {} /\ e.max_size = {}
    /\ \A least \in e.min_size, most \in e.max_size : least <= most

FilesHold(e, parts) ==
    Len(SelectSeq(parts, LAMBDA part : MatchesFile(e, part))) = e.count

\* What the contract asks of the content of one call.
ContentHolds(e, call) ==
    /\ e.text => call.text
    /\ \A k \in DOMAIN e.data :
          DataHolds(e.data[k], [j \in DOMAIN call.data |->
                                  [source |-> "message", media |-> "json",
                                   value |-> call.data[j]]])

DelegationHolds(e, calls) ==
    /\ \A count \in e.count : Len(calls) = count
    /\ \A k \in DOMAIN calls : calls[k].supported /\ ~calls[k].leaks
    /\ (e.text \/ e.data # <<>>) => \E k \in DOMAIN calls : ContentHolds(e, calls[k])
=============================================================================
