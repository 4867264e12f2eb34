------------------------------ MODULE JsonData ------------------------------
(***************************************************************************)
(* JSON values as the assertions and the AP2 checks see them: addressing   *)
(* by an RFC 6901 pointer (_resolve_pointer, the same in assertions.py and *)
(* ap2.py), replacement at a pointer (ap2._replace_pointer), and the parts *)
(* of a response that hold them.                                           *)
(*                                                                         *)
(* A value is a record: its Python type, the identity of a scalar ("atom", *)
(* for numbers and booleans its numeric value, as Python compares them)    *)
(* and, of a dict or list, the items, with the keys of a dict in insertion *)
(* order.  A pointer is the sequence of its unescaped tokens, which are    *)
(* ASCII.                                                                  *)
(***************************************************************************)
EXTENDS Integers, Sequences, SequencesExt

Scalar(type, atom) == [type |-> type, atom |-> atom, keys |-> <<>>, items |-> <<>>]
Object(keys, items) == [type |-> "object", atom |-> 0, keys |-> keys, items |-> items]
Array(items) == [type |-> "array", atom |-> 0, keys |-> <<>>, items |-> items]

Missing == Scalar("missing", 0)
IsPresent(v) == v.type # "missing"

\* The tokens that are digits only, with what int() makes of them.
Digits == [token \in {"0", "1", "01"} |-> IF token = "0" THEN 0 ELSE 1]
StartsWithZero == {"0", "01"}

IsIndex(token) ==
    token = "0" \/ (token \in DOMAIN Digits /\ token \notin StartsWithZero)

\* Where a token leads in a dict or a list; 0 if nowhere.
Position(v, token) ==
    IF v.type = "object" /\ token \in ToSet(v.keys)
    THEN CHOOSE k \in DOMAIN v.keys : v.keys[k] = token
    ELSE IF v.type = "array" /\ IsIndex(token) /\ Digits[token] < Len(v.items)
         THEN Digits[token] + 1
         ELSE 0

Item(v, token) ==
    IF Position(v, token) = 0 THEN Missing ELSE v.items[Position(v, token)]

Resolve(value, pointer) ==
    LET found[n \in 0..Len(pointer)] ==
            IF n = 0 THEN value ELSE Item(found[n - 1], pointer[n])
    IN found[Len(pointer)]

\* A pointer that leads nowhere replaces nothing; any other changes the values
\* it leads through, from its end upwards.
ReplacePointer(value, pointer, replacement) ==
    LET Above(n) == SubSeq(pointer, 1, Len(pointer) - n)
        changed[n \in 0..Len(pointer)] ==
            IF n = 0 THEN replacement
            ELSE LET v == Resolve(value, Above(n))
                     k == Position(v, pointer[Len(pointer) - n + 1])
                 IN [v EXCEPT !.items[k] = changed[n - 1]]
    IN IF IsPresent(Resolve(value, pointer)) THEN changed[Len(pointer)] ELSE value

\* A data part of the response, or of a call, is [source, media, value]; an
\* optional filter is "any".
MatchesLocation(expectation, part) ==
    /\ expectation.source \in {"any", part.source}
    /\ expectation.media \in {"any", part.media}

=============================================================================
