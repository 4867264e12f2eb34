------------------------------- MODULE Evidence -------------------------------
(***************************************************************************)
(* What evidence.py makes of a text before it is written: _Redactor, then  *)
(* _truncate_text; and how assertions.py cuts what it quotes in a failure. *)
(* A text is a sequence of characters, "..." is the one of an ellipsis.    *)
(***************************************************************************)
EXTENDS Integers, FiniteSets, Sequences, SequencesExt

CONSTANTS
    MaxEvidenceText, \* MAX_EVIDENCE_TEXT_CHARS
    MaxPreview       \* JSON_PREVIEW_CHARS

ASSUME EvidenceTextAssumption == MaxEvidenceText \in Nat \ {0} /\ MaxPreview \in Nat

REDACTION == <<"[", "R", "E", "D", "A", "C", "T", "E", "D", "]">>
Truncated == <<"...", "[", "t", "r", "u", "n", "c", "a", "t", "e", "d", "]">>
REDACTED_RESPONSE ==
    <<"[", "R", "E", "D", "A", "C", "T", "E", "D", ":", " ", "g", "l", "o", "b", "a", "l",
      " ", "i", "n", "v", "a", "r", "i", "a", "n", "t", "]">>

Small == [A |-> "a", B |-> "b", C |-> "c", D |-> "d", E |-> "e", F |-> "f", G |-> "g",
          H |-> "h", I |-> "i", J |-> "j", K |-> "k", L |-> "l", M |-> "m", N |-> "n",
          O |-> "o", P |-> "p", Q |-> "q", R |-> "r", S |-> "s", T |-> "t", U |-> "u",
          V |-> "v", W |-> "w", X |-> "x", Y |-> "y", Z |-> "z"]

Capitals == DOMAIN Small

\* regex.IGNORECASE
Lower(c) == IF c \in Capitals THEN Small[c] ELSE c

\* The secret starts at position k of the text.
OccursAt(secret, text, k) ==
    /\ k + Len(secret) - 1 <= Len(text)
    /\ \A j \in DOMAIN secret : Lower(text[k + j - 1]) = Lower(secret[j])

\* pattern.sub: occurrences from left to right that do not overlap.
Substitute(secret, text) ==
    LET done[k \in 0..Len(text)] ==
            IF k = 0 THEN [out |-> <<>>, next |-> 1]
            ELSE LET last == done[k - 1]
                 IN IF k < last.next THEN last
                    ELSE IF OccursAt(secret, text, k)
                         THEN [out |-> last.out \o REDACTION, next |-> k + Len(secret)]
                         ELSE [out |-> Append(last.out, text[k]), next |-> k + 1]
    IN done[Len(text)].out

Orders(secrets) ==
    {order \in [1..Cardinality(secrets) -> secrets] : ToSet(order) = secrets}

\* sorted(secrets, key=len, reverse=True), of a set in any order.
LongestFirst(secrets) ==
    {order \in Orders(secrets) :
        \A j, k \in DOMAIN order : j < k => Len(order[j]) >= Len(order[k])}

RedactText(order, text) ==
    LET redacted[n \in 0..Len(order)] ==
            IF n = 0 THEN text ELSE Substitute(order[n], redacted[n - 1])
    IN redacted[Len(order)]

\* A marker that the cut would divide is kept whole; so is one before it, with
\* nothing after it.
BoundedPrefix(text) ==
    LET prefix == SubSeq(text, 1, MaxEvidenceText)
        marker == SelectLastInSeq(prefix, LAMBDA c : c = "[")
    IN IF marker # 0 /\ SubSeq(text, marker, marker + Len(REDACTION) - 1) = REDACTION
       THEN SubSeq(text, 1, marker - 1) \o REDACTION
       ELSE prefix

Truncate(text) ==
    IF Len(text) <= MaxEvidenceText THEN text
    ELSE BoundedPrefix(text) \o Truncated

EvidenceText(order, text) == Truncate(RedactText(order, text))

\* _bounded_text, of a value that a failure shows.
Preview(text) ==
    IF Len(text) <= MaxPreview THEN text ELSE SubSeq(text, 1, MaxPreview) \o <<"...">>
=============================================================================
