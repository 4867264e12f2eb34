-------------------------------- MODULE AP2 --------------------------------
(***************************************************************************)
(* ap2.py: the mandate and receipt assertions of a turn (evaluate_ap2) and *)
(* the removal of their tokens from what is reported (redact_ap2).         *)
(*                                                                         *)
(* A token is the atom of a string.  Signatures, schemas and claims are    *)
(* external: sdk.accepted pairs the trust of a mandate assertion (its root *)
(* key, audience, nonce and hashes) with the tokens that verify under it,  *)
(* and sdk.receipts pairs a receipt token that is signed and has the       *)
(* expected claims with the token whose closed mandate it references.      *)
(***************************************************************************)
EXTENDS JsonData

NoToken == 0
RedactedMandate == Scalar("string", -1)
RedactedReceipt == Scalar("string", -2)

\* Fault: a token that does not verify is as good as one that does.
VerifiesAny(e, v, sdk) == v.type = "string"

\* _verify: the chain is signed under the trusted root for the audience and
\* nonce, has the asserted type and violates no constraint.
Verifies(e, v, sdk) == v.type = "string" /\ <<e.trust, v.atom>> \in sdk.accepted

\* _verify_receipt_token: signed by the trusted issuer, with the expected
\* claims, and bound to the reference of the mandate token.
Binds(v, token, sdk) == v.type = "string" /\ <<v.atom, token>> \in sdk.receipts

\* The first of the _candidate_values, what the path selects in the parts at
\* the location, that is a string and verifies.
Verified(e, parts, sdk) ==
    LET Value(part) == Resolve(part.value, e.path)
        k == SelectInSeq(parts, LAMBDA part :
                 MatchesLocation(e, part) /\ Verifies(e, Value(part), sdk))
    IN IF k = 0 THEN NoToken ELSE Value(parts[k]).atom

IsMandate(e) == e.kind = "mandate"

\* references: the verified token of every mandate assertion with an id.
References(expectations, parts, sdk) ==
    {<<e.id, Verified(e, parts, sdk)>> : e \in
        {e \in ToSet(expectations) :
            IsMandate(e) /\ e.id # "none" /\ Verified(e, parts, sdk) # NoToken}}

ReceiptHolds(e, references, parts, sdk) ==
    \E reference \in references, part \in ToSet(parts) :
        /\ reference[1] = e.binds_to
        /\ MatchesLocation(e, part)
        /\ Binds(Resolve(part.value, e.path), reference[2], sdk)

\* The assertions that hold: mandates first, then the receipts bound to them.
AP2Holds(expectations, parts, sdk) ==
    LET references == References(expectations, parts, sdk)
    IN {k \in DOMAIN expectations :
          LET e == expectations[k]
          IN IF IsMandate(e) THEN Verified(e, parts, sdk) # NoToken
             ELSE ReceiptHolds(e, references, parts, sdk)}

\* Expectation.validate_ap2_bindings.
ValidBindings(expectations) ==
    LET Named(id) == {k \in DOMAIN expectations :
                        IsMandate(expectations[k]) /\ expectations[k].id = id /\ id # "none"}
    IN \A k \in DOMAIN expectations :
          IF IsMandate(expectations[k])
          THEN expectations[k].id = "none" \/ Named(expectations[k].id) = {k}
          ELSE \E m \in Named(expectations[k].binds_to) :
                  expectations[m].type = expectations[k].type

Marker(e) == IF IsMandate(e) THEN RedactedMandate ELSE RedactedReceipt

\* Fault: the loop stops at the first assertion a part is meant for.
RedactOnce(expectations, part) ==
    LET k == SelectInSeq(expectations, LAMBDA e : MatchesLocation(e, part))
    IN IF k = 0 THEN part.value
       ELSE ReplacePointer(part.value, expectations[k].path, Marker(expectations[k]))

RedactPart(expectations, part) ==
    LET redacted[n \in 0..Len(expectations)] ==
            IF n = 0 THEN part.value
            ELSE IF MatchesLocation(expectations[n], part)
                 THEN ReplacePointer(redacted[n - 1], expectations[n].path,
                                     Marker(expectations[n]))
                 ELSE redacted[n - 1]
    IN redacted[Len(expectations)]

Redact(expectations, parts) ==
    [k \in DOMAIN parts |->
        [parts[k] EXCEPT !.value = RedactPart(expectations, parts[k])]]
=============================================================================
