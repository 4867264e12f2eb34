------------------------------ MODULE Disclosure ------------------------------
(***************************************************************************)
(* What becomes of the secrets in a response: its AP2 tokens are verified  *)
(* and hidden from the report (ap2.py, as runner._run_trial applies it),   *)
(* and the text of a turn that fails is redacted and cut for the evidence  *)
(* (evidence.py).  Each of these is one step between two awaits.           *)
(***************************************************************************)
EXTENDS AP2, Evidence

CONSTANTS
    Responses, \* what may come back, and what the contract says of its secrets
    Pointers   \* the pointers into data parts

\* What a value of JSON is at one pointer.
WellFormed(v) ==
    /\ DOMAIN v = {"type", "atom", "keys", "items"}
    /\ v.keys \in Seq(ToSet(v.keys)) /\ v.items \in Seq(ToSet(v.items))
    /\ \A j, k \in DOMAIN v.keys : v.keys[j] = v.keys[k] => j = k
    /\ IF v.type = "object" THEN Len(v.keys) = Len(v.items)
       ELSE v.keys = <<>> /\ (v.type # "array" => v.items = <<>>)

Parts == UNION {ToSet(r.data) : r \in Responses}

\* config.agent.headers.values(): what _expand_environment makes of them.
Expand(header, env) ==
    FlattenSeq([k \in DOMAIN header |->
        IF header[k].kind = "reference" THEN env[header[k].name] ELSE header[k].text])

\* The variables that _header_environment_values finds in the headers.
Referenced(config) ==
    {piece.name : piece \in {piece \in UNION {ToSet(h) : h \in config.headers} :
        piece.kind = "reference"}}

\* Fault: a variable is known only as the header it is in.
WholeHeaders(config) ==
    ({Expand(h, config.env) : h \in config.headers}
       \union {config.env[n] : n \in config.denied}) \ {<<>>}

\* What write_evidence redacts: the headers, the variables in them, and those
\* of resolve_secret_values.  _Redactor leaves out an empty one.
Secrets(config) ==
    ({Expand(h, config.env) : h \in config.headers}
       \union {config.env[n] : n \in Referenced(config) \union config.denied}) \ {<<>>}

\* The types of the models, the JSON of the values, and the configuration as
\* load_config leaves it: bindings are validated, every variable it names is
\* set, and those of not_contains_env are not empty.
ASSUME ResponsesAssumption ==
    /\ \A p \in Pointers :
          p \in Seq(ToSet(p)) /\ \A n \in 0..Len(p) : SubSeq(p, 1, n) \in Pointers
    /\ \A part \in Parts :
          /\ DOMAIN part = {"source", "media", "value"}
          /\ IsPresent(part.value)
          /\ \A p \in Pointers : WellFormed(Resolve(part.value, p))
    /\ \A r \in Responses :
          /\ r.ap2 \in Seq(ToSet(r.ap2)) /\ ValidBindings(r.ap2)
          /\ \A e \in ToSet(r.ap2) : e.kind \in {"mandate", "receipt"} /\ e.path \in Pointers
          /\ r.data \in Seq(Parts)
          /\ \A accepted \in r.sdk.accepted : accepted[2] # NoToken
          /\ r.text \in Seq(ToSet(r.text))
          /\ r.rendered \in Seq(ToSet(r.rendered))
          /\ LET config == r.config
             IN /\ Referenced(config) \union config.denied \subseteq DOMAIN config.env
                /\ \A n \in config.denied : config.env[n] # <<>>
                /\ IsFiniteSet(Secrets(config))
                /\ \A s \in Secrets(config) : s \in Seq(ToSet(s))

VARIABLES
    response, \* [ap2, data, sdk, text, rendered, leaks, asked, config]: the AP2
              \* assertions, the data and text that came back, what the SDK says
              \* of tokens, what a failure quotes of the data, whether an invariant
              \* is violated, whether evidence is asked for, and of the
              \* configuration [env, headers, denied] the environment, the
              \* headers and the variables of not_contains_env
    progress, \* "received", "judged", "recorded" or "abandoned"
    passed,   \* of the turn
    unproven, \* the AP2 assertions that failed
    reported, \* the data parts of the report
    evidence  \* [text, failure]: of the turn, in the evidence of the trial

results == <<passed, unproven, reported, evidence>>
responseVars == <<response, progress, results>>

Received ==
    /\ progress = "received"
    /\ passed = FALSE
    /\ unproven = {}
    /\ reported = <<>>
    /\ evidence = [text |-> <<>>, failure |-> <<>>]

\* others: whether every other check of the turn holds.
Report(others) ==
    /\ progress = "received"
    /\ unproven' = DOMAIN response.ap2 \ AP2Holds(response.ap2, response.data, response.sdk)
    /\ passed' = (others /\ ~response.leaks /\ unproven' = {})
    /\ reported' = IF response.leaks THEN <<>> ELSE Redact(response.ap2, response.data)
    /\ progress' = "judged"
    /\ UNCHANGED <<response, evidence>>

\* _turn_events and _turn_summary: the text and the failures of a turn that
\* fails are written, the text unless a violated invariant has replaced it.
\* Only the text is cut: what a failure quotes was cut when it failed.
Keep ==
    /\ progress = "judged"
    /\ response.asked
    /\ ~passed
    /\ \E order \in LongestFirst(Secrets(response.config)) :
          evidence' =
             [text |-> EvidenceText(order, IF response.leaks THEN REDACTED_RESPONSE
                                           ELSE response.text),
              failure |-> RedactText(order, Preview(response.rendered))]
    /\ progress' = "recorded"
    /\ UNCHANGED <<response, passed, unproven, reported>>

\* pattern.sub takes longer than 0.1 s: TimeoutError ends write_evidence, which
\* removes the bundle.
Abandon ==
    /\ progress = "judged"
    /\ response.asked
    /\ ~passed
    /\ Secrets(response.config) # {}
    /\ progress' = "abandoned"
    /\ UNCHANGED <<response, results>>

DiscloseInit == response \in Responses /\ Received
DiscloseNext == (\E others \in BOOLEAN : Report(others)) \/ Keep \/ Abandon
DiscloseSpec == DiscloseInit /\ [][DiscloseNext]_responseVars

-----------------------------------------------------------------------------
Located(e) == {k \in DOMAIN response.data : MatchesLocation(e, response.data[k])}
ValueAt(e, k) == Resolve(response.data[k].value, e.path)

\* The tokens a mandate assertion may have verified.
Proven(m) ==
    {t \in {ValueAt(m, k).atom : k \in {k \in Located(m) : ValueAt(m, k).type = "string"}} :
        <<m.trust, t>> \in response.sdk.accepted}

\* docs/ap2.md: "The receipt is accepted only when the referenced mandate
\* assertion verifies first".  The receipt then references the closed mandate
\* of a token that verified in this turn, and if only one did, a receipt for
\* it is accepted wherever the contract lists the two assertions.
ReceiptsFollowMandates ==
    progress = "judged" =>
        \A k \in {k \in DOMAIN response.ap2 : ~IsMandate(response.ap2[k])} :
            LET e == response.ap2[k]
                m == CHOOSE j \in DOMAIN response.ap2 :
                        IsMandate(response.ap2[j]) /\ response.ap2[j].id = e.binds_to
                BoundTo(t) ==
                    \E j \in Located(e) :
                        /\ ValueAt(e, j).type = "string"
                        /\ <<ValueAt(e, j).atom, t>> \in response.sdk.receipts
                holds == k \notin unproven
            IN /\ holds => /\ m \notin unproven
                           /\ \E t \in Proven(response.ap2[m]) : BoundTo(t)
               /\ \A t \in Proven(response.ap2[m]) :
                     Proven(response.ap2[m]) = {t} /\ BoundTo(t) => holds

\* What the report shows of a part: a marker at every path of an assertion
\* that is meant for the part and leads somewhere, nothing below it, and
\* everything else as it was received, also when the paths are nested.  A turn
\* that violates an invariant shows no data.
RedactionIsExact ==
    /\ (progress = "judged" /\ response.leaks) => reported = <<>>
    /\ (progress = "judged" /\ ~response.leaks) =>
        \A k \in DOMAIN response.data :
            LET part == response.data[k]
                hidden == {e.path : e \in {e \in ToSet(response.ap2) :
                              /\ MatchesLocation(e, part)
                              /\ IsPresent(Resolve(part.value, e.path))}}
                Below(p) == \E h \in hidden : IsStrictPrefix(h, p)
            IN \A p \in Pointers :
                  LET shown == Resolve(reported[k].value, p)
                      value == Resolve(part.value, p)
                  IN /\ Below(p) => ~IsPresent(shown)
                     /\ p \in hidden /\ ~Below(p) => shown \in {RedactedMandate, RedactedReceipt}
                     /\ (\A h \in hidden : ~IsPrefix(h, p) /\ ~IsPrefix(p, h)) => shown = value
                     /\ (\A h \in hidden : ~IsPrefix(h, p)) => shown.type = value.type

-----------------------------------------------------------------------------
\* A character that starts or ends a marker.
Brackets == {"[", "]", "..."}

Absent(s, text) == \A k \in DOMAIN text : ~OccursAt(s, text, k)

\* The secret is no part of a marker, and none can begin or end inside it.
Distinct(s) ==
    /\ \A k \in DOMAIN s : s[k] \notin Brackets
    /\ Absent(s, REDACTION) /\ Absent(s, Truncated)

\* The headers, and the variables that they or not_contains_env name.
Confidential(config) ==
    {Expand(h, config.env) : h \in config.headers}
      \union {config.env[n] : n \in {n \in DOMAIN config.env :
                 \/ n \in config.denied
                 \/ \E h \in config.headers : \E k \in DOMAIN h :
                       h[k].kind = "reference" /\ h[k].name = n}}

\* docs/operations.md: "Resolved headers, environment substitutions, and values
\* named by `not_contains_env` are redacted before truncation".  Of the headers,
\* the variables in them and the values of not_contains_env that is so: none is
\* left whole in the text or in a failure, in either case, wherever the text was
\* cut and whatever else was redacted, unless it has a bracket or an ellipsis or
\* the words of the markers contain it.  It is not so of a variable that is
\* substituted elsewhere in the contract: Referenced looks at the headers only.
EvidenceHidesSecrets ==
    progress = "recorded" =>
        \A s \in Confidential(response.config) : Distinct(s) =>
            Absent(s, evidence.text) /\ Absent(s, evidence.failure)

-----------------------------------------------------------------------------
Markers == ToSet(REDACTION) \union ToSet(Truncated)

\* The text has no character, of either case, that a marker has.
FreeOfMarkers(text) ==
    \A k \in DOMAIN text : \A c \in Markers : Lower(text[k]) # Lower(c)

\* Where a secret of the text starts and ends.
Occurrences(text) ==
    {<<x[2], x[2] + Len(x[1]) - 1>> : x \in
        {x \in Secrets(response.config) \X DOMAIN text : OccursAt(x[1], text, x[2])}}

Overlap(a, b) == a[1] <= b[2] /\ b[1] <= a[2]
Inside(a, b) == b[1] <= a[1] /\ a[2] <= b[2]

Unmarked(text) == SelectSeq(text, LAMBDA c : c \notin Markers)

===============================================================================
