---------------------------- MODULE MCEvaluation ----------------------------
(* A small instance of Evaluation for TLC: one kind of assertion at a time, *)
(* because the checks of different kinds do not see each other.             *)
EXTENDS Evaluation, MCLoading

CONSTANTS MaxStates, MaxParts, MaxText

Tokens == {"a", "b", "0", "1", "01"}

MCPointers == BoundedSeq(Tokens, 2)

-----------------------------------------------------------------------------
NoSdk == [accepted |-> {}, receipts |-> {}]

Silent == [state |-> "any", states |-> [test |-> "none"], data |-> <<>>, files |-> <<>>,
           delegation |-> [count |-> {}, text |-> FALSE, data |-> <<>>]]

Plain == [state |-> "completed", states |-> <<"completed">>, limits |-> TRUE,
          files |-> <<>>, calls |-> <<>>]

Bare == [env |-> <<>>, headers |-> {}, denied |-> {}]

\* What may come back when no evidence is asked for.
Unrecorded(lists, parts, sdks, leaks) ==
    [ap2 : lists, data : parts, sdk : sdks, text : {<<>>}, rendered : {<<>>},
     leaks : leaks, asked : {FALSE}, config : {Bare}]

Quiet == Unrecorded({<<>>}, {<<>>}, {NoSdk}, {FALSE})

-----------------------------------------------------------------------------
States == {"working", "input_required", "failed"}

\* What RecordState may leave: no state twice in a row.
Trails == {s \in BoundedSeq(States, MaxStates) :
              s # <<>> /\ \A k \in 2..Len(s) : s[k] # s[k - 1]}

StateCases ==
    [expects |->
        {[Silent EXCEPT !.state = expected, !.states = [test |-> test, states |-> list]] :
            expected \in {"any", "failed"},
            test \in {"equals", "contains_in_order"},
            list \in BoundedSeq(States, MaxStates - 1) \ {<<>>}},
     outcomes |->
        {[Plain EXCEPT !.states = trail, !.state = Last(trail), !.limits = limits] :
            trail \in Trails, limits \in BOOLEAN},
     responses |-> Quiet]

-----------------------------------------------------------------------------
Zero == Scalar("int", 0)
One == Scalar("int", 1)

\* Numbers of both types and the booleans Python equates with them, strings
\* that match, differ and time out, and nested values with tokens that index,
\* or must not index, a list.
Values ==
    {One, Scalar("float", 1), Scalar("bool", 1),
     Scalar("string", 1), Scalar("string", 2), Scalar("string", 3),
     Array(<<One, Zero>>), Array(<<Scalar("float", 1), Scalar("int", 0)>>),
     Object(<<"a", "b">>, <<One, Zero>>), Object(<<"b", "a">>, <<Zero, Scalar("bool", 1)>>),
     Object(<<"a", "01">>, <<Array(<<Zero, One>>), Scalar("string", 1)>>)}

SomeParts == [source : {"message", "artifact"}, media : {"json"}, value : Values]

Tests ==
    {[test |-> "exists", exists |-> b] : b \in BOOLEAN}
      \union {[test |-> "equals", equals |-> v] :
                 v \in {One, Scalar("bool", 1), Scalar("string", 1), Array(<<One, Zero>>),
                        Object(<<"a", "b">>, <<One, Zero>>)}}
      \union {[test |-> "matches",
               matches |-> <<"match", "differs", "timeout">>]}
      \union {[test |-> "json_schema", json_schema |-> {"int", "string"}]}
      \union {[test |-> "bounds", gt |-> {}, gte |-> {1}, lt |-> {}, lte |-> {1}],
              [test |-> "bounds", gt |-> {0}, gte |-> {}, lt |-> {2}, lte |-> {}]}

Paths == {<<>>, <<"a">>, <<"0">>, <<"01">>, <<"a", "1">>, <<"a", "01">>}

DataExpectations ==
    {e \in {test @@ [source |-> source, media |-> "any", path |-> path] :
              test \in Tests, source \in {"any", "artifact"}, path \in Paths} :
        ValidData(e)}

DataCases ==
    [expects |-> {[Silent EXCEPT !.data = <<e>>] : e \in DataExpectations},
     outcomes |-> {Plain},
     responses |-> Unrecorded({<<>>}, BoundedSeq(SomeParts, MaxParts), {NoSdk}, {FALSE})]

-----------------------------------------------------------------------------
FileCases ==
    [expects |->
        {[Silent EXCEPT !.files =
            <<[label |-> label, size |-> {}, min_size |-> least, max_size |-> most,
               count |-> count]>>] :
            label \in {"any", "f"}, least \in {{}, {1}}, most \in {{}, {1}}, count \in 0..2},
     outcomes |->
        {[Plain EXCEPT !.files = parts] :
            parts \in BoundedSeq([label : {"f", "g"}, size : {{}, {1}, {2}}], 2)},
     responses |-> Quiet]

Calls == [text : BOOLEAN, data : {<<One>>, <<Zero>>, <<One, Zero>>},
          supported : {TRUE}, leaks : {FALSE}]
            \union {[text |-> FALSE, data |-> <<>>, supported |-> s, leaks |-> s] :
                      s \in BOOLEAN}

Wanted(v) == [test |-> "equals", equals |-> v, source |-> "any", media |-> "any",
              path |-> <<>>]

DelegationCases ==
    [expects |->
        {[Silent EXCEPT !.delegation = [count |-> count, text |-> text, data |-> data]] :
            count \in {{}, {1}}, text \in BOOLEAN,
            data \in {<<>>, <<Wanted(One)>>, <<Wanted(One), Wanted(Zero)>>}},
     outcomes |-> {[Plain EXCEPT !.calls = calls] : calls \in BoundedSeq(Calls, 2)},
     responses |-> Quiet]

-----------------------------------------------------------------------------
(* Two mandate tokens, 1 and 2, and two receipt tokens, 3 and 4.            *)
Mandate(id, source, path) ==
    [kind |-> "mandate", id |-> id, type |-> "payment", trust |-> "root",
     source |-> source, media |-> "any", path |-> path]

Receipt(id, source, path) ==
    [kind |-> "receipt", binds_to |-> id, type |-> "payment",
     source |-> source, media |-> "any", path |-> path]

Token(n) == Scalar("string", n)

Mandates == {Mandate("m", source, path) :
    source \in {"any", "artifact"}, path \in {<<>>, <<"a">>, <<"a", "0">>}}

Receipts == {Receipt("m", source, path) :
    source \in {"any", "message"}, path \in {<<"b">>, <<"a", "1">>, <<"a">>}}

\* Up to two assertions in either order, and three with a second mandate.
AP2Lists ==
    {list \in BoundedSeq(Mandates \union Receipts, 2) : ValidBindings(list)}
      \union {<<Mandate("n", "any", <<"a">>), r, m>> : r \in Receipts, m \in Mandates}

AP2Values ==
    {Token(1), Object(<<"a", "b">>, <<Token(1), Token(3)>>),
     Object(<<"b", "a">>, <<Token(4), Token(2)>>),
     Object(<<"a">>, <<Array(<<Token(2), Token(3)>>)>>)}

Sdks ==
    {[accepted |-> {<<"root", t>> : t \in accepted}, receipts |-> receipts] :
        accepted \in SUBSET {1, 2},
        receipts \in {{<<3, 1>>, <<4, 2>>}, {<<3, 2>>}}}

AP2Parts ==
    [source : {"message", "artifact"}, media : {"json"}, value : AP2Values]

AP2Cases ==
    [expects |-> {Silent},
     outcomes |-> {Plain},
     responses |->
        Unrecorded(AP2Lists, BoundedSeq(AP2Parts, MaxParts), Sdks, {FALSE})
          \union Unrecorded(AP2Lists, BoundedSeq(AP2Parts, 1), {NoSdk}, {TRUE})]

-----------------------------------------------------------------------------
Literal(text) == [kind |-> "literal", text |-> text]
Reference(name) == [kind |-> "reference", name |-> name]

\* A header around a variable and two variables in one header; S is neither in a
\* header nor in not_contains_env, but the contract may substitute it elsewhere:
\* H and D are redacted, S is not.
Config(h, d, s, headers) ==
    [env |-> [H |-> h, D |-> d, S |-> s], headers |-> headers, denied |-> {"D"}]

Around == {<<Literal(<<"z">>), Reference("H")>>}
Two == {<<Reference("H"), Reference("D")>>}

\* Secrets inside one another, that overlap, of two cases, and none at all; in
\* letters the markers lack, and in letters of theirs, where a secret is a part
\* of one.
Configs ==
    {Config(<<"x">>, <<"x", "y">>, <<"y">>, Around),
     Config(<<"x", "y">>, <<"y", "x">>, <<"z">>, {}),
     Config(<<>>, <<"x", "y", "x">>, <<"y">>, Two),
     Config(<<"y">>, <<"x", "y", "x">>, <<"z", "z">>, Two), Bare}

LetterConfigs ==
    {Config(<<"e">>, <<"e", "r">>, <<"r">>, Around),
     Config(<<"r", "t">>, <<"t", "r">>, <<"e">>, Two),
     Config(<<"t", "e">>, <<"r">>, <<"e", "t">>, {})}

Padding(n) == [k \in 1..n |-> "z"]

Evident(texts, leaks, configs) ==
    {[text |-> t, rendered |-> t, leaks |-> leaks, asked |-> TRUE, config |-> c,
      ap2 |-> <<>>, data |-> <<>>, sdk |-> NoSdk] : t \in texts, c \in configs}

\* Short texts, and texts that reach the cut before anything is redacted.
Texts(alphabet) ==
    BoundedSeq(alphabet, MaxText)
      \union {Padding(MaxEvidenceText - 1) \o t : t \in BoundedSeq(alphabet, 3)}

EvidenceCases ==
    [expects |-> {[Silent EXCEPT !.state = "failed"]},
     outcomes |-> {Plain},
     responses |-> Evident(Texts({"x", "X", "y", "z"}), FALSE, Configs)
                     \union Evident(Texts({"e", "r", "T"}), FALSE, LetterConfigs)
                     \union Evident(Texts({"e", "T"}), TRUE, LetterConfigs)]

MCCases == {StateCases, DataCases, FileCases, DelegationCases, AP2Cases, EvidenceCases}

MCResponses ==
    Quiet \union DataCases.responses \union AP2Cases.responses \union EvidenceCases.responses
=============================================================================
