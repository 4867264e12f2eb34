------------------------------- MODULE Contract -------------------------------
(***************************************************************************)
(* Loading a contract: the validators of models.py, load_config and the    *)
(* selection of scenarios, and the JSON Schema that config_schema derives  *)
(* from the models and amends by hand.                                     *)
(*                                                                         *)
(* A piece of a contract is a function from the fields the author wrote    *)
(* (model_fields_set) to values of the field's type; types, patterns and   *)
(* sizes are left out, for loader and schema share them.  Null is a null   *)
(* where the field admits one, Empty an empty list.                        *)
(***************************************************************************)
EXTENDS Turns, FiniteSets, SequencesExt

CONSTANTS Null, Empty

Has(p, names) == DOMAIN p \intersect names # {}
NoNull(p, names) == \A f \in DOMAIN p \intersect names : p[f] # Null
Given(p, f) == f \in DOMAIN p /\ p[f] # Null
Filled(p, f) == Given(p, f) /\ p[f] # Empty
Is(p, f, v) == f \in DOMAIN p /\ p[f] = v

Integrity == {"size_bytes", "min_size_bytes", "max_size_bytes", "sha256"}

\* _DATA_PREDICATES, by the assertion they make.
Predicates ==
    {{"equals"}, {"exists"}, {"matches"}, {"gt", "gte", "lt", "lte"}, {"json_schema"}}

Content == {"message", "data", "files"}

-----------------------------------------------------------------------------
(* The validators of models.py.                                             *)

\* Agent Card, capabilities and latency: at least one assertion, none null.
AssertionLoads(p) == DOMAIN p # {} /\ NoNull(p, DOMAIN p)

StatesLoad(p) == Cardinality(DOMAIN p) = 1 /\ NoNull(p, DOMAIN p)

\* A message has no artifact name.
LocationLoads(p) == Is(p, "source", "message") => ~Given(p, "artifact_name")

\* Fault: the kind is compared only where it is written.
FileLoadsByDefault(p) ==
    /\ LocationLoads(p)
    /\ NoNull(p, Integrity)
    /\ Has(p, Integrity) => ~Is(p, "kind", "url")
    /\ Given(p, "size_bytes") => ~Given(p, "min_size_bytes") /\ ~Given(p, "max_size_bytes")
    /\ (Given(p, "min_size_bytes") /\ Given(p, "max_size_bytes"))
          => p.min_size_bytes <= p.max_size_bytes

FileLoads(p) ==
    /\ LocationLoads(p)
    /\ NoNull(p, Integrity)
    /\ Has(p, Integrity) => Is(p, "kind", "raw")
    /\ Given(p, "size_bytes") => ~Given(p, "min_size_bytes") /\ ~Given(p, "max_size_bytes")
    /\ (Given(p, "min_size_bytes") /\ Given(p, "max_size_bytes"))
          => p.min_size_bytes <= p.max_size_bytes

DataLoads(p) ==
    /\ LocationLoads(p)
    /\ NoNull(p, UNION Predicates \ {"equals"})
    /\ Cardinality({group \in Predicates : Has(p, group)}) = 1
    /\ Is(p, "exists", FALSE) => Filled(p, "path")

TextInvariantLoads(p) == Filled(p, "not_contains") \/ Filled(p, "not_contains_env")

DelegationLoads(p) ==
    \/ Given(p, "count")
    \/ Given(p, "text")
    \/ Filled(p, "data")
    \/ Filled(p, "not_contains_env")

\* What only the other type of mandate, or of receipt, has.
Foreign(class, type) ==
    CASE class = "mandate" /\ type = "checkout" -> {"transaction_id", "open_checkout_hash"}
      [] class = "mandate" /\ type = "payment" -> {"checkout_hash"}
      [] class = "receipt" /\ type = "checkout" -> {"payment_id"}
      [] class = "receipt" /\ type = "payment" -> {"order_id"}

AP2Loads(class, p) ==
    /\ LocationLoads(p)
    /\ \A f \in Foreign(class, p.type) : ~Given(p, f)
    /\ Is(p, "status", "Success") => ~Given(p, "error")

HasContent(p) == Given(p, "message") \/ Filled(p, "data") \/ Filled(p, "files")

TurnLoads(p) ==
    /\ HasContent(p) <=> ~Given(p, "action")
    /\ Given(p, "action") => ~Has(p, {"return_immediately", "push_notification"})
    /\ Has(p, {"history_length"}) => Is(p, "action", "get_task")
    /\ Has(p, {"timeout_seconds"}) => Is(p, "action", "await_push")
    /\ Is(p, "push_notification", TRUE) => Is(p, "return_immediately", TRUE)

Classes ==
    {"card", "capabilities", "latency", "states", "file", "data", "text_invariant",
     "delegation", "mandate", "receipt", "turn"}

Loads(class, p) ==
    CASE class \in {"card", "capabilities", "latency"} -> AssertionLoads(p)
      [] class = "states" -> StatesLoad(p)
      [] class = "file" -> FileLoads(p)
      [] class = "data" -> DataLoads(p)
      [] class = "text_invariant" -> TextInvariantLoads(p)
      [] class = "delegation" -> DelegationLoads(p)
      [] class \in {"mandate", "receipt"} -> AP2Loads(class, p)
      [] class = "turn" -> TurnLoads(p)

-----------------------------------------------------------------------------
(* The schema.  "required" asks whether a field is written, whatever its    *)
(* value.                                                                   *)

AssertionAdmitted(p) == NoNull(p, DOMAIN p) /\ DOMAIN p # {}

StatesAdmitted(p) ==
    /\ NoNull(p, DOMAIN p)
    /\ Has(p, {"equals"}) # Has(p, {"contains_in_order"})

FileAdmitted(p) ==
    /\ NoNull(p, Integrity)
    /\ Has(p, Integrity) => Is(p, "kind", "raw")
    /\ ~({"size_bytes", "min_size_bytes"} \subseteq DOMAIN p)
    /\ ~({"size_bytes", "max_size_bytes"} \subseteq DOMAIN p)

DataAdmitted(p) ==
    /\ NoNull(p, UNION Predicates \ {"equals"})
    /\ \E group \in Predicates :
          Has(p, group) /\ \A other \in Predicates \ {group} : ~Has(p, other)

TextInvariantAdmitted(p) == Has(p, {"not_contains", "not_contains_env"})

DelegationAdmitted(p) == Has(p, {"count", "text", "data", "not_contains_env"})

AP2Admitted(class, p) ==
    /\ Is(p, "source", "message") => ~Has(p, {"artifact_name"})
    /\ ~Has(p, Foreign(class, p.type))
    /\ Is(p, "status", "Success") => ~Has(p, {"error"})

InputAdmitted(p) ==
    /\ Has(p, Content)
    /\ ~Has(p, {"action", "history_length", "timeout_seconds"})
    /\ Is(p, "push_notification", TRUE) => Is(p, "return_immediately", TRUE)

ActionAdmitted(p, action, options) ==
    /\ Is(p, "action", action)
    /\ ~Has(p, Content \union {"return_immediately", "push_notification"})
    /\ ~Has(p, {"history_length", "timeout_seconds"} \ options)

TurnAdmitted(p) ==
    \/ InputAdmitted(p)
    \/ ActionAdmitted(p, "cancel", {})
    \/ ActionAdmitted(p, "get_task", {"history_length"})
    \/ ActionAdmitted(p, "subscribe", {})
    \/ ActionAdmitted(p, "await_push", {"timeout_seconds"})

Admitted(class, p) ==
    CASE class \in {"card", "capabilities", "latency"} -> AssertionAdmitted(p)
      [] class = "states" -> StatesAdmitted(p)
      [] class = "file" -> FileAdmitted(p)
      [] class = "data" -> DataAdmitted(p)
      [] class = "text_invariant" -> TextInvariantAdmitted(p)
      [] class = "delegation" -> DelegationAdmitted(p)
      [] class \in {"mandate", "receipt"} -> AP2Admitted(class, p)
      [] class = "turn" -> TurnAdmitted(p)

-----------------------------------------------------------------------------
(* A whole contract: [scenarios, defaults, headers, invariants, push,       *)
(* downstream], where headers and invariants are the environment variables  *)
(* they name, and push and downstream say whether there are settings for    *)
(* these servers.  Of an `expect` it is known whether it has a delegation   *)
(* expectation and which variables that names.  A pass rate is the function *)
(* from the number of trials to the number that must pass, which is ceil of *)
(* a product or the first for which the Wilson bound reaches the minimum;   *)
(* one more than there are trials, if none does.                            *)

Delegates(t) == "expect" \in DOMAIN t /\ t.expect.delegates

ResolvedTurns(s) ==
    IF Given(s, "turns") THEN s.turns
    ELSE <<[f \in DOMAIN s \intersect (Content \union {"expect"}) |-> s[f]]>>

\* Fault: an await_push may come anywhere.
PushPairsOneWay(turns) ==
    \A k \in DOMAIN turns :
        Is(turns[k], "push_notification", TRUE) =>
            k < Len(turns) /\ Is(turns[k + 1], "action", "await_push")

PushPairs(turns) ==
    \A k \in DOMAIN turns :
        /\ Is(turns[k], "push_notification", TRUE) =>
              k < Len(turns) /\ Is(turns[k + 1], "action", "await_push")
        /\ Is(turns[k], "action", "await_push") =>
              k > 1 /\ Is(turns[k - 1], "push_notification", TRUE)

ScenarioLoads(s) ==
    /\ Given(s, "turns") <=> ~HasContent(s)
    /\ Given(s, "turns") =>
          /\ "expect" \notin DOMAIN s
          /\ s.turns # <<>>
          /\ \A k \in DOMAIN s.turns : TurnLoads(s.turns[k])
          /\ ~Given(s.turns[1], "action")
          /\ PushPairs(s.turns)

\* resolved_scenarios: a field the scenario omits is the default's.
Resolved(c, s, f) == IF f \in DOMAIN s THEN s[f] ELSE c.defaults[f]

Required(c, s) == Resolved(c, s, "pass_rate").least[Resolved(c, s, "trials")]

ScenariosOf(c) == ToSet(c.scenarios)
TurnsOf(c) == UNION {ToSet(ResolvedTurns(s)) : s \in ScenariosOf(c)}
Names(c) == {s.name : s \in ScenariosOf(c)}

UsesPush(c) == \E t \in TurnsOf(c) : Is(t, "push_notification", TRUE)
UsesDelegation(c) == \E t \in TurnsOf(c) : Delegates(t)

UniqueNames(c) == \A j, k \in DOMAIN c.scenarios :
    c.scenarios[j].name = c.scenarios[k].name => j = k

ProvablePassRates(c) == \A s \in ScenariosOf(c) :
    Resolved(c, s, "pass_rate").statistical => Required(c, s) <= Resolved(c, s, "trials")

ContractLoads(c) ==
    /\ c.scenarios # <<>>
    /\ \A s \in ScenariosOf(c) : ScenarioLoads(s)
    /\ UniqueNames(c)
    /\ UsesPush(c) => c.push
    /\ ProvablePassRates(c)
    /\ UsesDelegation(c) => c.downstream

\* resolve_secret_values looks these up.
SecretNames(c) ==
    c.invariants \union UNION {t.expect.env : t \in {t \in TurnsOf(c) : Delegates(t)}}

\* environ maps the variables that are set to Empty or to some text.
EnvironmentLoads(c, environ) ==
    /\ c.headers \subseteq DOMAIN environ
    /\ \A name \in SecretNames(c) : name \in DOMAIN environ /\ environ[name] # Empty

\* _prepared_config: names are those of --scenario, none of them for all; the
\* scenarios keep their order.
Selected(scenarios, names) ==
    LET chosen[n \in 0..Len(scenarios)] ==
            IF n = 0 THEN <<>>
            ELSE IF scenarios[n].name \in names THEN Append(chosen[n - 1], scenarios[n])
            ELSE chosen[n - 1]
    IN chosen[Len(scenarios)]

SelectScenarios(c, names) ==
    IF names = {} THEN c ELSE [c EXCEPT !.scenarios = Selected(@, names)]

Prepares(c, environ, names) ==
    ContractLoads(c) /\ EnvironmentLoads(c, environ) /\ names \subseteq Names(c)

\* The operation of a turn, as module Trial knows it.
KindOf(t) ==
    CASE Is(t, "push_notification", TRUE) -> "push"
      [] Given(t, "action") /\ t.action \in {"cancel", "get_task"} -> "operate"
      [] Given(t, "action") /\ t.action \notin {"cancel", "get_task"} -> t.action
      [] OTHER -> "send"

Script(turns) == [k \in DOMAIN turns |-> KindOf(turns[k])]
=============================================================================
