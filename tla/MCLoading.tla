------------------------------ MODULE MCLoading ------------------------------
(* The documents of the small instance.                                     *)
EXTENDS Loading, TLC

(* Documents: the pieces of every class with their fields written or not,   *)
(* null and empty where the field admits it.                                *)
\* Some of the fields, with one of their values each.
Written(values) ==
    FoldSet(LAMBDA f, pieces : pieces \union {p @@ (f :> v) : p \in pieces, v \in values[f]},
            {<<>>}, DOMAIN values)

Maybe == {Null, "written"}
List == {Empty, "written"}

PieceValues ==
    [card |-> [skills |-> Maybe, capabilities |-> Maybe, input_modes |-> Maybe],
     capabilities |-> [streaming |-> Maybe, push_notifications |-> Maybe],
     latency |-> [p50_seconds |-> Maybe, p95_seconds |-> Maybe],
     states |-> [equals |-> Maybe, contains_in_order |-> Maybe],
     text_invariant |-> [not_contains |-> List, not_contains_env |-> List],
     delegation |-> [count |-> Maybe, text |-> Maybe, data |-> List,
                     not_contains_env |-> List],
     file |-> [source |-> {"message", "artifact"}, artifact_name |-> Maybe,
               kind |-> {Null, "raw", "url"}, size_bytes |-> {Null, 1},
               min_size_bytes |-> {Null, 1, 2}, max_size_bytes |-> {Null, 1},
               sha256 |-> Maybe],
     data |-> [source |-> {"message"}, artifact_name |-> {"written"}, path |-> List,
               equals |-> Maybe, exists |-> {Null, TRUE, FALSE}, matches |-> Maybe,
               gt |-> Maybe, lte |-> Maybe, json_schema |-> {"written"}],
     mandate |-> [source |-> {"message", "artifact"}, artifact_name |-> Maybe,
                  type |-> {"checkout", "payment"}, transaction_id |-> Maybe,
                  open_checkout_hash |-> Maybe, checkout_hash |-> Maybe],
     receipt |-> [source |-> {"message"}, artifact_name |-> Maybe,
                  type |-> {"checkout", "payment"}, status |-> {"Success", "Error"},
                  payment_id |-> Maybe, order_id |-> Maybe, error |-> Maybe],
     turn |-> [message |-> Maybe, data |-> List,
               action |-> {Null, "cancel", "get_task", "subscribe", "await_push"},
               return_immediately |-> BOOLEAN, push_notification |-> BOOLEAN,
               history_length |-> Maybe, timeout_seconds |-> Maybe]]

Typed(class, p) == class \in {"mandate", "receipt"} => "type" \in DOMAIN p

PieceDocuments ==
    UNION {{[class |-> class, piece |-> p] :
               p \in {p \in Written(PieceValues[class]) : Typed(class, p)}} :
           class \in DOMAIN PieceValues}
-----------------------------------------------------------------------------
(* Contracts: lists of up to three turns; numbers of trials and pass rates  *)
(* in the scenario and in the defaults; environments; selections.           *)
\* Of one, two and three trials: all of them, ceil of half of them, and a
\* minimum that three successes prove and fewer do not.
Rates == {[statistical |-> FALSE, least |-> <<1, 2, 3>>],
          [statistical |-> FALSE, least |-> <<1, 1, 2>>],
          [statistical |-> TRUE, least |-> <<2, 3, 3>>]}

Base == [scenarios |-> <<>>, headers |-> {}, invariants |-> {}, push |-> TRUE,
             downstream |-> TRUE,
             defaults |-> [trials |-> 1, pass_rate |-> [statistical |-> FALSE,
                                                        least |-> <<1, 2, 3>>]]]

Plainly(name) == [name |-> name, message |-> "written"]

Expect(env) == [delegates |-> TRUE, env |-> env]

Turn1s ==
    {[message |-> "written"], [action |-> "get_task"], [action |-> "await_push"],
     [action |-> "await_push", message |-> "written"],
     [message |-> "written", push_notification |-> FALSE],
     [message |-> "written", push_notification |-> TRUE],
     [data |-> "written", push_notification |-> TRUE, return_immediately |-> TRUE],
     [message |-> "written", expect |-> Expect({})]}

TurnContracts ==
    {[Base EXCEPT !.push = push, !.downstream = downstream,
                      !.scenarios = <<scenario, Plainly("s")>>] :
        push \in BOOLEAN, downstream \in BOOLEAN,
        scenario \in {p @@ [name |-> "t", turns |-> turns] :
                        turns \in BoundedSeq(Turn1s, 3),
                        p \in {<<>>, [expect |-> Expect({})]}}
                      \union {[name |-> "t", message |-> "written", expect |-> Expect({})],
                              [name |-> "t", turns |-> Null, message |-> Null],
                              [name |-> "t", turns |-> Null, data |-> "written"]}}

RateContracts ==
    {[Base EXCEPT !.defaults = [trials |-> trials, pass_rate |-> rate],
                      !.scenarios = <<p @@ Plainly("s")>>] :
        trials \in 1..3, rate \in Rates,
        p \in Written([trials |-> 1..3, pass_rate |-> Rates])}

Document(contracts, environs, selections) ==
    [class : {"contract"}, contract : contracts, environ : environs, names : selections]

Environs == UNION {[names -> {Empty, "text"}] : names \in SUBSET {"H", "V", "W"}}

Secretive ==
    {[Base EXCEPT !.headers = headers, !.invariants = invariants,
                      !.scenarios = scenarios] :
        headers \in SUBSET {"H"}, invariants \in SUBSET {"V"},
        scenarios \in {<<>>, <<Plainly("s")>>, <<Plainly("s"), Plainly("s")>>,
                       <<Plainly("s"),
                         [name |-> "t", message |-> "written", expect |-> Expect({"W"})]>>}}

MCDocuments ==
    PieceDocuments
      \union Document(TurnContracts, {<<>>}, {{}})
      \union Document(RateContracts, {<<>>}, {{}})
      \union Document(Secretive, Environs, SUBSET {"s", "t"})
==============================================================================
