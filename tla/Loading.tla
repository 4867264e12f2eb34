-------------------------------- MODULE Loading --------------------------------
(***************************************************************************)
(* Whether a document is accepted: a piece of a contract by its validator, *)
(* or a contract by load_config and the selection of scenarios, with the   *)
(* environment it names (module Contract).  Loading is one step, before    *)
(* anything runs.                                                          *)
(***************************************************************************)
EXTENDS Contract

CONSTANT Documents \* pieces of contracts, and contracts with their environment

VARIABLES
    document, \* [class, piece], or [class, contract, environ, names]
    stage     \* "written", then "loaded" or "refused"

\* What the types of the models leave of a piece.
PieceTyped(class, p) ==
    /\ class = "states" => DOMAIN p \subseteq {"equals", "contains_in_order"}
    /\ class = "file" => \A f \in DOMAIN p \intersect {"min_size_bytes", "max_size_bytes"} :
                            p[f] \in Nat \union {Null}
    /\ class \in {"mandate", "receipt"} =>
          "type" \in DOMAIN p /\ p.type \in {"checkout", "payment"}
    /\ class = "turn" /\ "action" \in DOMAIN p =>
          p.action \in {"cancel", "get_task", "subscribe", "await_push", Null}

\* And of a contract: lists are lists, and a pass rate that is a fraction asks
\* for at least one trial and no more than there are.
ContractTyped(c) ==
    /\ DOMAIN c = {"scenarios", "defaults", "headers", "invariants", "push", "downstream"}
    /\ c.scenarios \in Seq(ToSet(c.scenarios))
    /\ \A s \in ToSet(c.scenarios) :
          LET rate == Resolved(c, s, "pass_rate")
              trials == Resolved(c, s, "trials")
          IN /\ Given(s, "turns") => /\ s.turns \in Seq(ToSet(s.turns))
                                     /\ \A t \in ToSet(s.turns) : PieceTyped("turn", t)
             /\ {trials, rate.least[trials]} \subseteq Nat \ {0}
             /\ ~rate.statistical => rate.least[trials] <= trials

ASSUME DocumentsAssumption ==
    /\ Null \notin {"cancel", "get_task", "subscribe", "await_push"}
    /\ \A d \in Documents :
          IF d.class = "contract" THEN ContractTyped(d.contract)
          ELSE d.class \in Classes /\ PieceTyped(d.class, d.piece)

LoadInit == document \in Documents /\ stage = "written"

\* load_config, and the selection of scenarios.
Accepts(d) ==
    IF d.class = "contract" THEN Prepares(d.contract, d.environ, d.names)
    ELSE Loads(d.class, d.piece)

Load ==
    /\ stage = "written"
    /\ stage' = IF Accepts(document) THEN "loaded" ELSE "refused"
    /\ UNCHANGED document

LoadSpec == LoadInit /\ [][Load]_<<document, stage>>

-----------------------------------------------------------------------------
\* docs/contracts.md: the JSON Schema "provides the complete machine-readable
\* reference".  Of the pieces config_schema amends, the loader accepts what the
\* schema admits and nothing else, except that the schema says nothing of a few
\* relations between two fields of a data or file expectation.  Where both
\* models admit nulls or empty lists they differ; without any of these they
\* agree on every piece.
LeftToLoader(class, p) ==
    \/ class \in {"file", "data"} /\ ~LocationLoads(p)
    \/ class = "data" /\ Is(p, "exists", FALSE) /\ ~Filled(p, "path")
    \/ /\ class = "file"
       /\ {"min_size_bytes", "max_size_bytes"} \subseteq DOMAIN p
       /\ p.min_size_bytes > p.max_size_bytes

Definite(p) == \A f \in DOMAIN p : p[f] \notin {Null, Empty}

SchemaAgrees ==
    (stage \in {"loaded", "refused"} /\ document.class # "contract") =>
        LET class == document.class
            p == document.piece
        IN (\/ Definite(p)
            \/ class \notin {"turn", "delegation", "text_invariant", "mandate", "receipt"})
              => (stage = "loaded" <=> Admitted(class, p) /\ ~LeftToLoader(class, p))

\* A contract that loads can be run, whichever scenarios are selected: there is
\* one, their names tell them apart, every list of turns is one a trial can
\* follow to its end (what module Trial assumes of its scripts), the servers it
\* needs are configured, its secrets have values, and the required number of
\* trials is at least one and can be reached.
LoadedContractsRun ==
    (stage = "loaded" /\ document.class = "contract") =>
        LET c == SelectScenarios(document.contract, document.names)
            scripts == {Script(ResolvedTurns(s)) : s \in ScenariosOf(c)}
        IN /\ c.scenarios # <<>>
           /\ document.names # {} => Names(c) = document.names
           /\ Cardinality(Names(c)) = Len(c.scenarios)
           /\ \A script \in scripts :
                 /\ script \in Seq(Kinds) /\ ValidScript(script)
                 /\ "push" \in ToSet(script) => c.push
           /\ UsesDelegation(c) => c.downstream
           /\ \A name \in SecretNames(c) : document.environ[name] # Empty
           /\ \A s \in ScenariosOf(c) : Required(c, s) \in 1..Resolved(c, s, "trials")
==============================================================================
