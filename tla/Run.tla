--------------------------------- MODULE Run ---------------------------------
(***************************************************************************)
(* One command of the CLI from its options to its exit code: run, run with *)
(* --replay, record, diff, init, check and demo.  runner.run connects the  *)
(* session (module Session), starts the push receiver and the downstream   *)
(* agent on an AsyncExitStack, checks the Agent Card and runs the          *)
(* scenarios; diff does this twice, one deployment after the other.  What  *)
(* is reported of the result is in module Reports.                         *)
(*                                                                         *)
(* A failure of an await is one of three classes: "caught" is an exception *)
(* the command turns into ProofCommandError (A2AClientError, CassetteError,*)
(* ConfigError, EvidenceError, OSError, RuntimeError), "uncaught" any      *)
(* other and "interrupt" the KeyboardInterrupt that asyncio.run delivers   *)
(* as a cancellation.                                                      *)
(***************************************************************************)
EXTENDS Reports

CONSTANTS
    MaxJobs,  \* the largest --jobs considered
    Contract, \* the number of scenarios of the contract
    Outcomes  \* what its scenarios may result in, one after the other

ASSUME JobsAssumption == MaxJobs \in Nat \ {0}

ASSUME OutcomesAssumption ==
    /\ Contract \in Nat \ {0}
    /\ \A o \in Outcomes :
          /\ o \in Seq(Scenarios) /\ Len(o) = Contract
          /\ \A k \in 1..Contract : Tolerates(o[k]) \/ PassedTrials(o[k]) < Len(o[k].trials)

VARIABLES
    command,    \* "run", "replay", "record", "diff", "init", "check" or "demo"
    jobs,       \* --jobs
    push,       \* config.uses_push_notifications
    delegation, \* config.uses_delegation
    checksCard, \* whether the contract asserts anything of the Agent Card
    card,       \* what the assertions said of this leg's card
    cassetteCard, \* whether the cassette to replay holds an Agent Card
    wantsOutput,  \* --evidence, the cassette of record, the file of init
    stage,      \* where the command is
    leg,        \* 1, and 2 while diff runs the candidate
    stack,      \* the AsyncExitStack: what was entered, in order
    listeners,  \* the sockets that are bound
    results,    \* the suite of each finished leg
    saved,      \* whether the evidence, cassette or configuration was written
    reported,   \* whether the report was printed or written
    code        \* the exit code, or Running

\* Of module Session, which shares the exception in flight.
VARIABLES phase, cardPath, streams, transports, raised

options == <<command, jobs, push, delegation, checksCard, cassetteCard, wantsOutput>>
session == <<phase, cardPath, streams, transports>>
vars == <<options, session, raised, card, stage, leg, stack, listeners, results,
          saved, reported, code>>

A2ASession == INSTANCE Session

Commands == {"run", "replay", "record", "diff", "init", "check", "demo"}
Classes == A2ASession!Classes
Running == -1

\* Only run and diff take --jobs; the contract of demo is fixed, and init and
\* check run none; a cassette is read by replay only.
Init ==
    /\ command \in Commands
    /\ jobs \in 1..MaxJobs
    /\ command \notin {"run", "replay", "diff"} => jobs = 1
    /\ push \in BOOLEAN
    /\ delegation \in BOOLEAN
    /\ checksCard \in BOOLEAN
    /\ cassetteCard \in BOOLEAN
    /\ wantsOutput \in BOOLEAN
    /\ command \in {"init", "check", "demo"} => ~push /\ ~delegation /\ ~checksCard
    /\ cassetteCard => command = "replay"
    /\ command \in {"record", "init"} => wantsOutput
    /\ command \in {"diff", "check", "demo"} => ~wantsOutput
    /\ A2ASession!Init
    /\ command \in {"replay", "check", "demo"} => ~cardPath
    /\ card = "none"
    /\ stage = "options"
    /\ leg = 1
    /\ stack = <<>>
    /\ listeners = {}
    /\ results = <<>>
    /\ saved = FALSE
    /\ reported = FALSE
    /\ code = Running

Exit(c) ==
    /\ stage' = "exit"
    /\ code' = c

Goto(s) ==
    /\ stage' = s
    /\ UNCHANGED code

\* Raising inside the stack unwinds it first.
Raise(class) ==
    /\ raised' = class
    /\ Goto("unwind")

\* click.UsageError, or the configuration is loaded and validated.
CheckOptions ==
    /\ stage = "options"
    /\ IF command = "replay" /\ jobs > 1 THEN Exit(2) ELSE Goto("prepare")
    /\ UNCHANGED <<options, session, raised, card, leg, stack, listeners, results,
                   saved, reported>>

\* _prepared_config or load_config, then what run and _replay refuse before
\* anything is opened.  _validate_delegation_concurrency raises a plain
\* ValueError; ensure_ap2_sdk an AP2Error, one of the exceptions of Prepare.
RefusedBy ==
    IF command = "replay"
    THEN IF push \/ delegation THEN "caught" ELSE "none"
    ELSE IF delegation /\ jobs > 1 THEN "uncaught" ELSE "none"

AfterPrepare ==
    CASE command = "replay" -> "card"
      [] command = "check" -> "report"
      [] OTHER -> "connect"

Prepare ==
    /\ stage = "prepare"
    /\ command # "demo"
    /\ \/ Raise("caught")
       \/ RefusedBy # "none" /\ Raise(RefusedBy)
       \/ RefusedBy = "none" /\ Goto(AfterPrepare) /\ UNCHANGED raised
    /\ UNCHANGED <<options, session, card, leg, stack, listeners, results, saved,
                   reported>>

-----------------------------------------------------------------------------
(* Entering the contexts.                                                   *)

Listen(name, next) ==
    /\ stack' = Append(stack, name)
    /\ listeners' = listeners \union {name}
    /\ Goto(next)
    /\ UNCHANGED raised

FailToListen(classes) ==
    /\ \E class \in classes : Raise(class)
    /\ UNCHANGED <<stack, listeners>>

\* run_demo starts the demo agent.
StartDemo ==
    /\ stage = "prepare"
    /\ command = "demo"
    /\ Listen("demo", "connect") \/ FailToListen({"caught"})
    /\ UNCHANGED <<options, session, card, leg, results, saved, reported>>

\* A2ASession.connect, or discover_agent, up to its return.
Connect ==
    /\ stage = "connect"
    /\ phase \notin {"connected", "failed"}
    /\ IF command = "init" THEN A2ASession!Discover ELSE A2ASession!Connect
    /\ UNCHANGED <<options, card, stage, leg, stack, listeners, results, saved,
                   reported, code>>

ConnectReturns ==
    /\ stage = "connect"
    /\ \/ /\ phase = "connected"
          /\ stack' = Append(stack, "session")
          /\ Goto(IF command = "init" THEN "unwind" ELSE "receiver")
       \/ phase = "failed" /\ Goto("unwind") /\ UNCHANGED stack
    /\ UNCHANGED <<options, session, raised, card, leg, listeners, results, saved,
                   reported>>

SkipListener(next) ==
    /\ Goto(next)
    /\ UNCHANGED <<stack, listeners, raised>>

\* PushReceiver.__aenter__ awaits start_server: an OSError when it cannot bind.
StartReceiver ==
    /\ stage = "receiver"
    /\ \/ push /\ (Listen("receiver", "downstream") \/ FailToListen({"caught", "interrupt"}))
       \/ ~push /\ SkipListener("downstream")
    /\ UNCHANGED <<options, session, card, leg, results, saved, reported>>

\* DownstreamAgent.__aenter__ binds without an await.
StartDownstream ==
    /\ stage = "downstream"
    /\ \/ delegation /\ (Listen("downstream", "card") \/ FailToListen({"caught"}))
       \/ ~delegation /\ SkipListener("card")
    /\ UNCHANGED <<options, session, card, leg, results, saved, reported>>

-----------------------------------------------------------------------------
(* run_with_sender.                                                         *)

Suite(scenarios) == [card |-> card', scenarios |-> scenarios]

\* Fault: the scenarios run whatever the card says.
CheckCardForReport ==
    /\ stage = "card"
    /\ IF checksCard THEN card' \in {"holds", "fails"} ELSE UNCHANGED card
    /\ Goto("scenarios")
    /\ UNCHANGED <<options, session, raised, leg, stack, listeners, results, saved,
                   reported>>

\* A card that fails its assertions is the whole result: no scenario runs.
CheckCard ==
    /\ stage = "card"
    /\ \/ /\ ~checksCard
          /\ Goto("scenarios")
          /\ UNCHANGED <<card, results, raised>>
       \/ /\ checksCard
          /\ command = "replay" /\ ~cassetteCard
          /\ Raise("uncaught")
          /\ UNCHANGED <<card, results>>
       \/ /\ checksCard
          /\ command = "replay" => cassetteCard
          /\ \/ card' = "holds" /\ Goto("scenarios") /\ UNCHANGED results
             \/ /\ card' = "fails"
                /\ results' = Append(results, Suite(<<>>))
                /\ Goto("unwind")
          /\ UNCHANGED raised
    /\ UNCHANGED <<options, session, leg, stack, listeners, saved, reported>>

\* A trial turns every Exception into a failed result.
RunScenarios ==
    /\ stage = "scenarios"
    /\ UNCHANGED card
    /\ \/ \E scenarios \in Outcomes :
             /\ results' = Append(results, Suite(scenarios))
             /\ Goto("unwind")
             /\ UNCHANGED raised
       \/ Raise("interrupt") /\ UNCHANGED results
    /\ UNCHANGED <<options, session, leg, stack, listeners, saved, reported>>

\* The session closes its one or two clients.
CloseSession ==
    /\ stage = "unwind"
    /\ stack # <<>> /\ Last(stack) = "session"
    /\ A2ASession!Close
    /\ stack' = IF phase' = "closed" THEN Front(stack) ELSE stack
    /\ UNCHANGED <<options, card, stage, leg, listeners, results, saved, reported,
                   code>>

\* The stack exits in reverse order; what a close raises replaces the
\* exception in flight and the closes below it still run.  The receiver stops
\* listening before it awaits anything; the downstream and the demo agent
\* after a thread has shut the server down, which an exception forestalls.
CloseListener ==
    /\ stage = "unwind"
    /\ stack # <<>> /\ Last(stack) # "session"
    /\ stack' = Front(stack)
    /\ \/ UNCHANGED raised /\ listeners' = listeners \ {Last(stack)}
       \/ /\ raised' \in Classes
          /\ listeners' = IF Last(stack) = "receiver" THEN listeners \ {"receiver"}
                          ELSE listeners
    /\ UNCHANGED <<options, session, card, stage, leg, results, saved, reported,
                   code>>

-----------------------------------------------------------------------------
(* After the event loop.                                                    *)

ExitCodeOf(class) == IF class = "caught" THEN 2 ELSE 1

\* _run_pair runs the baseline, then the candidate.
AnotherLeg == command = "diff" /\ leg = 1

\* The exception leaves the command, the second leg of diff starts (_run_pair),
\* or asyncio.run has returned the result.
LeaveLoop ==
    /\ stage = "unwind"
    /\ stack = <<>>
    /\ \/ /\ raised # "none"
          /\ Exit(ExitCodeOf(raised))
          /\ UNCHANGED <<card, leg>>
       \/ /\ raised = "none"
          /\ AnotherLeg
          /\ leg' = leg + 1
          /\ card' = "none"
          /\ Goto("connect")
       \/ /\ raised = "none"
          /\ ~AnotherLeg
          /\ Goto(IF wantsOutput THEN "save" ELSE "report")
          /\ UNCHANGED <<card, leg>>
    /\ UNCHANGED <<options, session, raised, stack, listeners, results, saved,
                   reported>>

\* Fault: an artifact that cannot be written is passed over.
SaveIfPossible ==
    /\ stage = "save"
    /\ saved' \in BOOLEAN
    /\ Goto("report")
    /\ UNCHANGED <<options, session, raised, card, leg, stack, listeners, results,
                   reported>>

\* write_evidence, write_cassette or write_config: module FilePublish.
Save ==
    /\ stage = "save"
    /\ \/ saved' = TRUE /\ Goto("report")
       \/ UNCHANGED saved /\ \E class \in Classes : Exit(ExitCodeOf(class))
    /\ UNCHANGED <<options, session, raised, card, leg, stack, listeners, results,
                   reported>>

\* The commands that judge an agent, by the candidate alone in a diff.
Judges == command \notin {"init", "check"}

Passed == Judges => SuitePassed(Last(results))

Report ==
    /\ stage = "report"
    /\ \/ reported' = TRUE /\ Exit(IF Passed THEN 0 ELSE 1)
       \* --output cannot be written; a terminal report is not a file.
       \/ command \in {"run", "replay", "diff"} /\ UNCHANGED reported /\ Exit(2)
    /\ UNCHANGED <<options, session, raised, card, leg, stack, listeners, results,
                   saved>>

Next ==
    \/ CheckOptions
    \/ Prepare
    \/ StartDemo
    \/ Connect
    \/ ConnectReturns
    \/ StartReceiver
    \/ StartDownstream
    \/ CheckCard
    \/ RunScenarios
    \/ CloseSession
    \/ CloseListener
    \/ LeaveLoop
    \/ Save
    \/ Report

Spec == Init /\ [][Next]_vars

-----------------------------------------------------------------------------
\* Nothing a command opens outlives its event loop unless closing it was cut
\* short, and then the command fails: no transport of either client is open
\* when the loop is left, whichever step of connecting or closing raised, and
\* diff binds the one configured listener address for one deployment at a time.
NothingLeaks ==
    /\ stage \in {"save", "report", "exit"} => transports = {}
    /\ stage \in {"save", "report"} => listeners = {}
    /\ stage = "connect" => listeners \subseteq {"demo"}
    /\ stage = "connect" /\ phase \in {"idle", "closed", "failed"} => transports = {}
    /\ listeners # {} /\ code # Running => code # 0 /\ raised # "none"
    /\ IsInjective(stack)

\* A trial finds everything its turns rely on: a card that holds, an open
\* session unless it replays, the receiver and the downstream agent its
\* contract uses, and no other trial beside it when delegation is checked.
ScenariosFindWhatTheyNeed ==
    stage = "scenarios" =>
        /\ checksCard => card = "holds"
        /\ command # "replay" =>
              /\ phase = "connected"
              /\ transports = IF streams THEN {"client", "lifecycle"} ELSE {"client"}
        /\ push => "receiver" \in listeners
        /\ delegation => "downstream" \in listeners /\ jobs = 1

\* Exit code 0 means that the contract passed on every deployment that decides
\* it, that the artifact asked for was written and that the report was
\* delivered, with no exception lost on the way; and an artifact is that of a
\* finished run, never of one that raised, not even while its listeners closed.
SuccessIsComplete ==
    LET finished == Judges => Len(results) = leg
    IN /\ code = 0 =>
             /\ finished /\ Passed
             /\ wantsOutput => saved
             /\ reported
             /\ raised = "none"
       /\ saved => raised = "none" /\ finished

\* Whatever the format, the report tells what the exit code tells: the totals
\* of the JUnit document are those of its cases and show a failure or an error
\* exactly for a failed result, the terminal explains every failed scenario,
\* the evidence of a failed run has a record, and names every failed trial
\* unless it says it is truncated; a diff shows a regression only if it fails,
\* and a check that did not pass if it fails.
ReportsAgree ==
    (reported /\ Judges) =>
        LET r == Last(results)
            cases == JUnitCases(r)
            totals == JUnitTotals(r)
            Count(kind) == Cardinality({k \in DOMAIN cases : cases[k] = kind})
            records == EvidenceRecords(r)
            recorded == {c \in Trials(r) : [kind |-> "trial", of |-> c] \in records}
            changes == DiffChecks(results[1], r, Contract)
        IN /\ code = 0 <=> totals.failures + totals.errors = 0
           /\ totals = [tests |-> Cardinality(DOMAIN cases), failures |-> Count("failure"),
                        errors |-> Count("error"), skipped |-> Count("skipped")]
           /\ \A k \in DOMAIN r.scenarios :
                 ScenarioPassed(r.scenarios[k]) <=> ~\E d \in Diagnostics(r) : d[1] = k
           /\ command \in {"run", "replay"} /\ saved =>
                 /\ code # 0 => records # {}
                 /\ Manifest(r).truncated \/ FailedTrials(r) = recorded
           /\ command = "diff" =>
                 LET Shown(change) == \E k \in DOMAIN changes : changes[k].change = change
                     Bad == \E k \in DOMAIN changes : changes[k].candidate # "passed"
                 IN (Shown("regression") => code # 0) /\ (code # 0 => Bad)
=============================================================================
