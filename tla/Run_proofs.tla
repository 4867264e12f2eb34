------------------------------ MODULE Run_proofs ------------------------------
(***************************************************************************)
(* What a command opens and what it reports, for every number of jobs,     *)
(* every contract and every outcome of its scenarios.                      *)
(*                                                                         *)
(* The argument follows the exit stack.  While the command sets up, its    *)
(* stage determines what the stack holds; while it unwinds, the stack is   *)
(* one of seven (Stacks).  The listeners are those on the stack unless an  *)
(* exception cut a close short, the session is connected exactly while it  *)
(* is on the stack, and the phase of the session determines its            *)
(* transports.  The results are those of the legs that ran.                *)
(*                                                                         *)
(* What the reports say of a suite is proved of any suite whose untolerated*)
(* scenarios have a trial that did not pass (Explained), by counting       *)
(* places; ResultsInv says that the suites of a command are such.          *)
(***************************************************************************)
EXTENDS Run, FiniteSetTheorems, SequenceTheorems, TLAPS

Setup == {"connect", "receiver", "downstream", "card", "scenarios"}
Stages == Setup \union {"options", "prepare", "unwind", "save", "report", "exit"}
Names == {"demo", "session", "receiver", "downstream"}
Suites == [card : Tested, scenarios : Seq(Scenarios)]
Clients == {"client", "lifecycle"}
Resting == {"idle", "closed", "failed"}
Failing == {"failing", "failingLifecycle", "failed"}

\* What Init says of the options, which no step changes.
OptionsInv ==
    /\ command \in Commands
    /\ jobs \in Nat \ {0}
    /\ push \in BOOLEAN /\ delegation \in BOOLEAN /\ checksCard \in BOOLEAN
    /\ cassetteCard \in BOOLEAN /\ wantsOutput \in BOOLEAN
    /\ command \in {"init", "check", "demo"} => ~push /\ ~delegation
    /\ command \in {"diff", "check", "demo"} => ~wantsOutput

TypeInv ==
    /\ stage \in Stages
    /\ phase \in A2ASession!Phases
    /\ streams \in BOOLEAN
    /\ transports \subseteq Clients
    /\ raised \in Classes \union {"none"}
    /\ leg \in {1, 2}
    /\ results \in Seq(Suites)
    /\ card \in Tested
    /\ saved \in BOOLEAN

-----------------------------------------------------------------------------
(* The exit stack.                                                          *)

Hosted == IF command = "demo" THEN <<"demo">> ELSE <<>>
Opened == IF command = "demo" THEN <<"demo", "session">> ELSE <<"session">>
Received == IF push THEN <<"session", "receiver">> ELSE Opened
Ready ==
    IF command = "replay" THEN <<>>
    ELSE IF ~delegation THEN Received
    ELSE IF push THEN <<"session", "receiver", "downstream">>
    ELSE <<"session", "downstream">>

Stacks ==
    {<<>>, <<"demo">>, <<"session">>, <<"demo", "session">>, <<"session", "receiver">>,
     <<"session", "downstream">>, <<"session", "receiver", "downstream">>}

StackInv ==
    /\ stack \in Stacks
    /\ stage \notin Setup \union {"unwind"} => stack = <<>>
    /\ stage = "connect" => stack = Hosted
    /\ stage = "receiver" => stack = Opened
    /\ stage = "downstream" => stack = Received
    /\ stage \in {"card", "scenarios"} => stack = Ready

Entered == ToSet(stack)

\* An exception that is in flight while the stack unwinds may leave a listener.
ListenInv ==
    /\ listeners \subseteq Names
    /\ stage \notin {"unwind", "exit"} \/ raised = "none" =>
          listeners = Entered \ {"session"}

-----------------------------------------------------------------------------
(* The session.                                                             *)

TransportInv ==
    /\ phase \in Resting => transports = {}
    /\ phase \in {"card", "legacy", "validate", "create", "lifecycle"} => transports = {"client"}
    /\ phase = "lifecycle" => streams
    /\ phase = "connected" => transports = IF streams THEN Clients ELSE {"client"}
    /\ phase \in {"closing", "failingLifecycle"} => transports \subseteq {"lifecycle"}

PhaseInv ==
    /\ stage \in {"options", "prepare"} => phase = "idle"
    /\ stage = "connect" => phase # "closing"
    /\ stage \in {"receiver", "downstream"} => phase = "connected"
    /\ stage \in {"card", "scenarios"} /\ command # "replay" => phase = "connected"
    /\ stage \in {"card", "scenarios"} /\ command = "replay" => phase \in Resting
    /\ stage = "unwind" =>
          IF "session" \in Entered THEN phase \in {"connected", "closing"}
          ELSE phase \in Resting
    /\ stage \in {"save", "report", "exit"} => phase \in Resting

\* An exception is in flight while connecting fails and while the stack unwinds.
RaisedInv ==
    /\ stage \notin {"connect", "unwind", "exit"} => raised = "none"
    /\ stage = "connect" => (raised # "none" <=> phase \in Failing)
    /\ phase = "failed" => raised # "none"

-----------------------------------------------------------------------------
(* The run.                                                                 *)

Accepted ==
    /\ command = "replay" => ~push /\ ~delegation
    /\ delegation => jobs = 1

\* What passed _prepared_config stays accepted, for the second leg too.
AcceptedInv ==
    /\ stage \in Setup \/ (stage = "unwind" /\ raised = "none") => Accepted
    /\ command = "replay" => stage \notin {"connect", "receiver", "downstream"}
    /\ stage = "scenarios" /\ checksCard => card = "holds"

Finished == Judges => Len(results) = leg

\* Each leg adds one suite, and it is there once the stack unwinds in peace.
LegInv ==
    /\ leg = 2 => command = "diff"
    /\ stage \in {"options", "prepare"} => leg = 1
    /\ stage \in Setup \union {"options", "prepare"} => Len(results) = leg - 1
    /\ stage = "unwind" /\ raised = "none" => Finished
    /\ stage \in {"save", "report"} => Finished

EndInv ==
    /\ code # Running <=> stage = "exit"
    /\ saved => stage \in {"report", "exit"}
    /\ saved => raised = "none" /\ Finished
    /\ stage = "report" /\ wantsOutput => saved
    /\ code = 0 => Finished /\ Passed /\ (wantsOutput => saved) /\ reported /\ raised = "none"

RunInv ==
    /\ OptionsInv
    /\ TypeInv
    /\ StackInv
    /\ ListenInv
    /\ TransportInv
    /\ PhaseInv
    /\ RaisedInv
    /\ AcceptedInv
    /\ LegInv
    /\ EndInv

-----------------------------------------------------------------------------
(* What the parts of the argument rest on.                                  *)

LEMMA EnteredBy ==
    /\ ToSet(<<>>) = {}
    /\ ToSet(<<"demo">>) = {"demo"}
    /\ ToSet(<<"session">>) = {"session"}
    /\ ToSet(<<"demo", "session">>) = {"demo", "session"}
    /\ ToSet(<<"session", "receiver">>) = {"session", "receiver"}
    /\ ToSet(<<"session", "downstream">>) = {"session", "downstream"}
    /\ ToSet(<<"session", "receiver", "downstream">>) = {"session", "receiver", "downstream"}
BY DEF ToSet

LEMMA TwoIsAppend ==
    ASSUME NEW S, NEW a \in S, NEW b \in S
    PROVE  Append(<<a>>, b) = <<a, b>>
<1> DEFINE s == Append(<<a>>, b)
           t == <<a, b>>
<1>1. s \in Seq(S) /\ Len(s) = 2 /\ s[1] = a /\ s[2] = b
  OBVIOUS
<1>2. t \in Seq(S) /\ Len(t) = 2 /\ t[1] = a /\ t[2] = b
  OBVIOUS
<1> HIDE DEF s, t
<1>3. s = t
  BY <1>1, <1>2, SeqEqual
<1> QED
  BY <1>3 DEF s, t

LEMMA ThreeIsAppend ==
    ASSUME NEW S, NEW a \in S, NEW b \in S, NEW c \in S
    PROVE  Append(<<a, b>>, c) = <<a, b, c>>
<1> DEFINE s == Append(<<a, b>>, c)
           t == <<a, b, c>>
<1>1. s \in Seq(S) /\ Len(s) = 3 /\ s[1] = a /\ s[2] = b /\ s[3] = c
  OBVIOUS
<1>2. t \in Seq(S) /\ Len(t) = 3 /\ t[1] = a /\ t[2] = b /\ t[3] = c
  OBVIOUS
<1> HIDE DEF s, t
<1>3. s = t
  BY <1>1, <1>2, SeqEqual
<1> QED
  BY <1>3 DEF s, t

LEMMA StacksGrow ==
    /\ Append(<<>>, "demo") = <<"demo">>
    /\ Append(<<>>, "session") = <<"session">>
    /\ Append(<<"demo">>, "session") = <<"demo", "session">>
    /\ Append(<<"session">>, "receiver") = <<"session", "receiver">>
    /\ Append(<<"session">>, "downstream") = <<"session", "downstream">>
    /\ Append(<<"session", "receiver">>, "downstream") = <<"session", "receiver", "downstream">>
<1>1. Append(<<>>, "demo") = <<"demo">> /\ Append(<<>>, "session") = <<"session">>
  OBVIOUS
<1>2. \A a, b \in Names : Append(<<a>>, b) = <<a, b>>
  BY TwoIsAppend
<1>3. \A a, b, c \in Names : Append(<<a, b>>, c) = <<a, b, c>>
  BY ThreeIsAppend
<1> QED
  BY <1>1, <1>2, <1>3 DEF Names

LEMMA LastLeaves ==
    ASSUME NEW S, NEW t \in Seq(S), NEW x \in S, NEW s, s = Append(t, x)
    PROVE  /\ Front(s) = t /\ Last(s) = x
           /\ ToSet(s) = ToSet(t) \union {x}
<1>1. Front(s) = t /\ Last(s) = x
  BY DEF Front, Last
<1>2. ToSet(s) = ToSet(t) \union {x}
  BY DEF ToSet
<1> QED
  BY <1>1, <1>2

\* Of the stack that is left by its last entry.
Unwinds(s, t, x) ==
    /\ Front(s) = t /\ t \in Stacks
    /\ Last(s) = x /\ x \in Names
    /\ x \in ToSet(s)
    /\ ToSet(t) = ToSet(s) \ {x}

LEMMA StacksUnwind ==
    ASSUME NEW s \in Stacks, s # <<>>
    PROVE  \E t \in Stacks, x \in Names : Unwinds(s, t, x)
<1>1. \A t \in Seq(Names), x \in Names : \A u : u = Append(t, x) =>
         /\ Front(u) = t /\ Last(u) = x
         /\ ToSet(u) = ToSet(t) \union {x}
  BY LastLeaves
<1>2. /\ <<>> \in Seq(Names) /\ <<"demo">> \in Seq(Names) /\ <<"session">> \in Seq(Names)
      /\ <<"session", "receiver">> \in Seq(Names)
  BY DEF Names
<1>3. /\ <<>> \in Stacks /\ <<"demo">> \in Stacks /\ <<"session">> \in Stacks
      /\ <<"session", "receiver">> \in Stacks
  BY DEF Stacks
<1>4. \A t \in Stacks, x \in Names :
         t \in Seq(Names) /\ s = Append(t, x) /\ x \notin ToSet(t) => Unwinds(s, t, x)
  <2> SUFFICES ASSUME NEW t \in Stacks, NEW x \in Names,
                      t \in Seq(Names), s = Append(t, x), x \notin ToSet(t)
               PROVE  Unwinds(s, t, x)
    OBVIOUS
  <2>1. Front(s) = t /\ Last(s) = x /\ ToSet(s) = ToSet(t) \union {x}
    BY <1>1
  <2> QED
    BY <2>1 DEF Unwinds
<1>5. s \in {<<"demo">>, <<"session">>, <<"demo", "session">>, <<"session", "receiver">>,
             <<"session", "downstream">>, <<"session", "receiver", "downstream">>}
  BY Zenon DEF Stacks
<1>6. \A x \in Names : x \notin ToSet(<<>>)
  BY EnteredBy
<1>7. "session" \notin ToSet(<<"demo">>)
  BY EnteredBy
<1>8. "receiver" \notin ToSet(<<"session">>) /\ "downstream" \notin ToSet(<<"session">>)
  BY EnteredBy
<1>9. "downstream" \notin ToSet(<<"session", "receiver">>)
  BY EnteredBy
<1>10. "demo" \in Names /\ "session" \in Names /\ "receiver" \in Names /\ "downstream" \in Names
  BY DEF Names
<1> QED
  BY <1>2, <1>3, <1>4, <1>5, <1>6, <1>7, <1>8, <1>9, <1>10, StacksGrow, Zenon

LEMMA StacksAreInjective ==
    ASSUME NEW s \in Stacks
    PROVE  IsInjective(s)
BY DEF Stacks, IsInjective

\* A step of connecting or of discovering keeps the transports to the phase.
LEMMA Connecting ==
    ASSUME phase \in A2ASession!Phases, streams \in BOOLEAN, transports \subseteq Clients,
           raised \in Classes \union {"none"},
           TransportInv, phase # "closing", raised # "none" <=> phase \in Failing,
           phase \notin {"connected", "failed"},
           A2ASession!Connect \/ A2ASession!Discover
    PROVE  /\ phase' \in A2ASession!Phases /\ streams' \in BOOLEAN
           /\ transports' \subseteq Clients /\ raised' \in Classes \union {"none"}
           /\ TransportInv'
           /\ phase' # "closing"
           /\ raised' # "none" <=> phase' \in Failing
<1> USE DEF A2ASession!Phases, Classes, A2ASession!Classes, Clients, Resting, Failing,
            TransportInv, A2ASession!Go, A2ASession!Fail
<1>1. CASE A2ASession!Open
  BY <1>1 DEF A2ASession!Open
<1>2. CASE A2ASession!ResolveCard
  BY <1>2 DEF A2ASession!ResolveCard, A2ASession!CardArrives, A2ASession!CardFails
<1>3. CASE A2ASession!ResolveLegacyCard
  BY <1>3 DEF A2ASession!ResolveLegacyCard, A2ASession!CardArrives, A2ASession!CardFails
<1>4. CASE A2ASession!ValidateCard
  BY <1>4 DEF A2ASession!ValidateCard
<1>5. CASE A2ASession!CloseFailed
  BY <1>5 DEF A2ASession!CloseFailed, A2ASession!CloseOne
<1>6. CASE A2ASession!CloseFailedLifecycle
  BY <1>6 DEF A2ASession!CloseFailedLifecycle, A2ASession!CloseOne
<1>7. CASE A2ASession!CreateClient
  BY <1>7 DEF A2ASession!CreateClient, A2ASession!CreateFails
<1>8. CASE A2ASession!CreateLifecycleClient
  BY <1>8 DEF A2ASession!CreateLifecycleClient, A2ASession!CreateFails
<1>9. CASE A2ASession!Discovered
  BY <1>9 DEF A2ASession!Discovered
<1> QED
  BY <1>1, <1>2, <1>3, <1>4, <1>5, <1>6, <1>7, <1>8, <1>9
     DEF A2ASession!Connect, A2ASession!Discover, A2ASession!Start

\* A step of close leaves the session closing or closed, and an exception in
\* flight in flight.
LEMMA Closing ==
    ASSUME phase \in A2ASession!Phases, streams \in BOOLEAN, transports \subseteq Clients,
           raised \in Classes \union {"none"},
           TransportInv,
           A2ASession!Close
    PROVE  /\ phase' \in {"closing", "closed"} /\ streams' \in BOOLEAN
           /\ transports' \subseteq Clients /\ raised' \in Classes \union {"none"}
           /\ TransportInv'
           /\ raised' = "none" => raised = "none"
BY DEF A2ASession!Phases, Classes, A2ASession!Classes, Clients, Resting, Failing,
       TransportInv, A2ASession!Close, A2ASession!CloseClient, A2ASession!CloseLifecycle,
       A2ASession!CloseOne

-----------------------------------------------------------------------------

LEMMA PassedStays ==
    ASSUME UNCHANGED <<command, results>>
    PROVE  Passed' <=> Passed
BY DEF Passed, Judges

LEMMA Entering ==
    ASSUME StackInv, stack \in Seq(Names), NEW name \in Names, stack' = Append(stack, name)
    PROVE  Entered' = Entered \union {name}
BY LastLeaves DEF Entered

LEMMA StacksAreSequences == Stacks \subseteq Seq(Names)
BY DEF Stacks, Names

\* What is entered when a step of the set-up begins.
LEMMA EnteredAt ==
    ASSUME OptionsInv, StackInv, AcceptedInv
    PROVE  /\ stage \notin Setup \union {"unwind"} => Entered = {}
           /\ stage = "connect" => "session" \notin Entered /\ Entered \subseteq {"demo"}
           /\ stage \in {"receiver", "downstream"} => "session" \in Entered
           /\ stage = "downstream" /\ push => "receiver" \in Entered
           /\ stage \in {"card", "scenarios"} =>
                 /\ "session" \in Entered <=> command # "replay"
                 /\ push => "receiver" \in Entered
                 /\ delegation => "downstream" \in Entered
<1>1. stage \notin Setup \union {"unwind"} => Entered = {}
  BY EnteredBy, Zenon DEF StackInv, Entered
<1>2. stage = "connect" => "session" \notin Entered /\ Entered \subseteq {"demo"}
  <2>1. ToSet(Hosted) \subseteq {"demo"}
    BY EnteredBy DEF Hosted
  <2> QED
    BY <2>1 DEF StackInv, Entered
<1>3. "session" \in ToSet(Opened) /\ "session" \in ToSet(Received)
  BY EnteredBy DEF Opened, Received
<1>4. push => "receiver" \in ToSet(Received)
  BY EnteredBy DEF Received
<1>5. /\ "session" \in ToSet(Ready) <=> command # "replay"
      /\ command # "replay" /\ push => "receiver" \in ToSet(Ready)
      /\ command # "replay" /\ delegation => "downstream" \in ToSet(Ready)
  BY <1>3, <1>4, EnteredBy DEF Ready, OptionsInv
<1> QED
  BY <1>1, <1>2, <1>3, <1>4, <1>5, Zenon DEF StackInv, Entered, AcceptedInv, Accepted, Setup

LEMMA RunStarts == Init => RunInv
<1> SUFFICES ASSUME Init PROVE RunInv
  OBVIOUS
<1> USE DEF Init, A2ASession!Init, Classes, A2ASession!Classes, A2ASession!Phases
<1>1. OptionsInv
  BY JobsAssumption DEF OptionsInv
<1>2. TypeInv
  <2>1. <<>> \in Seq(Suites)
    OBVIOUS
  <2> QED
    BY <2>1 DEF TypeInv, Stages, Setup, Tested, Clients
<1>3. StackInv /\ ListenInv
  BY EnteredBy DEF StackInv, ListenInv, Stacks, Entered, Setup, Names
<1>4. TransportInv /\ PhaseInv /\ RaisedInv
  BY DEF TransportInv, PhaseInv, RaisedInv, Resting, Failing
<1>5. AcceptedInv /\ LegInv /\ EndInv
  BY DEF AcceptedInv, LegInv, EndInv, Setup, Running, Finished
<1> QED
  BY <1>1, <1>2, <1>3, <1>4, <1>5 DEF RunInv

LEMMA RunSteps == RunInv /\ [Next]_vars => RunInv'
<1> SUFFICES ASSUME RunInv, [Next]_vars
             PROVE  RunInv'
  OBVIOUS
<1> USE DEF RunInv
<1>0. OptionsInv'
  <2>1. UNCHANGED options
    BY DEF Next, vars, CheckOptions, Prepare, StartDemo, Connect, ConnectReturns, StartReceiver,
           StartDownstream, CheckCard, RunScenarios, CloseSession, CloseListener, LeaveLoop,
           Save, Report
  <2> QED
    BY <2>1 DEF OptionsInv, options
<1>1. CASE CheckOptions
  <2> USE <1>1 DEF CheckOptions, Exit, Goto, options, session
  <2>s. Entered' = Entered
    BY DEF Entered
  <2>1. TypeInv'
    BY DEF TypeInv, Stages
  <2>2. StackInv'
    BY DEF StackInv, Hosted, Opened, Received, Ready, Stacks, Setup
  <2>3. ListenInv'
    BY <2>s DEF ListenInv, Names
  <2>4. TransportInv'
    BY DEF TransportInv
  <2>5. PhaseInv'
    BY DEF PhaseInv, Resting
  <2>6. RaisedInv'
    BY DEF RaisedInv
  <2>7. AcceptedInv'
    BY DEF AcceptedInv, Accepted, Setup
  <2>8. LegInv'
    BY DEF LegInv, Finished
  <2>9. EndInv'
    BY DEF EndInv, Finished, Running
  <2> QED
    BY <1>0, <2>1, <2>2, <2>3, <2>4, <2>5, <2>6, <2>7, <2>8, <2>9
<1>2. CASE Prepare
  <2> USE <1>2 DEF Prepare, Raise, Goto, RefusedBy, AfterPrepare, options, session
  <2>s. Entered' = Entered
    BY DEF Entered
  <2>1. TypeInv'
    BY DEF TypeInv, Stages, Setup, Classes, A2ASession!Classes
  <2>2. StackInv'
    BY DEF StackInv, Hosted, Opened, Received, Ready, Stacks, Setup
  <2>3. ListenInv'
    BY <2>s DEF ListenInv, Names
  <2>4. TransportInv'
    BY DEF TransportInv
  <2>5. PhaseInv'
    BY <2>s, EnteredAt DEF PhaseInv, Resting, Setup
  <2>6. RaisedInv'
    BY DEF RaisedInv, Failing, PhaseInv, Resting
  <2>7. AcceptedInv'
    BY DEF AcceptedInv, Accepted, Setup, OptionsInv, RefusedBy, AfterPrepare
  <2>8. LegInv'
    BY DEF LegInv, Finished, Judges
  <2>9. EndInv'
    BY DEF EndInv, Finished, Running, OptionsInv
  <2> QED
    BY <1>0, <2>1, <2>2, <2>3, <2>4, <2>5, <2>6, <2>7, <2>8, <2>9
<1>3. CASE StartDemo
  <2> USE <1>3 DEF StartDemo, Listen, FailToListen, Raise, Goto, options, session
  <2>s. /\ UNCHANGED stack => Entered' = Entered
        /\ stack' = Append(stack, "demo") => Entered' = Entered \union {"demo"}
    BY Entering, StacksAreSequences DEF Names, StackInv, Entered
  <2>1. TypeInv'
    BY DEF TypeInv, Stages, Setup, Classes, A2ASession!Classes
  <2>2. StackInv'
    BY StacksGrow, Zenon DEF StackInv, Hosted, Opened, Received, Ready, Stacks, Setup
  <2>3. ListenInv'
    BY <2>s DEF ListenInv, Names
  <2>4. TransportInv'
    BY DEF TransportInv
  <2>5. PhaseInv'
    BY <2>s, EnteredAt DEF PhaseInv, Resting, Setup
  <2>6. RaisedInv'
    BY DEF RaisedInv, Failing, PhaseInv, Resting
  <2>7. AcceptedInv'
    BY DEF AcceptedInv, Accepted, OptionsInv
  <2>8. LegInv'
    BY DEF LegInv, Finished
  <2>9. EndInv'
    BY DEF EndInv, Finished, Running
  <2> QED
    BY <1>0, <2>1, <2>2, <2>3, <2>4, <2>5, <2>6, <2>7, <2>8, <2>9
<1>4. CASE Connect
  <2> USE <1>4 DEF Connect, options, session
  <2>s. Entered' = Entered
    BY DEF Entered
  <2>a. /\ phase' \in A2ASession!Phases /\ streams' \in BOOLEAN
        /\ transports' \subseteq Clients /\ raised' \in Classes \union {"none"}
        /\ TransportInv'
        /\ phase' # "closing"
        /\ raised' # "none" <=> phase' \in Failing
    BY Connecting DEF TypeInv, PhaseInv, RaisedInv
  <2>1. TypeInv'
    BY <2>a DEF TypeInv, Stages, Setup, Classes, A2ASession!Classes, Tested
  <2>2. StackInv'
    BY DEF StackInv, Hosted, Opened, Received, Ready, Stacks
  <2>3. ListenInv'
    BY <2>s DEF ListenInv, Names
  <2>4. TransportInv'
    BY <2>a DEF TransportInv
  <2>5. PhaseInv'
    BY <2>s, <2>a DEF PhaseInv, Resting, Setup, TypeInv
  <2>6. RaisedInv'
    BY <2>s, <2>a DEF RaisedInv, Setup, Failing, PhaseInv, Resting, TypeInv
  <2>7. AcceptedInv'
    BY DEF AcceptedInv, Accepted
  <2>8. LegInv'
    BY DEF LegInv, Finished
  <2>9. EndInv'
    BY DEF EndInv, Finished, Running
  <2> QED
    BY <1>0, <2>1, <2>2, <2>3, <2>4, <2>5, <2>6, <2>7, <2>8, <2>9
<1>5. CASE ConnectReturns
  <2> USE <1>5 DEF ConnectReturns, Goto, options, session
  <2>s. /\ UNCHANGED stack => Entered' = Entered
        /\ stack' = Append(stack, "session") => Entered' = Entered \union {"session"}
    BY Entering, StacksAreSequences DEF Names, StackInv, Entered
  <2>1. TypeInv'
    BY DEF TypeInv, Stages, Setup
  <2>2. StackInv'
    BY StacksGrow, Zenon DEF StackInv, Hosted, Opened, Received, Ready, Stacks, Setup
  <2>3. ListenInv'
    BY <2>s DEF ListenInv, Names
  <2>4. TransportInv'
    BY DEF TransportInv
  <2>5. PhaseInv'
    BY <2>s, EnteredAt DEF PhaseInv, Resting
  <2>6. RaisedInv'
    BY DEF RaisedInv, Failing
  <2>7. AcceptedInv'
    BY DEF AcceptedInv, Accepted, Setup
  <2>8. LegInv'
    BY DEF LegInv, Setup, Finished, Judges, RaisedInv
  <2>9. EndInv'
    BY DEF EndInv, Finished, Running
  <2> QED
    BY <1>0, <2>1, <2>2, <2>3, <2>4, <2>5, <2>6, <2>7, <2>8, <2>9
<1>6. CASE StartReceiver
  <2> USE <1>6 DEF StartReceiver, Listen, FailToListen, SkipListener, Raise, Goto, options, session
  <2>s. /\ UNCHANGED stack => Entered' = Entered
        /\ stack' = Append(stack, "receiver") => Entered' = Entered \union {"receiver"}
    BY Entering, StacksAreSequences DEF Names, StackInv, Entered
  <2>1. TypeInv'
    BY DEF TypeInv, Stages, Setup, Classes, A2ASession!Classes
  <2>2. StackInv'
    BY StacksGrow, Zenon DEF StackInv, Hosted, Opened, Received, Ready, Stacks, Setup, OptionsInv
  <2>3. ListenInv'
    BY <2>s DEF ListenInv, Names
  <2>4. TransportInv'
    BY DEF TransportInv
  <2>5. PhaseInv'
    BY <2>s, EnteredAt DEF PhaseInv
  <2>6. RaisedInv'
    BY DEF RaisedInv
  <2>7. AcceptedInv'
    BY DEF AcceptedInv, Accepted, Setup
  <2>8. LegInv'
    BY DEF LegInv, Setup, Finished
  <2>9. EndInv'
    BY DEF EndInv, Finished, Running
  <2> QED
    BY <1>0, <2>1, <2>2, <2>3, <2>4, <2>5, <2>6, <2>7, <2>8, <2>9
<1>7. CASE StartDownstream
  <2> USE <1>7
     DEF StartDownstream, Listen, FailToListen, SkipListener, Raise, Goto, options, session
  <2>s. /\ UNCHANGED stack => Entered' = Entered
        /\ stack' = Append(stack, "downstream") => Entered' = Entered \union {"downstream"}
    BY Entering, StacksAreSequences DEF Names, StackInv, Entered
  <2>1. TypeInv'
    BY DEF TypeInv, Stages, Setup, Classes, A2ASession!Classes
  <2>2. StackInv'
    BY StacksGrow, Zenon
       DEF StackInv, Hosted, Opened, Received, Ready, Stacks, Setup, OptionsInv, AcceptedInv
  <2>3. ListenInv'
    BY <2>s DEF ListenInv, Names
  <2>4. TransportInv'
    BY DEF TransportInv
  <2>5. PhaseInv'
    BY <2>s, EnteredAt DEF PhaseInv, AcceptedInv
  <2>6. RaisedInv'
    BY DEF RaisedInv, AcceptedInv
  <2>7. AcceptedInv'
    BY DEF AcceptedInv, Accepted, Setup
  <2>8. LegInv'
    BY DEF LegInv, Setup, Finished
  <2>9. EndInv'
    BY DEF EndInv, Finished, Running
  <2> QED
    BY <1>0, <2>1, <2>2, <2>3, <2>4, <2>5, <2>6, <2>7, <2>8, <2>9
<1>8. CASE CheckCard
  <2> USE <1>8 DEF CheckCard, Raise, Goto, options, session
  <2>s. Entered' = Entered
    BY DEF Entered
  <2>a. results' \in Seq(Suites) /\ card' \in Tested
    <3>1. card' \in Tested
      BY DEF TypeInv, Tested
    <3>2. <<>> \in Seq(Scenarios)
      OBVIOUS
    <3>3. Suite(<<>>) \in Suites
      BY <3>1, <3>2 DEF Suite, Suites
    <3> QED
      BY <3>1, <3>3 DEF TypeInv
  <2>1. TypeInv'
    BY <2>a DEF TypeInv, Stages, Setup, Classes, A2ASession!Classes
  <2>2. StackInv'
    BY DEF StackInv, Hosted, Opened, Received, Ready, Stacks, Setup
  <2>3. ListenInv'
    BY <2>s DEF ListenInv, Names
  <2>4. TransportInv'
    BY DEF TransportInv
  <2>5. PhaseInv'
    BY <2>s, EnteredAt DEF PhaseInv
  <2>6. RaisedInv'
    BY DEF RaisedInv
  <2>7. AcceptedInv'
    BY DEF AcceptedInv, Accepted, Setup
  <2>8. LegInv'
    BY DEF LegInv, Setup, Finished, TypeInv
  <2>9. EndInv'
    BY DEF EndInv, Finished, Running
  <2> QED
    BY <1>0, <2>1, <2>2, <2>3, <2>4, <2>5, <2>6, <2>7, <2>8, <2>9
<1>9. CASE RunScenarios
  <2> USE <1>9 DEF RunScenarios, Raise, Goto, options, session
  <2>s. Entered' = Entered
    BY DEF Entered
  <2>a. results' \in Seq(Suites) /\ card' \in Tested
    <3>1. \A o \in Outcomes : Suite(o) \in Suites
      BY OutcomesAssumption DEF Suite, Suites, TypeInv
    <3> QED
      BY <3>1 DEF TypeInv
  <2>1. TypeInv'
    BY <2>a DEF TypeInv, Stages, Classes, A2ASession!Classes
  <2>2. StackInv'
    BY DEF StackInv, Hosted, Opened, Received, Ready, Stacks
  <2>3. ListenInv'
    BY <2>s DEF ListenInv, Names
  <2>4. TransportInv'
    BY DEF TransportInv
  <2>5. PhaseInv'
    BY <2>s, EnteredAt DEF PhaseInv
  <2>6. RaisedInv'
    BY DEF RaisedInv
  <2>7. AcceptedInv'
    BY DEF AcceptedInv, Accepted, Setup
  <2>8. LegInv'
    BY DEF LegInv, Setup, Finished, TypeInv
  <2>9. EndInv'
    BY DEF EndInv, Finished, Running
  <2> QED
    BY <1>0, <2>1, <2>2, <2>3, <2>4, <2>5, <2>6, <2>7, <2>8, <2>9
<1>10. CASE CloseSession
  <2> USE <1>10 DEF CloseSession, options, session
  <2>a. PICK t \in Stacks, x \in Names : Unwinds(stack, t, x)
    BY StacksUnwind DEF StackInv
  <2>s. /\ t = Front(stack) /\ x = Last(stack)
        /\ x \in Entered /\ ToSet(t) = Entered \ {x}
    BY <2>a DEF Unwinds, Entered
  <2>b. stack' \in Stacks /\ Entered' = IF phase' = "closed" THEN Entered \ {"session"} ELSE Entered
    BY <2>s DEF Entered, StackInv
  <2>c. /\ phase' \in {"closing", "closed"} /\ streams' \in BOOLEAN
        /\ transports' \subseteq Clients /\ raised' \in Classes \union {"none"}
        /\ TransportInv'
        /\ raised' = "none" => raised = "none"
    BY Closing DEF TypeInv
  <2>1. TypeInv'
    BY <2>c DEF TypeInv, Stages, Setup, Classes, A2ASession!Classes, Tested, A2ASession!Phases
  <2>2. StackInv'
    BY <2>b DEF StackInv
  <2>3. ListenInv'
    BY <2>s, <2>b, <2>c DEF ListenInv, RaisedInv, Setup, Names, TypeInv
  <2>4. TransportInv'
    BY <2>c DEF TransportInv, A2ASession!Phases
  <2>5. PhaseInv'
    BY <2>s, <2>b, <2>c DEF PhaseInv, Resting, Setup, TypeInv
  <2>6. RaisedInv'
    BY <2>s, <2>b, <2>c DEF RaisedInv, Setup, Failing, PhaseInv, Resting, TypeInv
  <2>7. AcceptedInv'
    BY <2>s, <2>b, <2>c DEF AcceptedInv, Accepted, Setup, OptionsInv, TypeInv
  <2>8. LegInv'
    BY <2>s, <2>b, <2>c DEF LegInv, Setup, Finished, Judges, OptionsInv, TypeInv
  <2>9. EndInv'
    BY DEF EndInv, Finished, Running
  <2> QED
    BY <1>0, <2>1, <2>2, <2>3, <2>4, <2>5, <2>6, <2>7, <2>8, <2>9
<1>11. CASE CloseListener
  <2> USE <1>11 DEF CloseListener, options, session
  <2>a. PICK t \in Stacks, x \in Names : Unwinds(stack, t, x)
    BY StacksUnwind DEF StackInv
  <2>s. /\ t = Front(stack) /\ x = Last(stack)
        /\ x \in Entered /\ ToSet(t) = Entered \ {x}
    BY <2>a DEF Unwinds, Entered
  <2>b. Entered' = Entered \ {Last(stack)} /\ stack' \in Stacks
    BY <2>s DEF Entered
  <2>1. TypeInv'
    BY DEF TypeInv, Stages
  <2>2. StackInv'
    BY <2>b DEF StackInv
  <2>3. ListenInv'
    BY <2>b DEF ListenInv, Names, Classes, A2ASession!Classes
  <2>4. TransportInv'
    BY DEF TransportInv
  <2>5. PhaseInv'
    BY <2>b DEF PhaseInv
  <2>6. RaisedInv'
    BY DEF RaisedInv, Classes, A2ASession!Classes
  <2>7. AcceptedInv'
    BY DEF AcceptedInv, Accepted, Classes, A2ASession!Classes
  <2>8. LegInv'
    BY DEF LegInv, Finished, Judges, Classes, A2ASession!Classes
  <2>9. EndInv'
    BY DEF EndInv, Finished, Running
  <2> QED
    BY <1>0, <2>1, <2>2, <2>3, <2>4, <2>5, <2>6, <2>7, <2>8, <2>9
<1>12. CASE LeaveLoop
  <2> USE <1>12 DEF LeaveLoop, Exit, Goto, ExitCodeOf, AnotherLeg, options, session
  <2>s. Entered' = Entered
    BY DEF Entered
  <2>a. Entered = {}
    BY EnteredBy DEF Entered
  <2>1. TypeInv'
    BY DEF TypeInv, Stages, Setup, Tested
  <2>2. StackInv'
    BY DEF StackInv, Hosted, Opened, Received, Ready, Stacks
  <2>3. ListenInv'
    BY <2>s DEF ListenInv, Names
  <2>4. TransportInv'
    BY DEF TransportInv
  <2>5. PhaseInv'
    BY <2>a DEF PhaseInv, Resting
  <2>6. RaisedInv'
    BY DEF RaisedInv, Failing, PhaseInv, Resting
  <2>7. AcceptedInv'
    BY DEF AcceptedInv, Accepted, Setup
  <2>8. LegInv'
    BY DEF LegInv, Setup, Finished, Judges
  <2>9. EndInv'
    BY DEF EndInv, Finished, Running
  <2> QED
    BY <1>0, <2>1, <2>2, <2>3, <2>4, <2>5, <2>6, <2>7, <2>8, <2>9
<1>13. CASE Save
  <2> USE <1>13 DEF Save, Exit, Goto, ExitCodeOf, options, session
  <2>s. Entered' = Entered
    BY DEF Entered
  <2>1. TypeInv'
    BY DEF TypeInv, Stages
  <2>2. StackInv'
    BY DEF StackInv, Hosted, Opened, Received, Ready, Stacks, Setup
  <2>3. ListenInv'
    BY <2>s DEF ListenInv, Names
  <2>4. TransportInv'
    BY DEF TransportInv
  <2>5. PhaseInv'
    BY DEF PhaseInv
  <2>6. RaisedInv'
    BY DEF RaisedInv
  <2>7. AcceptedInv'
    BY DEF AcceptedInv, Accepted, Setup
  <2>8. LegInv'
    BY DEF LegInv, Setup, Finished, Judges
  <2>9. EndInv'
    BY DEF EndInv, Finished, Judges, Running, RaisedInv, LegInv
  <2> QED
    BY <1>0, <2>1, <2>2, <2>3, <2>4, <2>5, <2>6, <2>7, <2>8, <2>9
<1>14. CASE Report
  <2> USE <1>14 DEF Report, Exit, options, session
  <2>s. Entered' = Entered
    BY DEF Entered
  <2>1. TypeInv'
    BY DEF TypeInv, Stages
  <2>2. StackInv'
    BY DEF StackInv, Hosted, Opened, Received, Ready, Stacks, Setup
  <2>3. ListenInv'
    BY <2>s DEF ListenInv, Names
  <2>4. TransportInv'
    BY DEF TransportInv
  <2>5. PhaseInv'
    BY DEF PhaseInv
  <2>6. RaisedInv'
    BY DEF RaisedInv
  <2>7. AcceptedInv'
    BY DEF AcceptedInv, Accepted, Setup
  <2>8. LegInv'
    BY DEF LegInv, Setup, Finished
  <2>9. EndInv'
    BY PassedStays DEF EndInv, Finished, Judges, Running, RaisedInv, LegInv
  <2> QED
    BY <1>0, <2>1, <2>2, <2>3, <2>4, <2>5, <2>6, <2>7, <2>8, <2>9
<1>15. CASE UNCHANGED vars
  BY <1>0, <1>15, PassedStays
     DEF vars, options, session, TypeInv, StackInv, Hosted, Opened, Received, Ready, ListenInv,
         Entered, TransportInv, PhaseInv, RaisedInv, AcceptedInv, Accepted, LegInv, EndInv,
         Finished, Judges
<1> QED
  BY <1>1, <1>2, <1>3, <1>4, <1>5, <1>6, <1>7, <1>8, <1>9, <1>10, <1>11, <1>12, <1>13, <1>14, <1>15
     DEF Next

LEMMA RunInvariant == Spec => []RunInv
  BY RunStarts, RunSteps, PTL DEF Spec

-----------------------------------------------------------------------------
(* What is derived from one suite.                                          *)

Kinds == {"passed", "failed", "error"}

\* A suite whose untolerated scenarios each have a trial that did not pass.
Explained(r) ==
    /\ r \in Suites
    /\ \A k \in DOMAIN r.scenarios :
          \/ Tolerates(r.scenarios[k])
          \/ PassedTrials(r.scenarios[k]) < Len(r.scenarios[k].trials)

LEMMA ScenarioTypes ==
    ASSUME NEW s \in Scenarios
    PROVE  /\ s.trials \in Seq(Kinds) /\ s.required \in Nat /\ s.latency \in Tested
           /\ DOMAIN s.trials = 1..Len(s.trials) /\ Len(s.trials) \in Nat
           /\ PassedTrials(s) \in Nat /\ PassedTrials(s) <= Len(s.trials)
           /\ PassedTrials(s) < Len(s.trials) <=>
                 \E j \in DOMAIN s.trials : s.trials[j] # "passed"
<1> DEFINE passed == {k \in DOMAIN s.trials : s.trials[k] = "passed"}
<1>1. /\ s.trials \in Seq(Kinds) /\ s.required \in Nat /\ s.latency \in Tested
      /\ DOMAIN s.trials = 1..Len(s.trials) /\ Len(s.trials) \in Nat
  BY DEF Scenarios, Kinds
<1>2. IsFiniteSet(DOMAIN s.trials) /\ Cardinality(DOMAIN s.trials) = Len(s.trials)
  BY <1>1, FS_Interval
<1>3. /\ IsFiniteSet(passed) /\ Cardinality(passed) <= Len(s.trials)
      /\ Cardinality(passed) \in Nat
      /\ Cardinality(passed) = Len(s.trials) => passed = DOMAIN s.trials
  BY <1>2, FS_Subset, FS_CardinalityType
<1>4. passed = DOMAIN s.trials <=> ~\E j \in DOMAIN s.trials : s.trials[j] # "passed"
  OBVIOUS
<1>5. PassedTrials(s) = Cardinality(passed)
  BY DEF PassedTrials
<1> HIDE DEF passed
<1> QED
  BY <1>1, <1>2, <1>3, <1>4, <1>5

LEMMA SuiteTypes ==
    ASSUME NEW r \in Suites
    PROVE  /\ r.card \in Tested /\ r.scenarios \in Seq(Scenarios)
           /\ DOMAIN r.scenarios = 1..Len(r.scenarios) /\ Len(r.scenarios) \in Nat
           /\ \A k \in DOMAIN r.scenarios : r.scenarios[k] \in Scenarios
  BY DEF Suites

LEMMA ImageIsFinite ==
    ASSUME NEW S, IsFiniteSet(S), NEW f
    PROVE  IsFiniteSet({f[x] : x \in S})
<1> DEFINE T == {f[x] : x \in S}
           g == [x \in S |-> f[x]]
<1>1. g \in Surjection(S, T)
  BY DEF Surjection
<1> HIDE DEF T, g
<1>2. IsFiniteSet(T)
  BY <1>1, FS_Surjection
<1> QED
  BY <1>2 DEF T

\* A place <<k, j>> with positive k and j is a trial of the suite.
LEMMA TrialPlaces ==
    ASSUME NEW r \in Suites
    PROVE  /\ IsFiniteSet(Trials(r))
           /\ \A t \in Trials(r) :
                 /\ t[1] \in DOMAIN r.scenarios /\ t[1] \in Nat /\ t[1] # 0
                 /\ t[2] \in DOMAIN ScenarioOf(r, t).trials /\ t[2] \in Nat /\ t[2] # 0
                 /\ t = <<t[1], t[2]>>
                 /\ ScenarioOf(r, t) \in Scenarios /\ TrialOf(r, t) \in Kinds
           /\ \A k \in DOMAIN r.scenarios : \A j \in DOMAIN r.scenarios[k].trials :
                 /\ <<k, j>> \in Trials(r)
                 /\ ScenarioOf(r, <<k, j>>) = r.scenarios[k]
                 /\ TrialOf(r, <<k, j>>) = r.scenarios[k].trials[j]
<1> DEFINE places(k) == {<<k, j>> : j \in DOMAIN r.scenarios[k].trials}
           rows == [k \in DOMAIN r.scenarios |-> places(k)]
<1>1. /\ DOMAIN r.scenarios = 1..Len(r.scenarios) /\ Len(r.scenarios) \in Nat
      /\ \A k \in DOMAIN r.scenarios : r.scenarios[k] \in Scenarios
  BY SuiteTypes
<1>2. Trials(r) = UNION {rows[k] : k \in DOMAIN r.scenarios}
  BY ZenonT(30) DEF Trials
<1>3. \A k \in DOMAIN r.scenarios : IsFiniteSet(rows[k])
  <2> SUFFICES ASSUME NEW k \in DOMAIN r.scenarios PROVE IsFiniteSet(places(k))
    OBVIOUS
  <2> DEFINE f == [j \in DOMAIN r.scenarios[k].trials |-> <<k, j>>]
             D == DOMAIN r.scenarios[k].trials
  <2>1. IsFiniteSet(D)
    <3>1. D = 1..Len(r.scenarios[k].trials) /\ Len(r.scenarios[k].trials) \in Nat
      BY <1>1, ScenarioTypes
    <3> HIDE DEF D
    <3> QED
      BY <3>1, FS_Interval
  <2>2. IsFiniteSet({f[j] : j \in D})
    <3> HIDE DEF f, D
    <3> QED
      BY <2>1, ImageIsFinite
  <2> QED
    BY <2>2
<1>4. IsFiniteSet({rows[k] : k \in DOMAIN r.scenarios})
  <2> DEFINE D == DOMAIN r.scenarios
  <2>1. IsFiniteSet(D)
    BY <1>1, FS_Interval
  <2> HIDE DEF rows, D
  <2>2. IsFiniteSet({rows[k] : k \in D})
    BY <2>1, ImageIsFinite
  <2> QED
    BY <2>2 DEF D
<1>5. IsFiniteSet(Trials(r))
  <2> HIDE DEF rows
  <2> QED
    BY <1>2, <1>3, <1>4, FS_UNION
<1>6. ASSUME NEW t \in Trials(r)
      PROVE  /\ t[1] \in DOMAIN r.scenarios /\ t[1] \in Nat /\ t[1] # 0
             /\ t[2] \in DOMAIN ScenarioOf(r, t).trials /\ t[2] \in Nat /\ t[2] # 0
             /\ t = <<t[1], t[2]>>
             /\ ScenarioOf(r, t) \in Scenarios /\ TrialOf(r, t) \in Kinds
  <2>k. PICK k \in DOMAIN r.scenarios :
               \E j \in DOMAIN r.scenarios[k].trials : t = <<k, j>>
    BY DEF Trials
  <2>1. PICK j \in DOMAIN r.scenarios[k].trials : t = <<k, j>>
    BY <2>k
  <2>2. /\ r.scenarios[k] \in Scenarios /\ r.scenarios[k].trials \in Seq(Kinds)
        /\ DOMAIN r.scenarios[k].trials = 1..Len(r.scenarios[k].trials)
        /\ Len(r.scenarios[k].trials) \in Nat
    BY <1>1, ScenarioTypes
  <2>3. r.scenarios[k].trials[j] \in Kinds /\ k \in Nat \ {0} /\ j \in Nat \ {0}
    BY <1>1, <2>2
  <2>4. t[1] = k /\ t[2] = j
    BY <2>1
  <2> QED
    BY <2>1, <2>2, <2>3, <2>4 DEF ScenarioOf, TrialOf
<1>7. \A k \in DOMAIN r.scenarios : \A j \in DOMAIN r.scenarios[k].trials :
         /\ <<k, j>> \in Trials(r)
         /\ ScenarioOf(r, <<k, j>>) = r.scenarios[k]
         /\ TrialOf(r, <<k, j>>) = r.scenarios[k].trials[j]
  BY DEF Trials, ScenarioOf, TrialOf
<1> QED
  BY <1>5, <1>6, <1>7

LEMMA CheckPlaces ==
    ASSUME NEW r \in Suites, NEW statuses
    PROVE  /\ IsFiniteSet(LatencyOf(r, statuses)) /\ IsFiniteSet(CardOf(r, statuses))
           /\ Cardinality(CardOf(r, statuses)) = One(r.card \in statuses)
           /\ \A c \in LatencyOf(r, statuses) :
                 /\ c[1] \in DOMAIN r.scenarios /\ c[1] # 0 /\ c[2] = 0 /\ c = <<c[1], 0>>
                 /\ r.scenarios[c[1]].latency \in statuses
           /\ \A k \in DOMAIN r.scenarios :
                 r.scenarios[k].latency \in statuses => <<k, 0>> \in LatencyOf(r, statuses)
           /\ CardOf(r, statuses) \subseteq {<<0, 0>>}
<1> DEFINE D == {k \in DOMAIN r.scenarios : r.scenarios[k].latency \in statuses}
           f == [k \in D |-> <<k, 0>>]
<1>1. IsFiniteSet(D)
  <2>1. IsFiniteSet(DOMAIN r.scenarios)
    BY SuiteTypes, FS_Interval
  <2>2. D \in SUBSET DOMAIN r.scenarios
    OBVIOUS
  <2> HIDE DEF D
  <2> QED
    BY <2>1, <2>2, FS_Subset
<1>2. LatencyOf(r, statuses) = {f[k] : k \in D}
  BY DEF LatencyOf
<1>3. IsFiniteSet(LatencyOf(r, statuses))
  <2> HIDE DEF D, f
  <2> QED
    BY <1>1, <1>2, ImageIsFinite
<1>4. /\ IsFiniteSet(CardOf(r, statuses))
      /\ Cardinality(CardOf(r, statuses)) = One(r.card \in statuses)
  BY FS_EmptySet, FS_Singleton DEF CardOf, One
<1>5. 0 \notin DOMAIN r.scenarios
  BY SuiteTypes
<1> QED
  BY <1>3, <1>4, <1>5 DEF LatencyOf, CardOf

\* A scenario that does not pass by its trials has one that did not pass.
LEMMA FailedScenario ==
    ASSUME NEW r, Explained(r), NEW k \in DOMAIN r.scenarios, ~Tolerates(r.scenarios[k])
    PROVE  \E t \in Trials(r) :
              /\ t[1] = k /\ ScenarioOf(r, t) = r.scenarios[k] /\ TrialOf(r, t) # "passed"
<1>1. r \in Suites /\ r.scenarios[k] \in Scenarios
  BY SuiteTypes DEF Explained
<1>2. PICK j \in DOMAIN r.scenarios[k].trials : r.scenarios[k].trials[j] # "passed"
  BY <1>1, ScenarioTypes DEF Explained
<1>3. /\ <<k, j>> \in Trials(r) /\ <<k, j>>[1] = k
      /\ ScenarioOf(r, <<k, j>>) = r.scenarios[k] /\ TrialOf(r, <<k, j>>) # "passed"
  BY <1>1, <1>2, TrialPlaces
<1> QED
  BY <1>3

LEMMA TrialsOfTypes ==
    ASSUME NEW r \in Suites, NEW kinds, NEW tolerated
    PROVE  /\ IsFiniteSet(TrialsOf(r, kinds, tolerated))
           /\ Cardinality(TrialsOf(r, kinds, tolerated)) \in Nat
           /\ Cardinality(TrialsOf(r, kinds, tolerated)) = 0 <=>
                 TrialsOf(r, kinds, tolerated) = {}
<1>1. IsFiniteSet(Trials(r)) /\ TrialsOf(r, kinds, tolerated) \in SUBSET Trials(r)
  BY TrialPlaces DEF TrialsOf
<1>2. IsFiniteSet(TrialsOf(r, kinds, tolerated))
  BY <1>1, FS_Subset
<1> QED
  BY <1>2, FS_CardinalityType, FS_EmptySet

\* The totals of the JUnit document show a failure or an error exactly for a
\* suite that did not pass.
LEMMA FailuresShow ==
    ASSUME NEW r, Explained(r)
    PROVE  SuitePassed(r) <=> JUnitTotals(r).failures + JUnitTotals(r).errors = 0
<1> DEFINE failed == TrialsOf(r, {"failed"}, FALSE)
           errors == TrialsOf(r, {"error"}, FALSE)
           slow == LatencyOf(r, {"fails"})
<1>1. /\ r \in Suites /\ r.card \in Tested
      /\ \A k \in DOMAIN r.scenarios : r.scenarios[k] \in Scenarios
  BY SuiteTypes DEF Explained
<1>2. /\ Cardinality(failed) \in Nat /\ (Cardinality(failed) = 0 <=> failed = {})
      /\ Cardinality(errors) \in Nat /\ (Cardinality(errors) = 0 <=> errors = {})
  BY <1>1, TrialsOfTypes
<1>3. Cardinality(slow) \in Nat /\ (Cardinality(slow) = 0 <=> slow = {})
  BY <1>1, CheckPlaces, FS_CardinalityType, FS_EmptySet
<1>4. /\ JUnitTotals(r).failures =
            Cardinality(failed) + Cardinality(slow) + One(r.card = "fails")
      /\ JUnitTotals(r).errors = Cardinality(errors)
  BY DEF JUnitTotals, JUnitFailures
<1>5. JUnitTotals(r).failures + JUnitTotals(r).errors = 0 <=>
         failed = {} /\ errors = {} /\ slow = {} /\ r.card # "fails"
  <2>1. One(r.card = "fails") \in Nat /\ (One(r.card = "fails") = 0 <=> r.card # "fails")
    BY DEF One
  <2>2. \A a, b, c, d \in Nat : (a + b + c) + d = 0 <=> a = 0 /\ b = 0 /\ c = 0 /\ d = 0
    OBVIOUS
  <2>3. JUnitTotals(r).failures + JUnitTotals(r).errors =
           (Cardinality(failed) + Cardinality(slow) + One(r.card = "fails"))
              + Cardinality(errors)
    BY <1>4
  <2> DEFINE a == Cardinality(failed)
             b == Cardinality(slow)
             c == One(r.card = "fails")
             d == Cardinality(errors)
  <2>4. a \in Nat /\ b \in Nat /\ c \in Nat /\ d \in Nat
    BY <1>2, <1>3, <2>1
  <2>5. (a + b + c) + d = 0 <=> a = 0 /\ b = 0 /\ c = 0 /\ d = 0
    <3> HIDE DEF a, b, c, d
    <3> QED
      BY <2>2, <2>4
  <2> HIDE DEF failed, errors, slow
  <2> QED
    BY <1>2, <1>3, <2>1, <2>3, <2>5
<1>6. slow = {} <=> \A k \in DOMAIN r.scenarios : r.scenarios[k].latency # "fails"
  BY DEF LatencyOf
<1>7. failed = {} /\ errors = {} <=> \A k \in DOMAIN r.scenarios : Tolerates(r.scenarios[k])
  <2>1. ASSUME NEW k \in DOMAIN r.scenarios, ~Tolerates(r.scenarios[k])
        PROVE  failed \union errors # {}
    <3>1. PICK t \in Trials(r) : /\ t[1] = k /\ ScenarioOf(r, t) = r.scenarios[k]
                                 /\ TrialOf(r, t) # "passed"
      BY <2>1, FailedScenario
    <3>2. TrialOf(r, t) \in {"failed", "error"}
      BY <1>1, <3>1, TrialPlaces DEF Kinds
    <3> QED
      BY <2>1, <3>1, <3>2 DEF TrialsOf, Tolerates
  <2>2. ASSUME NEW t \in failed \union errors
        PROVE  \E k \in DOMAIN r.scenarios : ~Tolerates(r.scenarios[k])
    <3>1. t \in Trials(r) /\ ~Tolerates(ScenarioOf(r, t))
      BY <2>2 DEF TrialsOf, Tolerates
    <3>2. t[1] \in DOMAIN r.scenarios
      BY <1>1, <3>1, TrialPlaces
    <3> QED
      BY <3>1, <3>2 DEF ScenarioOf
  <2> HIDE DEF failed, errors
  <2> QED
    BY <2>1, <2>2
<1> HIDE DEF failed, errors, slow
<1> QED
  BY <1>5, <1>6, <1>7 DEF SuitePassed, ScenarioPassed

LEMMA DisjointCount ==
    ASSUME NEW A, NEW B, NEW C, IsFiniteSet(A), IsFiniteSet(B), IsFiniteSet(C),
           A \cap B = {}, A \cap C = {}, B \cap C = {}
    PROVE  Cardinality(A \union B \union C) = Cardinality(A) + Cardinality(B) + Cardinality(C)
<1>1. /\ IsFiniteSet(A \union B) /\ Cardinality({}) = 0
      /\ Cardinality(A \union B) = Cardinality(A) + Cardinality(B) - Cardinality(A \cap B)
  BY FS_Union, FS_EmptySet
<1>2. (A \union B) \cap C = {}
  OBVIOUS
<1>3. Cardinality(A \union B \union C) =
         Cardinality(A \union B) + Cardinality(C) - Cardinality((A \union B) \cap C)
  BY <1>1, FS_Union
<1>4. /\ Cardinality(A) \in Nat /\ Cardinality(B) \in Nat /\ Cardinality(C) \in Nat
      /\ Cardinality(A \union B) \in Nat
  BY <1>1, FS_CardinalityType
<1>5. Cardinality(A \cap B) = 0 /\ Cardinality((A \union B) \cap C) = 0
  BY <1>1, <1>2, Zenon
<1> QED
  BY <1>1, <1>3, <1>4, <1>5

\* The case at each place of a suite.
LEMMA CasesAre ==
    ASSUME NEW r \in Suites
    PROVE  LET cases == JUnitCases(r)
           IN /\ DOMAIN cases = CardOf(r, {"holds", "fails"})
                    \union LatencyOf(r, {"holds", "fails"}) \union Trials(r)
              /\ \A c \in CardOf(r, {"holds", "fails"}) :
                    c = <<0, 0>> /\ cases[c] = CheckCase(r.card)
              /\ \A c \in LatencyOf(r, {"holds", "fails"}) :
                    c # <<0, 0>> /\ cases[c] = CheckCase(r.scenarios[c[1]].latency)
              /\ \A c \in Trials(r) :
                    c # <<0, 0>> /\ c[2] # 0
                       /\ cases[c] = TrialCase(ScenarioOf(r, c), TrialOf(r, c))
<1> DEFINE cases == JUnitCases(r)
<1>1. \A c \in CardOf(r, {"holds", "fails"}) : c = <<0, 0>>
  BY CheckPlaces
<1>2. \A c \in LatencyOf(r, {"holds", "fails"}) : c[1] # 0 /\ c # <<0, 0>> /\ c[2] = 0
  BY CheckPlaces
<1>3. \A c \in Trials(r) : c[2] # 0 /\ c # <<0, 0>>
  BY TrialPlaces
<1>4. DOMAIN cases = CardOf(r, {"holds", "fails"})
                    \union LatencyOf(r, {"holds", "fails"}) \union Trials(r)
  BY DEF JUnitCases
<1>5. \A c \in CardOf(r, {"holds", "fails"}) : cases[c] = CheckCase(r.card)
  BY <1>1 DEF JUnitCases
<1>6. \A c \in LatencyOf(r, {"holds", "fails"}) :
         cases[c] = CheckCase(r.scenarios[c[1]].latency)
  BY <1>2 DEF JUnitCases, ScenarioOf
<1>7. \A c \in Trials(r) : cases[c] = TrialCase(ScenarioOf(r, c), TrialOf(r, c))
  BY <1>3 DEF JUnitCases
<1> QED
  BY <1>1, <1>2, <1>3, <1>4, <1>5, <1>6, <1>7

\* The totals of the JUnit document are the numbers of its cases.
LEMMA TotalsCount ==
    ASSUME NEW r \in Suites
    PROVE  LET cases == JUnitCases(r)
               Count(kind) == Cardinality({c \in DOMAIN cases : cases[c] = kind})
           IN JUnitTotals(r) =
                 [tests |-> Cardinality(DOMAIN cases), failures |-> Count("failure"),
                  errors |-> Count("error"), skipped |-> Count("skipped")]
<1> DEFINE cases == JUnitCases(r)
           Cases(kind) == {c \in DOMAIN cases : cases[c] = kind}
           both == {"holds", "fails"}
           cardPlace == CardOf(r, both)
           latencies == LatencyOf(r, both)
<1>1. /\ DOMAIN cases = cardPlace \union latencies \union Trials(r)
      /\ \A c \in cardPlace : c = <<0, 0>> /\ cases[c] = CheckCase(r.card)
      /\ \A c \in latencies :
            c # <<0, 0>> /\ cases[c] = CheckCase(r.scenarios[c[1]].latency)
      /\ \A c \in Trials(r) :
            c # <<0, 0>> /\ c[2] # 0 /\ cases[c] = TrialCase(ScenarioOf(r, c), TrialOf(r, c))
  BY CasesAre
<1>2. /\ IsFiniteSet(cardPlace) /\ IsFiniteSet(latencies)
      /\ \A c \in latencies : c[2] = 0 /\ c[1] \in DOMAIN r.scenarios
                              /\ r.scenarios[c[1]].latency \in both
      /\ Cardinality(cardPlace) = One(r.card \in both)
  BY CheckPlaces
<1>3. /\ IsFiniteSet(Trials(r))
      /\ \A c \in Trials(r) : TrialOf(r, c) \in Kinds
  BY TrialPlaces
<1>4. r.card \in Tested
  BY SuiteTypes
<1>5. /\ cardPlace \cap latencies = {} /\ cardPlace \cap Trials(r) = {}
      /\ latencies \cap Trials(r) = {}
  <2> HIDE DEF cardPlace, latencies, cases
  <2> QED
    BY <1>1, <1>2
<1>6. Cardinality(DOMAIN cases) =
         Cardinality(Trials(r)) + Cardinality(latencies) + One(r.card # "none")
  <2>1. One(r.card \in both) = One(r.card # "none")
    BY <1>4 DEF One, Tested
  <2>2. Cardinality(DOMAIN cases) =
           Cardinality(cardPlace) + Cardinality(latencies) + Cardinality(Trials(r))
    <3> HIDE DEF cardPlace, latencies, cases
    <3> QED
      BY <1>1, <1>2, <1>3, <1>5, DisjointCount
  <2>3. /\ Cardinality(cardPlace) \in Nat /\ Cardinality(latencies) \in Nat
        /\ Cardinality(Trials(r)) \in Nat
    BY <1>2, <1>3, FS_CardinalityType
  <2> HIDE DEF cardPlace, latencies, cases
  <2> QED
    BY <1>2, <2>1, <2>2, <2>3
<1>7. \A c \in Trials(r) :
         /\ cases[c] = "failure" <=> c \in TrialsOf(r, {"failed"}, FALSE)
         /\ cases[c] = "error" <=> c \in TrialsOf(r, {"error"}, FALSE)
         /\ cases[c] = "skipped" <=> c \in TrialsOf(r, {"failed", "error"}, TRUE)
  <2> SUFFICES ASSUME NEW c \in Trials(r)
               PROVE  /\ cases[c] = "failure" <=> c \in TrialsOf(r, {"failed"}, FALSE)
                      /\ cases[c] = "error" <=> c \in TrialsOf(r, {"error"}, FALSE)
                      /\ cases[c] = "skipped" <=> c \in TrialsOf(r, {"failed", "error"}, TRUE)
    OBVIOUS
  <2>1. /\ cases[c] = TrialCase(ScenarioOf(r, c), TrialOf(r, c))
        /\ TrialOf(r, c) \in {"passed", "failed", "error"}
    BY <1>1, <1>3 DEF Kinds
  <2>2. Tolerates(ScenarioOf(r, c)) \in BOOLEAN
    BY DEF Tolerates
  <2> HIDE DEF cases
  <2> QED
    BY <2>1, <2>2 DEF TrialCase, TrialsOf
<1>8. Cases("error") = TrialsOf(r, {"error"}, FALSE)
      /\ Cases("skipped") = TrialsOf(r, {"failed", "error"}, TRUE)
  <2>1. \A c \in cardPlace \union latencies : cases[c] \notin {"error", "skipped"}
    BY <1>1 DEF CheckCase
  <2>2. TrialsOf(r, {"error"}, FALSE) \subseteq Trials(r)
        /\ TrialsOf(r, {"failed", "error"}, TRUE) \subseteq Trials(r)
    BY DEF TrialsOf
  <2> HIDE DEF cardPlace, latencies, cases
  <2> QED
    BY <1>1, <1>7, <2>1, <2>2
<1>9. Cases("failure") = CardOf(r, {"fails"}) \union LatencyOf(r, {"fails"})
                             \union TrialsOf(r, {"failed"}, FALSE)
  <2>1. \A c \in cardPlace : cases[c] = "failure" <=> c \in CardOf(r, {"fails"})
    BY <1>1 DEF CheckCase, CardOf
  <2>2. \A c \in latencies : cases[c] = "failure" <=> c \in LatencyOf(r, {"fails"})
    <3> SUFFICES ASSUME NEW c \in latencies
                 PROVE  cases[c] = "failure" <=> c \in LatencyOf(r, {"fails"})
      OBVIOUS
    <3>1. PICK k \in DOMAIN r.scenarios : c = <<k, 0>> /\ r.scenarios[k].latency \in both
      BY DEF LatencyOf
    <3>2. cases[c] = CheckCase(r.scenarios[k].latency)
      BY <1>1, <3>1
    <3>3. c \in LatencyOf(r, {"fails"}) <=> r.scenarios[k].latency = "fails"
      BY <3>1 DEF LatencyOf
    <3> QED
      BY <3>1, <3>2, <3>3 DEF CheckCase
  <2>3. /\ CardOf(r, {"fails"}) \subseteq cardPlace
        /\ LatencyOf(r, {"fails"}) \subseteq latencies
        /\ TrialsOf(r, {"failed"}, FALSE) \subseteq Trials(r)
    BY DEF CardOf, LatencyOf, TrialsOf
  <2> HIDE DEF cardPlace, latencies, cases
  <2> QED
    BY <1>1, <1>7, <2>1, <2>2, <2>3
<1>10. Cardinality(Cases("failure")) = JUnitFailures(r)
  <2> DEFINE A == CardOf(r, {"fails"})
             B == LatencyOf(r, {"fails"})
             C == TrialsOf(r, {"failed"}, FALSE)
  <2>1. /\ IsFiniteSet(A) /\ IsFiniteSet(B) /\ IsFiniteSet(C)
        /\ Cardinality(A) = One(r.card = "fails")
    BY CheckPlaces, TrialsOfTypes DEF One
  <2>2. A \cap B = {} /\ A \cap C = {} /\ B \cap C = {}
    <3>1. A \subseteq cardPlace /\ B \subseteq latencies /\ C \subseteq Trials(r)
      BY DEF CardOf, LatencyOf, TrialsOf
    <3> HIDE DEF A, B, C, cardPlace, latencies
    <3> QED
      BY <1>5, <3>1
  <2>3. Cardinality(Cases("failure")) = Cardinality(A) + Cardinality(B) + Cardinality(C)
    <3> HIDE DEF A, B, C
    <3>1. Cardinality(A \union B \union C) = Cardinality(A) + Cardinality(B) + Cardinality(C)
      BY <2>1, <2>2, DisjointCount
    <3> QED
      BY <1>9, <3>1 DEF A, B, C
  <2>4. Cardinality(A) \in Nat /\ Cardinality(B) \in Nat /\ Cardinality(C) \in Nat
    BY <2>1, FS_CardinalityType
  <2>5. JUnitFailures(r) = Cardinality(C) + Cardinality(B) + Cardinality(A)
    BY <2>1 DEF JUnitFailures
  <2> HIDE DEF A, B, C, Cases
  <2> QED
    BY <2>3, <2>4, <2>5
<1>11. JUnitTotals(r) =
          [tests |-> Cardinality(DOMAIN cases), failures |-> Cardinality(Cases("failure")),
           errors |-> Cardinality(Cases("error")), skipped |-> Cardinality(Cases("skipped"))]
  <2> HIDE DEF cases, Cases
  <2> QED
    BY <1>6, <1>8, <1>10 DEF JUnitTotals
<1> QED
  BY <1>11

\* The terminal explains exactly the scenarios that failed.
LEMMA TerminalExplains ==
    ASSUME NEW r, Explained(r), NEW k \in DOMAIN r.scenarios
    PROVE  ScenarioPassed(r.scenarios[k]) <=> ~\E d \in Diagnostics(r) : d[1] = k
<1> DEFINE bad == {j \in DOMAIN r.scenarios : ~ScenarioPassed(r.scenarios[j])}
           lines(j) == {<<j, line>> : line \in ScenarioDiagnostics(r.scenarios[j])}
<1>1. k # 0
  BY SuiteTypes DEF Explained
<1>2. ASSUME ScenarioPassed(r.scenarios[k]), NEW d \in Diagnostics(r), d[1] = k
      PROVE  FALSE
  <2>1. \/ d = <<0, "card">>
        \/ \E j \in bad : d \in lines(j)
    BY <1>2 DEF Diagnostics
  <2>2. \A j \in bad : d \in lines(j) => d[1] = j
    OBVIOUS
  <2> QED
    BY <1>1, <1>2, <2>1, <2>2
<1>3. ASSUME ~ScenarioPassed(r.scenarios[k])
      PROVE  \E d \in Diagnostics(r) : d[1] = k
  <2>1. \E line : line \in ScenarioDiagnostics(r.scenarios[k])
    <3>1. CASE r.scenarios[k].latency = "fails"
      BY <3>1 DEF ScenarioDiagnostics
    <3>2. CASE ~Tolerates(r.scenarios[k])
      BY <3>2 DEF ScenarioDiagnostics, Explained
    <3> QED
      BY <1>3, <3>1, <3>2 DEF ScenarioPassed
  <2>2. PICK line : line \in ScenarioDiagnostics(r.scenarios[k])
    BY <2>1
  <2>3. <<k, line>> \in Diagnostics(r) /\ <<k, line>>[1] = k
    BY <1>3, <2>2 DEF Diagnostics
  <2> QED
    BY <2>3
<1> QED
  BY <1>2, <1>3

\* A set of natural numbers has a least one.
LEMMA Least ==
    ASSUME NEW T \in SUBSET Nat, T # {}
    PROVE  \E x \in T : \A y \in T : x <= y
<1> DEFINE U == {0..x : x \in T}
           R == StrictSubsetOrdering(Nat)
<1>1. IsWellFoundedOn(R, FiniteSubsetsOf(Nat))
  BY FS_StrictSubsetOrderingWellFounded
<1>2. U \subseteq FiniteSubsetsOf(Nat) /\ U # {}
  <2>1. \A x \in T : IsFiniteSet(0..x) /\ (0..x) \subseteq Nat
    BY FS_Interval
  <2> QED
    BY <2>1 DEF FiniteSubsetsOf
<1>3. \E u \in U : \A v \in U : <<v, u>> \notin R
  <2> HIDE DEF U, R
  <2> QED
    BY <1>1, <1>2, WFMin
<1>4. PICK x \in T : \A y \in T : <<0..y, 0..x>> \notin R
  BY <1>3
<1>5. ASSUME NEW y \in T, y < x
      PROVE  FALSE
  <2>1. (0..y) \subseteq (0..x) /\ x \in 0..x /\ x \notin 0..y
    BY <1>5
  <2>2. 0..y \in SUBSET Nat /\ 0..x \in SUBSET Nat /\ 0..y # 0..x
    BY <2>1
  <2>3. <<0..y, 0..x>> \in R
    BY <2>1, <2>2 DEF StrictSubsetOrdering
  <2> QED
    BY <1>4, <2>3
<1> QED
  BY <1>5

\* The first of the failed trials is among those that are recorded.
LEMMA FirstIsSelected ==
    ASSUME NEW r \in Suites, FailedTrials(r) # {}
    PROVE  SelectedTrials(r) # {}
<1> DEFINE failed == FailedTrials(r)
           K == {t[1] : t \in failed}
<1>1. \A t \in failed : t[1] \in Nat /\ t[2] \in Nat
  BY TrialPlaces DEF FailedTrials
<1>2. PICK k \in K : \A y \in K : k <= y
  <2>1. K \in SUBSET Nat /\ K # {}
    BY <1>1
  <2> HIDE DEF K
  <2> QED
    BY <2>1, Least
<1> DEFINE J == {t[2] : t \in {u \in failed : u[1] = k}}
<1>3. PICK j \in J : \A y \in J : j <= y
  <2>1. J \in SUBSET Nat /\ J # {}
    BY <1>1, <1>2
  <2> HIDE DEF J
  <2> QED
    BY <2>1, Least
<1>4. PICK t \in failed : t[1] = k /\ t[2] = j
  BY <1>3
<1>5. {u \in failed : Precedes(u, t)} = {}
  <2> SUFFICES ASSUME NEW u \in failed, Precedes(u, t)
               PROVE  FALSE
    OBVIOUS
  <2>1. u[1] \in Nat /\ u[2] \in Nat /\ k \in Nat /\ j \in Nat
    BY <1>1, <1>4
  <2>2. k <= u[1] /\ (u[1] = k => j <= u[2])
    BY <1>2, <1>3
  <2> QED
    BY <1>4, <2>1, <2>2 DEF Precedes
<1>6. Cardinality({u \in failed : Precedes(u, t)}) < MaxEvidenceTrials
  BY <1>5, FS_EmptySet, EvidenceAssumption
<1> QED
  BY <1>4, <1>6 DEF SelectedTrials

\* The evidence of a suite that failed is not empty, and names every failed
\* trial unless the manifest says that it was truncated.
LEMMA EvidenceNames ==
    ASSUME NEW r, Explained(r)
    PROVE  LET recorded == {c \in Trials(r) :
                              [kind |-> "trial", of |-> c] \in EvidenceRecords(r)}
           IN /\ ~SuitePassed(r) => EvidenceRecords(r) # {}
              /\ Manifest(r).truncated \/ FailedTrials(r) = recorded
<1>1. r \in Suites
  BY DEF Explained
<1>2. ASSUME ~SuitePassed(r)
      PROVE  EvidenceRecords(r) # {}
  <2>1. CASE r.card = "fails"
    <3>1. <<0, 0>> \in CardOf(r, {"fails"})
      BY <2>1 DEF CardOf
    <3> QED
      BY <3>1 DEF EvidenceRecords
  <2>2. ASSUME NEW k \in DOMAIN r.scenarios, r.scenarios[k].latency = "fails"
        PROVE  EvidenceRecords(r) # {}
    <3>1. <<k, 0>> \in LatencyOf(r, {"fails"})
      BY <2>2 DEF LatencyOf
    <3> QED
      BY <3>1 DEF EvidenceRecords
  <2>3. ASSUME NEW k \in DOMAIN r.scenarios, ~Tolerates(r.scenarios[k])
        PROVE  EvidenceRecords(r) # {}
    <3>1. FailedTrials(r) # {}
      BY <2>3, FailedScenario DEF FailedTrials
    <3>2. SelectedTrials(r) # {}
      BY <1>1, <3>1, FirstIsSelected
    <3> QED
      BY <3>2 DEF EvidenceRecords
  <2> QED
    BY <1>2, <2>1, <2>2, <2>3 DEF SuitePassed, ScenarioPassed
<1>3. {c \in Trials(r) : [kind |-> "trial", of |-> c] \in EvidenceRecords(r)} = SelectedTrials(r)
  <2>1. \A c : [kind |-> "trial", of |-> c] \in EvidenceRecords(r) <=> c \in SelectedTrials(r)
    <3> SUFFICES ASSUME NEW c
                 PROVE  [kind |-> "trial", of |-> c] \in EvidenceRecords(r) <=>
                           c \in SelectedTrials(r)
      OBVIOUS
    <3> DEFINE e == [kind |-> "trial", of |-> c]
    <3>1. e.kind = "trial" /\ e.of = c
      OBVIOUS
    <3>2. c \in SelectedTrials(r) => e \in EvidenceRecords(r)
      BY DEF EvidenceRecords
    <3>3. e \in EvidenceRecords(r) => c \in SelectedTrials(r)
      <4> HIDE DEF e
      <4> QED
        BY <3>1 DEF EvidenceRecords
    <3> QED
      BY <3>2, <3>3
  <2>2. SelectedTrials(r) \subseteq Trials(r)
    BY DEF SelectedTrials, FailedTrials
  <2> QED
    BY <2>1, <2>2
<1>4. Manifest(r).truncated \/ FailedTrials(r) = SelectedTrials(r)
  <2>1. /\ FailedTrials(r) \in SUBSET Trials(r)
        /\ SelectedTrials(r) \in SUBSET FailedTrials(r)
    BY DEF SelectedTrials, FailedTrials
  <2>2. IsFiniteSet(FailedTrials(r))
    BY <1>1, <2>1, TrialPlaces, FS_Subset
  <2>3. Cardinality(FailedTrials(r)) = Cardinality(SelectedTrials(r)) =>
           FailedTrials(r) = SelectedTrials(r)
    BY <2>1, <2>2, FS_Subset
  <2>4. Manifest(r).truncated = (Cardinality(SelectedTrials(r)) # Cardinality(FailedTrials(r)))
    BY DEF Manifest
  <2> QED
    BY <2>3, <2>4
<1> QED
  BY <1>2, <1>3, <1>4

\* A suite of a contract has its scenarios unless the card failed.
Complete(r) ==
    /\ Explained(r)
    /\ r.card # "fails" => Len(r.scenarios) = Contract

\* A regression of the candidate is a check it did not pass, and a candidate
\* that failed has such a check.
LEMMA DiffShows ==
    ASSUME NEW base, NEW r, Complete(base), Complete(r),
           base.card = "none" <=> r.card = "none"
    PROVE  LET changes == DiffChecks(base, r, Contract)
           IN /\ (\E k \in DOMAIN changes : changes[k].change = "regression") => ~SuitePassed(r)
              /\ ~SuitePassed(r) => \E k \in DOMAIN changes : changes[k].candidate # "passed"
<1> DEFINE changes == DiffChecks(base, r, Contract)
           first == IF {base.card, r.card} = {"none"} THEN 1 ELSE 0
           Status(k) == IF k = 0 THEN CardStatus(r) ELSE ScenarioStatus(r, k)
           Old(k) == IF k = 0 THEN CardStatus(base) ELSE ScenarioStatus(base, k)
<1>1. Contract \in Nat \ {0}
  BY OutcomesAssumption
<1>2. /\ r.card \in Tested
      /\ DOMAIN r.scenarios = 1..Len(r.scenarios) /\ Len(r.scenarios) \in Nat
  BY SuiteTypes DEF Complete, Explained
<1>3. /\ DOMAIN changes = first..Contract
      /\ \A k \in first..Contract : changes[k] = Check(Old(k), Status(k))
  BY DEF DiffChecks
<1>4. \A k \in first..Contract :
         /\ changes[k].candidate = Status(k)
         /\ changes[k].change = "regression" => Status(k) # "passed"
  <2> SUFFICES ASSUME NEW k \in first..Contract
               PROVE  /\ changes[k].candidate = Status(k)
                      /\ changes[k].change = "regression" => Status(k) # "passed"
    OBVIOUS
  <2> HIDE DEF changes, Old, Status, first
  <2>1. /\ changes[k].candidate = Status(k)
        /\ changes[k].change = Change(Old(k), Status(k))
    BY <1>3 DEF Check
  <2> QED
    BY <2>1 DEF Change
<1>5. ASSUME NEW k \in first..Contract, Status(k) # "passed"
      PROVE  ~SuitePassed(r)
  <2>1. CASE k = 0
    <3>1. r.card # "none"
      BY <2>1
    <3>2. r.card # "holds"
      BY <1>5, <2>1 DEF CardStatus
    <3> QED
      BY <1>2, <3>1, <3>2 DEF SuitePassed, Tested
  <2>2. CASE k # 0
    <3>1. k \in 1..Contract
      BY <1>1, <2>2
    <3>2. CASE k \in DOMAIN r.scenarios
      BY <1>5, <2>2, <3>2 DEF ScenarioStatus, SuitePassed
    <3>3. CASE k \notin DOMAIN r.scenarios
      BY <1>2, <3>1, <3>3 DEF Complete, SuitePassed
    <3> QED
      BY <3>2, <3>3
  <2> QED
    BY <2>1, <2>2
<1>6. ASSUME ~SuitePassed(r)
      PROVE  \E k \in first..Contract : Status(k) # "passed"
  <2>1. CASE r.card = "fails"
    <3>1. first = 0 /\ Status(0) = "failed" /\ 0 \in first..Contract
      BY <1>1, <2>1 DEF CardStatus
    <3> QED
      BY <3>1
  <2>2. CASE r.card # "fails"
    <3>1. PICK k \in DOMAIN r.scenarios : ~ScenarioPassed(r.scenarios[k])
      BY <1>6, <2>2 DEF SuitePassed
    <3>2. k \in first..Contract /\ k # 0
      BY <1>1, <1>2, <2>2 DEF Complete
    <3>3. Status(k) = "failed"
      BY <3>1, <3>2 DEF ScenarioStatus
    <3> QED
      BY <3>2, <3>3
  <2> QED
    BY <2>1, <2>2
<1> HIDE DEF changes, first, Status
<1>7. /\ (\E k \in DOMAIN changes : changes[k].change = "regression") => ~SuitePassed(r)
      /\ ~SuitePassed(r) => \E k \in DOMAIN changes : changes[k].candidate # "passed"
  BY <1>3, <1>4, <1>5, <1>6
<1> QED
  BY <1>7 DEF changes

-----------------------------------------------------------------------------
(* The suites of a command.                                                 *)

\* A leg asserts its card before it runs the scenarios, which it only does
\* under a card that holds; what is reported is the verdict of the last leg.
ResultsInv ==
    /\ \A n \in DOMAIN results :
          /\ Complete(results[n])
          /\ results[n].card = "none" <=> ~checksCard
    /\ stage \in Setup \union {"options", "prepare"} =>
          card = IF stage = "scenarios" /\ checksCard THEN "holds" ELSE "none"
    /\ reported => stage = "exit" /\ Finished /\ code = IF Passed THEN 0 ELSE 1

LEMMA ResultsStart == Init => ResultsInv
BY DEF Init, ResultsInv

\* A suite of the contract that is added to sound results leaves them sound.
LEMMA SuiteAdded ==
    ASSUME RunInv, ResultsInv, UNCHANGED checksCard,
           NEW s, Complete(s), s.card = "none" <=> ~checksCard, results' = Append(results, s)
    PROVE  \A n \in DOMAIN results' :
              /\ Complete(results'[n])
              /\ results'[n].card = "none" <=> ~checksCard'
<1>1. results \in Seq(Suites)
  BY DEF RunInv, TypeInv
<1>2. s \in Suites
  BY DEF Complete, Explained
<1>3. /\ DOMAIN results' = DOMAIN results \union {Len(results) + 1}
      /\ \A n \in DOMAIN results : results'[n] = results[n]
      /\ results'[Len(results) + 1] = s
  BY <1>1, <1>2
<1> QED
  BY <1>3 DEF ResultsInv

LEMMA ResultsStep == RunInv /\ ResultsInv /\ [Next]_vars => ResultsInv'
<1> SUFFICES ASSUME RunInv, ResultsInv, [Next]_vars
             PROVE  ResultsInv'
  OBVIOUS
<1>1. CASE CheckCard
  <2> USE <1>1 DEF CheckCard, Goto, Raise, options
  <2>1. stage = "card" /\ card = "none" /\ ~reported /\ UNCHANGED <<reported, checksCard>>
    BY DEF ResultsInv, Setup
  <2>2. CASE UNCHANGED results
    BY <2>1, <2>2 DEF ResultsInv, Setup
  <2>3. CASE results' = Append(results, Suite(<<>>)) /\ card' = "fails" /\ checksCard
    <3>1. Complete(Suite(<<>>)) /\ Suite(<<>>).card = "fails"
      BY <2>3 DEF Suite, Complete, Explained, Suites, Tested
    <3>2. stage' = "unwind"
      BY <2>3
    <3> QED
      BY <2>1, <2>3, <3>1, <3>2, SuiteAdded DEF ResultsInv, Setup
  <2> QED
    BY <2>2, <2>3
<1>2. CASE RunScenarios
  <2> USE <1>2 DEF RunScenarios, Goto, Raise, options
  <2>1. /\ stage = "scenarios" /\ ~reported /\ UNCHANGED <<reported, checksCard, card>>
        /\ card = IF checksCard THEN "holds" ELSE "none"
        /\ stage' = "unwind"
    BY DEF ResultsInv, Setup
  <2>2. CASE UNCHANGED results
    BY <2>1, <2>2 DEF ResultsInv, Setup
  <2>3. ASSUME NEW scenarios \in Outcomes, results' = Append(results, Suite(scenarios))
        PROVE  ResultsInv'
    <3>1. Suite(scenarios).card = card /\ Suite(scenarios).scenarios = scenarios
      BY <2>1 DEF Suite
    <3>2. /\ scenarios \in Seq(Scenarios) /\ Len(scenarios) = Contract
          /\ DOMAIN scenarios = 1..Contract
          /\ \A k \in 1..Contract : Tolerates(scenarios[k]) \/
                PassedTrials(scenarios[k]) < Len(scenarios[k].trials)
      BY OutcomesAssumption
    <3>3. Suite(scenarios) \in Suites
      BY <2>1, <3>2 DEF Suite, Suites, Tested
    <3>4. Complete(Suite(scenarios))
      BY <3>1, <3>2, <3>3 DEF Complete, Explained
    <3> QED
      BY <2>1, <2>3, <3>1, <3>4, SuiteAdded DEF ResultsInv, Setup
  <2> QED
    BY <2>2, <2>3
<1>3. CASE Report
  <2> USE <1>3 DEF Report, Exit, options
  <2>1. /\ stage = "report" /\ stage' = "exit" /\ UNCHANGED <<results, checksCard, command, leg>>
        /\ Finished /\ ~reported
    BY DEF ResultsInv, RunInv, LegInv
  <2>2. reported' => code' = IF Passed THEN 0 ELSE 1
    BY <2>1
  <2>3. (Finished' <=> Finished) /\ (Passed' <=> Passed)
    BY <2>1, PassedStays DEF Finished, Judges
  <2> QED
    BY <2>1, <2>2, <2>3 DEF ResultsInv, Setup
<1>4. ASSUME UNCHANGED <<results, checksCard, command, reported>>, stage # "exit",
             stage' \in Setup \union {"options", "prepare"} =>
                card' = IF stage' = "scenarios" /\ checksCard THEN "holds" ELSE "none"
      PROVE  ResultsInv'
  BY <1>4 DEF ResultsInv
<1>5. CASE UNCHANGED vars
  <2>1. (Finished' <=> Finished) /\ (Passed' <=> Passed)
    BY <1>5, PassedStays DEF vars, options, Finished, Judges
  <2> QED
    BY <1>5, <2>1 DEF ResultsInv, vars, options
<1>6. CASE CheckOptions \/ Prepare \/ StartDemo
  BY <1>4, <1>6 DEF CheckOptions, Prepare, StartDemo, Listen, FailToListen, AfterPrepare,
     Exit, Goto, Raise, options, ResultsInv, Setup
<1>7. CASE Connect \/ ConnectReturns
  BY <1>4, <1>7 DEF Connect, ConnectReturns, Goto, options, ResultsInv, Setup
<1>8. CASE StartReceiver \/ StartDownstream
  BY <1>4, <1>8 DEF StartReceiver, StartDownstream, Listen, FailToListen, SkipListener, Goto,
     Raise, options, ResultsInv, Setup
<1>9. CASE CloseSession \/ CloseListener
  BY <1>4, <1>9 DEF CloseSession, CloseListener, options, ResultsInv, Setup
<1>10. CASE LeaveLoop
  BY <1>4, <1>10 DEF LeaveLoop, Exit, Goto, options, ResultsInv, Setup
<1>11. CASE Save
  BY <1>4, <1>11 DEF Save, Exit, Goto, options, ResultsInv, Setup
<1> QED
  BY <1>1, <1>2, <1>3, <1>5, <1>6, <1>7, <1>8, <1>9, <1>10, <1>11 DEF Next

LEMMA ResultsInvariant == Spec => [](RunInv /\ ResultsInv)
<1>1. Init => RunInv /\ ResultsInv
  BY RunStarts, ResultsStart
<1>2. RunInv /\ ResultsInv /\ [Next]_vars => RunInv' /\ ResultsInv'
  BY RunSteps, ResultsStep
<1> QED
  BY <1>1, <1>2, PTL DEF Spec

-----------------------------------------------------------------------------
(* The properties.                                                          *)

\* Whichever step of connecting, listening or closing raises, the command
\* leaves its event loop without an open transport, a listener only survives a
\* close that was cut short, and diff listens for one deployment at a time.
THEOREM CommandsLeakNothing == Spec => []NothingLeaks
<1>1. RunInv => NothingLeaks
  <2> SUFFICES ASSUME RunInv
               PROVE  NothingLeaks
    OBVIOUS
  <2>1. stage \in {"save", "report", "exit"} => transports = {} /\ Entered = {}
    BY EnteredAt DEF RunInv, PhaseInv, TransportInv, Resting, Setup
  <2>2. stage \in {"save", "report"} => listeners = {}
    BY <2>1 DEF RunInv, ListenInv
  <2>3. stage = "connect" => listeners \subseteq {"demo"}
    BY EnteredAt DEF RunInv, ListenInv
  <2>4. stage = "connect" /\ phase \in {"idle", "closed", "failed"} => transports = {}
    BY DEF RunInv, TransportInv, Resting
  <2>5. listeners # {} /\ code # Running => code # 0 /\ raised # "none"
    BY <2>1 DEF RunInv, ListenInv, EndInv
  <2>6. IsInjective(stack)
    BY StacksAreInjective DEF RunInv, StackInv
  <2> QED
    BY <2>1, <2>2, <2>3, <2>4, <2>5, <2>6 DEF NothingLeaks
<1> QED
  BY <1>1, RunInvariant, PTL

\* Whatever the options, a scenario starts with the session, the receiver and
\* the downstream agent that its turns rely on, under a card that holds.
THEOREM ScenariosAreEquipped == Spec => []ScenariosFindWhatTheyNeed
<1>1. RunInv => ScenariosFindWhatTheyNeed
  <2> SUFFICES ASSUME RunInv, stage = "scenarios"
               PROVE  /\ checksCard => card = "holds"
                      /\ command # "replay" =>
                            /\ phase = "connected"
                            /\ transports = IF streams THEN {"client", "lifecycle"}
                                            ELSE {"client"}
                      /\ push => "receiver" \in listeners
                      /\ delegation => "downstream" \in listeners /\ jobs = 1
    BY DEF ScenariosFindWhatTheyNeed
  <2>1. listeners = Entered \ {"session"}
    BY DEF RunInv, ListenInv
  <2>2. (push => "receiver" \in Entered) /\ (delegation => "downstream" \in Entered)
    BY EnteredAt DEF RunInv
  <2>3. (checksCard => card = "holds") /\ (delegation => jobs = 1)
    BY DEF RunInv, AcceptedInv, Accepted, Setup
  <2>4. command # "replay" =>
           phase = "connected" /\ transports = IF streams THEN Clients ELSE {"client"}
    BY DEF RunInv, PhaseInv, TransportInv
  <2> QED
    BY <2>1, <2>2, <2>3, <2>4 DEF Clients
<1> QED
  BY <1>1, RunInvariant, PTL

\* An exit code 0 is that of a run that judged every deployment, wrote what was
\* asked of it, reported it and lost no exception; nothing is written for a run
\* that raised.
THEOREM SuccessesAreComplete == Spec => []SuccessIsComplete
<1>1. RunInv => SuccessIsComplete
  BY DEF RunInv, EndInv, Finished, SuccessIsComplete
<1> QED
  BY <1>1, RunInvariant, PTL
\* Whatever the contract and its outcomes, the JUnit document, the terminal,
\* the evidence and the comparison of diff tell what the exit code tells.
THEOREM ReportsAlwaysAgree == Spec => []ReportsAgree
<1>1. RunInv /\ ResultsInv => ReportsAgree
  <2> SUFFICES ASSUME RunInv, ResultsInv, reported, Judges
               PROVE  ReportsAgree
    BY DEF ReportsAgree
  <2> DEFINE r == Last(results)
             base == results[1]
             cases == JUnitCases(r)
             totals == JUnitTotals(r)
             Count(kind) == Cardinality({k \in DOMAIN cases : cases[k] = kind})
             records == EvidenceRecords(r)
             recorded == {c \in Trials(r) : [kind |-> "trial", of |-> c] \in records}
             changes == DiffChecks(base, r, Contract)
             Shown(change) == \E k \in DOMAIN changes : changes[k].change = change
             Bad == \E k \in DOMAIN changes : changes[k].candidate # "passed"
  <2>1. Len(results) \in {1, 2} /\ results \in Seq(Suites)
    BY DEF RunInv, TypeInv, ResultsInv, Finished
  <2>2. /\ Complete(r) /\ Complete(base)
        /\ base.card = "none" <=> r.card = "none"
        /\ Explained(r)
    BY <2>1 DEF ResultsInv, Last, Complete
  <2>3. code = 0 <=> SuitePassed(r)
    BY DEF ResultsInv, Passed
  <2> HIDE DEF r, base
  <2>4. code = 0 <=> totals.failures + totals.errors = 0
    BY <2>2, <2>3, FailuresShow
  <2>5. totals = [tests |-> Cardinality(DOMAIN cases), failures |-> Count("failure"),
                  errors |-> Count("error"), skipped |-> Count("skipped")]
    BY <2>2, TotalsCount DEF Explained
  <2>6. \A k \in DOMAIN r.scenarios :
           ScenarioPassed(r.scenarios[k]) <=> ~\E d \in Diagnostics(r) : d[1] = k
    BY <2>2, TerminalExplains
  <2>7. /\ code # 0 => records # {}
        /\ Manifest(r).truncated \/ FailedTrials(r) = recorded
    BY <2>2, <2>3, EvidenceNames
  <2>8. (Shown("regression") => code # 0) /\ (code # 0 => Bad)
    BY <2>2, <2>3, DiffShows
  <2> QED
    BY <2>4, <2>5, <2>6, <2>7, <2>8 DEF ReportsAgree, r, base
<1> QED
  BY <1>1, ResultsInvariant, PTL
=============================================================================
