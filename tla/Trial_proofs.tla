----------------------------- MODULE Trial_proofs -----------------------------
(* One trial, proved for every list of turns the configuration accepts, any *)
(* answers of the agent and any notifications it posts: no route leaks, a   *)
(* wait is on the bound subscription of the turn before it, its outcome is  *)
(* the agent's own, and only open tasks are resumed.  That the contracts    *)
(* which load have such lists of turns comes last, with the JSON Schema.    *)
EXTENDS Trial, Loading, SequenceTheorems, FiniteSetTheorems, TLAPS

\* The subscription a turn starts with is that of a push turn before it.
Inherited == IF Kind = "await_push" THEN index - 1 ELSE None

\* Which route is live follows from where the trial is.
RouteInv ==
    /\ pc # "done" => held = Inherited
    /\ routes = IF pc = "done" THEN {}
                ELSE IF Kind = "await_push" THEN {index - 1}
                ELSE IF Kind = "push" /\ pc = "sent" THEN {index} ELSE {}
    /\ pc = "waiting" => Kind = "await_push"
    /\ pc = "sent" => Kind # "await_push"
    /\ \A k \in DOMAIN requests :
          requests[k].target # None <=> requests[k].kind = "push"

\* Every earlier turn was answered, and a push turn bound its subscription to
\* the task it was answered with.
BoundInv ==
    pc # "done" =>
        /\ Len(replies) = index - 1
        /\ Kind = "await_push" =>
              /\ bound[index - 1] = Identity(replies[index - 1])
              /\ bound[index - 1] \in Identities

\* A task the trial holds was returned by the agent, and an input turn starts
\* with one only if the last reply left it open.
TaskInv ==
    /\ task # None => \E j \in DOMAIN replies : replies[j].task = task
    /\ (pc = "ready" /\ task # None /\ Kind \in {"send", "push"})
          => Last(replies).resumable
    /\ ResumesOnlyOpenTasks

\* AwaitedOutcomeIsOwn, of the turn at position k.
OwnOutcome(k) ==
    /\ outcome[k - 1] # <<>>
    /\ IsPrefix(outcome[k - 1], accepted[k - 1])
    /\ \A j \in DOMAIN outcome[k - 1] :
          /\ outcome[k - 1][j].outer = Identity(replies[k - 1])
          /\ outcome[k - 1][j].kind = "terminal" <=> j = Len(outcome[k - 1])
    /\ replies[k] = Awaited(outcome[k - 1])

\* Every answered wait was answered with its own outcome, and no reply is
\* there before its turn.
OutcomeInv ==
    /\ Len(replies) <= index
    /\ \A k \in DOMAIN replies : turns[k] = "await_push" => OwnOutcome(k)

-----------------------------------------------------------------------------
(* The turns, and what each kind of step does.                              *)

LEMMA TurnShape ==
    ASSUME TypeOK
    PROVE  /\ turns \in Seq(Kinds) /\ Len(turns) \in Nat
           /\ index \in 1..Len(turns) /\ Kind \in Kinds
           /\ 1..Len(turns) \subseteq Positions
           /\ Kind \in Actions => index - 1 \in 1..Len(turns)
           /\ Kind = "await_push" => turns[index - 1] = "push"
           /\ Kind = "push" =>
                 index + 1 \in 1..Len(turns) /\ turns[index + 1] = "await_push"
           /\ index + 1 \in 1..Len(turns) /\ turns[index + 1] = "await_push" =>
                 Kind = "push"
<1>1. turns \in Scripts /\ index \in 1..Len(turns)
  BY DEF TypeOK
<1>2. turns \in Seq(Kinds) /\ ValidScript(turns)
  BY <1>1, ScriptsAssumption
<1>3. Len(turns) \in Nat /\ DOMAIN turns = 1..Len(turns) /\ Kind \in Kinds
  BY <1>1, <1>2 DEF Kind
<1>4. 1..Len(turns) \subseteq Positions
  BY <1>1, <1>3 DEF Positions
<1>5. Kind \in Actions => index - 1 \in 1..Len(turns)
  BY <1>1, <1>2, <1>3 DEF ValidScript, Kind
<1>6. Kind = "await_push" => turns[index - 1] = "push"
  BY <1>1, <1>2 DEF ValidScript, Kind
<1>7. Kind = "push" => index + 1 \in 1..Len(turns) /\ turns[index + 1] = "await_push"
  BY <1>1, <1>2, <1>3 DEF ValidScript, Kind
<1>8. index + 1 \in 1..Len(turns) /\ turns[index + 1] = "await_push" => Kind = "push"
  <2>1. (index + 1) - 1 = index
    BY <1>1, <1>3
  <2>2. QED
    BY <1>2, <2>1 DEF ValidScript, Kind
<1>9. QED
  BY <1>1, <1>2, <1>3, <1>4, <1>5, <1>6, <1>7, <1>8

\* A message or an operation is sent.
Asks ==
    /\ pc = "ready" /\ pc' = "sent" /\ Kind # "await_push"
    /\ requests' = Append(requests, Request(IF Kind = "push" THEN index ELSE None))
    /\ routes' = IF Kind = "push" THEN {index} ELSE {}
    /\ UNCHANGED <<turns, index, context, task, held, inbox, replies, results, error>>

\* The trial ends without a reply.
Quits ==
    /\ pc # "done" /\ pc' = "done" /\ routes' = {} /\ error' = TRUE
    /\ verdict' \in [Positions -> {"pending", "ok", "error"}]
    /\ UNCHANGED <<turns, index, context, task, held, accepted, bound, outcome, log>>

\* A turn passes and another one follows.
Carries(o, sub, live) ==
    /\ index + 1 \in 1..Len(turns) /\ index' = index + 1
    /\ pc' = "ready" /\ routes' = live /\ held' = sub
    /\ context' = o.context /\ task' = NextTask(o)
    /\ replies' = Append(replies, o)
    /\ results' \in Seq(BOOLEAN) /\ error' \in BOOLEAN
    /\ UNCHANGED <<turns, requests>>

\* A turn is the last one, whether or not it passes.
Stops(o, sub, live) ==
    /\ index' = index /\ pc' = "done" /\ routes' = live \ {sub} /\ held' = sub
    /\ context' \in {context, o.context} /\ task' \in {task, NextTask(o)}
    /\ replies' = Append(replies, o)
    /\ results' \in Seq(BOOLEAN) /\ error' \in BOOLEAN
    /\ UNCHANGED <<turns, requests>>

\* Whose reply ends a turn.
Returns(o, sub, live) ==
    \/ /\ pc = "sent" /\ Kind \notin {"push", "await_push"} /\ sub = None /\ live = {}
       /\ UNCHANGED inbox
    \/ /\ pc = "sent" /\ Kind = "push" /\ sub = index /\ live = {index}
       /\ Inbox!Bind(index, Identity(o)) /\ Identity(o) \in Identities
    \/ /\ pc = "waiting" /\ Kind = "await_push" /\ sub = None /\ live = {}
       /\ Inbox!Succeed(index - 1) /\ o = Awaited(outcome'[index - 1])

LEMMA AskShape ==
    ASSUME TypeOK, RouteInv, SendInput \/ RegisterAndSend \/ Operate
    PROVE  Asks
<1>1. held = None /\ routes = {} /\ pc = "ready" /\ Kind # "await_push"
  <2>1. pc = "ready" /\ Kind \in {"send", "push", "operate", "subscribe"}
    BY DEF SendInput, RegisterAndSend, Operate
  <2>2. QED
    BY <2>1 DEF RouteInv, Inherited
<1>2. QED
  BY <1>1 DEF SendInput, RegisterAndSend, Operate, Asks

LEMMA QuitShape ==
    ASSUME TypeOK, RouteInv, RegisterFails \/ RefuseAction \/ CallFails
    PROVE  Quits
<1>1. CASE RegisterFails \/ RefuseAction
  <2>1. pc = "ready" /\ Abort
    BY <1>1 DEF RegisterFails, RefuseAction
  <2>2. routes \ {held} = {}
    BY <2>1 DEF RouteInv, Inherited
  <2>3. QED
    BY <2>1, <2>2 DEF Abort, Finish, Quits, inbox, TypeOK
<1>2. CASE CallFails
  <2>1. routes' = {}
    BY <1>2 DEF CallFails, RouteInv, Inherited
  <2>2. /\ UNCHANGED <<accepted, bound, outcome>>
        /\ verdict' \in [Positions -> {"pending", "ok", "error"}]
    <3>1. CASE pc = "waiting"
      BY <1>2, <3>1 DEF CallFails, Inbox!Fail, TypeOK
    <3>2. CASE pc # "waiting"
      BY <1>2, <3>2 DEF CallFails, inbox, TypeOK
    <3>3. QED
      BY <3>1, <3>2
  <2>3. QED
    BY <1>2, <2>1, <2>2 DEF CallFails, Quits
<1>3. QED
  BY <1>1, <1>2

LEMMA SucceedTypes ==
    ASSUME TypeOK, NEW i \in Positions, Inbox!Succeed(i)
    PROVE  /\ UNCHANGED <<accepted, bound>>
           /\ verdict' \in [Positions -> {"pending", "ok", "error"}]
           /\ outcome' \in [Positions -> Seq(Deliveries)]
           /\ \A x \in Positions \ {i} : outcome'[x] = outcome[x]
           /\ \E n \in DOMAIN accepted[i] :
                 /\ Inbox!Decides(i, n)
                 /\ outcome'[i] = SubSeq(accepted[i], 1, n)
                 /\ outcome'[i] \in Seq(Deliveries) /\ Len(outcome'[i]) = n
                 /\ n \in 1..Len(accepted[i])
                 /\ \A j \in 1..n : outcome'[i][j] = accepted[i][j]
           /\ Awaited(outcome'[i]) \in Outcomes
<1>1. PICK n \in DOMAIN accepted[i] :
         /\ Inbox!Decides(i, n)
         /\ outcome' = [outcome EXCEPT ![i] = SubSeq(accepted[i], 1, n)]
  BY DEF Inbox!Succeed
<1>2. /\ accepted[i] \in Seq(Deliveries) /\ DOMAIN accepted[i] = 1..Len(accepted[i])
      /\ outcome \in [Positions -> Seq(Deliveries)]
  BY DEF TypeOK
<1>3. /\ SubSeq(accepted[i], 1, n) \in Seq(Deliveries)
      /\ Len(SubSeq(accepted[i], 1, n)) = n
      /\ \A j \in 1..n : SubSeq(accepted[i], 1, n)[j] = accepted[i][j]
      /\ n \in 1..Len(accepted[i])
  BY <1>2
<1>4. /\ outcome'[i] = SubSeq(accepted[i], 1, n)
      /\ outcome' \in [Positions -> Seq(Deliveries)]
      /\ \A x \in Positions \ {i} : outcome'[x] = outcome[x]
  BY <1>1, <1>2, <1>3
<1>5. Awaited(outcome'[i]) \in Outcomes
  <2>1. Last(outcome'[i]) \in Deliveries
    BY <1>3, <1>4 DEF Last
  <2>2. QED
    BY <2>1, DeliveriesAssumption DEF Awaited, Outcomes, Identities
<1>6. /\ UNCHANGED <<accepted, bound>>
      /\ verdict' \in [Positions -> {"pending", "ok", "error"}]
  BY DEF Inbox!Succeed, TypeOK
<1>7. QED
  BY <1>1, <1>3, <1>4, <1>5, <1>6

LEMMA ReturnShape ==
    ASSUME TypeOK, RouteInv, Replies
    PROVE  \E o \in Outcomes, sub \in Nat \union {None}, live \in SUBSET {index} :
              /\ EndTurn(o, sub, live)
              /\ Returns(o, sub, live)
<1>0. index \in Nat
  BY TurnShape
<1>1. ASSUME NEW o \in Outcomes, InputReplies(o) \/ OperationReplies(o)
      PROVE  EndTurn(o, None, {}) /\ Returns(o, None, {})
  <2>1. pc = "sent" /\ Kind \in {"send", "operate", "subscribe"}
    BY <1>1 DEF InputReplies, OperationReplies
  <2>2. held = None /\ routes = {}
    BY <2>1 DEF RouteInv, Inherited
  <2>3. QED
    BY <1>1, <2>1, <2>2 DEF InputReplies, OperationReplies, Returns
<1>2. ASSUME NEW o \in Outcomes, PushReplies(o)
      PROVE  EndTurn(o, index, {index}) /\ Returns(o, index, {index})
  <2>1. pc = "sent" /\ Kind = "push" /\ o.task \in Tasks /\ routes = {index}
    BY <1>2 DEF PushReplies, RouteInv, Outcomes
  <2>2. Identity(o) \in Identities
    BY <2>1 DEF Identity, Identities, Outcomes
  <2>3. QED
    BY <1>2, <2>1, <2>2 DEF PushReplies, Returns
<1>3. CASE WaitReturns
  <2>1. pc = "waiting" /\ Kind = "await_push" /\ held = index - 1 /\ routes = {index - 1}
    BY <1>3 DEF WaitReturns, RouteInv, Inherited
  <2>2. index - 1 \in Positions
    BY <2>1, TurnShape DEF Actions
  <2>3. Awaited(outcome'[index - 1]) \in Outcomes
    BY <1>3, <2>1, <2>2, SucceedTypes DEF WaitReturns
  <2>4. /\ EndTurn(Awaited(outcome'[index - 1]), None, {})
        /\ Returns(Awaited(outcome'[index - 1]), None, {})
    BY <1>3, <2>1 DEF WaitReturns, Returns
  <2>5. QED
    BY <2>3, <2>4
<1>4. QED
  BY <1>0, <1>1, <1>2, <1>3 DEF Replies

LEMMA EndShape ==
    ASSUME TypeOK, NEW o, NEW sub, NEW live, EndTurn(o, sub, live)
    PROVE  Carries(o, sub, live) \/ Stops(o, sub, live)
<1>1. index \in Nat /\ Len(turns) \in Nat /\ index \in 1..Len(turns)
  BY TurnShape
<1>2. /\ results \in Seq(BOOLEAN) /\ Append(results, TRUE) \in Seq(BOOLEAN)
      /\ Append(results, FALSE) \in Seq(BOOLEAN) /\ error \in BOOLEAN
  BY DEF TypeOK
<1>3. ~IsLast => index + 1 \in 1..Len(turns)
  BY <1>1 DEF IsLast
<1>4. CASE TurnPasses(o, sub, live)
  BY <1>2, <1>3, <1>4 DEF EndTurn, TurnPasses, Carries, Stops
<1>5. CASE TurnFails(o, sub, live)
  BY <1>2, <1>5 DEF EndTurn, TurnFails, Stops
<1>6. QED
  BY <1>4, <1>5 DEF EndTurn

-----------------------------------------------------------------------------
(* Types and routes.                                                        *)

InboxTypes ==
    /\ accepted \in [Positions -> Seq(Deliveries)]
    /\ bound \in [Positions -> Identities \union {None}]
    /\ verdict \in [Positions -> {"pending", "ok", "error"}]
    /\ outcome \in [Positions -> Seq(Deliveries)]

LEMMA ReturnTypes ==
    ASSUME TypeOK, NEW o \in Outcomes, NEW sub \in Nat \union {None},
           NEW live \in SUBSET {index}, Returns(o, sub, live)
    PROVE  InboxTypes'
<1>1. CASE UNCHANGED inbox
  BY <1>1 DEF InboxTypes, TypeOK, inbox
<1>2. CASE Inbox!Bind(index, Identity(o)) /\ Identity(o) \in Identities
  BY <1>2 DEF Inbox!Bind, InboxTypes, TypeOK
<1>3. CASE Kind = "await_push" /\ Inbox!Succeed(index - 1)
  <2>1. index - 1 \in Positions
    BY <1>3, TurnShape DEF Actions
  <2>2. QED
    BY <1>3, <2>1, SucceedTypes DEF InboxTypes, TypeOK
<1>4. QED
  BY <1>1, <1>2, <1>3 DEF Returns

LEMMA NotifyShape ==
    ASSUME TypeOK, NEW i \in Positions, NEW d \in Deliveries, Notify(i, d)
    PROVE  /\ accepted' = [accepted EXCEPT ![i] = Append(@, d)]
           /\ accepted[i] \in Seq(Deliveries)
           /\ UNCHANGED <<turns, index, pc, context, task, held, routes, bound,
                          verdict, outcome, requests, replies, results, error>>
BY DEF Notify, Inbox!Accept, TypeOK, log

LEMMA TypeStep ==
    ASSUME TypeOK, RouteInv, [Next]_vars
    PROVE  TypeOK'
<1>0. /\ index \in Nat /\ index \in 1..Len(turns) /\ Kind \in Kinds
  BY TurnShape
<1>1. CASE Asks
  <2>1. Request(IF Kind = "push" THEN index ELSE None) \in Requests
    BY <1>0, <1>1 DEF Asks, Request, Requests, TypeOK
  <2>2. requests' \in Seq(Requests)
    BY <1>1, <2>1 DEF Asks, TypeOK
  <2>3. routes' \subseteq 1..Len(turns)
    BY <1>0, <1>1 DEF Asks
  <2>4. QED
    BY <1>1, <2>2, <2>3 DEF Asks, TypeOK, inbox
<1>2. CASE AwaitPush
  BY <1>2 DEF AwaitPush, TypeOK, inbox, log
<1>3. CASE Quits
  BY <1>3 DEF Quits, TypeOK, log
<1>4. CASE Replies
  <2> PICK o \in Outcomes, sub \in Nat \union {None}, live \in SUBSET {index} :
        EndTurn(o, sub, live) /\ Returns(o, sub, live)
    BY <1>4, ReturnShape
  <2>1. InboxTypes'
    BY ReturnTypes
  <2>2. /\ o.context \in Contexts /\ NextTask(o) \in Tasks \union {None}
        /\ Append(replies, o) \in Seq(Outcomes)
    BY DEF Outcomes, NextTask, TypeOK
  <2>3. CASE Carries(o, sub, live)
    BY <1>0, <2>1, <2>2, <2>3 DEF Carries, TypeOK, InboxTypes
  <2>4. CASE Stops(o, sub, live)
    BY <1>0, <2>1, <2>2, <2>4 DEF Stops, TypeOK, InboxTypes
  <2>5. QED
    BY <2>3, <2>4, EndShape
<1>5. ASSUME NEW i \in Positions, NEW d \in Deliveries, Notify(i, d) PROVE TypeOK'
  <2>1. accepted' \in [Positions -> Seq(Deliveries)]
    <3>1. Append(accepted[i], d) \in Seq(Deliveries)
      BY <1>5, NotifyShape
    <3>2. accepted \in [Positions -> Seq(Deliveries)]
      BY DEF TypeOK
    <3>3. QED
      BY <1>5, <3>1, <3>2, NotifyShape, SMTT(30)
  <2>2. QED
    BY <1>5, <2>1, NotifyShape DEF TypeOK
<1>6. CASE UNCHANGED vars
  BY <1>6 DEF vars, TypeOK, inbox, log
<1>7. QED
  BY <1>1, <1>2, <1>3, <1>4, <1>5, <1>6, AskShape, QuitShape DEF Next, StartTurn

LEMMA RouteStep ==
    ASSUME TypeOK, RouteInv, TypeOK', [Next]_vars
    PROVE  RouteInv'
<1>0. /\ index \in Nat /\ index \in 1..Len(turns) /\ Kind \in Kinds
      /\ turns \in Seq(Kinds) /\ Len(turns) \in Nat
      /\ None \notin Nat
  BY TurnShape, IdsAssumption
<1>1. CASE Asks
  <2>1. requests \in Seq(Requests) /\ DOMAIN requests = 1..Len(requests)
        /\ Request(IF Kind = "push" THEN index ELSE None) \in Requests
    BY <1>0, <1>1 DEF TypeOK, Asks, Request, Requests
  <2>2. \A k \in DOMAIN requests' :
           requests'[k].target # None <=> requests'[k].kind = "push"
    <3>1. Request(IF Kind = "push" THEN index ELSE None).target # None
             <=> Request(IF Kind = "push" THEN index ELSE None).kind = "push"
      BY <1>0 DEF Request
    <3>2. \A k \in DOMAIN requests' :
             \/ k \in DOMAIN requests /\ requests'[k] = requests[k]
             \/ requests'[k] = Request(IF Kind = "push" THEN index ELSE None)
      BY <1>1, <2>1 DEF Asks
    <3>3. QED
      BY <3>1, <3>2 DEF RouteInv
  <2>3. Kind' = Kind /\ Inherited' = Inherited
    BY <1>1 DEF Asks, Kind, Inherited
  <2>4. QED
    BY <1>1, <2>2, <2>3 DEF Asks, RouteInv
<1>2. CASE AwaitPush
  <2>1. Kind' = Kind /\ Inherited' = Inherited
    BY <1>2 DEF AwaitPush, Kind, Inherited
  <2>2. QED
    BY <1>2, <2>1 DEF AwaitPush, RouteInv, log
<1>3. CASE Quits
  BY <1>3 DEF Quits, RouteInv, log
<1>4. CASE Replies
  <2> PICK o \in Outcomes, sub \in Nat \union {None}, live \in SUBSET {index} :
        EndTurn(o, sub, live) /\ Returns(o, sub, live)
    BY <1>4, ReturnShape
  <2>1. live \ {sub} = {}
    BY <1>0 DEF Returns
  <2>2. CASE Carries(o, sub, live)
    <3>1. Kind' = turns[index + 1] /\ index' - 1 = index
      BY <1>0, <2>2 DEF Carries, Kind
    <3>2. Kind' = "await_push" <=> Kind = "push"
      BY <2>2, <3>1, TurnShape DEF Carries
    <3>3. sub = Inherited' /\ live = (IF Kind' = "await_push" THEN {index' - 1} ELSE {})
      BY <3>1, <3>2 DEF Returns, Inherited
    <3>4. QED
      BY <2>2, <3>3 DEF Carries, RouteInv
  <2>3. CASE Stops(o, sub, live)
    BY <2>1, <2>3 DEF Stops, RouteInv
  <2>4. QED
    BY <2>2, <2>3, EndShape
<1>5. ASSUME NEW i \in Positions, NEW d \in Deliveries, Notify(i, d) PROVE RouteInv'
  BY <1>5, NotifyShape DEF RouteInv, Inherited, Kind
<1>6. CASE UNCHANGED vars
  BY <1>6 DEF vars, RouteInv, Inherited, Kind, log
<1>7. QED
  BY <1>1, <1>2, <1>3, <1>4, <1>5, <1>6, AskShape, QuitShape DEF Next, StartTurn

LEMMA InitRoutes == Init => TypeOK /\ RouteInv
<1> SUFFICES ASSUME Init PROVE TypeOK /\ RouteInv
  OBVIOUS
<1>1. turns \in Seq(Kinds) /\ ValidScript(turns)
  BY ScriptsAssumption DEF Init
<1>2. 1 \in 1..Len(turns)
  BY <1>1 DEF ValidScript
<1>3. Kind \notin Actions
  BY <1>1 DEF Init, ValidScript, Kind
<1>4. TypeOK
  <2>1. InboxTypes
    <3>1. <<>> \in Seq(Deliveries)
      OBVIOUS
    <3>2. QED
      BY <3>1 DEF Init, Inbox!Init, InboxTypes
  <2>2. requests \in Seq(Requests) /\ replies \in Seq(Outcomes) /\ results \in Seq(BOOLEAN)
    BY DEF Init
  <2>3. QED
    BY <1>2, <2>1, <2>2, IdsAssumption DEF Init, TypeOK, InboxTypes
<1>5. QED
  BY <1>3, <1>4 DEF Init, RouteInv, Inherited, Actions

LEMMA RoutesInvariant == Spec => [](TypeOK /\ RouteInv)
<1>1. TypeOK /\ RouteInv /\ [Next]_vars => (TypeOK /\ RouteInv)'
  BY TypeStep, RouteStep
<1>2. QED
  BY <1>1, InitRoutes, PTL DEF Spec

\* The type invariant: it rests on where the routes are, for a wait whose
\* subscription were not the one of the turn before would read another's.
THEOREM TypeCorrect == Spec => []TypeOK
<1>1. QED
  BY RoutesInvariant, PTL

\* However a trial ends (a failed check, an error of any call, a timeout, the
\* refusal of an action), no callback route is left, there is never more than
\* one, and only a push turn offers one.
THEOREM RoutesNeverLeak == Spec => []NoRouteLeaks
<1>1. TypeOK /\ RouteInv => NoRouteLeaks
  <2> SUFFICES ASSUME TypeOK, RouteInv PROVE NoRouteLeaks
    OBVIOUS
  <2>1. Cardinality({}) = 0 /\ \A x : Cardinality({x}) = 1
    BY FS_EmptySet, FS_Singleton
  <2>2. Cardinality(routes) <= 1
    <3>1. routes = {} \/ routes = {index - 1} \/ routes = {index}
      BY DEF RouteInv
    <3>2. Cardinality(routes) = 0 \/ Cardinality(routes) = 1
      BY <2>1, <3>1, Zenon
    <3>3. QED
      BY <3>2
  <2>3. \A i \in routes : i \in {index, index - 1} /\ turns[i] = "push"
    BY TurnShape DEF RouteInv, Kind
  <2>4. QED
    BY <2>2, <2>3 DEF RouteInv, NoRouteLeaks
<1>2. QED
  BY <1>1, RoutesInvariant, PTL

-----------------------------------------------------------------------------
(* The bound subscription.                                                  *)

LEMMA ReplyAppended ==
    ASSUME TypeOK, NEW o \in Outcomes, replies' = Append(replies, o)
    PROVE  /\ DOMAIN replies = 1..Len(replies) /\ Len(replies) \in Nat
           /\ DOMAIN (replies') = 1..(Len(replies) + 1)
           /\ Len(replies') = Len(replies) + 1
           /\ \A k \in 1..Len(replies) : replies'[k] = replies[k]
           /\ replies'[Len(replies) + 1] = o
           /\ Last(replies') = o
<1>1. replies \in Seq(Outcomes) /\ replies' \in Seq(Outcomes)
  BY DEF TypeOK
<1>2. QED
  BY <1>1 DEF Last

LEMMA BoundStep ==
    ASSUME TypeOK, RouteInv, BoundInv, [Next]_vars
    PROVE  BoundInv'
<1>0. index \in Nat /\ index \in 1..Len(turns) /\ Len(turns) \in Nat
  BY TurnShape
<1>1. CASE Asks \/ AwaitPush \/ UNCHANGED vars
  <2>1. pc # "done" \/ pc' = "done"
    BY <1>1 DEF Asks, AwaitPush, vars
  <2>2. UNCHANGED <<turns, index, replies, bound>>
    BY <1>1 DEF Asks, AwaitPush, vars, inbox, log
  <2>3. QED
    BY <2>1, <2>2 DEF BoundInv, Kind, Identity
<1>2. CASE Quits
  BY <1>2 DEF Quits, BoundInv
<1>3. CASE Replies
  <2> PICK o \in Outcomes, sub \in Nat \union {None}, live \in SUBSET {index} :
        EndTurn(o, sub, live) /\ Returns(o, sub, live)
    BY <1>3, ReturnShape
  <2>1. CASE Carries(o, sub, live)
    <3>1. Kind' = turns[index + 1] /\ index' = index + 1 /\ index' - 1 = index
      BY <1>0, <2>1 DEF Carries, Kind
    <3>2. Len(replies) = index - 1
      BY DEF Returns, BoundInv
    <3>3. Len(replies') = index' - 1 /\ replies'[index] = o
      BY <1>0, <2>1, <3>1, <3>2, ReplyAppended DEF Carries
    <3>4. ASSUME Kind' = "await_push"
          PROVE  bound'[index] = Identity(o) /\ bound'[index] \in Identities
      <4>1. Kind = "push" /\ index \in Positions
        BY <1>0, <2>1, <3>1, <3>4, TurnShape DEF Carries
      <4>2. QED
        BY <4>1 DEF Returns, Inbox!Bind, TypeOK
    <3>5. QED
      BY <3>1, <3>3, <3>4 DEF BoundInv, Identity
  <2>2. CASE Stops(o, sub, live)
    BY <2>2 DEF Stops, BoundInv
  <2>3. QED
    BY <2>1, <2>2, EndShape
<1>4. ASSUME NEW i \in Positions, NEW d \in Deliveries, Notify(i, d) PROVE BoundInv'
  BY <1>4, NotifyShape DEF BoundInv, Kind, Identity
<1>5. QED
  BY <1>1, <1>2, <1>3, <1>4, AskShape, QuitShape DEF Next, StartTurn

LEMMA BoundInvariant == Spec => []BoundInv
<1>1. Init => BoundInv
  <2> SUFFICES ASSUME Init PROVE BoundInv
    OBVIOUS
  <2>1. Kind \notin Actions
    BY ScriptsAssumption DEF Init, ValidScript, Kind
  <2>2. QED
    BY <2>1 DEF Init, BoundInv, Actions
<1>2. TypeOK /\ RouteInv /\ BoundInv /\ [Next]_vars => BoundInv'
  BY BoundStep
<1>3. QED
  BY <1>1, <1>2, RoutesInvariant, PTL DEF Spec

\* The two ValueErrors of PushSubscription.wait cannot occur: a trial waits
\* only on the live subscription of the turn before, bound to the task that
\* turn was answered with.
THEOREM WaitsAreOnBoundRoutes == Spec => []WaitsOnBoundRoute
<1>1. TypeOK /\ RouteInv /\ BoundInv => WaitsOnBoundRoute
  <2> SUFFICES ASSUME TypeOK, RouteInv, BoundInv, pc = "waiting"
               PROVE  /\ held = index - 1
                      /\ held \in routes
                      /\ bound[held] = Identity(Last(replies))
                      /\ bound[held] # None
    BY DEF WaitsOnBoundRoute
  <2>1. Kind = "await_push" /\ held = index - 1 /\ routes = {index - 1}
    BY DEF RouteInv, Inherited
  <2>2. Last(replies) = replies[index - 1]
    BY DEF Last, BoundInv
  <2>3. QED
    BY <2>1, <2>2, IdsAssumption DEF BoundInv
<1>2. QED
  BY <1>1, RoutesInvariant, BoundInvariant, PTL

-----------------------------------------------------------------------------
(* The outcome of a wait.                                                   *)

LEMMA PrefixGrows ==
    ASSUME NEW T, NEW p \in Seq(T), NEW q \in Seq(T), NEW e \in T, IsPrefix(p, q)
    PROVE  IsPrefix(p, Append(q, e))
<1>1. Len(p) <= Len(q) /\ SubSeq(p, 1, Len(p)) = SubSeq(q, 1, Len(p))
  BY DEF IsPrefix
<1>2. Len(p) \in Nat /\ Len(q) \in Nat /\ Len(Append(q, e)) = Len(q) + 1
  OBVIOUS
<1>3. SubSeq(Append(q, e), 1, Len(p)) = SubSeq(q, 1, Len(p))
  BY <1>1, <1>2
<1>4. QED
  BY <1>1, <1>2, <1>3 DEF IsPrefix

LEMMA SucceedsWithOwn ==
    ASSUME TypeOK, BoundInv, OutcomeInv, NEW o \in Outcomes,
           pc = "waiting", Kind = "await_push", UNCHANGED turns,
           Inbox!Succeed(index - 1), o = Awaited(outcome'[index - 1]),
           replies' = Append(replies, o), NEW k \in Nat, k = index
    PROVE  OwnOutcome(k)'
<1> DEFINE i == k - 1
<1>1. i \in Positions /\ index \in Nat /\ index - 1 \in 1..Len(turns)
  BY TurnShape DEF Actions
<1>2. PICK n \in DOMAIN accepted[i] :
         /\ Inbox!Decides(i, n)
         /\ outcome'[i] = SubSeq(accepted[i], 1, n)
         /\ outcome'[i] \in Seq(Deliveries) /\ Len(outcome'[i]) = n
         /\ n \in 1..Len(accepted[i])
         /\ \A j \in 1..n : outcome'[i][j] = accepted[i][j]
  BY <1>1, SucceedTypes
<1>3. accepted' = accepted /\ accepted[i] \in Seq(Deliveries)
  BY <1>1, SucceedTypes DEF TypeOK
<1>4. DOMAIN (outcome'[i]) = 1..n /\ n \in Nat \ {0}
  BY <1>2, <1>3
<1>5. /\ Len(replies) = i /\ replies'[i] = replies[i] /\ replies'[index] = o
      /\ bound[i] = Identity(replies[i])
  <2>1. Len(replies) = i /\ bound[i] = Identity(replies[i])
    BY DEF BoundInv
  <2>2. i \in 1..Len(replies) /\ Len(replies) + 1 = index
    BY <1>1, <2>1
  <2>3. QED
    BY <2>1, <2>2, ReplyAppended
<1>6. \A j \in 1..n : /\ outcome'[i][j].outer = bound[i]
                      /\ outcome'[i][j].kind = "terminal" <=> j = n
  <2>1. /\ accepted[i][n].outer = bound[i] /\ accepted[i][n].kind = "terminal"
        /\ \A j \in 1..(n - 1) :
              accepted[i][j].outer = bound[i] /\ accepted[i][j].kind = "progress"
    BY <1>2 DEF Inbox!Decides
  <2>2. \A j \in 1..n : j = n \/ j \in 1..(n - 1)
    BY <1>4
  <2>3. \A j \in 1..(n - 1) : j # n
    BY <1>4
  <2>4. QED
    BY <1>2, <2>1, <2>2, <2>3
<1>7. IsPrefix(outcome'[i], accepted[i])
  <2>1. SubSeq(outcome'[i], 1, n) = outcome'[i]
    BY <1>2, <1>4
  <2>2. n <= Len(accepted[i])
    BY <1>2, <1>3
  <2>3. QED
    BY <1>2, <2>1, <2>2 DEF IsPrefix
<1>8. outcome'[i] # <<>>
  BY <1>4
<1>9. \A j \in DOMAIN (outcome'[i]) :
         /\ outcome'[i][j].outer = Identity(replies'[i])
         /\ outcome'[i][j].kind = "terminal" <=> j = Len(outcome'[i])
  BY <1>2, <1>4, <1>5, <1>6
<1>10. IsPrefix(outcome'[i], accepted'[i]) /\ replies'[k] = Awaited(outcome'[i])
  BY <1>3, <1>5, <1>7
<1>11. QED
  BY <1>8, <1>9, <1>10 DEF OwnOutcome, Identity, Awaited

\* What was answered before stays as it was.
LEMMA OwnStays ==
    ASSUME TypeOK, OutcomeInv, NEW k \in DOMAIN replies, turns[k] = "await_push",
           k - 1 \in DOMAIN replies,
           replies'[k] = replies[k], replies'[k - 1] = replies[k - 1],
           outcome'[k - 1] = outcome[k - 1],
           \/ accepted'[k - 1] = accepted[k - 1]
           \/ \E d \in Deliveries : accepted'[k - 1] = Append(accepted[k - 1], d),
           k - 1 \in Positions
    PROVE  OwnOutcome(k)'
<1>1. OwnOutcome(k)
  BY DEF OutcomeInv
<1>2. outcome[k - 1] \in Seq(Deliveries) /\ accepted[k - 1] \in Seq(Deliveries)
  BY DEF TypeOK
<1>3. IsPrefix(outcome[k - 1], accepted'[k - 1])
  BY <1>1, <1>2, PrefixGrows DEF OwnOutcome
<1>4. QED
  BY <1>1, <1>3 DEF OwnOutcome, Identity, Awaited

LEMMA OutcomeStep ==
    ASSUME TypeOK, RouteInv, BoundInv, OutcomeInv, [Next]_vars
    PROVE  OutcomeInv'
<1>0. /\ index \in Nat /\ index \in 1..Len(turns) /\ Len(turns) \in Nat
      /\ DOMAIN replies = 1..Len(replies) /\ Len(replies) \in Nat
      /\ Len(replies) <= index
  BY TurnShape DEF TypeOK, OutcomeInv
<1>1. \A k \in DOMAIN replies : turns[k] = "await_push" =>
         k - 1 \in DOMAIN replies /\ k - 1 \in Positions /\ k \in Nat
  <2> SUFFICES ASSUME NEW k \in 1..Len(replies), turns[k] = "await_push"
               PROVE  k - 1 \in 1..Len(replies) /\ k - 1 \in Positions
    BY <1>0
  <2>1. k \in 1..Len(turns)
    BY <1>0
  <2>2. k > 1
    BY <2>1, ScriptsAssumption DEF TypeOK, ValidScript
  <2>3. k - 1 \in 1..Len(replies) /\ k - 1 \in 1..Len(turns)
    BY <1>0, <2>1, <2>2
  <2>4. QED
    BY <2>3, TurnShape
<1>2. CASE UNCHANGED <<turns, index, replies, accepted, outcome>>
  BY <1>2 DEF OutcomeInv, OwnOutcome, Identity, Awaited
<1>3. CASE Asks \/ AwaitPush \/ Quits \/ UNCHANGED vars
  BY <1>2, <1>3 DEF Asks, AwaitPush, Quits, vars, inbox, log
<1>4. CASE Replies
  <2> PICK o \in Outcomes, sub \in Nat \union {None}, live \in SUBSET {index} :
        EndTurn(o, sub, live) /\ Returns(o, sub, live)
    BY <1>4, ReturnShape
  <2>1. /\ UNCHANGED turns /\ replies' = Append(replies, o)
        /\ index' \in Nat /\ index <= index'
    BY <1>0, EndShape DEF Carries, Stops
  <2>2. Len(replies) = index - 1
    BY DEF Returns, BoundInv
  <2>3. /\ DOMAIN (replies') = 1..index /\ Len(replies') = index
        /\ \A k \in DOMAIN replies : replies'[k] = replies[k]
    BY <1>0, <2>1, <2>2, ReplyAppended
  <2>4. ASSUME NEW k \in DOMAIN replies, turns[k] = "await_push" PROVE OwnOutcome(k)'
    <3>1. k - 1 \in DOMAIN replies /\ k - 1 \in Positions /\ k \in Nat /\ k < index
      BY <1>0, <1>1, <2>2, <2>4
    <3>2. outcome'[k - 1] = outcome[k - 1] /\ accepted'[k - 1] = accepted[k - 1]
      <4>1. CASE UNCHANGED inbox
        BY <4>1 DEF inbox
      <4>2. CASE Inbox!Bind(index, Identity(o))
        BY <4>2 DEF Inbox!Bind
      <4>3. CASE Kind = "await_push" /\ Inbox!Succeed(index - 1)
        <5>1. index - 1 \in Positions /\ k - 1 # index - 1
          BY <1>0, <3>1, <4>3, TurnShape DEF Actions
        <5>2. QED
          BY <3>1, <4>3, <5>1, SucceedTypes
      <4>4. QED
        BY <4>1, <4>2, <4>3 DEF Returns
    <3>3. QED
      BY <2>3, <2>4, <3>1, <3>2, OwnStays
  <2>5. ASSUME NEW k \in Nat, k = index, turns[k] = "await_push" PROVE OwnOutcome(k)'
    <3>1. Kind = "await_push"
      BY <2>5 DEF Kind
    <3>2. /\ pc = "waiting" /\ Inbox!Succeed(index - 1)
          /\ o = Awaited(outcome'[index - 1])
      BY <3>1 DEF Returns
    <3>3. QED
      BY <2>1, <2>5, <3>1, <3>2, SucceedsWithOwn
  <2>6. \A k \in DOMAIN (replies') : turns[k] = "await_push" => OwnOutcome(k)'
    <3>1. \A k \in 1..index : k \in DOMAIN replies \/ (k = index /\ k \in Nat)
      BY <1>0, <2>2
    <3>2. QED
      BY <2>3, <2>4, <2>5, <3>1
  <2>7. QED
    BY <1>0, <2>1, <2>3, <2>6 DEF OutcomeInv
<1>5. ASSUME NEW i \in Positions, NEW d \in Deliveries, Notify(i, d) PROVE OutcomeInv'
  <2>1. UNCHANGED <<turns, index, replies, outcome>>
    BY <1>5, NotifyShape
  <2>2. ASSUME NEW x \in Positions
        PROVE  accepted'[x] = accepted[x] \/ accepted'[x] = Append(accepted[x], d)
    BY <1>5, NotifyShape DEF TypeOK
  <2>3. ASSUME NEW k \in DOMAIN replies, turns[k] = "await_push" PROVE OwnOutcome(k)'
    BY <1>1, <2>1, <2>2, <2>3, OwnStays
  <2>4. QED
    BY <2>1, <2>3 DEF OutcomeInv
<1>6. QED
  BY <1>3, <1>4, <1>5, AskShape, QuitShape DEF Next, StartTurn

\* An await_push turn is judged by the agent's own notifications to its own
\* subscription, up to the first terminal one, and by all of them, in whatever
\* order and however early they came.
THEOREM AwaitedOutcomesAreOwn == Spec => []AwaitedOutcomeIsOwn
<1>1. Init => OutcomeInv
  BY DEF Init, OutcomeInv
<1>2. TypeOK /\ RouteInv /\ BoundInv /\ OutcomeInv /\ [Next]_vars => OutcomeInv'
  BY OutcomeStep
<1>3. OutcomeInv => AwaitedOutcomeIsOwn
  BY DEF OutcomeInv, AwaitedOutcomeIsOwn, OwnOutcome
<1>4. QED
  BY <1>1, <1>2, <1>3, RoutesInvariant, BoundInvariant, PTL DEF Spec

-----------------------------------------------------------------------------
(* Tasks that are resumed.                                                  *)

LEMMA TaskStep ==
    ASSUME TypeOK, RouteInv, TaskInv, [Next]_vars
    PROVE  TaskInv'
<1>0. /\ index \in Nat /\ index \in 1..Len(turns) /\ Kind \in Kinds
      /\ DOMAIN replies = 1..Len(replies)
      /\ DOMAIN requests = 1..Len(requests) /\ requests \in Seq(Requests)
  BY TurnShape DEF TypeOK
<1>1. CASE Asks
  <2> DEFINE new == Request(IF Kind = "push" THEN index ELSE None)
  <2>1. /\ new \in Requests /\ new.task = task /\ new.kind = Kind
        /\ UNCHANGED <<replies, task, index, turns>> /\ pc' = "sent" /\ pc = "ready"
        /\ requests' = Append(requests, new)
    BY <1>0, <1>1 DEF Asks, Request, Requests, TypeOK
  <2> HIDE DEF new
  <2>2. /\ DOMAIN (requests') = 1..(Len(requests) + 1) /\ Len(requests) \in Nat
        /\ Len(requests') = Len(requests) + 1
        /\ \A k \in 1..Len(requests) : requests'[k] = requests[k]
        /\ requests'[Len(requests) + 1] = new
    BY <1>0, <2>1
  <2>3. ASSUME NEW k \in DOMAIN (requests'), requests'[k].task # None
        PROVE  /\ \E j \in DOMAIN replies' : replies'[j].task = requests'[k].task
               /\ (requests'[k].kind \in {"send", "push"} /\ k = Len(requests'))
                     => Last(replies').resumable
    <3>1. CASE k \in 1..Len(requests)
      <4>1. k # Len(requests') /\ requests'[k] = requests[k]
        BY <2>2, <3>1
      <4>2. QED
        BY <1>0, <2>1, <2>3, <3>1, <4>1 DEF TaskInv, ResumesOnlyOpenTasks
    <3>2. CASE k = Len(requests) + 1
      BY <2>1, <2>2, <2>3, <3>2 DEF TaskInv
    <3>3. QED
      BY <2>2, <3>1, <3>2
  <2>4. QED
    BY <2>1, <2>3 DEF TaskInv, ResumesOnlyOpenTasks
<1>2. CASE /\ UNCHANGED <<replies, requests, task, index, turns>>
           /\ pc' = pc \/ pc' \in {"waiting", "done"}
  BY <1>2 DEF TaskInv, ResumesOnlyOpenTasks, Kind
<1>3. CASE AwaitPush \/ Quits \/ UNCHANGED vars
  BY <1>2, <1>3 DEF AwaitPush, Quits, vars, log
<1>4. CASE Replies
  <2> PICK o \in Outcomes, sub \in Nat \union {None}, live \in SUBSET {index} :
        EndTurn(o, sub, live) /\ Returns(o, sub, live)
    BY <1>4, ReturnShape
  <2>1. /\ replies' = Append(replies, o) /\ UNCHANGED <<turns, requests>>
        /\ task' \in {task, NextTask(o)} /\ pc' \in {"ready", "done"}
    BY EndShape DEF Carries, Stops
  <2>2. /\ DOMAIN (replies') = 1..(Len(replies) + 1) /\ Len(replies) \in Nat
        /\ \A k \in 1..Len(replies) : replies'[k] = replies[k]
        /\ replies'[Len(replies) + 1] = o /\ Last(replies') = o
    BY <2>1, ReplyAppended
  <2>3. \A x : (\E j \in DOMAIN replies : replies[j].task = x)
                => \E j \in DOMAIN (replies') : replies'[j].task = x
    BY <1>0, <2>2
  <2>4. \E j \in DOMAIN (replies') : replies'[j].task = o.task
    BY <2>2
  <2>5. task' # None => \E j \in DOMAIN (replies') : replies'[j].task = task'
    BY <2>1, <2>3, <2>4 DEF NextTask, TaskInv
  <2>6. ResumesOnlyOpenTasks'
    BY <2>1, <2>3 DEF TaskInv, ResumesOnlyOpenTasks
  <2>7. (pc' = "ready" /\ task' # None /\ Kind' \in {"send", "push"}) => o.resumable
    <3> SUFFICES ASSUME pc' = "ready", task' # None, Kind' \in {"send", "push"}
                 PROVE  o.resumable
      OBVIOUS
    <3>1. Carries(o, sub, live)
      BY EndShape DEF Stops
    <3>2. Kind' = turns[index + 1] /\ task' = NextTask(o)
      BY <3>1 DEF Carries, Kind
    <3>3. QED
      BY <3>2 DEF NextTask, Actions
  <2>8. QED
    BY <2>2, <2>5, <2>6, <2>7 DEF TaskInv
<1>5. ASSUME NEW i \in Positions, NEW d \in Deliveries, Notify(i, d) PROVE TaskInv'
  BY <1>2, <1>5, NotifyShape
<1>6. QED
  BY <1>1, <1>3, <1>4, <1>5, AskShape, QuitShape DEF Next, StartTurn

\* A trial names only tasks the agent gave it, and continues one with a new
\* message only when the last reply left it open.
THEOREM OnlyOpenTasksResume == Spec => []ResumesOnlyOpenTasks
<1>1. Init => TaskInv
  BY DEF Init, TaskInv, ResumesOnlyOpenTasks
<1>2. TypeOK /\ RouteInv /\ TaskInv /\ [Next]_vars => TaskInv'
  BY TaskStep
<1>3. TaskInv => ResumesOnlyOpenTasks
  BY DEF TaskInv
<1>4. QED
  BY <1>1, <1>2, <1>3, RoutesInvariant, PTL DEF Spec

-----------------------------------------------------------------------------
(* Loader and schema.                                                       *)

\* Where no value is null or empty, a field is filled when it is written.
LEMMA DefiniteFields ==
    ASSUME NEW p, Definite(p), NEW f
    PROVE  /\ Given(p, f) <=> f \in DOMAIN p
           /\ Filled(p, f) <=> f \in DOMAIN p
  BY DEF Definite, Given, Filled

LEMMA StatesAgree ==
    ASSUME NEW p, PieceTyped("states", p)
    PROVE  StatesLoad(p) <=> StatesAdmitted(p)
<1>1. DOMAIN p \subseteq {"equals", "contains_in_order"}
  BY DEF PieceTyped
<1>2. IsFiniteSet(DOMAIN p)
  <2>1. IsFiniteSet({"equals", "contains_in_order"})
    <3>1. {"equals", "contains_in_order"} = {"equals"} \union {"contains_in_order"}
      OBVIOUS
    <3>2. IsFiniteSet({"equals"}) /\ IsFiniteSet({"contains_in_order"})
      BY FS_Singleton
    <3> QED
      BY <3>1, <3>2, FS_Union
  <2> QED
    BY <1>1, <2>1, FS_Subset
<1>3. Cardinality(DOMAIN p) = 1 <=> \E f : DOMAIN p = {f}
  BY <1>2, FS_Singleton
<1>4. (\E f : DOMAIN p = {f})
         <=> ("equals" \in DOMAIN p <=> "contains_in_order" \notin DOMAIN p)
  <2>1. "equals" # "contains_in_order"
    OBVIOUS
  <2>2. CASE "equals" \in DOMAIN p /\ "contains_in_order" \in DOMAIN p
    <3>1. ASSUME NEW f, DOMAIN p = {f} PROVE FALSE
      <4>1. f = "equals" /\ f = "contains_in_order"
        BY <2>2, <3>1
      <4> QED
        BY <2>1, <4>1
    <3> QED
      BY <2>2, <3>1
  <2>3. CASE "equals" \in DOMAIN p /\ "contains_in_order" \notin DOMAIN p
    <3>1. DOMAIN p = {"equals"}
      BY <1>1, <2>3
    <3> QED
      BY <2>3, <3>1
  <2>4. CASE "equals" \notin DOMAIN p /\ "contains_in_order" \in DOMAIN p
    <3>1. DOMAIN p = {"contains_in_order"}
      BY <1>1, <2>4
    <3> QED
      BY <2>4, <3>1
  <2>5. CASE "equals" \notin DOMAIN p /\ "contains_in_order" \notin DOMAIN p
    <3>1. DOMAIN p = {}
      BY <1>1, <2>5
    <3>2. ~\E f : DOMAIN p = {f}
      BY <3>1
    <3> QED
      BY <2>5, <3>2
  <2> QED
    BY <2>2, <2>3, <2>4, <2>5
<1>5. /\ Has(p, {"equals"}) <=> "equals" \in DOMAIN p
      /\ Has(p, {"contains_in_order"}) <=> "contains_in_order" \in DOMAIN p
      /\ Has(p, {"equals"}) \in BOOLEAN /\ Has(p, {"contains_in_order"}) \in BOOLEAN
  BY DEF Has
<1>6. (Has(p, {"equals"}) # Has(p, {"contains_in_order"}))
         <=> ("equals" \in DOMAIN p <=> "contains_in_order" \notin DOMAIN p)
  <2>1. \A a, b \in BOOLEAN : (a # b) <=> (a <=> ~b)
    <3>1. TRUE # FALSE
      OBVIOUS
    <3> QED
      BY <3>1
  <2>2. (Has(p, {"equals"}) # Has(p, {"contains_in_order"}))
           <=> (Has(p, {"equals"}) <=> ~Has(p, {"contains_in_order"}))
    BY <1>5, <2>1, Zenon
  <2> QED
    BY <1>5, <2>2, Zenon
<1> QED
  BY <1>3, <1>4, <1>6, Zenon DEF StatesLoad, StatesAdmitted

LEMMA FilesAgree ==
    ASSUME NEW p, PieceTyped("file", p)
    PROVE  FileLoads(p) <=> FileAdmitted(p) /\ ~LeftToLoader("file", p)
<1>1. CASE ~NoNull(p, Integrity)
  BY <1>1 DEF FileLoads, FileAdmitted
<1>2. CASE NoNull(p, Integrity)
  <2>1. \A f \in Integrity : Given(p, f) <=> f \in DOMAIN p
    BY <1>2 DEF NoNull, Given
  <2>2. \A f \in {"min_size_bytes", "max_size_bytes"} : f \in DOMAIN p => p[f] \in Nat
    BY <1>2 DEF PieceTyped, NoNull, Integrity
  <2>3. {"size_bytes", "min_size_bytes", "max_size_bytes"} \subseteq Integrity
    BY DEF Integrity
  <2>4. {"min_size_bytes", "max_size_bytes"} \subseteq DOMAIN p =>
           (p.min_size_bytes <= p.max_size_bytes <=> ~(p.min_size_bytes > p.max_size_bytes))
    <3>1. \A m, n \in Nat : m <= n <=> ~(m > n)
      OBVIOUS
    <3> QED
      BY <2>2, <3>1
  <2>5. /\ Given(p, "size_bytes") <=> "size_bytes" \in DOMAIN p
        /\ Given(p, "min_size_bytes") <=> "min_size_bytes" \in DOMAIN p
        /\ Given(p, "max_size_bytes") <=> "max_size_bytes" \in DOMAIN p
    BY <2>1, <2>3
  <2>6. LeftToLoader("file", p) <=>
           \/ ~LocationLoads(p)
           \/ /\ "min_size_bytes" \in DOMAIN p /\ "max_size_bytes" \in DOMAIN p
              /\ p.min_size_bytes > p.max_size_bytes
    BY DEF LeftToLoader
  <2> QED
    BY <1>2, <2>4, <2>5, <2>6 DEF FileLoads, FileAdmitted
<1> QED
  BY <1>1, <1>2

LEMMA DataAgree ==
    ASSUME NEW p
    PROVE  DataLoads(p) <=> DataAdmitted(p) /\ ~LeftToLoader("data", p)
<1> DEFINE used == {group \in Predicates : Has(p, group)}
<1>1. IsFiniteSet(used)
  <2>1. IsFiniteSet(Predicates)
    <3>1. Predicates = {{"equals"}} \union ({{"exists"}} \union ({{"matches"}}
                          \union ({{"gt", "gte", "lt", "lte"}} \union {{"json_schema"}})))
      BY DEF Predicates
    <3>2. \A x : IsFiniteSet({x})
      BY FS_Singleton
    <3>3. \A S, T : IsFiniteSet(S) /\ IsFiniteSet(T) => IsFiniteSet(S \union T)
      BY FS_Union
    <3> QED
      BY <3>1, <3>2, <3>3
  <2>2. used \subseteq Predicates
    OBVIOUS
  <2> QED
    BY <2>1, <2>2, FS_Subset
<1>2. Cardinality(used) = 1 <=> \E group : used = {group}
  <2> HIDE DEF used
  <2> QED
    BY <1>1, FS_Singleton
<1>3. (\E group : used = {group}) <=>
         \E group \in Predicates :
            Has(p, group) /\ \A other \in Predicates \ {group} : ~Has(p, other)
  <2>1. ASSUME NEW group, used = {group}
        PROVE  \E g \in Predicates :
                  Has(p, g) /\ \A other \in Predicates \ {g} : ~Has(p, other)
    <3>1. group \in Predicates /\ Has(p, group)
      BY <2>1
    <3>2. \A other \in Predicates \ {group} : ~Has(p, other)
      BY <2>1
    <3> QED
      BY <3>1, <3>2
  <2>2. ASSUME NEW group \in Predicates, Has(p, group),
               \A other \in Predicates \ {group} : ~Has(p, other)
        PROVE  used = {group}
    BY <2>2
  <2> QED
    BY <2>1, <2>2
<1>4. LeftToLoader("data", p) <=>
         \/ ~LocationLoads(p)
         \/ Is(p, "exists", FALSE) /\ ~Filled(p, "path")
  BY DEF LeftToLoader
<1> QED
  BY <1>2, <1>3, <1>4 DEF DataLoads, DataAdmitted

LEMMA DefinitePiecesAgree ==
    ASSUME NEW p, Definite(p)
    PROVE  /\ TextInvariantLoads(p) <=> TextInvariantAdmitted(p)
           /\ DelegationLoads(p) <=> DelegationAdmitted(p)
           /\ PieceTyped("turn", p) => (TurnLoads(p) <=> TurnAdmitted(p))
           /\ \A class \in {"mandate", "receipt"} :
                 PieceTyped(class, p) => (AP2Loads(class, p) <=> AP2Admitted(class, p))
<1>1. \A f : /\ Given(p, f) <=> f \in DOMAIN p
             /\ Filled(p, f) <=> f \in DOMAIN p
  BY DefiniteFields
<1>2. \A names : Has(p, names) <=> \E f \in names : f \in DOMAIN p
  BY DEF Has
<1>3. TextInvariantLoads(p) <=> TextInvariantAdmitted(p)
  BY <1>1, <1>2 DEF TextInvariantLoads, TextInvariantAdmitted
<1>4. DelegationLoads(p) <=> DelegationAdmitted(p)
  BY <1>1, <1>2 DEF DelegationLoads, DelegationAdmitted
<1>5. ASSUME NEW class \in {"mandate", "receipt"}, PieceTyped(class, p)
      PROVE  AP2Loads(class, p) <=> AP2Admitted(class, p)
  <2>1. Has(p, Foreign(class, p.type)) <=> \E f \in Foreign(class, p.type) : f \in DOMAIN p
    BY <1>2
  <2>2. /\ Has(p, {"artifact_name"}) <=> "artifact_name" \in DOMAIN p
        /\ Has(p, {"error"}) <=> "error" \in DOMAIN p
    BY <1>2
  <2> QED
    BY <1>1, <2>1, <2>2 DEF AP2Loads, AP2Admitted, LocationLoads
<1>6. ASSUME PieceTyped("turn", p)
      PROVE  TurnLoads(p) <=> TurnAdmitted(p)
  <2> DEFINE content == \E f \in Content : f \in DOMAIN p
             acts == "action" \in DOMAIN p
             history == "history_length" \in DOMAIN p
             timeout == "timeout_seconds" \in DOMAIN p
             immediate == "return_immediately" \in DOMAIN p
             push == "push_notification" \in DOMAIN p
             paired == Is(p, "push_notification", TRUE) => Is(p, "return_immediately", TRUE)
  <2>1. acts => p.action \in {"cancel", "get_task", "subscribe", "await_push"}
    <3>1. acts => p.action # Null
      BY DEF Definite
    <3> QED
      BY <1>6, <3>1 DEF PieceTyped
  <2>2. HasContent(p) <=> content
    BY <1>1 DEF HasContent, Content
  <2>3. TurnLoads(p) <=>
           /\ content <=> ~acts
           /\ acts => ~immediate /\ ~push
           /\ history => Is(p, "action", "get_task")
           /\ timeout => Is(p, "action", "await_push")
           /\ paired
    <3>1. Given(p, "action") <=> acts
      BY <1>1
    <3>2. /\ Has(p, {"return_immediately", "push_notification"}) <=> immediate \/ push
          /\ Has(p, {"history_length"}) <=> history
          /\ Has(p, {"timeout_seconds"}) <=> timeout
      BY <1>2
    <3> HIDE DEF content, acts, history, timeout, immediate, push, paired
    <3>3. paired = (Is(p, "push_notification", TRUE) => Is(p, "return_immediately", TRUE))
      BY DEF paired
    <3> QED
      BY <2>2, <3>1, <3>2, <3>3 DEF TurnLoads
  <2>4. InputAdmitted(p) <=> content /\ ~acts /\ ~history /\ ~timeout /\ paired
    <3>1. Has(p, Content) <=> content
      BY <1>2
    <3>2. Has(p, {"action", "history_length", "timeout_seconds"})
             <=> acts \/ history \/ timeout
      BY <1>2
    <3> QED
      BY <3>1, <3>2 DEF InputAdmitted
  <2>5. ASSUME NEW action, NEW options
        PROVE  ActionAdmitted(p, action, options) <=>
                  /\ Is(p, "action", action)
                  /\ ~content /\ ~immediate /\ ~push
                  /\ history => "history_length" \in options
                  /\ timeout => "timeout_seconds" \in options
    <3>1. Has(p, Content \union {"return_immediately", "push_notification"})
             <=> content \/ immediate \/ push
      BY <1>2
    <3>2. Has(p, {"history_length", "timeout_seconds"} \ options)
             <=> \/ history /\ "history_length" \notin options
                 \/ timeout /\ "timeout_seconds" \notin options
      BY <1>2
    <3> QED
      BY <3>1, <3>2 DEF ActionAdmitted
  <2>6. \A action : Is(p, "action", action) <=> acts /\ p.action = action
    BY DEF Is
  <2>7. paired \/ push
    BY DEF Is
  <2> HIDE DEF content, acts, history, timeout, immediate, push, paired
  <2>8. TurnAdmitted(p) <=>
           \/ InputAdmitted(p)
           \/ /\ acts /\ ~content /\ ~immediate /\ ~push
              /\ \/ p.action = "cancel" /\ ~history /\ ~timeout
                 \/ p.action = "get_task" /\ ~timeout
                 \/ p.action = "subscribe" /\ ~history /\ ~timeout
                 \/ p.action = "await_push" /\ ~history
    <3>1. ActionAdmitted(p, "cancel", {}) <=>
             acts /\ p.action = "cancel" /\ ~content /\ ~immediate /\ ~push /\ ~history /\ ~timeout
      BY <2>5, <2>6
    <3>2. ActionAdmitted(p, "get_task", {"history_length"}) <=>
             acts /\ p.action = "get_task" /\ ~content /\ ~immediate /\ ~push /\ ~timeout
      BY <2>5, <2>6
    <3>3. ActionAdmitted(p, "subscribe", {}) <=>
             acts /\ p.action = "subscribe" /\ ~content /\ ~immediate /\ ~push
                  /\ ~history /\ ~timeout
      BY <2>5, <2>6
    <3>4. ActionAdmitted(p, "await_push", {"timeout_seconds"}) <=>
             acts /\ p.action = "await_push" /\ ~content /\ ~immediate /\ ~push /\ ~history
      BY <2>5, <2>6
    <3> QED
      BY <3>1, <3>2, <3>3, <3>4 DEF TurnAdmitted
  <2> QED
    BY <2>1, <2>3, <2>4, <2>6, <2>7, <2>8
<1> QED
  BY <1>3, <1>4, <1>5, <1>6

LEMMA PiecesAgree ==
    ASSUME NEW class \in Classes, NEW p, PieceTyped(class, p),
           \/ Definite(p)
           \/ class \notin {"turn", "delegation", "text_invariant", "mandate", "receipt"}
    PROVE  Loads(class, p) <=> Admitted(class, p) /\ ~LeftToLoader(class, p)
<1>1. class \notin {"file", "data"} => ~LeftToLoader(class, p)
  BY DEF LeftToLoader
<1>2. CASE class \in {"card", "capabilities", "latency"}
  BY <1>1, <1>2 DEF Loads, Admitted, AssertionLoads, AssertionAdmitted
<1>3. CASE class = "states"
  BY <1>1, <1>3, StatesAgree DEF Loads, Admitted
<1>4. CASE class = "file"
  BY <1>4, FilesAgree DEF Loads, Admitted
<1>5. CASE class = "data"
  BY <1>5, DataAgree DEF Loads, Admitted
<1>6. CASE class = "text_invariant"
  BY <1>1, <1>6, DefinitePiecesAgree DEF Loads, Admitted
<1>7. CASE class = "delegation"
  BY <1>1, <1>7, DefinitePiecesAgree DEF Loads, Admitted
<1>8. CASE class \in {"mandate", "receipt"}
  BY <1>1, <1>8, DefinitePiecesAgree DEF Loads, Admitted
<1>9. CASE class = "turn"
  BY <1>1, <1>9, DefinitePiecesAgree DEF Loads, Admitted
<1> QED
  BY <1>2, <1>3, <1>4, <1>5, <1>6, <1>7, <1>8, <1>9 DEF Classes

\* What a step of loading leaves: the document, and whether it was accepted.
LoadInv ==
    /\ document \in Documents
    /\ stage \in {"written", "loaded", "refused"}
    /\ stage = "loaded" => Accepts(document)
    /\ stage = "refused" => ~Accepts(document)

LEMMA LoadInvariant == LoadSpec => []LoadInv
<1>1. LoadInit => LoadInv
  BY DEF LoadInit, LoadInv
<1>2. LoadInv /\ [Load]_<<document, stage>> => LoadInv'
  BY DEF LoadInv, Load
<1>3. QED
  BY <1>1, <1>2, PTL DEF LoadSpec

\* Of every piece of a contract, the loader accepts what the JSON Schema
\* admits, but for the relations the schema cannot express.
THEOREM SchemaIsComplete == LoadSpec => []SchemaAgrees
<1>1. LoadInv => SchemaAgrees
  <2> SUFFICES ASSUME LoadInv, stage \in {"loaded", "refused"}, document.class # "contract",
                      \/ Definite(document.piece)
                      \/ document.class \notin
                            {"turn", "delegation", "text_invariant", "mandate", "receipt"}
               PROVE  stage = "loaded" <=> /\ Admitted(document.class, document.piece)
                                           /\ ~LeftToLoader(document.class, document.piece)
    BY DEF SchemaAgrees
  <2>1. document.class \in Classes /\ PieceTyped(document.class, document.piece)
    BY DocumentsAssumption DEF LoadInv
  <2>2. stage = "loaded" <=> Loads(document.class, document.piece)
    BY DEF LoadInv, Accepts
  <2> QED
    BY <2>1, <2>2, PiecesAgree
<1>2. QED
  BY <1>1, LoadInvariant, PTL

-----------------------------------------------------------------------------
(* The scenarios that are selected.                                         *)

\* A set of natural numbers has a least one.
LEMMA LeastOf ==
    ASSUME NEW T \in SUBSET Nat, T # {}
    PROVE  \E x \in T : \A y \in T : x <= y
<1> DEFINE U == {0..x : x \in T}
           R == StrictSubsetOrdering(Nat)
<1>1. IsWellFoundedOn(R, FiniteSubsetsOf(Nat))
  BY FS_StrictSubsetOrderingWellFounded
<1>2. U \subseteq FiniteSubsetsOf(Nat) /\ U # {}
  <2>1. \A x \in T : IsFiniteSet(0..x) /\ (0..x) \subseteq Nat
    BY FS_Interval
  <2> QED
    BY <2>1 DEF FiniteSubsetsOf
<1>3. \E u \in U : \A v \in U : <<v, u>> \notin R
  <2> HIDE DEF U, R
  <2> QED
    BY <1>1, <1>2, WFMin
<1>4. PICK x \in T : \A y \in T : <<0..y, 0..x>> \notin R
  BY <1>3
<1>5. ASSUME NEW y \in T, y < x
      PROVE  FALSE
  <2>1. (0..y) \subseteq (0..x) /\ x \in 0..x /\ x \notin 0..y
    BY <1>5
  <2>2. 0..y \in SUBSET Nat /\ 0..x \in SUBSET Nat /\ 0..y # 0..x
    BY <2>1
  <2>3. <<0..y, 0..x>> \in R
    BY <2>1, <2>2 DEF StrictSubsetOrdering
  <2> QED
    BY <1>4, <2>3
<1> QED
  BY <1>5

LEMMA Induction ==
    ASSUME NEW S, 0 \in S, \A k \in Nat : k \in S => k + 1 \in S
    PROVE  \A n \in Nat : n \in S
<1> DEFINE T == {k \in Nat : k \notin S}
<1> SUFFICES ASSUME T # {} PROVE FALSE
  OBVIOUS
<1>1. PICK m \in T : \A y \in T : m <= y
  <2>1. T \in SUBSET Nat
    OBVIOUS
  <2> HIDE DEF T
  <2> QED
    BY <2>1, LeastOf
<1>2. m \in Nat /\ m # 0 /\ m - 1 \in Nat /\ (m - 1) + 1 = m
  OBVIOUS
<1>3. m - 1 \notin T
  BY <1>1, <1>2
<1> QED
  BY <1>2, <1>3

\* What is selected of the first n scenarios.
Chosen(scenarios, names, n, sel) ==
    /\ \A s : (\E k \in 1..Len(sel) : sel[k] = s)
                 <=> \E k \in 1..n : scenarios[k] = s /\ s.name \in names
    /\ \A j, k \in 1..Len(sel) : sel[j].name = sel[k].name => j = k

LEMMA SelectedIs ==
    ASSUME NEW S, NEW scenarios \in Seq(S), NEW names,
           \A j, k \in 1..Len(scenarios) : scenarios[j].name = scenarios[k].name => j = k
    PROVE  /\ Selected(scenarios, names) \in Seq(S)
           /\ Chosen(scenarios, names, Len(scenarios), Selected(scenarios, names))
<1> DEFINE N == Len(scenarios)
           More(sel, n) == IF scenarios[n].name \in names THEN Append(sel, scenarios[n]) ELSE sel
           Body(c) == [n \in 0..N |->
                          IF n = 0 THEN <<>>
                          ELSE IF scenarios[n].name \in names
                               THEN Append(c[n - 1], scenarios[n])
                               ELSE c[n - 1]]
           h == CHOOSE c : c = Body(c)
           Upto(n) == \E c : /\ c = [i \in 0..n |-> c[i]]
                             /\ c[0] = <<>>
                             /\ \A i \in 1..n : c[i] = More(c[i - 1], i)
           good == {n \in Nat : Upto(n)}
<1>1. N \in Nat
  OBVIOUS
<1>2. 0 \in good
  <2> DEFINE c == [i \in 0..0 |-> <<>>]
  <2>1. c = [i \in 0..0 |-> c[i]] /\ c[0] = <<>> /\ 1..0 = {}
    OBVIOUS
  <2> HIDE DEF c, More
  <2>2. Upto(0)
    BY <2>1
  <2> QED
    BY <2>2
<1>3. ASSUME NEW n \in Nat, Upto(n)
      PROVE  Upto(n + 1)
  <2> HIDE DEF More
  <2>1. PICK c : /\ c = [i \in 0..n |-> c[i]]
                 /\ c[0] = <<>>
                 /\ \A i \in 1..n : c[i] = More(c[i - 1], i)
    BY <1>3
  <2> DEFINE more == [i \in 0..(n + 1) |-> IF i <= n THEN c[i] ELSE More(c[n], n + 1)]
  <2>2. \A i \in 0..n : more[i] = c[i]
    OBVIOUS
  <2>3. more[n + 1] = More(c[n], n + 1)
    <3>1. n + 1 \in 0..(n + 1) /\ ~(n + 1 <= n)
      OBVIOUS
    <3> QED
      BY <3>1
  <2>4. more = [i \in 0..(n + 1) |-> more[i]]
    OBVIOUS
  <2> HIDE DEF more
  <2>5. 0 \in 0..n /\ n \in 0..n
    OBVIOUS
  <2>6. ASSUME NEW i \in 1..(n + 1)
        PROVE  more[i] = More(more[i - 1], i)
    <3>1. CASE i = n + 1
      <4>1. i - 1 = n
        BY <3>1
      <4> QED
        BY <2>2, <2>3, <2>5, <3>1, <4>1
    <3>2. CASE i \in 1..n
      <4>1. i \in 0..n /\ i - 1 \in 0..n
        BY <3>2
      <4> QED
        BY <2>1, <2>2, <3>2, <4>1
    <3> QED
      BY <3>1, <3>2
  <2> QED
    BY <2>1, <2>2, <2>4, <2>5, <2>6
<1>4. Upto(N)
  <2> HIDE DEF Upto, N
  <2>1. \A n \in Nat : n \in good => n + 1 \in good
    BY <1>3
  <2>2. N \in good
    <3> HIDE DEF good
    <3> QED
      BY <1>1, <1>2, <2>1, Induction
  <2> QED
    BY <2>2
<1>5. h = Body(h)
  <2>1. PICK c : /\ c = [i \in 0..N |-> c[i]]
                 /\ c[0] = <<>>
                 /\ \A i \in 1..N : c[i] = More(c[i - 1], i)
    BY <1>4
  <2>2. \A n \in 0..N : c[n] = IF n = 0 THEN <<>>
                               ELSE IF scenarios[n].name \in names
                                    THEN Append(c[n - 1], scenarios[n])
                                    ELSE c[n - 1]
    <3> TAKE n \in 0..N
    <3>1. n # 0 => n \in 1..N
      BY <1>1
    <3> QED
      BY <2>1, <3>1
  <2>3. c = Body(c)
    BY <2>1, <2>2
  <2> HIDE DEF Body
  <2> QED
    BY <2>3, Zenon
<1>6. Selected(scenarios, names) = h[N]
  BY Zenon DEF Selected
<1>7. /\ h[0] = <<>>
      /\ \A n \in 1..N : h[n] = IF scenarios[n].name \in names
                                THEN Append(h[n - 1], scenarios[n]) ELSE h[n - 1]
  <2> HIDE DEF h
  <2>1. \A n \in 0..N : h[n] = IF n = 0 THEN <<>>
                               ELSE IF scenarios[n].name \in names
                                    THEN Append(h[n - 1], scenarios[n])
                                    ELSE h[n - 1]
    BY <1>5
  <2>2. 0 \in 0..N /\ \A n \in 1..N : n \in 0..N /\ n # 0
    BY <1>1
  <2> QED
    BY <2>1, <2>2
<1> HIDE DEF h, Upto, good, Body, More
<1> DEFINE chosen == {n \in Nat : n <= N => /\ h[n] \in Seq(S)
                                           /\ Chosen(scenarios, names, n, h[n])}
<1>8. 0 \in chosen
  <2>1. <<>> \in Seq(S) /\ Len(<<>>) = 0 /\ 1..0 = {}
    OBVIOUS
  <2> QED
    BY <1>7, <2>1 DEF Chosen
<1>9. ASSUME NEW n \in Nat, n \in chosen
      PROVE  n + 1 \in chosen
  <2> SUFFICES ASSUME n + 1 <= N
               PROVE  h[n + 1] \in Seq(S) /\ Chosen(scenarios, names, n + 1, h[n + 1])
    OBVIOUS
  <2> DEFINE sel == h[n]
             s == scenarios[n + 1]
  <2>1. /\ sel \in Seq(S) /\ Len(sel) \in Nat
        /\ n + 1 \in 1..N /\ (n + 1) - 1 = n /\ s \in S
        /\ \A k \in 1..n : k \in 1..N /\ k # n + 1 /\ k \in 1..(n + 1)
        /\ \A k \in 1..(n + 1) : k \in 1..n \/ k = n + 1
    BY <1>1, <1>9
  <2>2. Chosen(scenarios, names, n, sel)
    BY <1>1, <1>9
  <2>3. h[n + 1] = IF s.name \in names THEN Append(sel, s) ELSE sel
    BY <1>7, <2>1
  <2>4. \A k \in 1..n : scenarios[k].name # s.name
    BY <2>1
  <2>5. \A t : (\E k \in 1..(n + 1) : scenarios[k] = t /\ t.name \in names)
                  <=> \/ \E k \in 1..n : scenarios[k] = t /\ t.name \in names
                      \/ s = t /\ t.name \in names
    <3> HIDE DEF N
    <3>1. n + 1 \in 1..(n + 1)
      OBVIOUS
    <3> QED
      BY <2>1, <3>1
  <2>6. CASE s.name \notin names
    <3>1. h[n + 1] = sel
      BY <2>3, <2>6
    <3>2. \A t : (\E k \in 1..(n + 1) : scenarios[k] = t /\ t.name \in names)
                    <=> \E k \in 1..n : scenarios[k] = t /\ t.name \in names
      BY <2>5, <2>6
    <3> HIDE DEF sel, s, N
    <3> QED
      BY <2>1, <2>2, <3>1, <3>2 DEF Chosen
  <2>7. CASE s.name \in names
    <3> DEFINE new == Append(sel, s)
               m == Len(sel)
    <3>1. /\ new \in Seq(S) /\ Len(new) = m + 1 /\ m \in Nat /\ new[m + 1] = s
          /\ \A k \in 1..m : new[k] = sel[k] /\ k \in 1..(m + 1)
          /\ \A k \in 1..(m + 1) : k \in 1..m \/ k = m + 1
          /\ m + 1 \in 1..(m + 1)
      BY <2>1
    <3> HIDE DEF new, s, N
    <3>2. \A t : (\E k \in 1..(m + 1) : new[k] = t) <=> (\E k \in 1..m : sel[k] = t) \/ s = t
      BY <3>1
    <3>3. ASSUME NEW t
          PROVE  (\E k \in 1..(m + 1) : new[k] = t)
                    <=> \E k \in 1..(n + 1) : scenarios[k] = t /\ t.name \in names
      <4>1. (\E k \in 1..m : sel[k] = t)
               <=> \E k \in 1..n : scenarios[k] = t /\ t.name \in names
        BY <2>2 DEF Chosen
      <4>2. (\E k \in 1..(m + 1) : new[k] = t) <=> (\E k \in 1..m : sel[k] = t) \/ s = t
        BY <3>2
      <4>3. (\E k \in 1..(n + 1) : scenarios[k] = t /\ t.name \in names)
               <=> \/ \E k \in 1..n : scenarios[k] = t /\ t.name \in names
                   \/ s = t /\ t.name \in names
        BY <2>5
      <4> QED
        BY <2>7, <4>1, <4>2, <4>3
    <3>4. \A k \in 1..m : sel[k].name # s.name
      <4> TAKE k \in 1..m
      <4>1. PICK i \in 1..n : scenarios[i] = sel[k]
        BY <2>2 DEF Chosen
      <4> QED
        BY <2>4, <4>1
    <3>5. ASSUME NEW j \in 1..(m + 1), NEW k \in 1..(m + 1), new[j].name = new[k].name
          PROVE  j = k
      <4>1. CASE j \in 1..m /\ k \in 1..m
        BY <2>2, <3>1, <3>5, <4>1 DEF Chosen
      <4>2. CASE j = m + 1 /\ k \in 1..m
        BY <3>1, <3>4, <3>5, <4>2
      <4>3. CASE j \in 1..m /\ k = m + 1
        BY <3>1, <3>4, <3>5, <4>3
      <4> QED
        BY <3>1, <4>1, <4>2, <4>3
    <3>6. h[n + 1] = new
      BY <2>3, <2>7 DEF new
    <3> HIDE DEF sel, m
    <3> QED
      BY <3>1, <3>3, <3>5, <3>6 DEF Chosen
  <2> QED
    BY <2>6, <2>7
<1>10. N \in chosen
  <2> HIDE DEF chosen, N
  <2> QED
    BY <1>1, <1>8, <1>9, Induction
<1> QED
  BY <1>1, <1>6, <1>10

\* Names that tell the scenarios apart are as many as these.
LEMMA NamesCount ==
    ASSUME NEW S, NEW sel \in Seq(S),
           \A j, k \in 1..Len(sel) : sel[j].name = sel[k].name => j = k
    PROVE  Cardinality({sel[k].name : k \in 1..Len(sel)}) = Len(sel)
<1> DEFINE names == {sel[k].name : k \in 1..Len(sel)}
           f == [k \in 1..Len(sel) |-> sel[k].name]
<1>1. Len(sel) \in Nat
  OBVIOUS
<1>2. f \in Surjection(1..Len(sel), names) /\ f \in Injection(1..Len(sel), names)
  BY DEF Surjection, Injection, IsInjective
<1>3. IsFiniteSet(1..Len(sel)) /\ Cardinality(1..Len(sel)) = Len(sel)
  <2>1. ASSUME NEW n \in Nat
        PROVE  IsFiniteSet(1..n) /\ Cardinality(1..n) = n
    <3>1. Cardinality(1..n) = IF 1 > n THEN 0 ELSE n - 1 + 1
      BY FS_Interval
    <3>2. IsFiniteSet(1..n)
      BY FS_Interval
    <3> QED
      BY <3>1, <3>2
  <2> QED
    BY <1>1, <2>1
<1> HIDE DEF f, names
<1>4. Cardinality(names) = Cardinality(1..Len(sel))
  BY <1>2, <1>3, FS_Surjection
<1> QED
  BY <1>3, <1>4 DEF names

-----------------------------------------------------------------------------
(* The contracts that are loaded.                                           *)

LEMMA TurnKind ==
    ASSUME NEW t, TurnLoads(t), PieceTyped("turn", t)
    PROVE  /\ KindOf(t) \in Kinds
           /\ KindOf(t) = "push" <=> Is(t, "push_notification", TRUE)
           /\ KindOf(t) = "await_push" <=> Is(t, "action", "await_push")
           /\ KindOf(t) \in Actions <=> Given(t, "action")
<1>1. Is(t, "push_notification", TRUE) => ~Given(t, "action")
  BY DEF TurnLoads, Has, Is
<1>2. Given(t, "action") => t.action \in {"cancel", "get_task", "subscribe", "await_push"}
  BY DEF PieceTyped, Given
<1>3. Is(t, "action", "await_push") <=> Given(t, "action") /\ t.action = "await_push"
  BY DocumentsAssumption DEF Is, Given
<1>4. CASE Is(t, "push_notification", TRUE)
  <2>1. ~Given(t, "action")
    BY <1>1, <1>4
  <2>2. KindOf(t) = "push"
    BY <1>4, <2>1 DEF KindOf
  <2> QED
    BY <1>3, <1>4, <2>1, <2>2 DEF Kinds, Actions
<1>5. CASE ~Is(t, "push_notification", TRUE) /\ ~Given(t, "action")
  <2>1. KindOf(t) = "send"
    BY <1>5 DEF KindOf
  <2> QED
    BY <1>3, <1>5, <2>1 DEF Kinds, Actions
<1>6. CASE /\ ~Is(t, "push_notification", TRUE)
           /\ Given(t, "action") /\ t.action \in {"cancel", "get_task"}
  <2>1. KindOf(t) = "operate"
    BY <1>6 DEF KindOf
  <2> QED
    BY <1>3, <1>6, <2>1 DEF Kinds, Actions
<1>7. CASE /\ ~Is(t, "push_notification", TRUE)
           /\ Given(t, "action") /\ t.action \in {"subscribe", "await_push"}
  <2>1. KindOf(t) = t.action
    BY <1>7 DEF KindOf
  <2> QED
    BY <1>3, <1>7, <2>1 DEF Kinds, Actions
<1> QED
  BY <1>2, <1>4, <1>5, <1>6, <1>7

\* The scenarios of a contract have the types of the models.
ScenarioTyped(s) ==
    Given(s, "turns") => /\ s.turns \in Seq(ToSet(s.turns))
                         /\ \A t \in ToSet(s.turns) : PieceTyped("turn", t)

\* The list of turns of a scenario is one that a trial can follow to its end, as
\* module Trial assumes of its scripts: it is never empty, starts with a message,
\* and its push turns and its waits come in pairs.  A wait has a push turn.
LEMMA LoadedScript ==
    ASSUME NEW s, ScenarioLoads(s), ScenarioTyped(s)
    PROVE  /\ Script(ResolvedTurns(s)) \in Seq(Kinds)
           /\ ValidScript(Script(ResolvedTurns(s)))
           /\ "push" \in ToSet(Script(ResolvedTurns(s))) =>
                 \E t \in ToSet(ResolvedTurns(s)) : Is(t, "push_notification", TRUE)
<1> DEFINE list == ResolvedTurns(s)
           script == Script(list)
<1>1. CASE ~Given(s, "turns")
  <2> DEFINE t == [f \in DOMAIN s \intersect (Content \union {"expect"}) |-> s[f]]
  <2>1. list = <<t>>
    BY <1>1 DEF ResolvedTurns
  <2>2. "push_notification" \notin DOMAIN t /\ "action" \notin DOMAIN t
    BY DEF Content
  <2> HIDE DEF t
  <2>3. KindOf(t) = "send"
    BY <2>2 DEF KindOf, Is, Given
  <2>4. script = <<"send">>
    <3>1. DOMAIN <<t>> = 1..1 /\ \A k \in 1..1 : k = 1 /\ <<t>>[k] = t
      OBVIOUS
    <3>2. script = [k \in 1..1 |-> "send"]
      BY <2>1, <2>3, <3>1 DEF Script
    <3> QED
      BY <3>2
  <2> HIDE DEF script
  <2>5. /\ script \in Seq(Kinds) /\ Len(script) = 1 /\ script[1] = "send" /\ script # <<>>
        /\ \A i \in 1..1 : i = 1
    BY <2>4 DEF Kinds
  <2>6. ValidScript(script)
    BY <2>5 DEF ValidScript, Actions
  <2>7. "push" \notin ToSet(script)
    BY <2>5 DEF ToSet
  <2> QED
    BY <2>5, <2>6, <2>7 DEF script
<1>2. CASE Given(s, "turns")
  <2>1. list = s.turns
    BY <1>2 DEF ResolvedTurns
  <2> HIDE DEF list
  <2> DEFINE T == ToSet(list)
  <2>2. /\ list \in Seq(T) /\ list # <<>>
        /\ \A t \in T : PieceTyped("turn", t)
        /\ \A k \in DOMAIN list : TurnLoads(list[k])
        /\ ~Given(list[1], "action")
        /\ PushPairs(list)
    BY <1>2, <2>1 DEF ScenarioLoads, ScenarioTyped
  <2>3. /\ DOMAIN list = 1..Len(list) /\ Len(list) \in Nat /\ Len(list) > 0
        /\ 1 \in 1..Len(list)
        /\ \A k \in 1..Len(list) : list[k] \in T
    <3> HIDE DEF T
    <3>1. DOMAIN list = 1..Len(list) /\ Len(list) \in Nat /\ Len(list) > 0
      BY <2>2
    <3> QED
      BY <2>2, <3>1
  <2> HIDE DEF T
  <2>4. \A k \in 1..Len(list) :
           /\ KindOf(list[k]) \in Kinds
           /\ KindOf(list[k]) = "push" <=> Is(list[k], "push_notification", TRUE)
           /\ KindOf(list[k]) = "await_push" <=> Is(list[k], "action", "await_push")
           /\ KindOf(list[k]) \in Actions <=> Given(list[k], "action")
    BY <2>2, <2>3, TurnKind
  <2>5. script = [k \in 1..Len(list) |-> KindOf(list[k])]
    BY <2>3 DEF Script
  <2> HIDE DEF script
  <2>6. /\ script \in Seq(Kinds)
        /\ Len(script) = Len(list)
        /\ script # <<>>
        /\ \A k \in 1..Len(list) : script[k] = KindOf(list[k])
    <3>1. script \in [1..Len(list) -> Kinds]
      BY <2>4, <2>5
    <3>2. script \in Seq(Kinds) /\ Len(script) = Len(list)
      BY <2>3, <3>1
    <3> QED
      BY <2>3, <2>5, <3>2
  <2>7. ValidScript(script)
    <3>1. script[1] \notin Actions
      BY <2>2, <2>3, <2>4, <2>6
    <3>2. ASSUME NEW i \in 1..Len(script)
          PROVE  /\ script[i] = "push" => i < Len(script) /\ script[i + 1] = "await_push"
                 /\ script[i] = "await_push" => i > 1 /\ script[i - 1] = "push"
      <4>1. i \in 1..Len(list) /\ i \in DOMAIN list
        BY <2>3, <2>6, <3>2
      <4>2. CASE script[i] = "push"
        <5>1. i < Len(list) /\ Is(list[i + 1], "action", "await_push")
          BY <2>2, <2>4, <2>6, <4>1, <4>2 DEF PushPairs
        <5>2. i + 1 \in 1..Len(list)
          BY <2>3, <4>1, <5>1
        <5> QED
          BY <2>4, <2>6, <4>2, <5>1, <5>2
      <4>3. CASE script[i] = "await_push"
        <5>1. i > 1 /\ Is(list[i - 1], "push_notification", TRUE)
          BY <2>2, <2>4, <2>6, <4>1, <4>3 DEF PushPairs
        <5>2. i - 1 \in 1..Len(list)
          BY <2>3, <4>1, <5>1
        <5> QED
          BY <2>4, <2>6, <4>3, <5>1, <5>2
      <4> QED
        BY <4>2, <4>3
    <3> QED
      BY <2>6, <3>1, <3>2 DEF ValidScript
  <2>8. ASSUME "push" \in ToSet(script)
        PROVE  \E t \in T : Is(t, "push_notification", TRUE)
    <3>1. PICK k \in 1..Len(list) : script[k] = "push"
      <4>1. DOMAIN script = 1..Len(list)
        BY <2>5
      <4>2. \E k \in DOMAIN script : script[k] = "push"
        BY <2>8 DEF ToSet
      <4> QED
        BY <4>1, <4>2
    <3> QED
      BY <2>3, <2>4, <2>6, <3>1
  <2> QED
    BY <2>6, <2>7, <2>8 DEF T, list, script
<1> QED
  BY <1>1, <1>2

\* What remains of a contract when scenarios are selected.
LEMMA SelectionKeeps ==
    ASSUME NEW c, NEW names, ContractTyped(c), c.scenarios # <<>>, UniqueNames(c),
           names \subseteq Names(c)
    PROVE  /\ SelectScenarios(c, names).scenarios # <<>>
           /\ names # {} => Names(SelectScenarios(c, names)) = names
           /\ Cardinality(Names(SelectScenarios(c, names))) =
                 Len(SelectScenarios(c, names).scenarios)
           /\ ScenariosOf(SelectScenarios(c, names)) \subseteq ScenariosOf(c)
           /\ \A f \in DOMAIN c \ {"scenarios"} : SelectScenarios(c, names)[f] = c[f]
<1> DEFINE S == ToSet(c.scenarios)
           kept == SelectScenarios(c, names)
           list == c.scenarios
<1>1. /\ list \in Seq(S) /\ DOMAIN list = 1..Len(list) /\ Len(list) \in Nat
      /\ S = {list[k] : k \in 1..Len(list)}
      /\ \A j, k \in 1..Len(list) : list[j].name = list[k].name => j = k
  <2>1. list \in Seq(S)
    BY DEF ContractTyped
  <2> DEFINE T == S
  <2>2. list \in Seq(T)
    BY <2>1
  <2> HIDE DEF T
  <2>3. DOMAIN list = 1..Len(list) /\ Len(list) \in Nat
    BY <2>2
  <2> QED
    BY <2>1, <2>3 DEF ToSet, UniqueNames
<1>2. Names(c) = {list[k].name : k \in 1..Len(list)}
  BY <1>1, SMTT(30) DEF Names, ScenariosOf
<1>3. CASE names = {}
  <2>1. kept = c
    BY <1>3 DEF SelectScenarios
  <2>2. Cardinality(Names(c)) = Len(list)
    <3> HIDE DEF list, S
    <3> QED
      BY <1>1, <1>2, NamesCount
  <2> QED
    BY <1>3, <2>1, <2>2
<1>4. CASE names # {}
  <2> DEFINE sel == Selected(list, names)
  <2>1. /\ kept = [c EXCEPT !.scenarios = sel]
        /\ kept.scenarios = sel
        /\ \A f \in DOMAIN c \ {"scenarios"} : kept[f] = c[f]
    BY <1>4 DEF SelectScenarios, ContractTyped
  <2>2. sel \in Seq(S) /\ Chosen(list, names, Len(list), sel)
    <3> HIDE DEF list, S
    <3> QED
      BY <1>1, SelectedIs
  <2> HIDE DEF sel, S, kept
  <2>3. /\ DOMAIN sel = 1..Len(sel) /\ Len(sel) \in Nat
        /\ ScenariosOf(kept) = {sel[k] : k \in 1..Len(sel)}
    <3>1. DOMAIN sel = 1..Len(sel) /\ Len(sel) \in Nat
      BY <2>2
    <3> QED
      BY <2>1, <3>1 DEF ScenariosOf, ToSet
  <2>4. \A s : s \in ScenariosOf(kept) <=> s \in S /\ s.name \in names
    <3> HIDE DEF list
    <3> QED
      BY <1>1, <2>2, <2>3 DEF Chosen
  <2>5. Names(kept) = names
    <3>1. Names(kept) \subseteq names
      BY <2>4 DEF Names
    <3>2. ASSUME NEW name \in names
          PROVE  name \in Names(kept)
      <4>1. PICK s \in S : s.name = name
        <5>1. name \in Names(c)
          OBVIOUS
        <5> QED
          BY <5>1 DEF Names, ScenariosOf, S
      <4> QED
        BY <2>4, <4>1 DEF Names
    <3> QED
      BY <3>1, <3>2
  <2>6. Names(kept) = {sel[k].name : k \in 1..Len(sel)}
    BY <2>3 DEF Names
  <2>7. Cardinality(Names(kept)) = Len(sel)
    BY <2>2, <2>6, NamesCount DEF Chosen
  <2>8. sel # <<>>
    <3>1. PICK name \in names : TRUE
      BY <1>4
    <3>2. PICK k \in 1..Len(sel) : sel[k].name = name
      BY <2>5, <2>6, <3>1
    <3> QED
      BY <2>3, <3>2
  <2>9. ScenariosOf(kept) \subseteq ScenariosOf(c)
    BY <2>4 DEF ScenariosOf, S
  <2> QED
    BY <2>1, <2>5, <2>7, <2>8, <2>9 DEF kept
<1> QED
  BY <1>3, <1>4

\* A selection uses no more than the whole contract does.
LEMMA SelectionUses ==
    ASSUME NEW c, NEW kept, ScenariosOf(kept) \subseteq ScenariosOf(c),
           kept.invariants = c.invariants
    PROVE  /\ TurnsOf(kept) \subseteq TurnsOf(c)
           /\ UsesPush(kept) => UsesPush(c)
           /\ UsesDelegation(kept) => UsesDelegation(c)
           /\ SecretNames(kept) \subseteq SecretNames(c)
<1>1. TurnsOf(kept) \subseteq TurnsOf(c)
  BY DEF TurnsOf
<1> QED
  BY <1>1 DEF UsesPush, UsesDelegation, SecretNames

\* The number of trials that must pass is at least one, and can be reached.
LEMMA RequiredIsReachable ==
    ASSUME NEW c, NEW s \in ScenariosOf(c), ContractTyped(c), ProvablePassRates(c)
    PROVE  Required(c, s) \in 1..Resolved(c, s, "trials")
<1> DEFINE rate == Resolved(c, s, "pass_rate")
           trials == Resolved(c, s, "trials")
<1>1. /\ {trials, rate.least[trials]} \subseteq Nat \ {0}
      /\ ~rate.statistical => rate.least[trials] <= trials
  BY DEF ContractTyped, ScenariosOf
<1>2. rate.statistical => Required(c, s) <= trials
  BY DEF ProvablePassRates
<1>3. Required(c, s) = rate.least[trials]
  BY DEF Required
<1> HIDE DEF rate, trials
<1>4. /\ trials \in Nat /\ Required(c, s) \in Nat /\ Required(c, s) # 0
      /\ Required(c, s) <= trials
  BY <1>1, <1>2, <1>3
<1> QED
  BY <1>4 DEF trials

\* A contract that is accepted can be run.
LEMMA PreparedContract ==
    ASSUME NEW c, NEW environ, NEW names, ContractTyped(c), Prepares(c, environ, names),
           NEW kept, kept = SelectScenarios(c, names)
    PROVE  /\ kept.scenarios # <<>>
           /\ names # {} => Names(kept) = names
           /\ Cardinality(Names(kept)) = Len(kept.scenarios)
           /\ \A s \in ScenariosOf(kept) :
                 /\ Script(ResolvedTurns(s)) \in Seq(Kinds)
                 /\ ValidScript(Script(ResolvedTurns(s)))
                 /\ "push" \in ToSet(Script(ResolvedTurns(s))) => kept.push
                 /\ Required(kept, s) \in 1..Resolved(kept, s, "trials")
           /\ UsesDelegation(kept) => kept.downstream
           /\ \A name \in SecretNames(kept) : environ[name] # Empty
<1>1. /\ ContractLoads(c) /\ EnvironmentLoads(c, environ) /\ names \subseteq Names(c)
      /\ c.scenarios # <<>> /\ UniqueNames(c) /\ ProvablePassRates(c)
  BY DEF Prepares, ContractLoads
<1>2. /\ kept.scenarios # <<>>
      /\ names # {} => Names(kept) = names
      /\ Cardinality(Names(kept)) = Len(kept.scenarios)
      /\ ScenariosOf(kept) \subseteq ScenariosOf(c)
      /\ \A f \in DOMAIN c \ {"scenarios"} : kept[f] = c[f]
  BY <1>1, SelectionKeeps
<1>3. /\ kept.push = c.push /\ kept.downstream = c.downstream
      /\ kept.invariants = c.invariants /\ kept.defaults = c.defaults
  BY <1>2 DEF ContractTyped
<1>4. /\ UsesPush(kept) => UsesPush(c)
      /\ UsesDelegation(kept) => UsesDelegation(c)
      /\ SecretNames(kept) \subseteq SecretNames(c)
  BY <1>2, <1>3, SelectionUses
<1>5. ASSUME NEW s \in ScenariosOf(kept)
      PROVE  /\ Script(ResolvedTurns(s)) \in Seq(Kinds)
             /\ ValidScript(Script(ResolvedTurns(s)))
             /\ "push" \in ToSet(Script(ResolvedTurns(s))) => kept.push
             /\ Required(kept, s) \in 1..Resolved(kept, s, "trials")
  <2>1. s \in ScenariosOf(c)
    BY <1>2
  <2>2. ScenarioLoads(s) /\ ScenarioTyped(s)
    BY <1>1, <2>1 DEF ContractLoads, ContractTyped, ScenarioTyped, ScenariosOf
  <2>3. ASSUME NEW t \in ToSet(ResolvedTurns(s)), Is(t, "push_notification", TRUE)
        PROVE  kept.push
    <3>1. UsesPush(kept)
      BY <2>3 DEF UsesPush, TurnsOf
    <3> QED
      BY <1>1, <1>3, <1>4, <3>1 DEF ContractLoads
  <2>4. Resolved(kept, s, "trials") = Resolved(c, s, "trials")
    BY <1>3 DEF Resolved
  <2>5. Required(kept, s) = Required(c, s)
    BY <1>3 DEF Required, Resolved
  <2> QED
    BY <1>1, <2>1, <2>2, <2>3, <2>4, <2>5, LoadedScript, RequiredIsReachable
<1>6. UsesDelegation(kept) => kept.downstream
  BY <1>1, <1>3, <1>4 DEF ContractLoads
<1>7. \A name \in SecretNames(kept) : environ[name] # Empty
  BY <1>1, <1>4 DEF EnvironmentLoads
<1> QED
  BY <1>2, <1>5, <1>6, <1>7

\* Whatever the document and the selection, a contract that loads can be run:
\* scenarios remain and their names tell them apart, a trial can follow each list
\* of turns, the servers it needs are configured, no secret is empty, and the
\* required number of trials can be reached.
THEOREM ContractsRun == LoadSpec => []LoadedContractsRun
<1>1. LoadInv => LoadedContractsRun
  <2> SUFFICES ASSUME LoadInv, stage = "loaded", document.class = "contract"
               PROVE  LET c == SelectScenarios(document.contract, document.names)
                          scripts == {Script(ResolvedTurns(s)) : s \in ScenariosOf(c)}
                      IN /\ c.scenarios # <<>>
                         /\ document.names # {} => Names(c) = document.names
                         /\ Cardinality(Names(c)) = Len(c.scenarios)
                         /\ \A script \in scripts :
                               /\ script \in Seq(Kinds) /\ ValidScript(script)
                               /\ "push" \in ToSet(script) => c.push
                         /\ UsesDelegation(c) => c.downstream
                         /\ \A name \in SecretNames(c) : document.environ[name] # Empty
                         /\ \A s \in ScenariosOf(c) :
                               Required(c, s) \in 1..Resolved(c, s, "trials")
    BY DEF LoadedContractsRun
  <2>1. /\ ContractTyped(document.contract)
        /\ Prepares(document.contract, document.environ, document.names)
    BY DocumentsAssumption DEF LoadInv, Accepts
  <2> QED
    BY <2>1, PreparedContract
<1>2. QED
  BY <1>1, LoadInvariant, PTL
=============================================================================
