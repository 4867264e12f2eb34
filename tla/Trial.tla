-------------------------------- MODULE Trial --------------------------------
(***************************************************************************)
(* One trial of a scenario: the loop of runner._run_trial over the turns,  *)
(* with _execute_turn, _execute_input and _execute_action.  The trial is   *)
(* one coroutine; it awaits the agent (through A2ASession) and, for an     *)
(* await_push turn, the push subscription it registered one turn before.   *)
(* The agent's answers and notifications, the verdict of the assertions on *)
(* them and the failures of every call are nondeterministic.               *)
(*                                                                         *)
(* Of the push receiver the trial sees what PushInbox promises, and        *)
(* PushDelivery implements it: the subscription of the turn at position i  *)
(* is subscription i of the inbox.                                         *)
(***************************************************************************)
EXTENDS Turns, FiniteSets, SequencesExt

CONSTANTS
    Scripts,  \* the turn lists the configuration may hold
    Tasks,    \* task ids an agent may return
    Contexts, \* context ids; the trial starts with a fresh one
    Fresh,    \* that fresh context id
    Deliveries, \* the distinct notifications an agent may post
    MaxDeliveries, \* bound on the notifications to one subscription
    None      \* Python's None

ASSUME ScriptsAssumption ==
    \A script \in Scripts : script \in Seq(Kinds) /\ ValidScript(script)

Identities == [task : Tasks, context : Contexts]

ASSUME IdsAssumption ==
    /\ None \notin Tasks \union Contexts \union Identities \union Nat
    /\ Fresh \in Contexts

\* The outer identity of a notification is the one wait() compares; `names` is
\* the last identity in it, which a message or a status inside may change.
ASSUME DeliveriesAssumption ==
    /\ Deliveries \subseteq [outer : Identities, kind : {"progress", "terminal"},
                              names : Identities, resumable : BOOLEAN]
    /\ MaxDeliveries \in Nat

VARIABLES
    turns,      \* scenario.resolved_turns()
    index,      \* the turn being executed
    pc,         \* "ready", "sent", "waiting" or "done"
    context,    \* context_id
    task,       \* task_id
    held,       \* push_subscription: the push turn that registered it, or None
    routes,     \* registered subscriptions that are not closed
    accepted,   \* the notifications of each subscription (PushInbox)
    bound,      \* the identity each of them is bound to
    verdict,    \* how the wait on each of them ended
    outcome,    \* the notifications a successful wait read
    requests,   \* what was sent, in order (history)
    replies,    \* the outcomes returned, in order (history)
    results,    \* whether each evaluated turn passed
    error       \* whether the trial ended with an exception

inbox == <<accepted, bound, verdict, outcome>>
log == <<requests, replies, results>>
vars == <<turns, index, pc, context, task, held, routes, inbox, log, error>>

Positions == UNION {DOMAIN script : script \in Scripts}

Inbox == INSTANCE PushInbox WITH Subs <- Positions, Events <- Deliveries

Outcomes == [task : Tasks \union {None}, context : Contexts, resumable : BOOLEAN]
Requests == [kind : Kinds \ {"await_push"}, task : Tasks \union {None},
             context : Contexts, target : Nat \union {None}]

Init ==
    /\ turns \in Scripts
    /\ index = 1
    /\ pc = "ready"
    /\ context = Fresh
    /\ task = None
    /\ held = None
    /\ routes = {}
    /\ Inbox!Init
    /\ requests = <<>>
    /\ replies = <<>>
    /\ results = <<>>
    /\ error = FALSE

Kind == turns[index]

IsLast == index = Len(turns)

Request(target) == [kind |-> Kind, task |-> task, context |-> context,
                    target |-> target]

\* The finally clause: whatever ended the trial, the held subscription closes.
Finish(failed) ==
    /\ pc' = "done"
    /\ error' = failed
    /\ routes' = routes \ {held}

\* An exception outside _execute_input, which closes what it registered itself.
Abort ==
    /\ Finish(TRUE)
    /\ UNCHANGED <<turns, index, context, task, held, inbox, log>>

-----------------------------------------------------------------------------
(* Starting a turn.                                                         *)

\* _execute_input up to `await send_turn`.
SendInput ==
    /\ pc = "ready"
    /\ Kind = "send"
    /\ requests' = Append(requests, Request(held))
    /\ pc' = "sent"
    /\ UNCHANGED <<turns, index, context, task, held, routes, inbox,
                   replies, results, error>>

\* The same with a registration, which the receiver's limit may refuse.
RegisterAndSend ==
    /\ pc = "ready"
    /\ Kind = "push"
    /\ routes' = routes \union {index}
    /\ requests' = Append(requests, Request(index))
    /\ pc' = "sent"
    /\ UNCHANGED <<turns, index, context, task, held, inbox, replies,
                   results, error>>

RegisterFails ==
    /\ pc = "ready"
    /\ Kind = "push"
    /\ Abort

\* _execute_action: cancel, get_task or subscribe.
Operate ==
    /\ pc = "ready"
    /\ Kind \in {"operate", "subscribe"}
    /\ task # None
    /\ requests' = Append(requests, Request(None))
    /\ pc' = "sent"
    /\ UNCHANGED <<turns, index, context, task, held, routes, inbox,
                   replies, results, error>>

AwaitPush ==
    /\ pc = "ready"
    /\ Kind = "await_push"
    /\ task # None
    /\ held # None
    /\ pc' = "waiting"
    /\ UNCHANGED <<turns, index, context, task, held, routes, inbox,
                   log, error>>

\* Fault: only await_push looks for what it needs.
RefuseAwaitOnly ==
    /\ pc = "ready"
    /\ Kind = "await_push"
    /\ task = None \/ held = None
    /\ Abort

\* ValueError: no task from a prior turn, or no active push subscription.
RefuseAction ==
    /\ pc = "ready"
    /\ Kind \in Actions
    /\ task = None \/ (Kind = "await_push" /\ held = None)
    /\ Abort

-----------------------------------------------------------------------------
(* Ending a turn.  `sub` is push_subscription after the turn, `live` the    *)
(* routes that are left before the finally clause.                          *)

\* Fault: the task is carried over to whatever turn comes next.
NextTaskAlways(o) == IF o.task # None THEN o.task ELSE task

\* keep_task: an interrupted task is resumed, a task action needs a task.
NextTask(o) ==
    IF o.resumable \/ (~IsLast /\ turns[index + 1] \in Actions)
    THEN IF o.task # None THEN o.task ELSE task
    ELSE None

\* Every check of the turn holds: the ids carry over to the next turn.
TurnPasses(o, sub, live) ==
    /\ replies' = Append(replies, o)
    /\ results' = Append(results, TRUE)
    /\ held' = sub
    /\ context' = o.context
    /\ task' = NextTask(o)
    /\ \/ /\ ~IsLast
          /\ index' = index + 1
          /\ pc' = "ready"
          /\ routes' = live
          /\ UNCHANGED error
       \/ /\ IsLast
          /\ UNCHANGED <<index, error>>
          /\ pc' = "done"
          /\ routes' = live \ {sub}

\* A check fails and the loop breaks, or evaluating raises.
TurnFails(o, sub, live) ==
    /\ replies' = Append(replies, o)
    /\ held' = sub
    /\ pc' = "done"
    /\ routes' = live \ {sub}
    /\ \/ results' = Append(results, FALSE) /\ UNCHANGED error
       \/ error' = TRUE /\ UNCHANGED results
    /\ UNCHANGED <<index, context, task>>

EndTurn(o, sub, live) ==
    /\ TurnPasses(o, sub, live) \/ TurnFails(o, sub, live)
    /\ UNCHANGED <<turns, requests>>

\* send_turn returns; a push turn binds its subscription to the task returned.
InputReplies(o) ==
    /\ pc = "sent"
    /\ Kind = "send"
    /\ EndTurn(o, held, routes)
    /\ UNCHANGED inbox

Identity(o) == [task |-> o.task, context |-> o.context]

\* Fault: the subscription is bound to the task alone.
PushRepliesBindingTask(o) ==
    /\ pc = "sent"
    /\ Kind = "push"
    /\ o.task # None
    /\ Inbox!Bind(index, o.task)
    /\ EndTurn(o, index, routes)

\* Fault: the subscription is not bound.
PushRepliesUnbound(o) ==
    /\ pc = "sent"
    /\ Kind = "push"
    /\ o.task # None
    /\ EndTurn(o, index, routes)
    /\ UNCHANGED inbox

PushReplies(o) ==
    /\ pc = "sent"
    /\ Kind = "push"
    /\ o.task # None
    /\ Inbox!Bind(index, Identity(o))
    /\ EndTurn(o, index, routes)

\* cancel and get_task accept whatever task comes back; subscribe insists on
\* the identity it asked for.
OperationReplies(o) ==
    /\ pc = "sent"
    /\ Kind \in {"operate", "subscribe"}
    /\ Kind = "subscribe" => o.task = task /\ o.context = context
    /\ EndTurn(o, held, routes)
    /\ UNCHANGED inbox

\* What the collector makes of the notifications a wait read.
Awaited(read) ==
    [task |-> Last(read).names.task, context |-> Last(read).names.context,
     resumable |-> Last(read).resumable]

\* Fault: any end decides, whatever came before it.
WaitReturnsAtAnyEnd ==
    /\ pc = "waiting"
    /\ \E n \in DOMAIN accepted[held] :
          /\ accepted[held][n].kind = "terminal"
          /\ outcome' = [outcome EXCEPT ![held] = SubSeq(accepted[held], 1, n)]
    /\ verdict' = [verdict EXCEPT ![held] = "ok"]
    /\ UNCHANGED <<accepted, bound>>
    /\ EndTurn(Awaited(outcome'[held]), None, routes \ {held})

\* The wait succeeded and the subscription is closed.
WaitReturns ==
    /\ pc = "waiting"
    /\ Inbox!Succeed(held)
    /\ EndTurn(Awaited(outcome'[held]), None, routes \ {held})

\* Fault: an exception skips the finally clause.
CallFailsWithoutCleanup ==
    /\ pc \in {"sent", "waiting"}
    /\ pc' = "done"
    /\ error' = TRUE
    /\ UNCHANGED <<turns, index, context, task, held, routes, inbox, log>>

\* The call raised (error reply, transport error, timeout, a response that is
\* not acceptable, or a push turn answered without a task).
CallFails ==
    /\ pc \in {"sent", "waiting"}
    /\ pc' = "done"
    /\ error' = TRUE
    /\ routes' = IF Kind = "push" THEN (routes \ {index}) \ {held}
                 ELSE routes \ {held}
    /\ IF pc = "waiting" THEN Inbox!Fail(held) ELSE UNCHANGED inbox
    /\ UNCHANGED <<turns, index, context, task, held, log>>

Replies ==
    \/ \E o \in Outcomes : InputReplies(o) \/ PushReplies(o) \/ OperationReplies(o)
    \/ WaitReturns

\* The agent posts a notification to a live route, whether or not the trial
\* waits for it, or knows its task yet.
Notify(i, d) ==
    /\ i \in routes
    /\ Len(accepted[i]) < MaxDeliveries
    /\ Inbox!Accept(i, d)
    /\ UNCHANGED <<turns, index, pc, context, task, held, routes, log, error>>

StartTurn ==
    \/ SendInput
    \/ RegisterAndSend
    \/ RegisterFails
    \/ Operate
    \/ AwaitPush
    \/ RefuseAction

Next ==
    \/ StartTurn
    \/ Replies
    \/ CallFails
    \/ \E i \in Positions, d \in Deliveries : Notify(i, d)

Spec == Init /\ [][Next]_vars

\* Every call of the session and every wait runs under asyncio.timeout, so one
\* of the ways a pending call may end is taken.
FairSpec ==
    /\ Spec
    /\ WF_vars(StartTurn)
    /\ WF_vars(CallFails \/ Replies)

-----------------------------------------------------------------------------
TypeOK ==
    /\ turns \in Scripts
    /\ index \in 1..Len(turns)
    /\ pc \in {"ready", "sent", "waiting", "done"}
    /\ context \in Contexts
    /\ task \in Tasks \union {None}
    /\ held \in Nat \union {None}
    /\ routes \subseteq 1..Len(turns)
    /\ accepted \in [Positions -> Seq(Deliveries)]
    /\ bound \in [Positions -> Identities \union {None}]
    /\ verdict \in [Positions -> {"pending", "ok", "error"}]
    /\ outcome \in [Positions -> Seq(Deliveries)]
    /\ requests \in Seq(Requests)
    /\ replies \in Seq(Outcomes)
    /\ results \in Seq(BOOLEAN)
    /\ error \in BOOLEAN

\* A trial never leaks a callback route: at most one is registered at a time,
\* it belongs to the turn that is running or to the one before, and none is
\* left when the trial is over, however it ended.  Only a push turn offers a
\* callback, and each offers its own: an input turn never passes on the target
\* of an earlier subscription.
NoRouteLeaks ==
    /\ \A i \in routes : i \in {index, index - 1} /\ turns[i] = "push"
    /\ Cardinality(routes) <= 1
    /\ pc = "done" => routes = {}
    /\ \A k \in DOMAIN requests :
          requests[k].target # None <=> requests[k].kind = "push"

\* PushSubscription.wait never raises "closed" or "not bound": the shape the
\* configuration enforces makes the trial wait only on its live subscription,
\* bound to the task the push turn returned.
WaitsOnBoundRoute ==
    pc = "waiting" =>
        /\ held = index - 1
        /\ held \in routes
        /\ bound[held] = Identity(Last(replies))
        /\ bound[held] # None

\* An await_push turn is judged by what the agent posted to the subscription
\* of the turn before it, for the task and context that turn was answered
\* with, up to the first terminal notification, in whatever order and however
\* early the notifications came, and whatever else was posted.
AwaitedOutcomeIsOwn ==
    \A k \in {k \in DOMAIN replies : turns[k] = "await_push"} :
        /\ outcome[k - 1] # <<>>
        /\ IsPrefix(outcome[k - 1], accepted[k - 1])
        /\ \A j \in DOMAIN outcome[k - 1] :
              /\ outcome[k - 1][j].outer = Identity(replies[k - 1])
              /\ outcome[k - 1][j].kind = "terminal" <=> j = Len(outcome[k - 1])
        /\ replies[k] = Awaited(outcome[k - 1])

\* Every request that names a task names one this trial was told of, and an
\* input turn resumes a task only if the last reply asked for input or
\* authentication.  Whether that reply was about the task the turn had named is
\* not asked: cancel_task and get_task, and messages nested in a notification,
\* may bring in another task, which the trial then goes on with.
ResumesOnlyOpenTasks ==
    \A k \in DOMAIN requests :
        requests[k].task # None =>
            /\ \E j \in DOMAIN replies : replies[j].task = requests[k].task
            /\ (requests[k].kind \in {"send", "push"} /\ pc = "sent"
                    /\ k = Len(requests)) => Last(replies).resumable

\* The trial ends although the agent may never answer.
TrialEnds == <>(pc = "done")

\* docs/lifecycle.md: "Execution fails if the preceding response did not
\* contain a task ID".
ActionNeedsPrecedingTask ==
    [][(pc = "ready" /\ pc' = "sent" /\ Kind \in Actions)
          => Last(replies).task # None]_vars
=============================================================================
