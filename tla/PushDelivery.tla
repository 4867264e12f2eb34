---------------------------- MODULE PushDelivery ----------------------------
(***************************************************************************)
(* The callback receiver of push.py: an asyncio server that authenticates  *)
(* the notifications an agent posts, deduplicates them and queues them for *)
(* the await_push action of the trial that registered the subscription.    *)
(*                                                                         *)
(* One handler coroutine runs per connection.  asyncio switches coroutines *)
(* only at an await, so a step of this module is what one coroutine does   *)
(* between two awaits.  A reply is a few hundred bytes, which never fill   *)
(* the transport's buffer: sending it is part of the step that decides it. *)
(*                                                                         *)
(* An identity stands for a (task id, context id) pair.  A delivery is     *)
(* abstracted to the identity of its outer payload, whether it ends the    *)
(* wait, and its size; `body` tells deliveries of different bytes apart.   *)
(***************************************************************************)
EXTENDS Integers, FiniteSets, Sequences, SequencesExt

CONSTANTS
    Subs,             \* registrations, one per push turn of a trial
    Conns,            \* connections the agent may open, each used once
    Events,           \* the distinct deliveries the agent may post
    Identities,       \* (task id, context id) pairs
    None,             \* Python's None: no value, and the queue's wake-up sentinel
    MaxEvents,        \* MAX_PUSH_EVENTS
    MaxTotalBytes,    \* MAX_PUSH_TOTAL_BYTES
    MaxSubscriptions, \* MAX_PUSH_SUBSCRIPTIONS
    MaxConnections    \* MAX_PUSH_CONNECTIONS

Kinds == {"progress", "terminal", "unusable"}

ASSUME EventsAssumption ==
    /\ Events \subseteq [body : Nat,
                         outer : Identities \union {None},
                         kind : Kinds,
                         size : Nat]
    /\ None \notin Subs \union Events \union Identities

ASSUME FiniteAssumption ==
    IsFiniteSet(Subs) /\ IsFiniteSet(Conns) /\ IsFiniteSet(Events)

ASSUME LimitsAssumption ==
    /\ MaxEvents \in Nat \ {0}
    /\ MaxTotalBytes \in Nat
    /\ MaxSubscriptions \in Nat \ {0}
    /\ MaxConnections \in Nat \ {0}

VARIABLES
    receiver,      \* "running", "closing" (in wait_closed) or "closed"
    subscriptions, \* PushReceiver._subscriptions: the registrations with a live route
    handle,        \* the PushSubscription of each registration
    bound,         \* the identity bind() stored
    queue,         \* the bounded asyncio.Queue
    rejected,      \* whether .rejection is set
    bytes,         \* received_bytes
    fingerprints,  \* the digests of the deliveries seen
    taken,         \* the deliveries wait() has removed from the queue, in order
    wait,          \* where the wait() of each registration is
    conn           \* the handler of each connection

subVars == <<handle, bound, wait, taken>>
boxVars == <<queue, rejected, bytes, fingerprints>>
vars == <<receiver, subscriptions, handle, bound, queue, rejected, bytes,
          fingerprints, taken, wait, conn>>

Entries == Events \union {None}
Handles == {"unused", "open", "refused", "closed"}
Waits == {"idle", "blocked", "ok", "error"}
\* "kept" is 204; "refused" a 4xx that leaves no trace (unknown route, wrong
\* method or token, broken HTTP); "rejected" a 4xx recorded by _reject; "late"
\* 408 and "busy" 503.
Replies == {"none", "kept", "refused", "rejected", "late", "busy"}
Phases == {"idle", "accepted", "reading", "body", "done"}
Handlers == [pc : Phases, sub : Subs \union {None},
             event : Events \union {None}, reply : Replies]

Init ==
    /\ receiver = "running"
    /\ subscriptions = {}
    /\ handle = [s \in Subs |-> "unused"]
    /\ bound = [s \in Subs |-> None]
    /\ queue = [s \in Subs |-> <<>>]
    /\ rejected = [s \in Subs |-> FALSE]
    /\ bytes = [s \in Subs |-> 0]
    /\ fingerprints = [s \in Subs |-> {}]
    /\ taken = [s \in Subs |-> <<>>]
    /\ wait = [s \in Subs |-> "idle"]
    /\ conn = [c \in Conns |-> [pc |-> "idle", sub |-> None,
                                event |-> None, reply |-> "none"]]

-----------------------------------------------------------------------------
(* The trial that owns a subscription.                                      *)

Register(s) ==
    /\ receiver = "running"
    /\ handle[s] = "unused"
    /\ \/ /\ Cardinality(subscriptions) < MaxSubscriptions
          /\ subscriptions' = subscriptions \union {s}
          /\ handle' = [handle EXCEPT ![s] = "open"]
       \/ /\ Cardinality(subscriptions) >= MaxSubscriptions
          /\ handle' = [handle EXCEPT ![s] = "refused"]
          /\ UNCHANGED subscriptions
    /\ UNCHANGED <<receiver, bound, wait, taken, boxVars, conn>>

Bind(s, i) ==
    /\ handle[s] = "open"
    /\ bound[s] = None
    /\ bound' = [bound EXCEPT ![s] = i]
    /\ UNCHANGED <<receiver, subscriptions, handle, wait, taken, boxVars, conn>>

\* What one turn of the loop in wait() does with the delivery it removed.
Decisive(s, d) ==
    ~(d # None /\ d.outer = bound[s] /\ d.kind = "progress")

\* Fault: the identity of a terminal delivery is not compared.
VerdictOfAnyTask(s, d) ==
    IF d # None /\ d.kind = "terminal" THEN "ok" ELSE "error"

Verdict(s, d) ==
    IF d # None /\ d.outer = bound[s] /\ d.kind = "terminal"
    THEN "ok" ELSE "error"

\* Fault: whatever the wait did not read is thrown away.
TakeAndClear(s, n) ==
    /\ taken' = [taken EXCEPT ![s] = @ \o SubSeq(queue[s], 1, n)]
    /\ queue' = [queue EXCEPT ![s] = <<>>]

Take(s, n) ==
    /\ taken' = [taken EXCEPT ![s] = @ \o SubSeq(queue[s], 1, n)]
    /\ queue' = [queue EXCEPT ![s] = SubSeq(@, n + 1, Len(@))]

Conclude(s, v) == wait' = [wait EXCEPT ![s] = v]

\* The loop never awaits while the queue holds something: in one step it
\* removes everything up to the first decisive delivery, or it empties the
\* queue and blocks in queue.get().
Drain(s) ==
    \/ /\ \A k \in DOMAIN queue[s] : ~Decisive(s, queue[s][k])
       /\ Take(s, Len(queue[s]))
       /\ Conclude(s, "blocked")
    \/ \E n \in DOMAIN queue[s] :
          /\ Decisive(s, queue[s][n])
          /\ \A k \in 1..(n - 1) : ~Decisive(s, queue[s][k])
          /\ Take(s, n)
          /\ Conclude(s, Verdict(s, queue[s][n]))

StartWait(s) ==
    /\ handle[s] = "open"
    /\ bound[s] # None
    /\ wait[s] = "idle"
    /\ \/ /\ rejected[s]
          /\ Conclude(s, "error")
          /\ UNCHANGED <<queue, taken>>
       \/ /\ ~rejected[s]
          /\ Drain(s)
    /\ UNCHANGED <<receiver, subscriptions, handle, bound, rejected, bytes,
                   fingerprints, conn>>

\* queue.get() returns some time after put_nowait() woke it.  The delivery it
\* returns is used without another look at the rejection; only the next turn
\* of the loop reads it again.
ResumeWait(s) ==
    /\ wait[s] = "blocked"
    /\ queue[s] # <<>>
    /\ \/ /\ rejected[s]
          /\ ~Decisive(s, Head(queue[s]))
          /\ Take(s, 1)
          /\ Conclude(s, "error")
       \/ /\ ~rejected[s] \/ Decisive(s, Head(queue[s]))
          /\ Drain(s)
    /\ UNCHANGED <<receiver, subscriptions, handle, bound, rejected, bytes,
                   fingerprints, conn>>

WaitTimesOut(s) ==
    /\ wait[s] = "blocked"
    /\ Conclude(s, "error")
    /\ UNCHANGED <<receiver, subscriptions, handle, bound, taken, boxVars, conn>>

\* Fault: the route stays.
CloseHandleOnly(s) ==
    /\ handle[s] = "open"
    /\ wait[s] # "blocked"
    /\ handle' = [handle EXCEPT ![s] = "closed"]
    /\ UNCHANGED <<receiver, subscriptions, bound, wait, taken, boxVars, conn>>

CloseSubscription(s) ==
    /\ handle[s] = "open"
    /\ wait[s] # "blocked"
    /\ handle' = [handle EXCEPT ![s] = "closed"]
    /\ subscriptions' = subscriptions \ {s}
    /\ UNCHANGED <<receiver, bound, wait, taken, boxVars, conn>>

-----------------------------------------------------------------------------
(* Connection handlers.                                                     *)

\* The connections inside `async with self._connections`.
Slots == {c \in Conns : conn[c].pc \in {"reading", "body"}}

Reply(c, reply) ==
    conn' = [conn EXCEPT ![c].pc = "done", ![c].reply = reply]

Connect(c) ==
    /\ receiver = "running"
    /\ conn[c].pc = "idle"
    /\ conn' = [conn EXCEPT ![c].pc = "accepted"]
    /\ UNCHANGED <<receiver, subscriptions, subVars, boxVars>>

StartHandler(c) ==
    /\ conn[c].pc = "accepted"
    /\ \/ /\ Cardinality(Slots) >= MaxConnections
          /\ Reply(c, "busy")
       \/ /\ Cardinality(Slots) < MaxConnections
          /\ conn' = [conn EXCEPT ![c].pc = "reading"]
    /\ UNCHANGED <<receiver, subscriptions, subVars, boxVars>>

\* Fault: a rejection wakes nobody.
RejectSilently(s) ==
    /\ rejected' = [rejected EXCEPT ![s] = TRUE]
    /\ UNCHANGED queue

\* _reject: the first rejection stands, and a sentinel wakes the waiter
\* unless the queue has no room for it.
Reject(s) ==
    /\ rejected' = [rejected EXCEPT ![s] = TRUE]
    /\ queue' = IF ~rejected[s] /\ Len(queue[s]) < MaxEvents
                THEN [queue EXCEPT ![s] = Append(@, None)]
                ELSE queue

\* A request that names no live route, or does not carry its token.
RefuseRequest(c) ==
    /\ conn[c].pc = "reading"
    /\ Reply(c, "refused")
    /\ UNCHANGED <<receiver, subscriptions, subVars, boxVars>>

\* An authenticated request with unacceptable content headers.
RejectHeaders(c, s) ==
    /\ conn[c].pc = "reading"
    /\ s \in subscriptions
    /\ Reject(s)
    /\ Reply(c, "rejected")
    /\ UNCHANGED <<receiver, subscriptions, subVars, bytes, fingerprints>>

\* Fault: the handler does not remember which subscription it serves.
AcceptAnonymously(c, s) ==
    /\ conn[c].pc = "reading"
    /\ s \in subscriptions
    /\ conn' = [conn EXCEPT ![c].pc = "body"]
    /\ UNCHANGED <<receiver, subscriptions, subVars, boxVars>>

\* From here the handler keeps the subscription's state, whatever becomes of
\* the route, while it awaits the body.
AcceptRequest(c, s) ==
    /\ conn[c].pc = "reading"
    /\ s \in subscriptions
    /\ conn' = [conn EXCEPT ![c].pc = "body", ![c].sub = s]
    /\ UNCHANGED <<receiver, subscriptions, subVars, boxVars>>

\* A body that exceeds the size limit (413) or is no StreamResponse (400).
RejectBody(c) ==
    /\ conn[c].pc = "body"
    /\ Reject(conn[c].sub)
    /\ Reply(c, "rejected")
    /\ UNCHANGED <<receiver, subscriptions, subVars, bytes, fingerprints>>

Answer(c, e, reply) ==
    conn' = [conn EXCEPT ![c].pc = "done", ![c].event = e, ![c].reply = reply]

RecordDelivery(c, e) ==
    LET s == conn[c].sub
        total == bytes[s] + e.size
    IN
    /\ conn[c].pc = "body"
    /\ \/ /\ total > MaxTotalBytes
          /\ Reject(s)
          /\ Answer(c, e, "rejected")
          /\ UNCHANGED <<bytes, fingerprints>>
       \/ /\ total <= MaxTotalBytes
          /\ bytes' = [bytes EXCEPT ![s] = total]
          /\ \/ /\ e \in fingerprints[s]
                /\ Answer(c, e, "kept")
                /\ UNCHANGED <<queue, rejected, fingerprints>>
             \/ /\ e \notin fingerprints[s]
                /\ Cardinality(fingerprints[s]) >= MaxEvents
                /\ Reject(s)
                /\ Answer(c, e, "rejected")
                /\ UNCHANGED fingerprints
             \/ /\ e \notin fingerprints[s]
                /\ Cardinality(fingerprints[s]) < MaxEvents
                /\ fingerprints' = [fingerprints EXCEPT ![s] = @ \union {e}]
                /\ \/ /\ Len(queue[s]) < MaxEvents
                      /\ queue' = [queue EXCEPT ![s] = Append(@, e)]
                      /\ Answer(c, e, "kept")
                   \* put_nowait raises QueueFull: no reply is sent.
                   \/ /\ Len(queue[s]) >= MaxEvents
                      /\ Answer(c, e, "none")
                      /\ UNCHANGED queue
                /\ UNCHANGED rejected
    /\ UNCHANGED <<receiver, subscriptions, subVars>>

\* The peer hangs up (no reply) or speaks broken HTTP (400).
BreakConnection(c) ==
    /\ conn[c].pc \in {"reading", "body"}
    /\ \E reply \in {"none", "refused"} : Reply(c, reply)
    /\ UNCHANGED <<receiver, subscriptions, subVars, boxVars>>

\* Fault: the timeout covers the headers and not the body.
HeadersTimeOut(c) ==
    /\ conn[c].pc = "reading"
    /\ Reply(c, "late")
    /\ UNCHANGED <<receiver, subscriptions, subVars, boxVars>>

ConnectionTimesOut(c) ==
    /\ conn[c].pc \in {"reading", "body"}
    /\ Reply(c, "late")
    /\ UNCHANGED <<receiver, subscriptions, subVars, boxVars>>

-----------------------------------------------------------------------------
(* PushReceiver.close, called when every trial is over.                     *)

StopServing ==
    /\ receiver = "running"
    /\ \A s \in Subs : handle[s] # "open"
    /\ receiver' = "closing"
    /\ subscriptions' = {}
    /\ UNCHANGED <<subVars, boxVars, conn>>

\* Fault: handlers are left running.
CloseServerOnly ==
    /\ receiver = "closing"
    /\ receiver' = "closed"
    /\ UNCHANGED <<subscriptions, subVars, boxVars, conn>>

\* Before Python 3.12 wait_closed() returns at once, later it waits for the
\* connections; a connection whose handler has not run yet is in no set.
CancelHandlers ==
    /\ receiver = "closing"
    /\ receiver' = "closed"
    /\ conn' = [c \in Conns |-> IF c \in Slots
                                THEN [conn[c] EXCEPT !.pc = "done"]
                                ELSE conn[c]]
    /\ UNCHANGED <<subscriptions, subVars, boxVars>>

-----------------------------------------------------------------------------
Trial(s) ==
    \/ Register(s)
    \/ \E i \in Identities : Bind(s, i)
    \/ StartWait(s)
    \/ ResumeWait(s)
    \/ WaitTimesOut(s)
    \/ CloseSubscription(s)

Handler(c) ==
    \/ Connect(c)
    \/ StartHandler(c)
    \/ RefuseRequest(c)
    \/ \E s \in Subs : RejectHeaders(c, s) \/ AcceptRequest(c, s)
    \/ RejectBody(c)
    \/ \E e \in Events : RecordDelivery(c, e)
    \/ BreakConnection(c)
    \/ ConnectionTimesOut(c)

Next ==
    \/ \E s \in Subs : Trial(s)
    \/ \E c \in Conns : Handler(c)
    \/ StopServing
    \/ CancelHandlers

Spec == Init /\ [][Next]_vars

\* The event loop runs every ready coroutine; no timer is assumed to fire.
\* The agent owes nothing: it may never connect, nor finish a request.
EventLoop ==
    /\ \A s \in Subs : WF_vars(ResumeWait(s))
    /\ \A c \in Conns : WF_vars(StartHandler(c))

\* asyncio.timeout fires once its deadline has passed.
Timers ==
    /\ \A s \in Subs : WF_vars(WaitTimesOut(s))
    /\ \A c \in Conns : WF_vars(ConnectionTimesOut(c))

PromptSpec == Spec /\ EventLoop

-----------------------------------------------------------------------------
TypeOK ==
    /\ receiver \in {"running", "closing", "closed"}
    /\ subscriptions \subseteq Subs
    /\ handle \in [Subs -> Handles]
    /\ bound \in [Subs -> Identities \union {None}]
    /\ queue \in [Subs -> Seq(Entries)]
    /\ rejected \in [Subs -> BOOLEAN]
    /\ bytes \in [Subs -> Nat]
    /\ fingerprints \in [Subs -> SUBSET Events]
    /\ taken \in [Subs -> Seq(Entries)]
    /\ wait \in [Subs -> Waits]
    /\ conn \in [Conns -> Handlers]
    /\ \A c \in Conns : conn[c].pc = "body" => conn[c].sub \in Subs

\* What the queue of s ever held, in the order it arrived.
Kept(s) == taken[s] \o queue[s]

\* The event loop never loses or repeats a delivery: those the trial took and
\* those that wait for it are distinct, and unless a rejection has doomed the
\* subscription they are exactly the deliveries whose digest was recorded
\* (_record_delivery adds the digest before it queues the delivery).  So an
\* acknowledgement is never a lie: a delivery answered with 204 is in the
\* queue, or the trial took it.
ExactlyOnce ==
    \A s \in Subs :
        /\ \A i, j \in DOMAIN Kept(s) :
              (Kept(s)[i] = Kept(s)[j] /\ Kept(s)[i] # None) => i = j
        /\ ToSet(Kept(s)) \ {None} \subseteq fingerprints[s]
        /\ ~rejected[s] =>
              /\ fingerprints[s] = ToSet(Kept(s))
              /\ \A c \in Conns : (conn[c].reply = "kept" /\ conn[c].sub = s)
                    => conn[c].event \in ToSet(Kept(s))

\* The bounded queue and the byte counter respect their limits, and a
\* rejection never leaves a waiter asleep on an empty queue: whoever is
\* blocked after a rejection has a sentinel or a delivery to wake it, even
\* when the sentinel found no room (_reject suppresses QueueFull).
RejectionWakes ==
    \A s \in Subs :
        /\ Len(queue[s]) <= MaxEvents
        /\ bytes[s] <= MaxTotalBytes
        /\ (wait[s] = "blocked" /\ rejected[s]) => queue[s] # <<>>

\* A successful wait read nothing but deliveries of the bound identity, and
\* the first terminal one ended it.
OutcomeIsFirstTerminal ==
    \A s \in Subs : wait[s] = "ok" =>
        /\ taken[s] # <<>>
        /\ \A k \in DOMAIN taken[s] :
              /\ taken[s][k] # None
              /\ taken[s][k].outer = bound[s]
              /\ (taken[s][k].kind = "terminal") <=> (k = Len(taken[s]))

\* No route outlives the handle its trial closes, and none is lost before: a
\* registration is routable exactly while its handle is open, and never more
\* of them than MAX_PUSH_SUBSCRIPTIONS.
RoutesMatchHandles ==
    /\ subscriptions = {s \in Subs : handle[s] = "open"}
    /\ Cardinality(subscriptions) <= MaxSubscriptions

\* A receiver that is closing routes no request, and when close() has returned
\* no handler holds a subscription any more, even one whose coroutine first
\* ran after the handlers were cancelled.
NoHandlerOutlivesReceiver ==
    /\ receiver # "running" => subscriptions = {}
    /\ receiver = "closed" => \A c \in Conns : conn[c].pc # "body"

\* Once a wait blocked behind a rejection, it ends without any timer.
RejectionEndsWait ==
    \A s \in Subs :
        (wait[s] = "blocked" /\ rejected[s]) ~> (wait[s] \in {"ok", "error"})

\* With the timers of wait() and _handle_client, a blocked wait ends and an
\* open connection is answered or dropped, whatever the agent leaves undone.
EverythingEnds ==
    Timers =>
        /\ \A s \in Subs : (wait[s] = "blocked") ~> (wait[s] \in {"ok", "error"})
        /\ \A c \in Conns : (conn[c].pc = "accepted") ~> (conn[c].pc = "done")

\* docs/push-notifications.md: "A missing callback, invalid payload, wrong
\* task or context, exceeded limit, authenticated rejection, or delivery
\* failure fails the trial": a rejection recorded before the wait is over
\* must not be followed by a successful outcome.
RejectionFailsTrial ==
    [][\A s \in Subs :
         (wait[s] # "ok" /\ rejected[s]) => wait'[s] # "ok"]_vars

-----------------------------------------------------------------------------
(* The promise to a trial: what of the receiver's state the inbox shows.    *)

\* All deliveries the queue ever held; the one sentinel it may hold is none.
InboxAccepted == [s \in Subs |-> RemoveFirst(Kept(s), None)]
InboxVerdict ==
    [s \in Subs |-> IF wait[s] \in {"ok", "error"} THEN wait[s] ELSE "pending"]
InboxOutcome == [s \in Subs |-> IF wait[s] = "ok" THEN taken[s] ELSE <<>>]

Inbox == INSTANCE PushInbox WITH accepted <- InboxAccepted,
                                 verdict <- InboxVerdict,
                                 outcome <- InboxOutcome

\* The server, its handlers and the queue implement the inbox.
ImplementsInbox == Inbox!Spec
=============================================================================
