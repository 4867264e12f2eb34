------------------------ MODULE PushDelivery_proofs ------------------------
(* Proofs about the push receiver, for every number of subscriptions,       *)
(* connections and deliveries and every value of the limits: its types and  *)
(* limits, its routes and its end, its deliveries, its outcomes, and that   *)
(* it implements the inbox a trial relies on (module PushInbox).            *)
EXTENDS PushDelivery, FiniteSetTheorems, SequenceTheorems, TLAPS

-----------------------------------------------------------------------------
(* Facts about the queue operations.                                        *)

\* Taking n entries moves a prefix of the queue behind what was taken.
LEMMA TakeTypes ==
    ASSUME NEW T, NEW q \in Seq(T), NEW t \in Seq(T), NEW n \in 0..Len(q)
    PROVE  /\ t \o SubSeq(q, 1, n) \in Seq(T)
           /\ SubSeq(q, n + 1, Len(q)) \in Seq(T)
           /\ Len(SubSeq(q, n + 1, Len(q))) <= Len(q)
<1>1. SubSeq(q, 1, n) \in Seq(T) /\ SubSeq(q, n + 1, Len(q)) \in Seq(T)
  OBVIOUS
<1>2. Len(SubSeq(q, n + 1, Len(q))) = Len(q) - n
  OBVIOUS
<1>3. QED
  BY <1>1, <1>2

\* The type part of every step that takes entries.
LEMMA DrainTypes ==
    ASSUME TypeOK, NEW s \in Subs, Drain(s)
    PROVE  /\ queue' \in [Subs -> Seq(Entries)]
           /\ taken' \in [Subs -> Seq(Entries)]
           /\ wait' \in [Subs -> Waits]
<1>0. queue[s] \in Seq(Entries) /\ taken[s] \in Seq(Entries)
  BY DEF TypeOK
<1>1. \A n \in 0..Len(queue[s]) : Take(s, n) =>
          queue' \in [Subs -> Seq(Entries)] /\ taken' \in [Subs -> Seq(Entries)]
  <2>1. SUFFICES ASSUME NEW n \in 0..Len(queue[s]), Take(s, n)
                 PROVE  queue' \in [Subs -> Seq(Entries)] /\ taken' \in [Subs -> Seq(Entries)]
    OBVIOUS
  <2>2. /\ taken[s] \o SubSeq(queue[s], 1, n) \in Seq(Entries)
        /\ SubSeq(queue[s], n + 1, Len(queue[s])) \in Seq(Entries)
    BY <1>0, TakeTypes
  <2>3. QED
    BY <2>1, <2>2 DEF Take, TypeOK
<1>2. \A v \in Waits : Conclude(s, v) => wait' \in [Subs -> Waits]
  BY DEF Conclude, TypeOK
<1>3. \A d : Verdict(s, d) \in Waits
  BY DEF Verdict, Waits
<1>4. CASE Take(s, Len(queue[s])) /\ Conclude(s, "blocked")
  BY <1>0, <1>1, <1>2, <1>4 DEF Waits
<1>5. CASE \E n \in DOMAIN queue[s] :
             Take(s, n) /\ Conclude(s, Verdict(s, queue[s][n]))
  BY <1>0, <1>1, <1>2, <1>3, <1>5
<1>6. QED
  BY <1>4, <1>5 DEF Drain

\* A rejection appends at most one sentinel.
LEMMA RejectTypes ==
    ASSUME TypeOK, NEW s \in Subs, Reject(s)
    PROVE  /\ queue' \in [Subs -> Seq(Entries)]
           /\ rejected' \in [Subs -> BOOLEAN]
BY DEF TypeOK, Reject, Entries

\* Replacing one handler by a well-typed one keeps the handlers well typed.
LEMMA ConnTypes ==
    ASSUME TypeOK, NEW c \in Conns, NEW h \in Handlers,
           h.pc = "body" => h.sub \in Subs,
           conn' = [conn EXCEPT ![c] = h]
    PROVE  /\ conn' \in [Conns -> Handlers]
           /\ \A d \in Conns : conn'[d].pc = "body" => conn'[d].sub \in Subs
BY DEF TypeOK

LEMMA ReplyTypes ==
    ASSUME TypeOK, NEW c \in Conns, NEW r \in Replies, Reply(c, r)
    PROVE  /\ conn' \in [Conns -> Handlers]
           /\ \A d \in Conns : conn'[d].pc = "body" => conn'[d].sub \in Subs
<1>1. conn[c] \in Handlers
  BY DEF TypeOK
<1>2. [conn[c] EXCEPT !.pc = "done", !.reply = r] \in Handlers
  BY <1>1 DEF Handlers, Phases
<1>3. conn' = [conn EXCEPT ![c] = [conn[c] EXCEPT !.pc = "done", !.reply = r]]
  BY DEF Reply
<1>4. [conn[c] EXCEPT !.pc = "done", !.reply = r].pc # "body"
  BY <1>1 DEF Handlers
<1>5. QED
  BY <1>2, <1>3, <1>4, ConnTypes

-----------------------------------------------------------------------------
LEMMA InitTypeOK == Init => TypeOK
BY EventsAssumption DEF Init, TypeOK, Handles, Waits, Handlers, Phases, Replies, Entries

LEMMA TrialTypeOK ==
    ASSUME TypeOK, NEW s \in Subs, Trial(s)
    PROVE  TypeOK'
<1>1. CASE Register(s)
  BY <1>1 DEF TypeOK, Register, boxVars, Handles
<1>2. ASSUME NEW i \in Identities, Bind(s, i) PROVE TypeOK'
  BY <1>2 DEF TypeOK, Bind, boxVars
<1>3. CASE StartWait(s)
  <2>1. CASE rejected[s]
    BY <1>3, <2>1 DEF TypeOK, StartWait, Conclude, Waits
  <2>2. CASE Drain(s)
    BY <1>3, <2>2, DrainTypes DEF TypeOK, StartWait
  <2>3. QED
    BY <1>3, <2>1, <2>2 DEF StartWait
<1>4. CASE ResumeWait(s)
  <2>1. CASE Take(s, 1) /\ Conclude(s, "error")
    <3>0. queue[s] \in Seq(Entries) /\ taken[s] \in Seq(Entries) /\ queue[s] # <<>>
      BY <1>4 DEF TypeOK, ResumeWait
    <3>1. 1 \in 0..Len(queue[s])
      BY <3>0
    <3>2. /\ taken[s] \o SubSeq(queue[s], 1, 1) \in Seq(Entries)
          /\ SubSeq(queue[s], 1 + 1, Len(queue[s])) \in Seq(Entries)
      BY <3>0, <3>1, TakeTypes
    <3>3. /\ queue' \in [Subs -> Seq(Entries)]
          /\ taken' \in [Subs -> Seq(Entries)]
      BY <2>1, <3>2 DEF Take, TypeOK
    <3>4. QED
      BY <1>4, <2>1, <3>3 DEF TypeOK, ResumeWait, Conclude, Waits
  <2>2. CASE Drain(s)
    BY <1>4, <2>2, DrainTypes DEF TypeOK, ResumeWait
  <2>3. QED
    BY <1>4, <2>1, <2>2 DEF ResumeWait
<1>5. CASE WaitTimesOut(s)
  BY <1>5 DEF TypeOK, WaitTimesOut, Conclude, Waits, boxVars
<1>6. CASE CloseSubscription(s)
  BY <1>6 DEF TypeOK, CloseSubscription, boxVars, Handles
<1>7. QED
  BY <1>1, <1>2, <1>3, <1>4, <1>5, <1>6 DEF Trial

LEMMA HandlerTypeOK ==
    ASSUME TypeOK, NEW c \in Conns, Handler(c)
    PROVE  TypeOK'
<1> DEFINE ConnOK == /\ conn' \in [Conns -> Handlers]
                     /\ \A d \in Conns : conn'[d].pc = "body" => conn'[d].sub \in Subs
<1>0. conn[c] \in Handlers
  BY DEF TypeOK
<1>a. ASSUME UNCHANGED <<receiver, subscriptions, subVars, boxVars>>, ConnOK
      PROVE  TypeOK'
  BY <1>a DEF TypeOK, subVars, boxVars
<1>b. \A r \in Replies : Reply(c, r) => ConnOK
  BY ReplyTypes
<1>c. \A p \in Phases \ {"body"} : conn' = [conn EXCEPT ![c].pc = p] => ConnOK
  <2> SUFFICES ASSUME NEW p \in Phases \ {"body"}, conn' = [conn EXCEPT ![c].pc = p]
               PROVE  ConnOK
    OBVIOUS
  <2>1. /\ [conn[c] EXCEPT !.pc = p] \in Handlers
        /\ [conn[c] EXCEPT !.pc = p].pc # "body"
    BY <1>0 DEF Handlers
  <2>2. conn' = [conn EXCEPT ![c] = [conn[c] EXCEPT !.pc = p]]
    OBVIOUS
  <2>3. QED
    BY <2>1, <2>2, ConnTypes
<1>1. CASE Connect(c)
  BY <1>1, <1>a, <1>c DEF Connect, Phases
<1>2. CASE StartHandler(c)
  BY <1>2, <1>a, <1>b, <1>c DEF StartHandler, Phases, Replies
<1>3. CASE RefuseRequest(c)
  BY <1>3, <1>a, <1>b DEF RefuseRequest, Replies
<1>4. ASSUME NEW s \in Subs, RejectHeaders(c, s) PROVE TypeOK'
  <2>1. ConnOK
    BY <1>4, <1>b DEF RejectHeaders, Replies
  <2>2. Reject(s)
    BY <1>4 DEF RejectHeaders
  <2>3. QED
    BY <1>4, <2>1, <2>2, RejectTypes DEF TypeOK, RejectHeaders, subVars
<1>5. ASSUME NEW s \in Subs, AcceptRequest(c, s) PROVE TypeOK'
  <2> DEFINE h == [conn[c] EXCEPT !.pc = "body", !.sub = s]
  <2>1. h \in Handlers /\ h.sub \in Subs
    BY <1>0 DEF Handlers, Phases
  <2>2. conn' = [conn EXCEPT ![c] = h]
    BY <1>5 DEF AcceptRequest
  <2>3. ConnOK
    BY <2>1, <2>2, ConnTypes
  <2>4. QED
    BY <1>5, <1>a, <2>3 DEF AcceptRequest
<1>6. CASE RejectBody(c)
  <2>1. ConnOK
    BY <1>6, <1>b DEF RejectBody, Replies
  <2>2. conn[c].sub \in Subs /\ Reject(conn[c].sub)
    BY <1>6 DEF RejectBody, TypeOK
  <2>3. QED
    BY <1>6, <2>1, <2>2, RejectTypes DEF TypeOK, RejectBody, subVars
<1>7. ASSUME NEW e \in Events, RecordDelivery(c, e) PROVE TypeOK'
  <2>1. conn[c].sub \in Subs /\ e.size \in Nat /\ e \in Entries
    BY <1>7, EventsAssumption DEF TypeOK, RecordDelivery, Entries
  <2>2. \A r \in Replies : Answer(c, e, r) => ConnOK
    <3> SUFFICES ASSUME NEW r \in Replies, Answer(c, e, r) PROVE ConnOK
      OBVIOUS
    <3> DEFINE h == [conn[c] EXCEPT !.pc = "done", !.event = e, !.reply = r]
    <3>1. h \in Handlers /\ h.pc # "body"
      BY <1>0 DEF Handlers, Phases
    <3>2. conn' = [conn EXCEPT ![c] = h]
      BY DEF Answer
    <3>3. QED
      BY <3>1, <3>2, ConnTypes
  <2>3. ConnOK
    BY <1>7, <2>2 DEF RecordDelivery, Replies
  <2>4. bytes' \in [Subs -> Nat]
    <3>1. bytes[conn[c].sub] + e.size \in Nat
      BY <2>1 DEF TypeOK
    <3>2. \/ bytes' = bytes
          \/ bytes' = [bytes EXCEPT ![conn[c].sub] = bytes[conn[c].sub] + e.size]
      BY <1>7 DEF RecordDelivery
    <3>3. QED
      BY <2>1, <3>1, <3>2 DEF TypeOK
  <2>5. /\ queue' \in [Subs -> Seq(Entries)]
        /\ rejected' \in [Subs -> BOOLEAN]
        /\ fingerprints' \in [Subs -> SUBSET Events]
    <3>1. CASE Reject(conn[c].sub) /\ UNCHANGED fingerprints
      BY <2>1, <3>1, RejectTypes DEF TypeOK
    <3>2. CASE UNCHANGED <<queue, rejected, fingerprints>>
      BY <3>2 DEF TypeOK
    <3>3. CASE /\ fingerprints' = [fingerprints EXCEPT ![conn[c].sub] = @ \union {e}]
               /\ \/ queue' = [queue EXCEPT ![conn[c].sub] = Append(@, e)]
                  \/ UNCHANGED queue
               /\ UNCHANGED rejected
      <4>1. /\ fingerprints[conn[c].sub] \union {e} \in SUBSET Events
            /\ Append(queue[conn[c].sub], e) \in Seq(Entries)
        BY <2>1 DEF TypeOK
      <4>2. fingerprints' \in [Subs -> SUBSET Events]
        BY <2>1, <3>3, <4>1 DEF TypeOK
      <4>3. queue' \in [Subs -> Seq(Entries)]
        BY <2>1, <3>3, <4>1 DEF TypeOK
      <4>4. QED
        BY <3>3, <4>2, <4>3 DEF TypeOK
    <3>4. QED
      BY <1>7, <3>1, <3>2, <3>3 DEF RecordDelivery
  <2>6. QED
    BY <1>7, <2>3, <2>4, <2>5 DEF TypeOK, RecordDelivery, subVars
<1>8. CASE BreakConnection(c)
  BY <1>8, <1>a, <1>b DEF BreakConnection, Replies
<1>9. CASE ConnectionTimesOut(c)
  BY <1>9, <1>a, <1>b DEF ConnectionTimesOut, Replies
<1>10. QED
  BY <1>1, <1>2, <1>3, <1>4, <1>5, <1>6, <1>7, <1>8, <1>9 DEF Handler

\* Every variable keeps its type, for any constants.
THEOREM TypeCorrect == Spec => []TypeOK
<1>1. TypeOK /\ [Next]_vars => TypeOK'
  <2>1. ASSUME TypeOK, StopServing PROVE TypeOK'
    BY <2>1 DEF TypeOK, StopServing, subVars, boxVars
  <2>2. ASSUME TypeOK, CancelHandlers PROVE TypeOK'
    <3>1. ASSUME NEW c \in Conns
          PROVE  /\ conn'[c] \in Handlers
                 /\ conn'[c].pc = "body" => conn'[c].sub \in Subs
      <4>1. conn[c] \in Handlers
        BY <2>2 DEF TypeOK
      <4>2. CASE conn'[c] = conn[c]
        BY <2>2, <4>1, <4>2 DEF TypeOK
      <4>3. CASE conn'[c] = [conn[c] EXCEPT !.pc = "done"]
        BY <4>1, <4>3 DEF Handlers, Phases
      <4>4. QED
        BY <2>2, <4>2, <4>3 DEF CancelHandlers
    <3>2. conn' \in [Conns -> Handlers]
      BY <2>2, <3>1 DEF CancelHandlers
    <3>3. QED
      BY <2>2, <3>1, <3>2 DEF TypeOK, CancelHandlers, subVars, boxVars
  <2>3. ASSUME TypeOK, UNCHANGED vars PROVE TypeOK'
    BY <2>3 DEF TypeOK, vars
  <2>4. QED
    BY <2>1, <2>2, <2>3, TrialTypeOK, HandlerTypeOK DEF Next
<1>2. QED
  BY <1>1, InitTypeOK, PTL DEF Spec

-----------------------------------------------------------------------------
(* The bounded queue.                                                       *)

\* Taking entries shortens the queue, and only a wait that emptied it blocks.
LEMMA DrainBounded ==
    ASSUME TypeOK, NEW s \in Subs, Drain(s)
    PROVE  /\ \A x \in Subs : Len(queue'[x]) <= Len(queue[x])
           /\ \A x \in Subs \ {s} : queue'[x] = queue[x] /\ wait'[x] = wait[x]
           /\ wait'[s] \in {"ok", "error"} \/ wait'[s] = "blocked"
<1>0. queue[s] \in Seq(Entries) /\ taken[s] \in Seq(Entries)
  BY DEF TypeOK
<1>1. \A n \in 0..Len(queue[s]) : Take(s, n) =>
          /\ \A x \in Subs : Len(queue'[x]) <= Len(queue[x])
          /\ \A x \in Subs \ {s} : queue'[x] = queue[x]
  <2> SUFFICES ASSUME NEW n \in 0..Len(queue[s]), Take(s, n)
               PROVE  /\ \A x \in Subs : Len(queue'[x]) <= Len(queue[x])
                      /\ \A x \in Subs \ {s} : queue'[x] = queue[x]
    OBVIOUS
  <2>1. Len(SubSeq(queue[s], n + 1, Len(queue[s]))) <= Len(queue[s])
    BY <1>0, TakeTypes
  <2>2. \A x \in Subs : queue[x] \in Seq(Entries) /\ Len(queue[x]) \in Nat
    BY DEF TypeOK
  <2>3. QED
    BY <2>1, <2>2 DEF Take, TypeOK
<1>2. \A v : Conclude(s, v) =>
          wait'[s] = v /\ \A x \in Subs \ {s} : wait'[x] = wait[x]
  BY DEF Conclude, TypeOK
<1>3. CASE Take(s, Len(queue[s])) /\ Conclude(s, "blocked")
  BY <1>0, <1>1, <1>2, <1>3
<1>4. CASE \E n \in DOMAIN queue[s] :
             Take(s, n) /\ Conclude(s, Verdict(s, queue[s][n]))
  BY <1>0, <1>1, <1>2, <1>4 DEF Verdict
<1>5. QED
  BY <1>3, <1>4 DEF Drain

\* A resumed wait that drains past a rejection cannot block again.
LEMMA ResumeDecides ==
    ASSUME TypeOK, NEW s \in Subs, ResumeWait(s), rejected[s]
    PROVE  wait'[s] \in {"ok", "error"}
<1>0. /\ queue[s] \in Seq(Entries) /\ queue[s] # <<>>
      /\ 1 \in DOMAIN queue[s] /\ Head(queue[s]) = queue[s][1]
  BY DEF ResumeWait, TypeOK
<1>1. \A v : Conclude(s, v) => wait'[s] = v
  BY DEF Conclude, TypeOK
<1>2. CASE Conclude(s, "error")
  BY <1>1, <1>2
<1>3. CASE Decisive(s, Head(queue[s])) /\ Drain(s)
  BY <1>0, <1>1, <1>3 DEF Drain, Verdict
<1>4. QED
  BY <1>2, <1>3 DEF ResumeWait

\* A rejection leaves its queue bounded and non-empty, unless it was recorded
\* before, and touches no other queue.
LEMMA RejectBounded ==
    ASSUME TypeOK, RejectionWakes, NEW s \in Subs, Reject(s)
    PROVE  \A x \in Subs :
              /\ Len(queue'[x]) <= MaxEvents
              /\ (wait[x] = "blocked" /\ rejected'[x]) => queue'[x] # <<>>
<1> SUFFICES ASSUME NEW x \in Subs
             PROVE  /\ Len(queue'[x]) <= MaxEvents
                    /\ (wait[x] = "blocked" /\ rejected'[x]) => queue'[x] # <<>>
  OBVIOUS
<1>0. /\ queue[s] \in Seq(Entries) /\ queue[x] \in Seq(Entries)
      /\ Len(queue[s]) \in Nat /\ Len(queue[x]) \in Nat
      /\ MaxEvents \in Nat \ {0}
  BY LimitsAssumption DEF TypeOK
<1>1. CASE x # s
  BY <1>0, <1>1 DEF Reject, RejectionWakes, TypeOK
<1>2. CASE x = s /\ ~rejected[s] /\ Len(queue[s]) < MaxEvents
  <2>1. queue'[s] = Append(queue[s], None)
    BY <1>2 DEF Reject, TypeOK
  <2>2. Len(queue'[s]) = Len(queue[s]) + 1 /\ queue'[s] # <<>>
    BY <1>0, <2>1 DEF Entries
  <2>3. QED
    BY <1>0, <1>2, <2>2
<1>3. CASE x = s /\ ~(~rejected[s] /\ Len(queue[s]) < MaxEvents)
  <2>1. queue' = queue
    BY <1>3 DEF Reject
  <2>2. rejected[s] \in BOOLEAN
    BY DEF TypeOK
  <2>3. Len(queue[s]) >= MaxEvents => queue[s] # <<>>
    BY <1>0
  <2>4. QED
    BY <1>0, <1>3, <2>1, <2>2, <2>3 DEF RejectionWakes
<1>4. QED
  BY <1>1, <1>2, <1>3

LEMMA InitRejectionWakes == Init => RejectionWakes
BY LimitsAssumption DEF Init, RejectionWakes

LEMMA TrialRejectionWakes ==
    ASSUME TypeOK, RejectionWakes, NEW s \in Subs, Trial(s)
    PROVE  RejectionWakes'
<1>0. \A x \in Subs : queue[x] \in Seq(Entries) /\ Len(queue[x]) \in Nat
  BY DEF TypeOK
<1>1. ASSUME UNCHANGED <<wait, boxVars>> PROVE RejectionWakes'
  BY <1>1 DEF RejectionWakes, boxVars
<1>2. CASE StartWait(s) \/ ResumeWait(s)
  <2>1. UNCHANGED <<rejected, bytes>>
    BY <1>2 DEF StartWait, ResumeWait
  <2>2. CASE Conclude(s, "error") /\ UNCHANGED queue
    BY <2>1, <2>2 DEF RejectionWakes, Conclude, TypeOK
  <2>3. CASE Drain(s)
    <3>1. rejected[s] => wait'[s] # "blocked"
      <4>1. CASE StartWait(s) /\ rejected[s]
        BY <4>1 DEF StartWait, Conclude, TypeOK
      <4>2. CASE ResumeWait(s) /\ rejected[s]
        BY <4>2, ResumeDecides
      <4>3. QED
        BY <1>2, <4>1, <4>2
    <3>2. QED
      BY <1>0, <2>1, <2>3, <3>1, DrainBounded, LimitsAssumption DEF RejectionWakes
  <2>4. CASE Take(s, 1) /\ Conclude(s, "error") /\ ResumeWait(s)
    <3>1. 1 \in 0..Len(queue[s])
      BY <1>0, <2>4 DEF ResumeWait
    <3>2. Len(SubSeq(queue[s], 1 + 1, Len(queue[s]))) <= Len(queue[s])
      BY <1>0, <3>1, TakeTypes DEF TypeOK
    <3>3. /\ Len(queue'[s]) <= Len(queue[s])
          /\ \A x \in Subs \ {s} : queue'[x] = queue[x]
      BY <2>4, <3>2 DEF Take, TypeOK
    <3>4. wait'[s] = "error" /\ \A x \in Subs \ {s} : wait'[x] = wait[x]
      BY <2>4 DEF Conclude, TypeOK
    <3>5. Len(queue'[s]) \in Nat
      BY <2>4, <1>0 DEF Take, TypeOK
    <3>6. QED
      BY <1>0, <2>1, <3>3, <3>4, <3>5, LimitsAssumption DEF RejectionWakes
  <2>5. QED
    BY <1>2, <2>2, <2>3, <2>4 DEF StartWait, ResumeWait
<1>3. CASE WaitTimesOut(s)
  BY <1>3 DEF WaitTimesOut, Conclude, RejectionWakes, boxVars, TypeOK
<1>4. QED
  BY <1>1, <1>2, <1>3
  DEF Trial, Register, Bind, CloseSubscription, boxVars

LEMMA HandlerRejectionWakes ==
    ASSUME TypeOK, RejectionWakes, NEW c \in Conns, Handler(c)
    PROVE  RejectionWakes'
<1>1. ASSUME UNCHANGED <<wait, boxVars>> PROVE RejectionWakes'
  BY <1>1 DEF RejectionWakes, boxVars
<1>2. ASSUME NEW s \in Subs, Reject(s), UNCHANGED wait,
             bytes' \in [Subs -> Nat], \A x \in Subs : bytes'[x] <= MaxTotalBytes
      PROVE  RejectionWakes'
  BY <1>2, RejectBounded DEF RejectionWakes
<1>3. ASSUME NEW s \in Subs, RejectHeaders(c, s) PROVE RejectionWakes'
  BY <1>2, <1>3 DEF RejectHeaders, RejectionWakes, TypeOK, subVars
<1>4. CASE RejectBody(c)
  BY <1>2, <1>4 DEF RejectBody, RejectionWakes, TypeOK, subVars
<1>5. ASSUME NEW e \in Events, RecordDelivery(c, e) PROVE RejectionWakes'
  <2>0. conn[c].sub \in Subs /\ e.size \in Nat
    BY <1>5, EventsAssumption DEF TypeOK, RecordDelivery
  <2> PICK s \in Subs : s = conn[c].sub
    BY <2>0
  <2>1. UNCHANGED wait
    BY <1>5 DEF RecordDelivery, subVars
  <2>2. /\ bytes' \in [Subs -> Nat]
        /\ \A x \in Subs : bytes'[x] <= MaxTotalBytes
    <3>1. CASE bytes' = bytes
      BY <3>1 DEF TypeOK, RejectionWakes
    <3>2. CASE /\ bytes[s] + e.size <= MaxTotalBytes
               /\ bytes' = [bytes EXCEPT ![s] = bytes[s] + e.size]
      <4>1. bytes[s] + e.size \in Nat
        BY <2>0 DEF TypeOK
      <4>2. QED
        BY <3>2, <4>1 DEF TypeOK, RejectionWakes
    <3>3. QED
      BY <1>5, <3>1, <3>2 DEF RecordDelivery
  <2>3. CASE Reject(s)
    BY <1>2, <2>1, <2>2, <2>3
  <2>4. CASE UNCHANGED <<queue, rejected>>
    BY <2>1, <2>2, <2>4 DEF RejectionWakes
  <2>5. CASE /\ Len(queue[s]) < MaxEvents
             /\ queue' = [queue EXCEPT ![s] = Append(@, e)]
             /\ UNCHANGED rejected
    <3>1. queue[s] \in Seq(Entries) /\ Len(queue[s]) \in Nat /\ MaxEvents \in Nat
      BY LimitsAssumption DEF TypeOK
    <3>2. queue'[s] = Append(queue[s], e) /\ \A x \in Subs \ {s} : queue'[x] = queue[x]
      BY <2>5 DEF TypeOK
    <3>3. Len(queue'[s]) <= MaxEvents /\ queue'[s] # <<>>
      <4>1. e \in Entries
        BY <1>5 DEF Entries
      <4>2. Len(Append(queue[s], e)) = Len(queue[s]) + 1 /\ Append(queue[s], e) # <<>>
        BY <3>1, <4>1
      <4>3. QED
        BY <2>5, <3>1, <3>2, <4>2
    <3>4. QED
      BY <2>1, <2>2, <2>5, <3>2, <3>3 DEF RejectionWakes
  <2>6. QED
    BY <1>5, <2>3, <2>4, <2>5 DEF RecordDelivery
<1>6. QED
  BY <1>1, <1>3, <1>4, <1>5
  DEF Handler, Connect, StartHandler, RefuseRequest, AcceptRequest,
      BreakConnection, ConnectionTimesOut, subVars

\* The limits on the queue and the bytes hold, and no waiter sleeps through a
\* rejection, whatever MAX_PUSH_EVENTS and MAX_PUSH_TOTAL_BYTES are.
THEOREM RejectionsWake == Spec => []RejectionWakes
<1>1. TypeOK /\ RejectionWakes /\ [Next]_vars => RejectionWakes'
  <2>1. ASSUME RejectionWakes, StopServing \/ CancelHandlers \/ UNCHANGED vars
        PROVE  RejectionWakes'
    BY <2>1 DEF RejectionWakes, StopServing, CancelHandlers, vars, subVars, boxVars
  <2>2. QED
    BY <2>1, TrialRejectionWakes, HandlerRejectionWakes DEF Next
<1>2. QED
  BY <1>1, InitRejectionWakes, TypeCorrect, PTL DEF Spec

-----------------------------------------------------------------------------
(* Routes, handles and the end of the receiver.                             *)

ReceiverInv == RoutesMatchHandles /\ NoHandlerOutlivesReceiver

LEMMA TrialReceiverInv ==
    ASSUME TypeOK, ReceiverInv, NEW s \in Subs, Trial(s)
    PROVE  ReceiverInv'
<1>0. IsFiniteSet(subscriptions) /\ subscriptions \subseteq Subs
  BY FiniteAssumption, FS_Subset DEF TypeOK
<1>1. CASE /\ Register(s)
           /\ subscriptions' = subscriptions \union {s}
  <2>1. /\ Cardinality(subscriptions) \in Nat
        /\ Cardinality(subscriptions \union {s}) \in Nat
        /\ Cardinality(subscriptions \union {s}) <= Cardinality(subscriptions) + 1
    <3>1. Cardinality(subscriptions) \in Nat
      BY <1>0, FS_CardinalityType
    <3>2. IF s \in subscriptions
          THEN Cardinality(subscriptions \union {s}) = Cardinality(subscriptions)
          ELSE Cardinality(subscriptions \union {s}) = Cardinality(subscriptions) + 1
      BY <1>0, FS_AddElement
    <3>3. QED
      BY <3>1, <3>2
  <2>2. subscriptions' = subscriptions \union {s}
    BY <1>1
  <2>3. receiver = "running" /\ UNCHANGED <<receiver, conn>> /\ s \notin subscriptions
    BY <1>1 DEF Register, ReceiverInv, RoutesMatchHandles
  <2>4. Cardinality(subscriptions) < MaxSubscriptions /\ handle' = [handle EXCEPT ![s] = "open"]
    BY <1>1, <2>3 DEF Register
  <2>5. RoutesMatchHandles'
    BY <1>1, <2>1, <2>2, <2>4, LimitsAssumption
    DEF ReceiverInv, RoutesMatchHandles, TypeOK
  <2>6. QED
    BY <2>3, <2>5 DEF ReceiverInv, NoHandlerOutlivesReceiver
<1>2. CASE /\ Register(s)
           /\ UNCHANGED subscriptions
  <2>1. handle[s] = "unused" /\ handle'[s] # "open" /\ \A x \in Subs \ {s} : handle'[x] = handle[x]
    <3>1. CASE subscriptions' = subscriptions \union {s} /\ UNCHANGED subscriptions
      BY <1>2, <3>1 DEF Register, ReceiverInv, RoutesMatchHandles
    <3>2. CASE handle' = [handle EXCEPT ![s] = "refused"]
      BY <1>2, <3>2 DEF Register, TypeOK
    <3>3. QED
      BY <1>2, <3>1, <3>2 DEF Register
  <2>2. QED
    BY <1>2, <2>1
    DEF Register, ReceiverInv, RoutesMatchHandles, NoHandlerOutlivesReceiver
<1>3. CASE CloseSubscription(s)
  <2>1. /\ Cardinality(subscriptions) \in Nat
        /\ Cardinality(subscriptions \ {s}) \in Nat
        /\ Cardinality(subscriptions \ {s}) <= Cardinality(subscriptions)
    <3>1. Cardinality(subscriptions) \in Nat
      BY <1>0, FS_CardinalityType
    <3>2. IsFiniteSet(subscriptions \ {s}) /\ Cardinality(subscriptions \ {s}) \in Nat
      BY <1>0, FS_Subset, FS_CardinalityType
    <3>3. IF s \in subscriptions
          THEN Cardinality(subscriptions \ {s}) = Cardinality(subscriptions) - 1
          ELSE Cardinality(subscriptions \ {s}) = Cardinality(subscriptions)
      BY <1>0, FS_RemoveElement
    <3>4. QED
      BY <3>1, <3>2, <3>3
  <2>2. subscriptions' = subscriptions \ {s}
    BY <1>3 DEF CloseSubscription
  <2>3. QED
    BY <1>3, <2>1, <2>2, LimitsAssumption
    DEF CloseSubscription, ReceiverInv, RoutesMatchHandles, NoHandlerOutlivesReceiver, TypeOK
<1>4. ASSUME UNCHANGED <<receiver, subscriptions, handle, conn>>
      PROVE  ReceiverInv'
  BY <1>4 DEF ReceiverInv, RoutesMatchHandles, NoHandlerOutlivesReceiver
<1>5. QED
  BY <1>1, <1>2, <1>3, <1>4
  DEF Trial, Register, Bind, StartWait, ResumeWait, WaitTimesOut

LEMMA HandlerReceiverInv ==
    ASSUME TypeOK, ReceiverInv, NEW c \in Conns, Handler(c)
    PROVE  ReceiverInv'
<1>1. UNCHANGED <<receiver, subscriptions, handle>>
  BY DEF Handler, Connect, StartHandler, RefuseRequest, RejectHeaders, AcceptRequest,
         RejectBody, RecordDelivery, BreakConnection, ConnectionTimesOut, subVars
<1>2. \/ \E s \in Subs : AcceptRequest(c, s)
      \/ conn'[c].pc # "body" /\ \A d \in Conns \ {c} : conn'[d] = conn[d]
  <2>1. conn[c] \in Handlers
    BY DEF TypeOK
  <2>2. ASSUME NEW p, p # "body", conn' = [conn EXCEPT ![c].pc = p]
        PROVE  conn'[c].pc # "body" /\ \A d \in Conns \ {c} : conn'[d] = conn[d]
    BY <2>1, <2>2 DEF TypeOK, Handlers
  <2>3. ASSUME NEW r, Reply(c, r)
        PROVE  conn'[c].pc # "body" /\ \A d \in Conns \ {c} : conn'[d] = conn[d]
    BY <2>1, <2>3 DEF TypeOK, Handlers, Reply
  <2>4. ASSUME NEW e, NEW r, Answer(c, e, r)
        PROVE  conn'[c].pc # "body" /\ \A d \in Conns \ {c} : conn'[d] = conn[d]
    BY <2>1, <2>4 DEF TypeOK, Handlers, Answer
  <2>5. CASE Connect(c) \/ StartHandler(c)
    BY <2>2, <2>3, <2>5 DEF Connect, StartHandler
  <2>6. CASE RefuseRequest(c) \/ RejectBody(c) \/ BreakConnection(c) \/ ConnectionTimesOut(c)
    BY <2>3, <2>6 DEF RefuseRequest, RejectBody, BreakConnection, ConnectionTimesOut
  <2>7. ASSUME NEW s \in Subs, RejectHeaders(c, s)
        PROVE  conn'[c].pc # "body" /\ \A d \in Conns \ {c} : conn'[d] = conn[d]
    BY <2>3, <2>7 DEF RejectHeaders
  <2>8. ASSUME NEW e \in Events, RecordDelivery(c, e)
        PROVE  conn'[c].pc # "body" /\ \A d \in Conns \ {c} : conn'[d] = conn[d]
    BY <2>4, <2>8 DEF RecordDelivery
  <2>9. QED
    BY <2>5, <2>6, <2>7, <2>8 DEF Handler
<1>3. CASE \E s \in Subs : AcceptRequest(c, s)
  <2>1. receiver = "running"
    BY <1>3 DEF AcceptRequest, ReceiverInv, NoHandlerOutlivesReceiver, TypeOK
  <2>2. QED
    BY <1>1, <2>1 DEF ReceiverInv, RoutesMatchHandles, NoHandlerOutlivesReceiver
<1>4. CASE conn'[c].pc # "body" /\ \A d \in Conns \ {c} : conn'[d] = conn[d]
  BY <1>1, <1>4 DEF ReceiverInv, RoutesMatchHandles, NoHandlerOutlivesReceiver
<1>5. QED
  BY <1>2, <1>3, <1>4

LEMMA ReceiverInvariant == Spec => []ReceiverInv
<1>1. Init => ReceiverInv
  BY FS_EmptySet, LimitsAssumption
  DEF Init, ReceiverInv, RoutesMatchHandles, NoHandlerOutlivesReceiver
<1>2. TypeOK /\ ReceiverInv /\ [Next]_vars => ReceiverInv'
  <2>1. ASSUME ReceiverInv, StopServing PROVE ReceiverInv'
    <3>0. Cardinality({}) = 0
      BY FS_EmptySet
    <3>1. subscriptions' = {} /\ receiver' = "closing" /\ UNCHANGED handle
      BY <2>1 DEF StopServing, subVars
    <3>2. \A s \in Subs : handle[s] # "open"
      BY <2>1 DEF StopServing
    <3>3. QED
      BY <3>0, <3>1, <3>2, LimitsAssumption
      DEF ReceiverInv, RoutesMatchHandles, NoHandlerOutlivesReceiver
  <2>2. ASSUME TypeOK, ReceiverInv, CancelHandlers PROVE ReceiverInv'
    <3>1. \A c \in Conns : conn'[c].pc # "body"
      <4> SUFFICES ASSUME NEW c \in Conns PROVE conn'[c].pc # "body"
        OBVIOUS
      <4>1. conn[c] \in Handlers
        BY <2>2 DEF TypeOK
      <4>2. QED
        BY <2>2, <4>1 DEF CancelHandlers, Slots, Handlers
    <3>2. QED
      BY <2>2, <3>1
      DEF CancelHandlers, ReceiverInv, RoutesMatchHandles, NoHandlerOutlivesReceiver, subVars
  <2>3. ASSUME ReceiverInv, UNCHANGED vars PROVE ReceiverInv'
    BY <2>3 DEF vars, ReceiverInv, RoutesMatchHandles, NoHandlerOutlivesReceiver
  <2>4. QED
    BY <2>1, <2>2, <2>3, TrialReceiverInv, HandlerReceiverInv DEF Next
<1>3. QED
  BY <1>1, <1>2, TypeCorrect, PTL DEF Spec

\* A route lives exactly as long as the handle of the trial that registered
\* it, and there are never more than MAX_PUSH_SUBSCRIPTIONS of them: register()
\* and close() are the only ways in and out.
THEOREM RoutesFollowHandles == Spec => []RoutesMatchHandles
<1>1. ReceiverInv => RoutesMatchHandles
  BY DEF ReceiverInv
<1>2. QED
  BY <1>1, ReceiverInvariant, PTL

\* A receiver that closes routes nothing, and once close() has returned no
\* handler holds a subscription, whatever the connections were doing.
THEOREM ReceiverCloses == Spec => []NoHandlerOutlivesReceiver
<1>1. ReceiverInv => NoHandlerOutlivesReceiver
  BY DEF ReceiverInv
<1>2. QED
  BY <1>1, ReceiverInvariant, PTL

-----------------------------------------------------------------------------
(* Sequences without repetition.                                            *)

LEMMA AppendSet ==
    ASSUME NEW T, NEW q \in Seq(T), NEW e \in T
    PROVE  /\ ToSet(Append(q, e)) = ToSet(q) \union {e}
           /\ IsInjective(q) /\ e \notin ToSet(q) => IsInjective(Append(q, e))
<1>1. /\ DOMAIN q = 1..Len(q) /\ DOMAIN Append(q, e) = 1..(Len(q) + 1)
      /\ Len(q) \in Nat
      /\ \A i \in 1..Len(q) : Append(q, e)[i] = q[i]
      /\ Append(q, e)[Len(q) + 1] = e
  OBVIOUS
<1>2. 1..(Len(q) + 1) = 1..Len(q) \union {Len(q) + 1}
  BY <1>1
<1>3. QED
  BY <1>1, <1>2 DEF ToSet, IsInjective

\* Entries move from the queue to what was taken without changing the whole.
LEMMA TakeKeeps ==
    ASSUME NEW T, NEW q \in Seq(T), NEW t \in Seq(T), NEW n \in 0..Len(q)
    PROVE  (t \o SubSeq(q, 1, n)) \o SubSeq(q, n + 1, Len(q)) = t \o q
<1> DEFINE front == SubSeq(q, 1, n)
<1> DEFINE back == SubSeq(q, n + 1, Len(q))
<1>1. front \in Seq(T) /\ back \in Seq(T)
  OBVIOUS
<1>2. front \o back = q
  <2>1. /\ Len(q) \in Nat /\ 1 \in 1..(Len(q) + 1) /\ n \in (1 - 1)..Len(q)
        /\ Len(q) \in n..Len(q)
    OBVIOUS
  <2>2. front \o back = SubSeq(q, 1, Len(q))
    BY <2>1, ConcatAdjacentSubSeq, Zenon
  <2>3. QED
    BY <2>2, SubSeqFull, Zenon
<1> HIDE DEF front, back
<1>3. (t \o front) \o back = t \o (front \o back)
  BY <1>1, SMTT(30)
<1>4. QED
  BY <1>2, <1>3 DEF front, back

LEMMA AppendKeeps ==
    ASSUME NEW T, NEW q \in Seq(T), NEW t \in Seq(T), NEW e \in T
    PROVE  t \o Append(q, e) = Append(t \o q, e)
OBVIOUS

\* A sequence without repetition is no longer than the set it draws from.
LEMMA InjectiveLength ==
    ASSUME NEW T, NEW q \in Seq(T), IsInjective(q), NEW S, IsFiniteSet(S),
           ToSet(q) \subseteq S
    PROVE  Len(q) <= Cardinality(S)
<1>1. q \in Injection(1..Len(q), S)
  <2>1. DOMAIN q = 1..Len(q) /\ Len(q) \in Nat /\ q = [i \in 1..Len(q) |-> q[i]]
    OBVIOUS
  <2>2. \A i \in 1..Len(q) : q[i] \in S
    BY <2>1 DEF ToSet
  <2>3. QED
    BY <2>1, <2>2 DEF Injection, IsInjective
<1>2. Cardinality(1..Len(q)) <= Cardinality(S)
  BY <1>1, FS_Injection
<1>3. Cardinality(1..Len(q)) = Len(q)
  <2>1. Len(q) \in Nat
    OBVIOUS
  <2>2. Cardinality(1..Len(q)) = IF 1 > Len(q) THEN 0 ELSE Len(q) - 1 + 1
    BY <2>1, FS_Interval
  <2>3. QED
    BY <2>1, <2>2
<1>4. QED
  BY <1>2, <1>3

-----------------------------------------------------------------------------
(* No delivery is lost or repeated.                                         *)

\* ExactlyOnce is not inductive: the deliveries of a subscription and its
\* sentinel never repeat, and a handler that has answered is over.
DeliveryInv ==
    /\ \A s \in Subs : IsInjective(Kept(s))
    /\ \A c \in Conns : conn[c].reply # "none" => conn[c].pc = "done"
    /\ ExactlyOnce

\* No step of the trial changes what a queue ever held.
LEMMA TrialKeeps ==
    ASSUME TypeOK, NEW s \in Subs, Trial(s)
    PROVE  /\ \A x \in Subs : Kept(x)' = Kept(x)
           /\ UNCHANGED <<fingerprints, rejected, conn>>
<1>0. queue[s] \in Seq(Entries) /\ taken[s] \in Seq(Entries)
  BY DEF TypeOK
<1>1. ASSUME NEW n \in 0..Len(queue[s]), Take(s, n)
      PROVE  \A x \in Subs : Kept(x)' = Kept(x)
  <2>1. /\ taken'[s] = taken[s] \o SubSeq(queue[s], 1, n)
        /\ queue'[s] = SubSeq(queue[s], n + 1, Len(queue[s]))
        /\ \A x \in Subs \ {s} : taken'[x] = taken[x] /\ queue'[x] = queue[x]
    BY <1>1 DEF Take, TypeOK
  <2>2. Kept(s)' = Kept(s)
    BY <1>0, <2>1, TakeKeeps DEF Kept
  <2>3. \A x \in Subs \ {s} : Kept(x)' = Kept(x)
    BY <2>1 DEF Kept
  <2>4. QED
    BY <2>2, <2>3, Zenon
<1>2. CASE StartWait(s) \/ ResumeWait(s)
  <2>1. CASE UNCHANGED <<queue, taken>>
    BY <1>2, <2>1 DEF Kept, StartWait, ResumeWait
  <2>2. CASE \E n \in 0..Len(queue[s]) : Take(s, n)
    BY <1>1, <1>2, <2>2 DEF StartWait, ResumeWait
  <2>3. Drain(s) => \E n \in 0..Len(queue[s]) : Take(s, n)
    BY <1>0 DEF Drain
  <2>4. ResumeWait(s) => 1 \in 0..Len(queue[s])
    BY <1>0 DEF ResumeWait
  <2>5. QED
    BY <1>2, <2>1, <2>2, <2>3, <2>4 DEF StartWait, ResumeWait
<1>3. CASE ~(StartWait(s) \/ ResumeWait(s))
  BY <1>3 DEF Trial, Register, Bind, WaitTimesOut, CloseSubscription, Kept, boxVars
<1>4. QED
  BY <1>2, <1>3

\* A rejection appends at most the sentinel, and only the first one does.
LEMMA RejectKeeps ==
    ASSUME TypeOK, NEW s \in Subs, Reject(s), UNCHANGED taken
    PROVE  /\ \A x \in Subs \ {s} : Kept(x)' = Kept(x) /\ rejected'[x] = rejected[x]
           /\ rejected'[s]
           /\ \/ Kept(s)' = Kept(s)
              \/ ~rejected[s] /\ Kept(s)' = Append(Kept(s), None)
<1>0. queue[s] \in Seq(Entries) /\ taken[s] \in Seq(Entries) /\ None \in Entries
  BY DEF TypeOK, Entries
<1>1. /\ \A x \in Subs \ {s} : queue'[x] = queue[x] /\ rejected'[x] = rejected[x]
      /\ rejected'[s]
      /\ \/ queue'[s] = queue[s]
         \/ ~rejected[s] /\ queue'[s] = Append(queue[s], None)
  BY DEF Reject, TypeOK
<1>2. taken[s] \o Append(queue[s], None) = Append(taken[s] \o queue[s], None)
  BY <1>0, AppendKeeps
<1>3. QED
  BY <1>1, <1>2 DEF Kept

\* What a handler that answers leaves of the handlers.
LEMMA ReplyAnswers ==
    ASSUME TypeOK, NEW c \in Conns, NEW r, Reply(c, r)
    PROVE  /\ conn'[c].pc = "done" /\ conn'[c].reply = r
           /\ conn'[c].sub = conn[c].sub /\ conn'[c].event = conn[c].event
           /\ \A d \in Conns \ {c} : conn'[d] = conn[d]
BY DEF TypeOK, Reply, Handlers

\* While nothing is rejected, what a queue held are the recorded deliveries.
LEMMA KeptAreEvents ==
    ASSUME TypeOK, DeliveryInv, NEW s \in Subs
    PROVE  /\ Kept(s) \in Seq(Entries)
           /\ fingerprints[s] \subseteq Events /\ None \notin Events
           /\ ~rejected[s] => None \notin ToSet(Kept(s))
<1>1. queue[s] \in Seq(Entries) /\ taken[s] \in Seq(Entries)
  BY DEF TypeOK
<1>2. fingerprints[s] \subseteq Events /\ None \notin Events
  BY EventsAssumption DEF TypeOK
<1>3. Kept(s) \in Seq(Entries)
  BY <1>1 DEF Kept
<1>4. QED
  BY <1>2, <1>3 DEF DeliveryInv, ExactlyOnce

\* What the handlers must show of a step.
HandlersShow ==
    \A d \in Conns :
        /\ conn'[d].reply # "none" => conn'[d].pc = "done"
        /\ conn'[d].reply = "kept" => conn'[d] = conn[d]

LEMMA QuietDeliveryInv ==
    ASSUME TypeOK, DeliveryInv, HandlersShow, UNCHANGED <<fingerprints, rejected>>,
           \A x \in Subs : Kept(x)' = Kept(x)
    PROVE  DeliveryInv'
BY DEF DeliveryInv, ExactlyOnce, HandlersShow

LEMMA RejectDeliveryInv ==
    ASSUME TypeOK, DeliveryInv, NEW s \in Subs, Reject(s), HandlersShow,
           UNCHANGED <<taken, fingerprints>>
    PROVE  DeliveryInv'
<1>1. /\ \A x \in Subs \ {s} : Kept(x)' = Kept(x) /\ rejected'[x] = rejected[x]
      /\ rejected'[s]
  BY RejectKeeps
<1>2. /\ IsInjective(Kept(s))'
      /\ ToSet(Kept(s))' \ {None} \subseteq fingerprints[s]
  <2>1. CASE Kept(s)' = Kept(s)
    BY <2>1 DEF DeliveryInv, ExactlyOnce
  <2>2. CASE ~rejected[s] /\ Kept(s)' = Append(Kept(s), None)
    <3>1. Kept(s) \in Seq(Entries) /\ None \notin ToSet(Kept(s)) /\ None \in Entries
      BY <2>2, KeptAreEvents DEF Entries
    <3>2. /\ ToSet(Append(Kept(s), None)) = ToSet(Kept(s)) \union {None}
          /\ IsInjective(Append(Kept(s), None))
      BY <3>1, AppendSet DEF DeliveryInv
    <3>3. QED
      BY <2>2, <3>2 DEF DeliveryInv, ExactlyOnce
  <2>3. QED
    BY <2>1, <2>2, RejectKeeps
<1>3. ASSUME NEW x \in Subs
      PROVE  /\ IsInjective(Kept(x))'
             /\ ToSet(Kept(x))' \ {None} \subseteq fingerprints'[x]
             /\ ~rejected'[x] =>
                   /\ fingerprints'[x] = ToSet(Kept(x))'
                   /\ \A c \in Conns : (conn'[c].reply = "kept" /\ conn'[c].sub = x)
                         => conn'[c].event \in ToSet(Kept(x))'
  <2>1. CASE x = s
    BY <1>1, <1>2, <2>1
  <2>2. CASE x # s
    BY <1>1, <2>2 DEF DeliveryInv, ExactlyOnce, HandlersShow
  <2>3. QED
    BY <2>1, <2>2
<1>4. QED
  BY <1>3 DEF DeliveryInv, ExactlyOnce, HandlersShow, IsInjective

\* As long as nothing was rejected, the queue has room for a new delivery.
LEMMA RoomForNew ==
    ASSUME TypeOK, DeliveryInv, NEW s \in Subs, ~rejected[s],
           Cardinality(fingerprints[s]) < MaxEvents
    PROVE  Len(queue[s]) < MaxEvents
<1>1. queue[s] \in Seq(Entries) /\ taken[s] \in Seq(Entries) /\ Kept(s) \in Seq(Entries)
  BY KeptAreEvents DEF TypeOK
<1>2. Len(queue[s]) <= Len(Kept(s)) /\ Len(queue[s]) \in Nat /\ Len(Kept(s)) \in Nat
  <2>1. Len(Kept(s)) = Len(taken[s]) + Len(queue[s])
    BY <1>1 DEF Kept
  <2>2. Len(taken[s]) \in Nat /\ Len(queue[s]) \in Nat
    BY <1>1
  <2>3. \A k, m, n : m \in Nat /\ n \in Nat /\ k = m + n => n <= k /\ n \in Nat /\ k \in Nat
    OBVIOUS
  <2>4. QED
    BY <2>1, <2>2, <2>3, Zenon
<1>3. IsFiniteSet(fingerprints[s])
  BY KeptAreEvents, FiniteAssumption, FS_Subset
<1>4. Len(Kept(s)) <= Cardinality(fingerprints[s])
  BY <1>1, <1>3, InjectiveLength DEF DeliveryInv, ExactlyOnce
<1>5. Cardinality(fingerprints[s]) \in Nat /\ MaxEvents \in Nat
  BY <1>3, FS_CardinalityType, LimitsAssumption
<1>6. QED
  BY <1>2, <1>4, <1>5

\* What RecordDelivery queues is new, and recorded.
Queues(s, e) ==
    /\ e \notin fingerprints[s]
    /\ Len(queue[s]) < MaxEvents
    /\ fingerprints' = [fingerprints EXCEPT ![s] = @ \union {e}]
    /\ queue' = [queue EXCEPT ![s] = Append(@, e)]
    /\ UNCHANGED <<taken, rejected>>

LEMMA QueuesKeeps ==
    ASSUME TypeOK, DeliveryInv, NEW s \in Subs, NEW e \in Events, Queues(s, e)
    PROVE  /\ \A x \in Subs \ {s} : Kept(x)' = Kept(x) /\ fingerprints'[x] = fingerprints[x]
           /\ fingerprints'[s] = fingerprints[s] \union {e}
           /\ Kept(s)' = Append(Kept(s), e)
           /\ IsInjective(Kept(s))'
           /\ ToSet(Kept(s))' = ToSet(Kept(s)) \union {e}
           /\ e \notin ToSet(Kept(s)) /\ e # None
<1>0. /\ queue[s] \in Seq(Entries) /\ taken[s] \in Seq(Entries)
      /\ Kept(s) \in Seq(Entries) /\ e \in Entries /\ e # None
  BY KeptAreEvents DEF TypeOK, Entries
<1>1. /\ \A x \in Subs \ {s} : queue'[x] = queue[x] /\ fingerprints'[x] = fingerprints[x]
      /\ queue'[s] = Append(queue[s], e)
      /\ fingerprints'[s] = fingerprints[s] \union {e}
  BY DEF Queues, TypeOK
<1>2. taken[s] \o Append(queue[s], e) = Append(taken[s] \o queue[s], e)
  BY <1>0, AppendKeeps
<1>3. e \notin ToSet(Kept(s))
  BY <1>0 DEF Queues, DeliveryInv, ExactlyOnce
<1>4. Kept(s)' = Append(Kept(s), e)
  BY <1>1, <1>2 DEF Kept, Queues
<1>5. /\ ToSet(Append(Kept(s), e)) = ToSet(Kept(s)) \union {e}
      /\ IsInjective(Append(Kept(s), e))
  BY <1>0, <1>3, AppendSet DEF DeliveryInv
<1>6. QED
  BY <1>0, <1>1, <1>3, <1>4, <1>5 DEF Kept, Queues

LEMMA RecordDeliveryInv ==
    ASSUME TypeOK, DeliveryInv, NEW c \in Conns, NEW e \in Events, RecordDelivery(c, e)
    PROVE  DeliveryInv'
<1>0. conn[c].sub \in Subs
  BY DEF TypeOK, RecordDelivery
<1> PICK s \in Subs : s = conn[c].sub
  BY <1>0
<1>1. ASSUME NEW r, Answer(c, e, r)
      PROVE  /\ conn'[c].pc = "done" /\ conn'[c].reply = r
             /\ conn'[c].sub = s /\ conn'[c].event = e
             /\ \A d \in Conns \ {c} : conn'[d] = conn[d]
  BY <1>1 DEF TypeOK, Answer, Handlers
<1>2. UNCHANGED taken
  BY DEF RecordDelivery, subVars
<1>3. CASE Reject(s) /\ Answer(c, e, "rejected") /\ UNCHANGED fingerprints
  <2>1. HandlersShow
    BY <1>1, <1>3 DEF HandlersShow, DeliveryInv
  <2>2. QED
    BY <1>2, <1>3, <2>1, RejectDeliveryInv
<1>4. CASE /\ e \in fingerprints[s]
           /\ Answer(c, e, "kept")
           /\ UNCHANGED <<queue, rejected, fingerprints>>
  <2>1. \A x \in Subs : Kept(x)' = Kept(x)
    BY <1>2, <1>4 DEF Kept
  <2>2. QED
    BY <1>1, <1>4, <2>1 DEF DeliveryInv, ExactlyOnce
<1>5. CASE Queues(s, e) /\ Answer(c, e, "kept")
  <2>1. ASSUME NEW x \in Subs
        PROVE  /\ IsInjective(Kept(x))'
               /\ ToSet(Kept(x))' \ {None} \subseteq fingerprints'[x]
               /\ ~rejected'[x] =>
                     /\ fingerprints'[x] = ToSet(Kept(x))'
                     /\ \A d \in Conns : (conn'[d].reply = "kept" /\ conn'[d].sub = x)
                           => conn'[d].event \in ToSet(Kept(x))'
    <3>0. /\ \A d \in Conns \ {c} : conn'[d] = conn[d]
          /\ conn'[c].sub = s /\ conn'[c].event = e
          /\ UNCHANGED rejected
      BY <1>1, <1>5 DEF Queues
    <3>1. CASE x = s
      <4>1. /\ fingerprints'[s] = fingerprints[s] \union {e}
            /\ IsInjective(Kept(s))'
            /\ ToSet(Kept(s))' = ToSet(Kept(s)) \union {e}
        BY <1>5, QueuesKeeps
      <4>2. QED
        BY <3>0, <3>1, <4>1 DEF DeliveryInv, ExactlyOnce
    <3>2. CASE x # s
      <4>1. Kept(x)' = Kept(x) /\ fingerprints'[x] = fingerprints[x]
        BY <1>5, <3>2, QueuesKeeps
      <4>2. QED
        BY <3>0, <3>2, <4>1 DEF DeliveryInv, ExactlyOnce
    <3>3. QED
      BY <3>1, <3>2
  <2>2. QED
    BY <1>1, <1>5, <2>1 DEF DeliveryInv, ExactlyOnce, IsInjective
<1>6. CASE /\ e \notin fingerprints[s]
           /\ Cardinality(fingerprints[s]) < MaxEvents
           /\ fingerprints' = [fingerprints EXCEPT ![s] = @ \union {e}]
           /\ Len(queue[s]) >= MaxEvents
           /\ Answer(c, e, "none")
           /\ UNCHANGED <<queue, rejected>>
  <2>1. rejected[s]
    <3>1. Len(queue[s]) \in Nat /\ MaxEvents \in Nat
      BY LimitsAssumption DEF TypeOK
    <3>2. QED
      BY <1>6, <3>1, RoomForNew
  <2>2. \A x \in Subs : Kept(x)' = Kept(x)
    BY <1>2, <1>6 DEF Kept
  <2>3. \A x \in Subs : /\ fingerprints[x] \subseteq fingerprints'[x]
                        /\ x # s => fingerprints'[x] = fingerprints[x]
    BY <1>6 DEF TypeOK
  <2>4. QED
    BY <1>1, <1>6, <2>1, <2>2, <2>3 DEF DeliveryInv, ExactlyOnce
<1>7. QED
  BY <1>2, <1>3, <1>4, <1>5, <1>6 DEF RecordDelivery, Queues

LEMMA HandlerDeliveryInv ==
    ASSUME TypeOK, DeliveryInv, NEW c \in Conns, Handler(c)
    PROVE  DeliveryInv'
<1>1. ASSUME UNCHANGED <<subVars, boxVars>>, HandlersShow PROVE DeliveryInv'
  BY <1>1, QuietDeliveryInv DEF subVars, boxVars, Kept
<1>2. ASSUME NEW r, r # "kept", Reply(c, r) PROVE HandlersShow
  BY <1>2, ReplyAnswers DEF HandlersShow, DeliveryInv
<1>3. ASSUME NEW p, conn[c].pc # "done", conn' = [conn EXCEPT ![c].pc = p] PROVE HandlersShow
  BY <1>3 DEF HandlersShow, DeliveryInv, TypeOK, Handlers
<1>4. CASE Connect(c)
  BY <1>1, <1>3, <1>4 DEF Connect
<1>5. CASE StartHandler(c)
  BY <1>1, <1>2, <1>3, <1>5 DEF StartHandler
<1>6. CASE RefuseRequest(c) \/ BreakConnection(c) \/ ConnectionTimesOut(c)
  BY <1>1, <1>2, <1>6 DEF RefuseRequest, BreakConnection, ConnectionTimesOut
<1>7. ASSUME NEW s \in Subs, RejectHeaders(c, s) PROVE DeliveryInv'
  BY <1>2, <1>7, RejectDeliveryInv DEF RejectHeaders, subVars
<1>8. ASSUME NEW s \in Subs, AcceptRequest(c, s) PROVE DeliveryInv'
  <2>1. HandlersShow
    BY <1>8 DEF AcceptRequest, HandlersShow, DeliveryInv, TypeOK, Handlers
  <2>2. QED
    BY <1>1, <1>8, <2>1 DEF AcceptRequest
<1>9. CASE RejectBody(c)
  <2>1. conn[c].sub \in Subs /\ Reject(conn[c].sub) /\ UNCHANGED <<taken, fingerprints>>
    BY <1>9 DEF RejectBody, TypeOK, subVars
  <2>2. HandlersShow
    BY <1>2, <1>9 DEF RejectBody
  <2>3. QED
    BY <2>1, <2>2, RejectDeliveryInv
<1>10. QED
  BY <1>4, <1>5, <1>6, <1>7, <1>8, <1>9, RecordDeliveryInv DEF Handler

LEMMA InitDeliveryInv == Init => DeliveryInv
<1> SUFFICES ASSUME Init PROVE DeliveryInv
  OBVIOUS
<1>1. \A s \in Subs : Kept(s) = <<>>
  BY DEF Init, Kept
<1>2. ToSet(<<>>) = {} /\ DOMAIN <<>> = {}
  BY DEF ToSet
<1>3. QED
  BY <1>1, <1>2 DEF Init, DeliveryInv, ExactlyOnce, IsInjective

LEMMA DeliveryInvariant == Spec => []DeliveryInv
<1>1. TypeOK /\ DeliveryInv /\ [Next]_vars => DeliveryInv'
  <2>1. ASSUME TypeOK, DeliveryInv, NEW s \in Subs, Trial(s) PROVE DeliveryInv'
    BY <2>1, TrialKeeps, QuietDeliveryInv DEF HandlersShow, DeliveryInv
  <2>2. ASSUME TypeOK, DeliveryInv, StopServing \/ CancelHandlers \/ UNCHANGED vars
        PROVE  DeliveryInv'
    <3>1. UNCHANGED <<subVars, boxVars>>
      BY <2>2 DEF StopServing, CancelHandlers, vars, subVars, boxVars
    <3>2. ASSUME NEW d \in Conns
          PROVE  /\ conn'[d].reply = conn[d].reply
                 /\ conn'[d] # conn[d] => conn[d].pc # "done"
                 /\ conn[d].pc = "done" => conn'[d].pc = "done"
      BY <2>2 DEF StopServing, CancelHandlers, vars, TypeOK, Handlers, Slots
    <3>3. HandlersShow
      BY <2>2, <3>2 DEF HandlersShow, DeliveryInv
    <3>4. QED
      BY <2>2, <3>1, <3>3, QuietDeliveryInv DEF subVars, boxVars, Kept
  <2>3. QED
    BY <2>1, <2>2, HandlerDeliveryInv DEF Next
<1>2. QED
  BY <1>1, InitDeliveryInv, TypeCorrect, PTL DEF Spec

\* The event loop neither loses nor repeats a delivery, and an acknowledged
\* one was taken or waits in the queue, for any number of connections and any
\* limits: put_nowait can only fail on a queue whose subscription is doomed.
THEOREM DeliveriesExactlyOnce == Spec => []ExactlyOnce
<1>1. DeliveryInv => ExactlyOnce
  BY DEF DeliveryInv
<1>2. QED
  BY <1>1, DeliveryInvariant, PTL

-----------------------------------------------------------------------------
(* A successful wait.                                                       *)

\* What the deliveries that a wait has read say of it.
ReadProgressOnly(s) == \A k \in DOMAIN taken[s] : ~Decisive(s, taken[s][k])

ReadFirstTerminal(s) ==
    /\ taken[s] # <<>>
    /\ \A k \in DOMAIN taken[s] :
          /\ taken[s][k] # None
          /\ taken[s][k].outer = bound[s]
          /\ taken[s][k].kind = IF k = Len(taken[s]) THEN "terminal" ELSE "progress"

\* OutcomeIsFirstTerminal is not inductive: a wait that goes on has read
\* nothing but progress, and the identity it compares with is bound for good.
WaitInv ==
    \A s \in Subs :
        /\ bound[s] = None => wait[s] = "idle"
        /\ wait[s] = "idle" => taken[s] = <<>>
        /\ wait[s] = "blocked" => ReadProgressOnly(s)
        /\ wait[s] = "ok" => ReadFirstTerminal(s)

\* u is t followed by the first n entries of q.
Extends(u, t, q, n) ==
    \E m \in Nat :
        /\ DOMAIN t = 1..m
        /\ Len(u) = m + n /\ DOMAIN u = 1..(m + n)
        /\ \A k \in 1..m : u[k] = t[k]
        /\ \A k \in 1..n : u[m + k] = q[k]

LEMMA TakeExtends ==
    ASSUME NEW T, NEW q \in Seq(T), NEW t \in Seq(T), NEW n \in 0..Len(q)
    PROVE  Extends(t \o SubSeq(q, 1, n), t, q, n)
<1> DEFINE u == t \o SubSeq(q, 1, n)
<1> DEFINE front == SubSeq(q, 1, n)
<1>1. front \in Seq(T) /\ Len(front) = n /\ \A i \in 1..n : front[i] = q[i]
  OBVIOUS
<1>2. Len(t) \in Nat /\ DOMAIN t = 1..Len(t)
  OBVIOUS
<1>3. u = t \o front
  OBVIOUS
<1> HIDE DEF front, u
<1>4. /\ u \in Seq(T)
      /\ Len(u) = Len(t) + n
      /\ \A k \in 1..(Len(t) + n) : u[k] =
            IF k <= Len(t) THEN t[k] ELSE front[k - Len(t)]
  BY <1>1, <1>3, ConcatProperties
<1>5. DOMAIN u = 1..(Len(t) + n)
  BY <1>4
<1>6. n \in Nat
  OBVIOUS
<1>7. \A k \in 1..Len(t) : u[k] = t[k]
  BY <1>2, <1>4, <1>6
<1>8. \A k \in 1..n : u[Len(t) + k] = front[k]
  BY <1>2, <1>4, <1>6
<1>9. Extends(u, t, q, n)
  BY <1>1, <1>2, <1>4, <1>5, <1>7, <1>8, ZenonT(30) DEF Extends
<1>10. QED
  BY <1>9 DEF u

LEMMA DrainReads ==
    ASSUME TypeOK, NEW s \in Subs, Drain(s), ReadProgressOnly(s), UNCHANGED bound
    PROVE  /\ wait'[s] = "blocked" => ReadProgressOnly(s)'
           /\ wait'[s] = "ok" => ReadFirstTerminal(s)'
           /\ wait'[s] # "idle"
<1>0. /\ queue[s] \in Seq(Entries) /\ taken[s] \in Seq(Entries)
      /\ Len(queue[s]) \in Nat /\ DOMAIN queue[s] = 1..Len(queue[s])
  BY DEF TypeOK
<1>1. ASSUME NEW n \in 0..Len(queue[s]), Take(s, n)
      PROVE  Extends(taken'[s], taken[s], queue[s], n)
  <2>1. taken'[s] = taken[s] \o SubSeq(queue[s], 1, n)
    BY <1>1 DEF Take, TypeOK
  <2>2. QED
    BY <1>0, <2>1, TakeExtends
<1>2. \A v : Conclude(s, v) => wait'[s] = v
  BY DEF Conclude, TypeOK
<1>3. CASE /\ \A k \in DOMAIN queue[s] : ~Decisive(s, queue[s][k])
           /\ Take(s, Len(queue[s]))
           /\ Conclude(s, "blocked")
  <2>1. Len(queue[s]) \in 0..Len(queue[s])
    BY <1>0
  <2> PICK m \in Nat :
          /\ DOMAIN taken[s] = 1..m
          /\ DOMAIN (taken'[s]) = 1..(m + Len(queue[s]))
          /\ \A k \in 1..m : taken'[s][k] = taken[s][k]
          /\ \A k \in 1..Len(queue[s]) : taken'[s][m + k] = queue[s][k]
    BY <1>1, <1>3, <2>1 DEF Extends
  <2>2. ASSUME NEW k \in 1..(m + Len(queue[s])) PROVE ~Decisive(s, taken'[s][k])
    <3>1. CASE k \in 1..m
      BY <3>1 DEF ReadProgressOnly
    <3>2. CASE k \notin 1..m
      <4>1. k - m \in 1..Len(queue[s]) /\ m + (k - m) = k
        BY <1>0, <3>2
      <4>2. QED
        BY <1>0, <1>3, <4>1
    <3>3. QED
      BY <3>1, <3>2
  <2>3. ReadProgressOnly(s)'
    BY <2>2 DEF ReadProgressOnly, Decisive
  <2>4. QED
    BY <1>2, <1>3, <2>3
<1>4. ASSUME NEW n \in DOMAIN queue[s],
             Decisive(s, queue[s][n]),
             \A k \in 1..(n - 1) : ~Decisive(s, queue[s][k]),
             Take(s, n),
             Conclude(s, Verdict(s, queue[s][n]))
      PROVE  /\ wait'[s] \in {"ok", "error"}
             /\ wait'[s] = "ok" => ReadFirstTerminal(s)'
  <2>1. wait'[s] = Verdict(s, queue[s][n])
    BY <1>2, <1>4
  <2>2. n \in 0..Len(queue[s]) /\ n \in 1..Len(queue[s])
    BY <1>0
  <2>3. PICK m \in Nat :
          /\ DOMAIN taken[s] = 1..m /\ Len(taken'[s]) = m + n
          /\ DOMAIN (taken'[s]) = 1..(m + n)
          /\ \A k \in 1..m : taken'[s][k] = taken[s][k]
          /\ \A k \in 1..n : taken'[s][m + k] = queue[s][k]
    BY <1>1, <1>4, <2>2 DEF Extends
  <2>4. ASSUME wait'[s] = "ok" PROVE ReadFirstTerminal(s)'
    <3>1. /\ queue[s][n] # None /\ queue[s][n].outer = bound[s]
          /\ queue[s][n].kind = "terminal"
      BY <2>1, <2>4 DEF Verdict
    <3>2. taken'[s] # <<>>
      BY <2>2, <2>3
    <3>3. ASSUME NEW k \in 1..(m + n), k # m + n
          PROVE  /\ taken'[s][k] # None /\ taken'[s][k].outer = bound[s]
                 /\ taken'[s][k].kind = "progress"
      <4>1. CASE k <= m
        <5>1. k \in 1..m
          BY <2>3, <4>1
        <5>2. QED
          BY <2>3, <5>1 DEF ReadProgressOnly, Decisive
      <4>2. CASE k > m
        <5>1. k - m \in 1..(n - 1) /\ k - m \in 1..n /\ m + (k - m) = k
          BY <2>2, <3>3, <4>2
        <5>2. taken'[s][k] = queue[s][k - m] /\ ~Decisive(s, queue[s][k - m])
          BY <1>4, <2>3, <5>1
        <5>3. QED
          BY <5>2 DEF Decisive
      <4>3. QED
        BY <2>2, <2>3, <4>1, <4>2
    <3>4. taken'[s][m + n] = queue[s][n] /\ m + n \in 1..(m + n)
      <4>1. m + n \in 1..(m + n) /\ n \in 1..n
        BY <2>2
      <4>2. QED
        BY <2>3, <4>1
    <3>5. QED
      BY <2>3, <3>1, <3>2, <3>3, <3>4 DEF ReadFirstTerminal
  <2>5. QED
    BY <2>1, <2>4 DEF Verdict
<1>5. QED
  BY <1>2, <1>3, <1>4 DEF Drain

LEMMA QuietWaitInv == WaitInv /\ UNCHANGED <<bound, wait, taken>> => WaitInv'
BY DEF WaitInv, ReadProgressOnly, ReadFirstTerminal, Decisive

\* The waits of other trials do not see what this trial does.
LEMMA LocalWaitInv ==
    ASSUME TypeOK, WaitInv, NEW s \in Subs, UNCHANGED bound,
           \A x \in Subs \ {s} : wait'[x] = wait[x] /\ taken'[x] = taken[x],
           bound[s] # None, wait'[s] # "idle",
           wait'[s] = "blocked" => ReadProgressOnly(s)',
           wait'[s] = "ok" => ReadFirstTerminal(s)'
    PROVE  WaitInv'
<1> SUFFICES ASSUME NEW x \in Subs
             PROVE  /\ bound'[x] = None => wait'[x] = "idle"
                    /\ wait'[x] = "idle" => taken'[x] = <<>>
                    /\ wait'[x] = "blocked" => ReadProgressOnly(x)'
                    /\ wait'[x] = "ok" => ReadFirstTerminal(x)'
  BY DEF WaitInv
<1>1. CASE x = s
  BY <1>1
<1>2. CASE x # s
  BY <1>2 DEF WaitInv, ReadProgressOnly, ReadFirstTerminal, Decisive
<1>3. QED
  BY <1>1, <1>2

LEMMA WaitStepInv ==
    ASSUME TypeOK, WaitInv, NEW s \in Subs, StartWait(s) \/ ResumeWait(s)
    PROVE  WaitInv'
<1>0. /\ UNCHANGED bound /\ bound[s] # None
      /\ ReadProgressOnly(s)
      /\ \A v : Conclude(s, v) => /\ wait'[s] = v
                                  /\ \A x \in Subs \ {s} : wait'[x] = wait[x]
      /\ \A n : Take(s, n) => \A x \in Subs \ {s} : taken'[x] = taken[x]
  <2>1. UNCHANGED bound
    BY DEF StartWait, ResumeWait
  <2>2. wait[s] \in {"idle", "blocked"}
    BY DEF StartWait, ResumeWait
  <2>3. ReadProgressOnly(s)
    BY <2>2 DEF WaitInv, ReadProgressOnly
  <2>4. bound[s] # None
    BY DEF StartWait, ResumeWait, WaitInv
  <2>5. QED
    BY <2>1, <2>3, <2>4 DEF Conclude, Take, TypeOK
<1>1. CASE Conclude(s, "error") /\ UNCHANGED taken
  BY <1>0, <1>1, LocalWaitInv
<1>2. CASE Conclude(s, "error") /\ Take(s, 1)
  BY <1>0, <1>2, LocalWaitInv
<1>3. CASE Drain(s)
  <2>1. \A x \in Subs \ {s} : wait'[x] = wait[x] /\ taken'[x] = taken[x]
    BY <1>0, <1>3 DEF Drain
  <2>2. QED
    BY <1>0, <1>3, <2>1, DrainReads, LocalWaitInv
<1>4. QED
  BY <1>1, <1>2, <1>3 DEF StartWait, ResumeWait

LEMMA TrialWaitInv ==
    ASSUME TypeOK, WaitInv, NEW s \in Subs, Trial(s)
    PROVE  WaitInv'
<1>1. CASE Register(s) \/ CloseSubscription(s)
  BY <1>1, QuietWaitInv DEF Register, CloseSubscription
<1>2. ASSUME NEW i \in Identities, Bind(s, i) PROVE WaitInv'
  <2>1. i # None /\ wait[s] = "idle" /\ taken[s] = <<>>
    BY <1>2, EventsAssumption DEF Bind, WaitInv
  <2>2. /\ \A x \in Subs \ {s} : bound'[x] = bound[x]
        /\ bound'[s] = i
        /\ UNCHANGED <<wait, taken>>
    BY <1>2 DEF Bind, TypeOK
  <2>3. QED
    BY <2>1, <2>2 DEF WaitInv, ReadProgressOnly, ReadFirstTerminal, Decisive
<1>3. CASE WaitTimesOut(s)
  <2>1. /\ wait'[s] = "error" /\ bound[s] # None
        /\ \A x \in Subs \ {s} : wait'[x] = wait[x]
        /\ UNCHANGED <<bound, taken>>
    BY <1>3 DEF WaitTimesOut, Conclude, TypeOK, WaitInv
  <2>2. QED
    BY <2>1, LocalWaitInv
<1>4. QED
  BY <1>1, <1>2, <1>3, WaitStepInv DEF Trial

LEMMA WaitInvariant == Spec => []WaitInv
<1>1. Init => WaitInv
  BY DEF Init, WaitInv
<1>2. TypeOK /\ WaitInv /\ [Next]_vars => WaitInv'
  <2>1. ASSUME NEW c \in Conns, Handler(c) PROVE UNCHANGED subVars
    BY <2>1 DEF Handler, Connect, StartHandler, RefuseRequest, RejectHeaders,
                AcceptRequest, RejectBody, RecordDelivery, BreakConnection,
                ConnectionTimesOut
  <2>2. ASSUME StopServing \/ CancelHandlers \/ UNCHANGED vars PROVE UNCHANGED subVars
    BY <2>2 DEF StopServing, CancelHandlers, vars, subVars
  <2>3. UNCHANGED subVars => UNCHANGED <<bound, wait, taken>>
    BY DEF subVars
  <2>4. QED
    BY <2>1, <2>2, <2>3, TrialWaitInv, QuietWaitInv DEF Next
<1>3. QED
  BY <1>1, <1>2, TypeCorrect, PTL DEF Spec

\* A wait succeeds with nothing but deliveries of the identity it was bound
\* to before it began, and the first terminal one ended it, whatever arrives
\* in whatever order and however often wait() was woken.
THEOREM OutcomesAreFirstTerminal == Spec => []OutcomeIsFirstTerminal
<1>1. WaitInv => OutcomeIsFirstTerminal
  BY DEF WaitInv, OutcomeIsFirstTerminal, ReadFirstTerminal
<1>2. QED
  BY <1>1, WaitInvariant, PTL

-----------------------------------------------------------------------------
(* The inbox: what is left of a queue without its sentinel.                 *)

LEMMA RemoveAbsent ==
    ASSUME NEW T, NEW q \in Seq(T), NEW e, e \notin ToSet(q)
    PROVE  RemoveFirst(q, e) = q
<1>1. DOMAIN q = 1..Len(q)
  OBVIOUS
<1>2. QED
  BY <1>1 DEF RemoveFirst, ToSet

LEMMA RemovePresent ==
    ASSUME NEW T, NEW q \in Seq(T), IsInjective(q), NEW i \in 1..Len(q)
    PROVE  RemoveFirst(q, q[i]) = SubSeq(q, 1, i - 1) \o SubSeq(q, i + 1, Len(q))
<1>1. DOMAIN q = 1..Len(q) /\ Len(q) \in Nat /\ i \in Int
  OBVIOUS
<1>2. {k \in 1..Len(q) : q[k] = q[i]} = {i}
  BY <1>1 DEF IsInjective
<1>3. Min({i}) = i
  BY <1>1 DEF Min
<1>4. SelectInSeq(q, LAMBDA v : v = q[i]) = i
  BY <1>2, <1>3 DEF SelectInSeq
<1>5. QED
  BY <1>4 DEF RemoveFirst, RemoveAt

LEMMA RemovedSet ==
    ASSUME NEW T, NEW q \in Seq(T), IsInjective(q), NEW e
    PROVE  ToSet(RemoveFirst(q, e)) \subseteq ToSet(q)
<1>1. CASE e \notin ToSet(q)
  BY <1>1, RemoveAbsent
<1>2. CASE e \in ToSet(q)
  <2>1. PICK i \in 1..Len(q) : q[i] = e
    BY <1>2 DEF ToSet
  <2> DEFINE a == SubSeq(q, 1, i - 1)
  <2> DEFINE b == SubSeq(q, i + 1, Len(q))
  <2>2. RemoveFirst(q, e) = a \o b
    BY <2>1, RemovePresent
  <2>3. /\ a \in Seq(T) /\ b \in Seq(T)
        /\ \A k \in 1..Len(a) : a[k] \in ToSet(q)
        /\ \A k \in 1..Len(b) : b[k] \in ToSet(q)
    BY DEF ToSet
  <2> HIDE DEF a, b
  <2>4. \A k \in 1..Len(a \o b) : (a \o b)[k] \in ToSet(q)
    BY <2>3, SMTT(30)
  <2>5. DOMAIN (a \o b) = 1..Len(a \o b)
    BY <2>3
  <2>6. QED
    BY <2>2, <2>4, <2>5 DEF ToSet
<1>3. QED
  BY <1>1, <1>2

\* Queueing the sentinel leaves the inbox as it is.
LEMMA RemoveAppended ==
    ASSUME NEW T, NEW q \in Seq(T), NEW e \in T, IsInjective(q), e \notin ToSet(q)
    PROVE  RemoveFirst(Append(q, e), e) = q
<1> DEFINE r == Append(q, e)
<1> DEFINE n == Len(q) + 1
<1>1. r \in Seq(T) /\ Len(r) = n /\ n \in 1..Len(r) /\ r[n] = e
  OBVIOUS
<1>2. IsInjective(r)
  BY AppendSet
<1>3. SubSeq(r, 1, n - 1) = q /\ SubSeq(r, n + 1, Len(r)) = <<>>
  OBVIOUS
<1> HIDE DEF r, n
<1>4. RemoveFirst(r, r[n]) = SubSeq(r, 1, n - 1) \o SubSeq(r, n + 1, Len(r))
  BY <1>1, <1>2, RemovePresent
<1>5. RemoveFirst(r, e) = q \o <<>>
  BY <1>1, <1>3, <1>4
<1>6. q \o <<>> = q
  BY ConcatEmptySeq
<1>7. QED
  BY <1>5, <1>6 DEF r

\* Queueing a delivery appends it to the inbox.
LEMMA RemoveThenAppend ==
    ASSUME NEW T, NEW q \in Seq(T), NEW d \in T, NEW e, d # e,
           IsInjective(q), d \notin ToSet(q)
    PROVE  RemoveFirst(Append(q, d), e) = Append(RemoveFirst(q, e), d)
<1>1. ToSet(Append(q, d)) = ToSet(q) \union {d} /\ IsInjective(Append(q, d))
  BY AppendSet
<1>2. CASE e \notin ToSet(q)
  <2>1. Append(q, d) \in Seq(T) /\ e \notin ToSet(Append(q, d))
    BY <1>1, <1>2
  <2>2. RemoveFirst(q, e) = q
    BY <1>2, RemoveAbsent
  <2>3. RemoveFirst(Append(q, d), e) = Append(q, d)
    BY <2>1, RemoveAbsent
  <2>4. QED
    BY <2>2, <2>3
<1>3. CASE e \in ToSet(q)
  <2>1. PICK i \in 1..Len(q) : q[i] = e
    BY <1>3 DEF ToSet
  <2> DEFINE r == Append(q, d)
  <2> DEFINE front == SubSeq(q, 1, i - 1)
  <2> DEFINE back == SubSeq(q, i + 1, Len(q))
  <2>2. r \in Seq(T) /\ i \in 1..Len(r) /\ r[i] = e
    BY <2>1
  <2>3. /\ SubSeq(r, 1, i - 1) = front
        /\ SubSeq(r, i + 1, Len(r)) = Append(back, d)
        /\ front \in Seq(T) /\ back \in Seq(T)
    <3>1. front \in Seq(T) /\ back \in Seq(T)
      OBVIOUS
    <3>2. SubSeq(r, 1, i - 1) = front
      OBVIOUS
    <3>3. SubSeq(r, i + 1, Len(r)) = Append(back, d)
      <4> DEFINE u == SubSeq(r, i + 1, Len(r))
      <4> DEFINE v == Append(back, d)
      <4>1. Len(q) \in Nat /\ i \in Int /\ i <= Len(q)
        OBVIOUS
      <4>2. /\ r \in Seq(T) /\ Len(r) = Len(q) + 1
            /\ \A k \in 1..Len(q) : r[k] = q[k]
            /\ r[Len(q) + 1] = d
        OBVIOUS
      <4>3. /\ back \in Seq(T) /\ Len(back) = Len(q) - i
            /\ \A k \in 1..(Len(q) - i) : back[k] = q[i + k]
        OBVIOUS
      <4> HIDE DEF r, back
      <4>4. /\ u \in Seq(T) /\ Len(u) = Len(q) - i + 1
            /\ \A k \in 1..(Len(q) - i + 1) : u[k] = r[i + k]
        BY <4>1, <4>2
      <4>5. /\ v \in Seq(T) /\ Len(v) = Len(q) - i + 1
            /\ \A k \in 1..(Len(q) - i) : v[k] = back[k]
            /\ v[Len(q) - i + 1] = d
        <5>1. /\ v \in Seq(T) /\ Len(v) = Len(back) + 1
              /\ \A k \in 1..Len(back) : v[k] = back[k]
              /\ v[Len(back) + 1] = d
          BY <4>3, AppendProperties
        <5> HIDE DEF v
        <5>2. QED
          BY <4>3, <5>1
      <4> HIDE DEF u, v
      <4>6. \A k \in 1..(Len(q) - i + 1) : u[k] = v[k]
        <5>1. ASSUME NEW k \in 1..(Len(q) - i) PROVE u[k] = v[k]
          <6>1. i + k \in 1..Len(q) /\ k \in 1..(Len(q) - i + 1)
            BY <4>1
          <6>2. QED
            BY <4>2, <4>3, <4>4, <4>5, <6>1
        <5>2. u[Len(q) - i + 1] = v[Len(q) - i + 1]
          <6>1. /\ Len(q) - i + 1 \in 1..(Len(q) - i + 1)
                /\ i + (Len(q) - i + 1) = Len(q) + 1
            BY <4>1
          <6>2. QED
            BY <4>2, <4>4, <4>5, <6>1
        <5>3. QED
          BY <4>1, <5>1, <5>2
      <4>7. u = v
        BY <4>4, <4>5, <4>6, SeqEqual, SMTT(30)
      <4>8. QED
        BY <4>7 DEF u, v
    <3>4. QED
      BY <3>1, <3>2, <3>3
  <2>4. RemoveFirst(q, e) = front \o back
    BY <2>1, RemovePresent
  <2> HIDE DEF r
  <2>5. RemoveFirst(r, e) = SubSeq(r, 1, i - 1) \o SubSeq(r, i + 1, Len(r))
    BY <1>1, <2>2, RemovePresent DEF r
  <2> HIDE DEF front, back
  <2>6. front \o Append(back, d) = Append(front \o back, d)
    BY <2>3, AppendKeeps
  <2>7. QED
    BY <2>3, <2>4, <2>5, <2>6 DEF r
<1>4. QED
  BY <1>2, <1>3

\* What precedes the sentinel is at the front of the inbox.
LEMMA RemoveKeepsPrefix ==
    ASSUME NEW T, NEW p \in Seq(T), NEW q \in Seq(T), NEW e,
           IsInjective(p \o q), e \notin ToSet(p)
    PROVE  \E r \in Seq(T) : RemoveFirst(p \o q, e) = p \o r
<1>1. p \o q \in Seq(T)
  OBVIOUS
<1>2. CASE e \notin ToSet(p \o q)
  BY <1>1, <1>2, RemoveAbsent
<1>3. CASE e \in ToSet(p \o q)
  <2> DEFINE s == p \o q
  <2>1. /\ DOMAIN s = 1..(Len(p) + Len(q)) /\ Len(s) = Len(p) + Len(q)
        /\ Len(p) \in Nat /\ Len(q) \in Nat /\ DOMAIN p = 1..Len(p)
        /\ \A k \in 1..Len(p) : s[k] = p[k]
    OBVIOUS
  <2>2. PICK i \in 1..Len(s) : s[i] = e
    BY <1>3, <2>1 DEF ToSet
  <2>3. i > Len(p)
    BY <2>1, <2>2 DEF ToSet
  <2> DEFINE j == i - Len(p)
  <2>4. j \in 1..Len(q)
    BY <2>1, <2>2, <2>3
  <2>5. SubSeq(s, 1, i - 1) = p \o SubSeq(q, 1, j - 1)
    BY <2>1, <2>2, <2>3, <2>4
  <2>6. /\ SubSeq(q, 1, j - 1) \in Seq(T)
        /\ SubSeq(s, i + 1, Len(s)) \in Seq(T)
    BY <1>1, <2>1, <2>2, <2>4
  <2>7. RemoveFirst(s, e) = SubSeq(s, 1, i - 1) \o SubSeq(s, i + 1, Len(s))
    BY <1>1, <2>2, RemovePresent
  <2> DEFINE a == SubSeq(q, 1, j - 1)
  <2> DEFINE b == SubSeq(s, i + 1, Len(s))
  <2>8. a \in Seq(T) /\ b \in Seq(T) /\ RemoveFirst(s, e) = (p \o a) \o b
    BY <2>5, <2>6, <2>7
  <2> HIDE DEF a, b, s
  <2>9. (p \o a) \o b = p \o (a \o b) /\ a \o b \in Seq(T)
    BY <2>8, SMTT(30)
  <2>10. QED
    BY <2>8, <2>9 DEF s
<1>4. QED
  BY <1>2, <1>3

-----------------------------------------------------------------------------
(* Every step of the receiver is a step of the inbox, or hidden from it.    *)

InboxUnchanged == UNCHANGED <<InboxAccepted, bound, InboxVerdict, InboxOutcome>>

LEMMA QuietInbox ==
    ASSUME UNCHANGED <<bound, wait, taken>>, \A x \in Subs : Kept(x)' = Kept(x)
    PROVE  InboxUnchanged
BY DEF InboxUnchanged, InboxAccepted, InboxVerdict, InboxOutcome

LEMMA RejectInbox ==
    ASSUME TypeOK, DeliveryInv, NEW s \in Subs, Reject(s),
           UNCHANGED <<bound, wait, taken>>
    PROVE  InboxUnchanged
<1>1. ASSUME NEW x \in Subs
      PROVE  RemoveFirst(Kept(x), None)' = RemoveFirst(Kept(x), None)
  <2>1. CASE Kept(x)' = Kept(x)
    BY <2>1
  <2>2. CASE x = s /\ ~rejected[s] /\ Kept(s)' = Append(Kept(s), None)
    <3>1. /\ Kept(s) \in Seq(Entries) /\ None \notin ToSet(Kept(s)) /\ None \in Entries
          /\ IsInjective(Kept(s))
      BY <2>2, KeptAreEvents DEF Entries, DeliveryInv
    <3>2. RemoveFirst(Append(Kept(s), None), None) = Kept(s)
      BY <3>1, RemoveAppended
    <3>3. RemoveFirst(Kept(s), None) = Kept(s)
      BY <3>1, RemoveAbsent
    <3>4. QED
      BY <2>2, <3>2, <3>3
  <2>3. QED
    BY <2>1, <2>2, RejectKeeps
<1>2. InboxAccepted' = InboxAccepted
  BY <1>1 DEF InboxAccepted
<1>3. QED
  BY <1>2 DEF InboxUnchanged, InboxVerdict, InboxOutcome

LEMMA AcceptInbox ==
    ASSUME TypeOK, DeliveryInv, NEW s \in Subs, NEW e \in Events, Queues(s, e),
           UNCHANGED <<bound, wait, taken>>
    PROVE  Inbox!Accept(s, e)
<1>0. /\ Kept(s) \in Seq(Entries) /\ IsInjective(Kept(s)) /\ e \in Entries
      /\ e # None /\ e \notin ToSet(Kept(s)) /\ Kept(s)' = Append(Kept(s), e)
      /\ \A x \in Subs \ {s} : Kept(x)' = Kept(x)
  BY KeptAreEvents, QueuesKeeps DEF DeliveryInv, Entries
<1>1. RemoveFirst(Append(Kept(s), e), None) = Append(RemoveFirst(Kept(s), None), e)
  BY <1>0, RemoveThenAppend
<1>2. InboxAccepted' = [InboxAccepted EXCEPT ![s] = Append(@, e)]
  BY <1>0, <1>1 DEF InboxAccepted
<1>3. e \notin ToSet(InboxAccepted[s])
  <2>1. ToSet(RemoveFirst(Kept(s), None)) \subseteq ToSet(Kept(s))
    BY <1>0, RemovedSet
  <2>2. QED
    BY <1>0, <2>1 DEF InboxAccepted
<1>4. QED
  BY <1>2, <1>3 DEF Inbox!Accept, Inbox!ToSet, ToSet, InboxVerdict, InboxOutcome

LEMMA BindInbox ==
    ASSUME NEW s \in Subs, NEW i \in Identities, Bind(s, i)
    PROVE  Inbox!Bind(s, i)
BY DEF Bind, Inbox!Bind, boxVars, InboxAccepted, InboxVerdict, InboxOutcome, Kept

\* The verdict of a wait, with what it took.
LEMMA WaitInbox ==
    ASSUME TypeOK, TypeOK', DeliveryInv, WaitInv, WaitInv', NEW s \in Subs,
           StartWait(s) \/ ResumeWait(s) \/ WaitTimesOut(s)
    PROVE  Inbox!Succeed(s) \/ Inbox!Fail(s) \/ InboxUnchanged
<1>1. /\ \A x \in Subs : Kept(x)' = Kept(x)
      /\ UNCHANGED bound /\ bound[s] # None
      /\ wait[s] \in {"idle", "blocked"}
      /\ \A x \in Subs \ {s} : wait'[x] = wait[x] /\ taken'[x] = taken[x]
      /\ wait'[s] \in {"blocked", "ok", "error"}
  <2>1. \A x \in Subs : Kept(x)' = Kept(x)
    BY TrialKeeps DEF Trial
  <2>2. UNCHANGED bound /\ bound[s] # None /\ wait[s] \in {"idle", "blocked"}
    BY DEF StartWait, ResumeWait, WaitTimesOut, WaitInv
  <2>3. \A v : Conclude(s, v) => /\ wait'[s] = v
                                 /\ \A x \in Subs \ {s} : wait'[x] = wait[x]
    BY DEF Conclude, TypeOK
  <2>4. \A n : Take(s, n) => \A x \in Subs \ {s} : taken'[x] = taken[x]
    BY DEF Take, TypeOK
  <2>5. \A d : Verdict(s, d) \in {"ok", "error"}
    BY DEF Verdict
  <2>6. QED
    BY <2>1, <2>2, <2>3, <2>4, <2>5 DEF StartWait, ResumeWait, WaitTimesOut, Drain
<1>2. UNCHANGED InboxAccepted
  BY <1>1 DEF InboxAccepted
<1>3. InboxVerdict[s] = "pending" /\ InboxOutcome[s] = <<>>
  BY <1>1 DEF InboxVerdict, InboxOutcome
<1>4. CASE wait'[s] = "blocked"
  BY <1>1, <1>2, <1>4 DEF InboxUnchanged, InboxVerdict, InboxOutcome
<1>5. CASE wait'[s] = "error"
  <2>1. InboxVerdict' = [InboxVerdict EXCEPT ![s] = "error"] /\ UNCHANGED InboxOutcome
    BY <1>1, <1>5 DEF InboxVerdict, InboxOutcome
  <2>2. QED
    BY <1>1, <1>2, <1>3, <2>1 DEF Inbox!Fail
<1>6. CASE wait'[s] = "ok"
  <2>1. ReadFirstTerminal(s)'
    BY <1>6 DEF WaitInv
  <2>2. /\ taken'[s] \in Seq(Entries) /\ queue'[s] \in Seq(Entries)
        /\ IsInjective(taken'[s] \o queue'[s])
        /\ Kept(s) = taken'[s] \o queue'[s]
    BY <1>1 DEF TypeOK, Kept, DeliveryInv
  <2>3. None \notin ToSet(taken'[s])
    BY <2>1, <2>2 DEF ReadFirstTerminal, ToSet
  <2>4. PICK r \in Seq(Entries) : InboxAccepted[s] = taken'[s] \o r
    <3>1. InboxAccepted[s] = RemoveFirst(Kept(s), None)
      BY DEF InboxAccepted
    <3>2. \E r \in Seq(Entries) :
             RemoveFirst(taken'[s] \o queue'[s], None) = taken'[s] \o r
      <4>1. \A p, q \in Seq(Entries) :
               IsInjective(p \o q) /\ None \notin ToSet(p) =>
                  \E r \in Seq(Entries) : RemoveFirst(p \o q, None) = p \o r
        BY RemoveKeepsPrefix, SMTT(30)
      <4>2. QED
        BY <2>2, <2>3, <4>1, Zenon
    <3>3. QED
      BY <2>2, <3>1, <3>2, Zenon
  <2> DEFINE n == Len(taken'[s])
  <2>5. /\ n \in DOMAIN InboxAccepted[s]
        /\ SubSeq(InboxAccepted[s], 1, n) = taken'[s]
        /\ \A k \in 1..n : InboxAccepted[s][k] = taken'[s][k]
        /\ DOMAIN (taken'[s]) = 1..n /\ n \in Nat \ {0}
    <3>1. n \in Nat \ {0} /\ DOMAIN (taken'[s]) = 1..n
      BY <2>1, <2>2 DEF ReadFirstTerminal
    <3>2. QED
      BY <2>2, <2>4, <3>1
  <2>6. Inbox!Decides(s, n)
    BY <1>1, <2>1, <2>5, SMTT(30) DEF Inbox!Decides, ReadFirstTerminal
  <2>7. /\ InboxVerdict' = [InboxVerdict EXCEPT ![s] = "ok"]
        /\ InboxOutcome' = [InboxOutcome EXCEPT ![s] = taken'[s]]
    BY <1>1, <1>6 DEF InboxVerdict, InboxOutcome
  <2>8. QED
    BY <1>1, <1>2, <1>3, <2>5, <2>6, <2>7 DEF Inbox!Succeed
<1>7. QED
  BY <1>1, <1>4, <1>5, <1>6

LEMMA TrialInbox ==
    ASSUME TypeOK, TypeOK', DeliveryInv, WaitInv, WaitInv', NEW s \in Subs, Trial(s)
    PROVE  Inbox!Next \/ InboxUnchanged
<1>1. CASE Register(s) \/ CloseSubscription(s)
  <2>1. UNCHANGED <<bound, wait, taken>>
    BY <1>1 DEF Register, CloseSubscription
  <2>2. QED
    BY <2>1, TrialKeeps, QuietInbox
<1>2. CASE \E i \in Identities : Bind(s, i)
  BY <1>2, BindInbox DEF Inbox!Next
<1>3. QED
  BY <1>1, <1>2, WaitInbox DEF Trial, Inbox!Next

LEMMA HandlerInbox ==
    ASSUME TypeOK, DeliveryInv, NEW c \in Conns, Handler(c)
    PROVE  Inbox!Next \/ InboxUnchanged
<1>1. UNCHANGED <<bound, wait, taken>>
  BY DEF Handler, Connect, StartHandler, RefuseRequest, RejectHeaders, subVars,
         AcceptRequest, RejectBody, RecordDelivery, BreakConnection, ConnectionTimesOut
<1>2. CASE UNCHANGED queue
  <2>1. \A x \in Subs : Kept(x)' = Kept(x)
    BY <1>1, <1>2 DEF Kept
  <2>2. QED
    BY <1>1, <2>1, QuietInbox
<1>3. ASSUME NEW s \in Subs, Reject(s) PROVE InboxUnchanged
  BY <1>1, <1>3, RejectInbox
<1>4. CASE RejectBody(c)
  BY <1>3, <1>4 DEF RejectBody, TypeOK
<1>5. ASSUME NEW e \in Events, RecordDelivery(c, e) PROVE Inbox!Next \/ InboxUnchanged
  <2>1. conn[c].sub \in Subs
    BY <1>5 DEF TypeOK, RecordDelivery
  <2>2. CASE Reject(conn[c].sub)
    BY <1>3, <2>1, <2>2
  <2>3. CASE Queues(conn[c].sub, e)
    BY <1>1, <2>1, <2>3, AcceptInbox DEF Inbox!Next
  <2>4. QED
    BY <1>1, <1>2, <1>5, <2>2, <2>3 DEF RecordDelivery, Queues
<1>6. QED
  BY <1>2, <1>3, <1>4, <1>5 DEF Handler, Connect, StartHandler, RefuseRequest,
     RejectHeaders, AcceptRequest, BreakConnection, ConnectionTimesOut, boxVars

\* The server, its handlers, the bounded queue and the waits implement the
\* inbox PushInbox describes: what a trial sees of its subscription is an
\* ordered collection of distinct deliveries and at most one verdict, and a
\* success is the shortest prefix that ends with a terminal delivery.
THEOREM InboxImplemented == Spec => ImplementsInbox
<1>1. Init => Inbox!Init
  <2>1. RemoveFirst(<<>> \o <<>>, None) = <<>>
    BY DEF RemoveFirst
  <2>2. QED
    BY <2>1 DEF Init, Inbox!Init, InboxAccepted, InboxVerdict, InboxOutcome, Kept
<1>2. TypeOK /\ TypeOK' /\ DeliveryInv /\ WaitInv /\ WaitInv' /\ [Next]_vars
      => [Inbox!Next]_(Inbox!vars)
  <2>1. ASSUME TypeOK, TypeOK', DeliveryInv, WaitInv, WaitInv', [Next]_vars
        PROVE  Inbox!Next \/ InboxUnchanged
    <3>1. CASE StopServing \/ CancelHandlers \/ UNCHANGED vars
      BY <3>1, QuietInbox DEF StopServing, CancelHandlers, vars, subVars, boxVars, Kept
    <3>2. QED
      BY <2>1, <3>1, TrialInbox, HandlerInbox DEF Next
  <2>2. QED
    BY <2>1 DEF InboxUnchanged, Inbox!vars
<1>3. Spec => []DeliveryInv
  BY DeliveryInvariant
<1>4. QED
  BY <1>1, <1>2, <1>3, WaitInvariant, TypeCorrect, PTL
     DEF Spec, ImplementsInbox, Inbox!Spec
=============================================================================
