------------------------------ MODULE Collector ------------------------------
(***************************************************************************)
(* One operation of A2ASession and the ResponseCollector that turns the    *)
(* events it streams into an outcome.  The agent sends any events in any   *)
(* order: chunks may be repeated, reordered or lost, snapshots may come at *)
(* any time, nested messages may name another task.                        *)
(*                                                                         *)
(* A text is a sequence of chunks and its size their number; data and file *)
(* parts are collected the same way, under limits of their own.  A message *)
(* or artifact without an id has the id None and is collected under a name *)
(* the code makes from a number, "message-0" or "artifact-0"; an agent may *)
(* send such a name as an id of its own.                                   *)
(***************************************************************************)
EXTENDS Integers, Sequences, FiniteSets, SequencesExt

CONSTANTS
    Events,    \* the events an agent may send
    Identity,  \* the [task, context] of the trial, which a subscription asks for
    None,      \* an absent id or field
    MaxEvents, \* MAX_EVENTS
    MaxText    \* MAX_TEXT_CHARS

ASSUME LimitsAssumption == MaxEvents \in Nat \ {0} /\ MaxText \in Nat

\* The name "message-n" of a message, and "artifact-n" of an artifact.
Numbered(n) == [number |-> n]
Numbers == [number : Nat]

ASSUME NamesAssumption == None \notin Numbers

VARIABLES
    mode,     \* the operation: "send", "deferred", "subscribe" or "operate"
    pc,       \* "open", "finished" or "failed"
    task,     \* _task_id
    context,  \* _context_id
    state,    \* _state
    states,   \* _states
    messages, \* _messages, in insertion order
    artifacts,\* _artifacts, in insertion order
    log       \* the events added, in order (history; its length is _events)

vars == <<mode, pc, task, context, state, states, messages, artifacts, log>>

\* "deferred" is send_turn with return_immediately, "operate" cancel_task and
\* get_task, which see the one task the call returned.
Modes == {"send", "deferred", "subscribe", "operate"}
INTERRUPTED_STATES ==
    {"auth_required", "canceled", "completed", "failed", "input_required", "rejected"}

Init ==
    /\ mode \in Modes
    /\ pc = "open"
    /\ task = None
    /\ context = Identity.context
    /\ state = "message"
    /\ states = <<>>
    /\ messages = <<>>
    /\ artifacts = <<>>
    /\ log = <<>>

-----------------------------------------------------------------------------
(* The parts of an event.                                                   *)

\* The messages _add_message sees, the artifacts _add_artifact sees and the
\* ids recorded, each in the order of the code.
MessagesOf(e) ==
    CASE e.type = "message" -> <<e.message>>
      [] e.type = "task" -> e.status \o e.history
      [] e.type = "status" -> e.status
      [] OTHER -> <<>>

\* Appending is what the event asks for; a snapshot never appends.
ArtifactsOf(e) ==
    CASE e.type = "task" -> e.artifacts
      [] e.type = "artifact" -> <<e.artifact>>
      [] OTHER -> <<>>

Appends(e) == e.type = "artifact" /\ e.append

\* An event holds any number of messages and of artifacts with their texts; a
\* task has a state, and none of the states of a task is called "message".
ASSUME EventsAssumption ==
    \A e \in Events :
        /\ MessagesOf(e) \in Seq(ToSet(MessagesOf(e)))
        /\ ArtifactsOf(e) \in Seq(ToSet(ArtifactsOf(e)))
        /\ \A a \in ToSet(ArtifactsOf(e)) : a.text \in Seq(ToSet(a.text))
        /\ Appends(e) \in BOOLEAN
        /\ e.type \in {"task", "status"} => e.state \notin {None, "message"}

StateOf(e) ==
    CASE e.type = "message" -> "message"
      [] e.type \in {"task", "status"} -> e.state
      [] OTHER -> None

\* The identity of the event itself.
Own(e) ==
    IF e.type = "message"
    THEN [task |-> e.message.task, context |-> e.message.context]
    ELSE [task |-> e.task, context |-> e.context]

Spoken(e) == SelectSeq(MessagesOf(e), LAMBDA m : m.role = "agent")

\* The ids an event records: its own unless it is a message, then those of the
\* messages the agent speaks in it; a message of the user records none.
RecordedIds(e) ==
    (IF e.type = "message" THEN <<>> ELSE <<Own(e)>>) \o
    [k \in DOMAIN MessagesOf(e) |->
        LET m == MessagesOf(e)[k] IN
        IF m.role = "agent" THEN [task |-> m.task, context |-> m.context]
        ELSE [task |-> None, context |-> None]]

\* Fault: a nested message is not compared with the subscription.
FitsOuter(e) == mode = "subscribe" => Own(e) = Identity

\* _validate_response_identity, and _validate_task_id and _validate_context_id
\* of every nested message that names one, the user's included.
Fits(e) ==
    mode = "subscribe" =>
        /\ Own(e) = Identity
        /\ \A k \in DOMAIN MessagesOf(e) :
              /\ MessagesOf(e)[k].task \in {None, Identity.task}
              /\ MessagesOf(e)[k].context \in {None, Identity.context}

\* subscribe_task starts with a snapshot and takes no standalone message;
\* an empty event is refused by every operation.
Admissible(e) ==
    /\ e.type # "empty"
    /\ mode = "subscribe" => e.type # "message"
    /\ (mode = "subscribe" /\ log = <<>>) \/ mode = "operate" => e.type = "task"

-----------------------------------------------------------------------------
(* Collecting.                                                              *)

Keys(dict) == {dict[k].key : k \in DOMAIN dict}

\* Assigning to a dict keeps the place of a key that is there.
Put(dict, key, text) ==
    IF key \in Keys(dict)
    THEN [k \in DOMAIN dict |-> IF dict[k].key = key THEN [key |-> key, text |-> text]
                                ELSE dict[k]]
    ELSE Append(dict, [key |-> key, text |-> text])

Text(dict, key) == dict[CHOOSE k \in DOMAIN dict : dict[k].key = key].text

\* A missing id is replaced by the number of entries; nothing keeps the name
\* apart from an id the agent sent.
Key(dict, id) == IF id = None THEN Numbered(Len(dict)) ELSE id

PutMessage(dict, m) == Put(dict, Key(dict, m.id), m.text)

\* Fault: a chunk always extends what is there.
PutArtifactExtending(dict, a, append) ==
    LET key == Key(dict, a.id)
    IN Put(dict, key, (IF key \in Keys(dict) THEN Text(dict, key) ELSE <<>>) \o a.text)

PutArtifact(dict, a, append) ==
    LET key == Key(dict, a.id)
    IN IF append /\ key \in Keys(dict)
       THEN Put(dict, key, Text(dict, key) \o a.text)
       ELSE Put(dict, key, a.text)

CollectMessages(dict, e) == FoldLeft(PutMessage, dict, Spoken(e))

CollectArtifacts(dict, e) ==
    LET collected[n \in 0..Len(ArtifactsOf(e))] ==
            IF n = 0 THEN dict
            ELSE PutArtifact(collected[n - 1], ArtifactsOf(e)[n], Appends(e))
    IN collected[Len(ArtifactsOf(e))]

\* The last id that is present wins.
LastPresent(old, ids) ==
    LET present == {k \in DOMAIN ids : ids[k] # None}
    IN IF present = {} THEN old ELSE ids[Max(present)]

\* Fault: every state is recorded, also a repeated one.
RecordEveryState(seq, s) == IF s = None THEN seq ELSE Append(seq, s)

RecordState(seq, s) ==
    IF s = None \/ (seq # <<>> /\ Last(seq) = s) THEN seq ELSE Append(seq, s)

Size(dict) == FoldLeft(LAMBDA n, entry : n + Len(entry.text), 0, dict)

\* _check_size, after the event was collected.
FitsLimits(m, a) == Size(m) + Size(a) <= MaxText

Add(e) ==
    LET ids == RecordedIds(e) IN
    /\ pc = "open"
    /\ mode = "operate" => log = <<>>
    /\ IF Len(log) < MaxEvents /\ Admissible(e) /\ Fits(e)
       THEN /\ messages' = CollectMessages(messages, e)
            /\ artifacts' = CollectArtifacts(artifacts, e)
            /\ task' = LastPresent(task, [k \in DOMAIN ids |-> ids[k].task])
            /\ context' = LastPresent(context, [k \in DOMAIN ids |-> ids[k].context])
            /\ state' = IF StateOf(e) = None THEN state ELSE StateOf(e)
            /\ states' = RecordState(states, StateOf(e))
            /\ log' = Append(log, e)
            /\ pc' = IF FitsLimits(messages', artifacts') THEN "open" ELSE "failed"
       ELSE /\ pc' = "failed"
            /\ UNCHANGED <<task, context, state, states, messages, artifacts, log>>
    /\ UNCHANGED mode

\* finish with require_terminal.
MayFinish ==
    mode \in {"send", "subscribe"} => state \in INTERRUPTED_STATES \union {"message"}

\* The stream ends.
Finish ==
    /\ pc = "open"
    /\ IF log # <<>> /\ MayFinish
       THEN /\ pc' = "finished"
            /\ states' = IF states = <<>> THEN <<state>> ELSE states
       ELSE pc' = "failed" /\ UNCHANGED states
    /\ UNCHANGED <<mode, task, context, state, messages, artifacts, log>>

\* asyncio.timeout, an error reply or a transport error.
Break ==
    /\ pc = "open"
    /\ pc' = "failed"
    /\ UNCHANGED <<mode, task, context, state, states, messages, artifacts, log>>

Next ==
    \/ \E e \in Events : Add(e)
    \/ Finish
    \/ Break

Spec == Init /\ [][Next]_vars

-----------------------------------------------------------------------------
\* What a successful operation promises the trial: a subscription reports the
\* task and context that were asked for, whatever the nested messages of the
\* stream say, and a state that ends the turn; a send ends in such a state or
\* in a message.
OutcomeFitsOperation ==
    pc = "finished" =>
        /\ mode = "subscribe" => [task |-> task, context |-> context] = Identity
        /\ mode = "subscribe" => state \in INTERRUPTED_STATES
        /\ mode = "send" => state \in INTERRUPTED_STATES \union {"message"}
        /\ Last(states) = state

\* The trajectory is the sequence of distinct states the events went through:
\* it has a step exactly where the state changed.
TrailIsHistory ==
    LET told == {k \in DOMAIN log : StateOf(log[k]) # None}
        Before(k) == {j \in told : j < k}
        changes == {k \in told :
                       Before(k) # {} => StateOf(log[k]) # StateOf(log[Max(Before(k))])}
    IN (pc = "open" \/ told # {}) =>
        /\ Len(states) = Cardinality(changes)
        /\ \A k \in changes :
              states[Cardinality({j \in changes : j <= k})] = StateOf(log[k])

\* The artifact deliveries of the log, each with whether it appends.
Deliveries ==
    FlattenSeq([k \in DOMAIN log |->
        [j \in DOMAIN ArtifactsOf(log[k]) |->
            [id |-> ArtifactsOf(log[k])[j].id,
             text |-> ArtifactsOf(log[k])[j].text,
             append |-> Appends(log[k])]]])

\* An id the agent chose that is not one of the names the code makes up.
Proper(id) == id # None /\ id \notin Numbers

\* The text of an artifact with an id of its own is what a reader of the whole
\* log would assemble: everything since the last delivery that started it
\* afresh, in order; and these artifacts keep the order in which they first
\* appeared, so that a late or repeated snapshot repairs lost or repeated
\* chunks without moving anything.  As long as the agent sends no id that looks
\* like a made-up name, every delivery without an id stays an artifact of its
\* own, in the order they came; an id "artifact-n" may replace one of them or
\* take its chunks (_add_artifact).
ArtifactsMatchLog ==
    LET d == Deliveries
        named == {k \in DOMAIN d : Proper(d[k].id)}
        Of(id) == {k \in named : d[k].id = id}
        First(id) == CHOOSE k \in Of(id) : \A j \in Of(id) : k <= j
        Fresh(id) == {k \in Of(id) : ~d[k].append} \union {First(id)}
        Start(id) == CHOOSE k \in Fresh(id) : \A j \in Fresh(id) : j <= k
        Reader(id) == FlattenSeq([k \in DOMAIN d |->
            IF k \in Of(id) /\ k >= Start(id) THEN d[k].text ELSE <<>>])
        Anonymous == FlattenSeq([k \in DOMAIN d |->
            IF d[k].id = None THEN <<d[k].text>> ELSE <<>>])
        Numbering == FlattenSeq([k \in DOMAIN artifacts |->
            IF artifacts[k].key \in Numbers THEN <<artifacts[k].text>> ELSE <<>>])
        ids == {d[k].id : k \in named}
    IN /\ Keys(artifacts) \ Numbers = ids
       /\ \A j, k \in DOMAIN artifacts :
             LET a == artifacts[j].key
                 b == artifacts[k].key
             IN (j < k /\ {a, b} \subseteq ids) => First(a) < First(b)
       /\ \A k \in DOMAIN artifacts :
             LET a == artifacts[k].key IN a \notin Numbers => artifacts[k].text = Reader(a)
       /\ (\A k \in DOMAIN d : d[k].id \notin Numbers) => Numbering = Anonymous
=============================================================================
