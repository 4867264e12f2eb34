----------------------------- MODULE MCCollector -----------------------------
(* Small instances of Collector for TLC.                                    *)
EXTENDS Collector, TLC

CONSTANTS t1, t2, x1, m1, a1, a2

MCIdentity == [task |-> t1, context |-> x1]

Message(id, role, t, text) ==
    [id |-> id, role |-> role, task |-> t, context |-> None, text |-> text]

Artifact(id, text) == [id |-> id, text |-> text]

Chunk(id, text, append) ==
    [type |-> "artifact", task |-> t1, context |-> x1,
     artifact |-> Artifact(id, text), append |-> append]

Snapshot(s, status, history, parts) ==
    [type |-> "task", task |-> t1, context |-> x1, state |-> s,
     status |-> status, history |-> history, artifacts |-> parts]

Status(s, status) ==
    [type |-> "status", task |-> t1, context |-> x1, state |-> s, status |-> status]

\* Two chunks of one artifact, a chunk of another, one without an id and one
\* whose id is the name of the second without an id, snapshots that carry the
\* whole of the first, and messages with an id, without one and with the name
\* of the first without an id, of the user and of another task.
MCEvents ==
    {Chunk(a1, <<1>>, FALSE),
     Chunk(a1, <<2>>, TRUE),
     Chunk(a2, <<3>>, TRUE),
     Chunk(None, <<0>>, TRUE),
     Chunk(Numbered(1), <<10>>, FALSE),
     Snapshot("working", <<>>, <<>>, <<Artifact(a2, <<3>>), Artifact(a1, <<1, 2>>)>>),
     Snapshot("completed", <<Message(None, "agent", None, <<4>>)>>,
              <<Message(m1, "user", t1, <<5>>)>>, <<>>),
     Status("working", <<Message(m1, "agent", t1, <<6>>)>>),
     Status("completed", <<Message(m1, "agent", t2, <<7>>)>>),
     [type |-> "message", message |-> Message(Numbered(0), "agent", None, <<8>>)],
     [type |-> "message", message |-> Message(m1, "user", t2, <<9>>)],
     [type |-> "empty", task |-> None, context |-> None]}
=============================================================================
