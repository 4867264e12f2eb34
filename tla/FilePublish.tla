----------------------------- MODULE FilePublish -----------------------------
(***************************************************************************)
(* How a command publishes its output: config.write_config (with or        *)
(* without --force), cassette.write_cassette and evidence.write_evidence.  *)
(* Each looks whether the path is free, fills a temporary sibling, flushes *)
(* it to disk and renames it onto the path; the first two write one file,  *)
(* the last a directory of two.  Several commands may be given the same    *)
(* path, and any of them may be interrupted, killed or cut off from power, *)
(* also while it cleans up, which may fail as well.                        *)
(*                                                                         *)
(* Contents are abstracted to who wrote them and how much of them is       *)
(* certain: "partial", "cached" (complete, but not on disk) or "durable".  *)
(* The file system is external: rename(2) replaces a file by a file and    *)
(* refuses a directory that is not empty; a power failure loses what is    *)
(* cached, and may lose the last rename.                                   *)
(***************************************************************************)
EXTENDS Integers, FiniteSets

CONSTANTS
    Writers, \* commands given the same path
    Old,     \* who wrote a file that is already there
    None     \* no such path

\* What a path may hold.
Outputs == [by : Writers \union {Old}, form : {"file", "bundle"},
            state : {"partial", "cached", "durable"}]

ASSUME NamesAssumption == Old \notin Writers /\ None \notin Outputs

VARIABLES
    kind,      \* "file", "forced" (init --force) or "bundle" (--evidence)
    pc,        \* where each command is
    temporary, \* how much of its temporary sibling is certain, or "absent"
    named,     \* whether the handler would clean up: temporary_path is
               \* assigned, or write_evidence is inside its try
    hindered,  \* whether cleaning up failed or was cut short (history)
    target,    \* what the path holds
    previous,  \* what it held before the last rename
    power      \* FALSE once it failed

vars == <<kind, pc, temporary, named, hindered, target, previous, power>>

Kinds == {"file", "forced", "bundle"}
Form(w) == IF kind[w] = "bundle" THEN "bundle" ELSE "file"
OldFile == [by |-> Old, form |-> "file", state |-> "durable"]

Init ==
    /\ kind \in [Writers -> Kinds]
    /\ pc = [w \in Writers |-> "start"]
    /\ temporary = [w \in Writers |-> "absent"]
    /\ named = [w \in Writers |-> FALSE]
    /\ hindered = [w \in Writers |-> FALSE]
    /\ target \in {None, OldFile}
    /\ previous = target
    /\ power = TRUE

At(w, from) == power /\ pc[w] = from
Goto(w, to) == pc' = [pc EXCEPT ![w] = to]

\* path.exists() and not force, os.path.lexists(directory).
Refuse(w) ==
    /\ At(w, "start")
    /\ target # None
    /\ kind[w] # "forced"
    /\ Goto(w, "error")
    /\ UNCHANGED <<kind, temporary, named, hindered, target, previous, power>>

Check(w) ==
    /\ At(w, "start")
    /\ target = None \/ kind[w] = "forced"
    /\ Goto(w, "checked")
    /\ UNCHANGED <<kind, temporary, named, hindered, target, previous, power>>

\* mkdtemp is called before the try of write_evidence, NamedTemporaryFile in
\* that of the others.  Failing here leaves nothing.
Create(w) ==
    /\ At(w, "checked")
    /\ \/ /\ temporary' = [temporary EXCEPT ![w] = "partial"]
          /\ Goto(w, IF kind[w] = "bundle" THEN "created" ELSE "writing")
       \/ Goto(w, "error") /\ UNCHANGED temporary
    /\ UNCHANGED <<kind, named, hindered, target, previous, power>>

\* write_evidence enters the try that cleans up.
Enter(w) ==
    /\ At(w, "created")
    /\ named' = [named EXCEPT ![w] = TRUE]
    /\ Goto(w, "writing")
    /\ UNCHANGED <<kind, temporary, hindered, target, previous, power>>

Write(w) ==
    /\ At(w, "writing")
    /\ temporary' = [temporary EXCEPT ![w] = "cached"]
    /\ Goto(w, "flushed")
    /\ UNCHANGED <<kind, named, hindered, target, previous, power>>

\* Fault: nothing is synced.
SkipSync(w) ==
    /\ At(w, "flushed")
    /\ named' = [named EXCEPT ![w] = TRUE]
    /\ Goto(w, "ready")
    /\ UNCHANGED <<kind, temporary, hindered, target, previous, power>>

Sync(w) ==
    /\ At(w, "flushed")
    /\ temporary' = [temporary EXCEPT ![w] = "durable"]
    /\ named' = [named EXCEPT ![w] = TRUE]
    /\ Goto(w, "ready")
    /\ UNCHANGED <<kind, hindered, target, previous, power>>

\* An OSError while writing, syncing or closing, or from the rename; in the
\* try of write_evidence any exception, also that of redacting a record.
Fail(w) ==
    /\ \E from \in {"writing", "flushed", "ready"} : At(w, from)
    /\ Goto(w, "failed")
    /\ UNCHANGED <<kind, temporary, named, hindered, target, previous, power>>

\* What rename(2) accepts.
Fits(w) ==
    IF target = None THEN TRUE ELSE Form(w) = "file" /\ target.form = "file"

\* Fault: what is at the path is removed to make room.
ReplaceClearing(w) ==
    /\ At(w, "ready")
    /\ previous' = target
    /\ target' = [by |-> w, form |-> Form(w), state |-> temporary[w]]
    /\ temporary' = [temporary EXCEPT ![w] = "absent"]
    /\ Goto(w, "replaced")
    /\ UNCHANGED <<kind, named, hindered, power>>

Replace(w) ==
    /\ At(w, "ready")
    /\ \/ /\ Fits(w)
          /\ previous' = target
          /\ target' = [by |-> w, form |-> Form(w), state |-> temporary[w]]
          /\ temporary' = [temporary EXCEPT ![w] = "absent"]
          /\ Goto(w, "replaced")
       \/ /\ ~Fits(w)
          /\ Goto(w, "failed")
          /\ UNCHANGED <<target, previous, temporary>>
    /\ UNCHANGED <<kind, named, hindered, power>>

Return(w) ==
    /\ At(w, "replaced")
    /\ Goto(w, "done")
    /\ UNCHANGED <<kind, temporary, named, hindered, target, previous, power>>

\* What a clean-up that fails or is cut short leaves: unlink removes a file or
\* not, rmtree may have removed some of a directory.
Remains(w) ==
    IF named[w] /\ temporary[w] # "absent" /\ kind[w] = "bundle"
    THEN {temporary[w], "partial"} ELSE {temporary[w]}

Cleaned(w) == IF named[w] THEN "absent" ELSE temporary[w]

\* The except clause removes what it knows the name of.  Nobody hears of an
\* rmtree that fails (ignore_errors); an unlink that fails raises, so that the
\* command ends with that error.
CleanUp(w) ==
    /\ \E from \in {"failed", "stopping"} :
          /\ At(w, from)
          /\ Goto(w, IF from = "failed" THEN "error" ELSE "interrupted")
    /\ \/ temporary' = [temporary EXCEPT ![w] = Cleaned(w)] /\ UNCHANGED hindered
       \/ /\ \E left \in Remains(w) : temporary' = [temporary EXCEPT ![w] = left]
          /\ hindered' = [hindered EXCEPT ![w] = TRUE]
    /\ UNCHANGED <<kind, named, target, previous, power>>

Active == {w \in Writers : pc[w] \notin {"done", "error", "interrupted", "killed"}}

\* Fault: write_evidence cleans up after an Exception only.
InterruptUncaught(w) ==
    /\ power
    /\ w \in Active
    /\ Goto(w, "interrupted")
    /\ UNCHANGED <<kind, temporary, named, hindered, target, previous, power>>

\* KeyboardInterrupt, at any step: inside its try write_evidence cleans up
\* after any exception, the others only after an OSError, and nothing cleans up
\* after an interrupt of the clean-up.
Interrupt(w) ==
    /\ power
    /\ w \in Active
    /\ \/ /\ pc[w] \notin {"failed", "stopping"}
          /\ Goto(w, IF kind[w] = "bundle" /\ named[w] THEN "stopping" ELSE "interrupted")
          /\ UNCHANGED <<temporary, hindered>>
       \/ /\ pc[w] \in {"failed", "stopping"}
          /\ Goto(w, "interrupted")
          /\ \E left \in Remains(w) \union {Cleaned(w)} :
                temporary' = [temporary EXCEPT ![w] = left]
          /\ hindered' = [hindered EXCEPT ![w] = TRUE]
    /\ UNCHANGED <<kind, named, target, previous, power>>

Kill(w) ==
    /\ power
    /\ w \in Active
    /\ Goto(w, "killed")
    /\ UNCHANGED <<kind, temporary, named, hindered, target, previous, power>>

Damaged(c) ==
    IF c # None /\ c.state = "cached" THEN [c EXCEPT !.state = "partial"] ELSE c

PowerFails ==
    /\ power
    /\ power' = FALSE
    /\ pc' = [w \in Writers |-> IF w \in Active THEN "killed" ELSE pc[w]]
    /\ target' \in {Damaged(target), Damaged(previous)}
    /\ temporary' = [w \in Writers |-> IF temporary[w] = "cached" THEN "partial"
                                       ELSE temporary[w]]
    /\ UNCHANGED <<kind, named, hindered, previous>>

Command(w) ==
    \/ Refuse(w)
    \/ Check(w)
    \/ Create(w)
    \/ Enter(w)
    \/ Write(w)
    \/ Sync(w)
    \/ Fail(w)
    \/ Replace(w)
    \/ Return(w)
    \/ CleanUp(w)
    \/ Interrupt(w)
    \/ Kill(w)

Next ==
    \/ \E w \in Writers : Command(w)
    \/ PowerFails

Spec == Init /\ [][Next]_vars

-----------------------------------------------------------------------------
\* Whoever reads the path finds nothing or a complete output, at every moment
\* and after a power failure.
TargetIsWhole == target # None => target.state # "partial"

\* A published bundle stays: no command given the same path replaces it, not
\* even one that checked the path before it was there, and the path never
\* holds the output of a command that reported an error.
BundleStays ==
    power => \A w \in Writers :
        /\ (pc[w] \in {"replaced", "done"} /\ kind[w] = "bundle")
              => target # None /\ target.by = w
        /\ (target # None /\ target.by = w) => pc[w] # "error"

\* What a command leaves beside the path when it has ended, other than by being
\* killed, and nothing stopped its clean-up: of a bundle nothing once it was
\* inside its try, not even after an interrupt at any step of it; of a file at
\* most one that was not yet complete when writing it failed.
OnlyUnfinishedFilesStay ==
    \A w \in Writers : ~hindered[w] =>
        /\ (kind[w] = "bundle" /\ pc[w] \in {"done", "error"}) => temporary[w] = "absent"
        /\ (kind[w] = "bundle" /\ pc[w] = "interrupted" /\ named[w])
              => temporary[w] = "absent"
        /\ (kind[w] # "bundle" /\ pc[w] \in {"done", "error"})
              => temporary[w] # "durable"
=============================================================================
