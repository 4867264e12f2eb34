-------------------------- MODULE Publication_proofs --------------------------
(* What a reader of what is published can rely on: of the path, proved for *)
(* any number of commands that were given it (module FilePublish), and of  *)
(* what a report and evidence show of a response, proved for every         *)
(* response, and every verdict on it (modules Disclosure and Trajectory).  *)
EXTENDS FilePublish, Disclosure, Trajectory, SequenceTheorems, FiniteSetTheorems, TLAPS

Steps == {"start", "checked", "created", "writing", "flushed", "ready", "replaced",
          "failed", "stopping", "done", "error", "interrupted", "killed"}

FileTypes ==
    /\ kind \in [Writers -> Kinds]
    /\ pc \in [Writers -> Steps]
    /\ temporary \in [Writers -> {"absent", "partial", "cached", "durable"}]
    /\ named \in [Writers -> BOOLEAN]
    /\ hindered \in [Writers -> BOOLEAN]
    /\ target \in Outputs \union {None}
    /\ previous \in Outputs \union {None}
    /\ power \in BOOLEAN

\* What the temporary sibling is at each step of its command, and when the
\* handler would clean it up.
Sibling(w) ==
    /\ pc[w] \in {"start", "checked", "replaced", "done"} => temporary[w] = "absent"
    /\ pc[w] \in {"created", "writing"} => temporary[w] = "partial"
    /\ pc[w] = "flushed" => temporary[w] = "cached"
    /\ pc[w] = "ready" => temporary[w] = "durable" /\ named[w]
    /\ pc[w] = "failed" /\ temporary[w] = "durable" => named[w]
    /\ pc[w] = "error" /\ ~hindered[w] => temporary[w] # "durable"
    /\ pc[w] = "created" => kind[w] = "bundle" /\ ~named[w]
    /\ pc[w] = "stopping" => kind[w] = "bundle" /\ named[w]
    /\ kind[w] = "bundle" =>
          /\ pc[w] \in {"start", "checked", "created"} => ~named[w]
          /\ pc[w] \in {"writing", "flushed", "replaced", "failed"} => named[w]
          /\ pc[w] = "error" /\ ~hindered[w] => temporary[w] = "absent"
          /\ pc[w] = "interrupted" /\ named[w] /\ ~hindered[w] => temporary[w] = "absent"

\* The steps at which the path may hold what the command wrote.
Published == {"replaced", "done", "stopping", "interrupted", "killed"}

\* A complete output is durable before it is renamed, so both what the path
\* holds and what a lost rename may bring back are; and while a bundle is at
\* the path no command that replaced it is done.
PublishInv ==
    /\ FileTypes
    /\ \A w \in Writers : Sibling(w)
    /\ target # None => target.state = "durable"
    /\ previous # None => previous.state = "durable"
    /\ power => \A w \in Writers :
          /\ pc[w] \in {"replaced", "done"} /\ kind[w] = "bundle" =>
                target # None /\ target.by = w
          /\ target # None /\ target.by = w =>
                pc[w] \in Published /\ target.form = Form(w)

LEMMA InitPublishInv == Init => PublishInv
<1> SUFFICES ASSUME Init PROVE PublishInv
  OBVIOUS
<1>1. target \in Outputs \union {None}
  BY DEF Init, OldFile, Outputs
<1>2. target # None => target = OldFile
  BY DEF Init
<1>3. QED
  BY <1>1, <1>2, NamesAssumption
  DEF Init, PublishInv, FileTypes, Sibling, OldFile, Steps, Form, Kinds

\* A step of one command that leaves the path as it is.
LEMMA LocalStep ==
    ASSUME PublishInv, NEW w \in Writers,
           UNCHANGED <<kind, target, previous, power>>, FileTypes',
           \A x \in Writers \ {w} : /\ pc'[x] = pc[x] /\ temporary'[x] = temporary[x]
                                    /\ named'[x] = named[x] /\ hindered'[x] = hindered[x],
           pc'[w] \in {"replaced", "done"} => pc[w] \in {"replaced", "done"},
           pc[w] \in Published => pc'[w] \in Published,
           Sibling(w)'
    PROVE  PublishInv'
<1>1. \A x \in Writers : Sibling(x)'
  BY DEF PublishInv, Sibling
<1>2. QED
  BY <1>1 DEF PublishInv, Form

LEMMA GotoSteps ==
    ASSUME FileTypes, NEW w \in Writers, NEW to \in Steps, Goto(w, to)
    PROVE  /\ pc' \in [Writers -> Steps] /\ pc'[w] = to
           /\ \A x \in Writers \ {w} : pc'[x] = pc[x]
BY DEF FileTypes, Goto

LEMMA ReplacePublishInv ==
    ASSUME PublishInv, NEW w \in Writers, Replace(w)
    PROVE  PublishInv'
<1> USE DEF PublishInv
<1>1. CASE ~Fits(w)
  <2>1. /\ Goto(w, "failed") /\ pc[w] = "ready"
        /\ UNCHANGED <<kind, temporary, named, hindered, target, previous, power>>
    BY <1>1 DEF Replace, At
  <2>2. /\ pc' \in [Writers -> Steps] /\ pc'[w] = "failed"
        /\ \A x \in Writers \ {w} : pc'[x] = pc[x]
    BY <2>1, GotoSteps DEF Steps
  <2>3. FileTypes' /\ Sibling(w)'
    BY <2>1, <2>2 DEF FileTypes, Sibling
  <2>4. QED
    BY <2>1, <2>2, <2>3, LocalStep DEF Published
<1>2. CASE Fits(w)
  <2>1. /\ Goto(w, "replaced") /\ pc[w] = "ready" /\ power
        /\ previous' = target
        /\ target' = [by |-> w, form |-> Form(w), state |-> temporary[w]]
        /\ temporary' = [temporary EXCEPT ![w] = "absent"]
        /\ UNCHANGED <<kind, named, hindered, power>>
    BY <1>2 DEF Replace, At
  <2>2. /\ pc' \in [Writers -> Steps] /\ pc'[w] = "replaced"
        /\ \A x \in Writers \ {w} : pc'[x] = pc[x]
    BY <2>1, GotoSteps DEF Steps
  <2>3. /\ target'.by = w /\ target'.form = Form(w) /\ target'.state = "durable"
        /\ target' \in Outputs
        /\ w # Old
    BY <2>1, NamesAssumption DEF Sibling, Form, Outputs
  <2>4. FileTypes'
    BY <2>1, <2>2, <2>3 DEF FileTypes
  <2>5. \A x \in Writers : Sibling(x)'
    BY <2>1, <2>2 DEF Sibling, FileTypes
  <2>6. \A x \in Writers : ~(pc[x] \in {"replaced", "done"} /\ kind[x] = "bundle")
    BY <1>2, <2>1 DEF Fits, Form
  <2>7. QED
    BY <2>1, <2>2, <2>3, <2>4, <2>5, <2>6, NamesAssumption DEF Form, Published
<1>3. QED
  BY <1>1, <1>2

\* What cleaning up, or an interrupt of it, leaves.
LEMMA CleanUpLeaves ==
    ASSUME FileTypes, NEW w \in Writers
    PROVE  /\ Remains(w) \subseteq {"absent", "partial", "cached", "durable"}
           /\ Cleaned(w) \in {"absent", "partial", "cached", "durable"}
BY DEF FileTypes, Remains, Cleaned

LEMMA CleaningSteps ==
    ASSUME FileTypes, NEW w \in Writers, CleanUp(w) \/ Interrupt(w)
    PROVE  /\ pc' \in [Writers -> Steps] /\ FileTypes'
           /\ UNCHANGED <<kind, named, target, previous, power>>
           /\ \A x \in Writers \ {w} : /\ pc'[x] = pc[x] /\ temporary'[x] = temporary[x]
                                       /\ hindered'[x] = hindered[x]
<1>1. PICK to \in Steps : Goto(w, to)
  BY DEF CleanUp, Interrupt, Steps
<1>2. /\ pc' \in [Writers -> Steps] /\ pc'[w] = to
      /\ \A x \in Writers \ {w} : pc'[x] = pc[x]
  BY <1>1, GotoSteps
<1>3. UNCHANGED <<kind, named, target, previous, power>>
  BY DEF CleanUp, Interrupt
<1>4. \/ temporary' = temporary
      \/ \E left \in Remains(w) \union {Cleaned(w)} :
            temporary' = [temporary EXCEPT ![w] = left]
  BY DEF CleanUp, Interrupt
<1>5. hindered' = hindered \/ hindered' = [hindered EXCEPT ![w] = TRUE]
  BY DEF CleanUp, Interrupt
<1>6. /\ temporary' \in [Writers -> {"absent", "partial", "cached", "durable"}]
      /\ \A x \in Writers \ {w} : temporary'[x] = temporary[x]
  BY <1>4, CleanUpLeaves DEF FileTypes
<1>7. /\ hindered' \in [Writers -> BOOLEAN]
      /\ \A x \in Writers \ {w} : hindered'[x] = hindered[x]
  BY <1>5 DEF FileTypes
<1> QED
  BY <1>2, <1>3, <1>6, <1>7 DEF FileTypes

LEMMA CleanUpPublishInv ==
    ASSUME PublishInv, NEW w \in Writers, CleanUp(w)
    PROVE  PublishInv'
<1>1. FileTypes /\ Sibling(w)
  BY DEF PublishInv
<1>2. /\ pc' \in [Writers -> Steps] /\ FileTypes'
      /\ UNCHANGED <<kind, named, target, previous, power>>
      /\ \A x \in Writers \ {w} : /\ pc'[x] = pc[x] /\ temporary'[x] = temporary[x]
                                  /\ hindered'[x] = hindered[x]
  BY <1>1, CleaningSteps
<1>3. \/ pc[w] = "failed" /\ Goto(w, "error")
      \/ pc[w] = "stopping" /\ Goto(w, "interrupted")
  BY DEF CleanUp, At
<1>4. \/ pc[w] = "failed" /\ pc'[w] = "error"
      \/ pc[w] = "stopping" /\ pc'[w] = "interrupted"
  BY <1>1, <1>3, GotoSteps DEF Steps
<1>5. hindered'[w] \/ temporary'[w] = Cleaned(w)
  BY <1>1 DEF CleanUp, FileTypes
<1>6. Sibling(w)'
  BY <1>1, <1>2, <1>4, <1>5 DEF Sibling, Cleaned
<1> QED
  BY <1>2, <1>4, <1>6, LocalStep DEF Published

LEMMA InterruptPublishInv ==
    ASSUME PublishInv, NEW w \in Writers, Interrupt(w)
    PROVE  PublishInv'
<1>1. FileTypes /\ Sibling(w)
  BY DEF PublishInv
<1>2. /\ pc' \in [Writers -> Steps] /\ FileTypes'
      /\ UNCHANGED <<kind, named, target, previous, power>>
      /\ \A x \in Writers \ {w} : /\ pc'[x] = pc[x] /\ temporary'[x] = temporary[x]
                                  /\ hindered'[x] = hindered[x]
  BY <1>1, CleaningSteps
<1>3. pc[w] \notin {"done", "error", "interrupted", "killed"}
  BY DEF Interrupt, Active
<1>4. CASE pc[w] \in {"failed", "stopping"}
  <2>1. Goto(w, "interrupted") /\ hindered'[w]
    BY <1>1, <1>4 DEF Interrupt, FileTypes
  <2>2. pc'[w] = "interrupted"
    BY <1>1, <2>1, GotoSteps DEF Steps
  <2>3. Sibling(w)'
    BY <1>1, <1>2, <2>1, <2>2 DEF Sibling
  <2> QED
    BY <1>2, <1>3, <2>2, <2>3, LocalStep DEF Published
<1>5. CASE pc[w] \notin {"failed", "stopping"}
  <2>1. /\ Goto(w, IF kind[w] = "bundle" /\ named[w] THEN "stopping" ELSE "interrupted")
        /\ UNCHANGED <<temporary, hindered>>
    BY <1>5 DEF Interrupt
  <2>2. pc'[w] = IF kind[w] = "bundle" /\ named[w] THEN "stopping" ELSE "interrupted"
    BY <1>1, <2>1, GotoSteps DEF Steps
  <2>3. Sibling(w)'
    BY <1>1, <1>2, <2>1, <2>2 DEF Sibling
  <2> QED
    BY <1>2, <1>3, <2>2, <2>3, LocalStep DEF Published
<1> QED
  BY <1>4, <1>5

LEMMA CommandPublishInv ==
    ASSUME PublishInv, NEW w \in Writers, Command(w)
    PROVE  PublishInv'
<1>0. FileTypes /\ Sibling(w)
  BY DEF PublishInv
<1>1. ASSUME NEW to \in Steps, Goto(w, to), to \notin {"replaced", "done"},
             pc[w] \notin Published,
             UNCHANGED <<kind, target, previous, power, hindered>>,
             temporary' \in [Writers -> {"absent", "partial", "cached", "durable"}],
             named' \in [Writers -> BOOLEAN],
             \A x \in Writers \ {w} :
                temporary'[x] = temporary[x] /\ named'[x] = named[x],
             Sibling(w)'
      PROVE  PublishInv'
  <2>1. /\ pc' \in [Writers -> Steps] /\ pc'[w] = to
        /\ \A x \in Writers \ {w} : pc'[x] = pc[x]
    BY <1>0, <1>1, GotoSteps
  <2>2. FileTypes'
    BY <1>0, <1>1, <2>1 DEF FileTypes
  <2>3. QED
    BY <1>1, <2>1, <2>2, LocalStep
<1>2. ASSUME NEW to \in Steps, Goto(w, to),
             to \in {"replaced", "done"} => pc[w] \in {"replaced", "done"},
             pc[w] \in Published => to \in Published,
             UNCHANGED <<kind, target, previous, power, temporary, named, hindered>>,
             pc'[w] = to => Sibling(w)'
      PROVE  PublishInv'
  <2>1. /\ pc' \in [Writers -> Steps] /\ pc'[w] = to
        /\ \A x \in Writers \ {w} : pc'[x] = pc[x]
    BY <1>0, <1>2, GotoSteps
  <2>2. FileTypes'
    BY <1>0, <1>2, <2>1 DEF FileTypes
  <2>3. QED
    BY <1>2, <2>1, <2>2, LocalStep
<1>3. CASE Refuse(w) \/ Check(w)
  BY <1>0, <1>2, <1>3 DEF Refuse, Check, At, Sibling, Steps, Published
<1>4. CASE Create(w) \/ Enter(w) \/ Write(w) \/ Sync(w)
  <2>1. PICK to \in Steps : Goto(w, to) /\ to \notin {"replaced", "done"} /\ pc[w] \notin Published
    BY <1>4 DEF Create, Enter, Write, Sync, At, Steps, Published
  <2>2. pc'[w] = to
    BY <1>0, <2>1, GotoSteps
  <2>3. /\ UNCHANGED <<kind, target, previous, power, hindered>>
        /\ temporary' \in [Writers -> {"absent", "partial", "cached", "durable"}]
        /\ named' \in [Writers -> BOOLEAN]
        /\ \A x \in Writers \ {w} :
              temporary'[x] = temporary[x] /\ named'[x] = named[x]
    BY <1>0, <1>4 DEF Create, Enter, Write, Sync, FileTypes
  <2>4. Sibling(w)'
    <3>1. CASE Create(w)
      BY <1>0, <2>2, <3>1 DEF Create, FileTypes, Sibling, Goto, At
    <3>2. CASE Enter(w)
      BY <1>0, <2>2, <3>2 DEF Enter, FileTypes, Sibling, Goto, At
    <3>3. CASE Write(w) \/ Sync(w)
      BY <1>0, <2>2, <3>3 DEF Write, Sync, FileTypes, Sibling, Goto, At
    <3> QED
      BY <1>4, <3>1, <3>2, <3>3
  <2>5. QED
    BY <1>1, <2>1, <2>3, <2>4
<1>5. CASE Fail(w) \/ Return(w)
  BY <1>0, <1>2, <1>5 DEF Fail, Return, At, Sibling, Steps, Published
<1>6. CASE Kill(w)
  BY <1>0, <1>2, <1>6 DEF Kill, Active, Sibling, Steps, Published
<1>7. QED
  BY <1>3, <1>4, <1>5, <1>6, ReplacePublishInv, CleanUpPublishInv, InterruptPublishInv
  DEF Command

LEMMA PowerPublishInv == PublishInv /\ PowerFails => PublishInv'
<1> SUFFICES ASSUME PublishInv, PowerFails PROVE PublishInv'
  OBVIOUS
<1>1. target' \in {target, previous}
  BY DEF PowerFails, Damaged, PublishInv
<1>2. FileTypes'
  BY <1>1 DEF PowerFails, PublishInv, FileTypes, Steps
<1>3. \A w \in Writers : Sibling(w)'
  BY DEF PowerFails, PublishInv, FileTypes, Sibling, Active
<1>4. QED
  BY <1>1, <1>2, <1>3 DEF PowerFails, PublishInv

LEMMA PublishInvariant == Spec => []PublishInv
<1>1. PublishInv /\ [Next]_vars => PublishInv'
  <2>1. PublishInv /\ UNCHANGED vars => PublishInv'
    BY DEF vars, PublishInv, FileTypes, Sibling, Form
  <2>2. QED
    BY <2>1, CommandPublishInv, PowerPublishInv DEF Next
<1>2. QED
  BY <1>1, InitPublishInv, PTL DEF Spec

\* At every moment, and after a power failure that loses the last rename, the
\* path holds nothing or a complete output: however many commands write to it
\* and wherever each of them stops.
THEOREM PathIsNeverPartial == Spec => []TargetIsWhole
<1>1. PublishInv => TargetIsWhole
  BY DEF PublishInv, TargetIsWhole
<1>2. QED
  BY <1>1, PublishInvariant, PTL

\* No command replaces a published bundle, even one that looked at the path
\* before the bundle was there, and what is at the path never belongs to a
\* command that reported an error.
THEOREM BundlesStay == Spec => []BundleStays
<1>1. PublishInv => BundleStays
  BY DEF PublishInv, BundleStays, Published
<1>2. QED
  BY <1>1, PublishInvariant, PTL

\* A command that ended other than by being killed, and whose clean-up nothing
\* stopped, left no temporary bundle once it was inside its try, and of a file
\* no complete temporary sibling.
THEOREM OnlyUnfinishedStays == Spec => []OnlyUnfinishedFilesStay
<1>1. PublishInv => OnlyUnfinishedFilesStay
  BY DEF PublishInv, FileTypes, Sibling, OnlyUnfinishedFilesStay
<1>2. QED
  BY <1>1, PublishInvariant, PTL

-----------------------------------------------------------------------------
(* Induction, from the least counterexample.                                *)

LEMMA LeastOf ==
    ASSUME NEW T \in SUBSET Nat, T # {}
    PROVE  \E x \in T : \A y \in T : x <= y
<1> DEFINE U == {0..x : x \in T}
           R == StrictSubsetOrdering(Nat)
<1>1. IsWellFoundedOn(R, FiniteSubsetsOf(Nat))
  BY FS_StrictSubsetOrderingWellFounded
<1>2. U \subseteq FiniteSubsetsOf(Nat) /\ U # {}
  <2>1. \A x \in T : IsFiniteSet(0..x) /\ (0..x) \subseteq Nat
    BY FS_Interval
  <2> QED
    BY <2>1 DEF FiniteSubsetsOf
<1>3. \E u \in U : \A v \in U : <<v, u>> \notin R
  <2> HIDE DEF U, R
  <2> QED
    BY <1>1, <1>2, WFMin
<1>4. PICK x \in T : \A y \in T : <<0..y, 0..x>> \notin R
  BY <1>3
<1>5. ASSUME NEW y \in T, y < x
      PROVE  FALSE
  <2>1. (0..y) \subseteq (0..x) /\ x \in 0..x /\ x \notin 0..y
    BY <1>5
  <2>2. 0..y \in SUBSET Nat /\ 0..x \in SUBSET Nat /\ 0..y # 0..x
    BY <2>1
  <2>3. <<0..y, 0..x>> \in R
    BY <2>1, <2>2 DEF StrictSubsetOrdering
  <2> QED
    BY <1>4, <2>3
<1> QED
  BY <1>5

LEMMA Induction ==
    ASSUME NEW S, 0 \in S, \A k \in Nat : k \in S => k + 1 \in S
    PROVE  \A n \in Nat : n \in S
<1> DEFINE T == {k \in Nat : k \notin S}
<1> SUFFICES ASSUME T # {} PROVE FALSE
  OBVIOUS
<1>1. PICK m \in T : \A y \in T : m <= y
  <2>1. T \in SUBSET Nat
    OBVIOUS
  <2> HIDE DEF T
  <2> QED
    BY <2>1, LeastOf
<1>2. m \in Nat /\ m # 0 /\ m - 1 \in Nat /\ (m - 1) + 1 = m
  OBVIOUS
<1>3. m - 1 \notin T
  BY <1>1, <1>2
<1> QED
  BY <1>2, <1>3

LEMMA MinIs ==
    ASSUME NEW T \in SUBSET Nat, T # {}
    PROVE  Min(T) \in T /\ \A y \in T : Min(T) <= y
<1>1. \E x \in T : \A y \in T : x <= y
  BY LeastOf
<1> QED
  BY <1>1 DEF Min

-----------------------------------------------------------------------------
(* Receipts and mandates.                                                   *)

\* The parts that hold a token which verifies for a mandate assertion.
Verifying(e, parts, sdk) ==
    {k \in 1..Len(parts) :
        MatchesLocation(e, parts[k]) /\ Verifies(e, Resolve(parts[k].value, e.path), sdk)}

LEMMA VerifiedIs ==
    ASSUME NEW e, NEW parts, NEW sdk
    PROVE  IF Verifying(e, parts, sdk) = {} THEN Verified(e, parts, sdk) = NoToken
           ELSE \E k \in Verifying(e, parts, sdk) :
                   Verified(e, parts, sdk) = Resolve(parts[k].value, e.path).atom
<1> DEFINE I == Verifying(e, parts, sdk)
           k == IF I # {} THEN Min(I) ELSE 0
<1>1. Verified(e, parts, sdk) = IF k = 0 THEN NoToken ELSE Resolve(parts[k].value, e.path).atom
  BY DEF Verified, SelectInSeq, Verifying
<1>2. I \in SUBSET Nat /\ 0 \notin I
  BY DEF Verifying
<1>3. CASE I # {}
  <2>1. Min(I) \in I
    <3> HIDE DEF I
    <3> QED
      BY <1>2, <1>3, MinIs
  <2>2. k \in I /\ k # 0
    BY <1>2, <1>3, <2>1
  <2> QED
    BY <1>1, <1>3, <2>2
<1> QED
  BY <1>1, <1>3

\* The assertion a receipt binds to.
MandateOf(list, e) ==
    CHOOSE j \in DOMAIN list : IsMandate(list[j]) /\ list[j].id = e.binds_to

LEMMA BoundMandate ==
    ASSUME NEW list, ValidBindings(list), NEW k \in DOMAIN list, ~IsMandate(list[k])
    PROVE  /\ MandateOf(list, list[k]) \in DOMAIN list
           /\ IsMandate(list[MandateOf(list, list[k])])
           /\ list[MandateOf(list, list[k])].id = list[k].binds_to
           /\ list[k].binds_to # "none"
           /\ \A j \in DOMAIN list :
                 IsMandate(list[j]) /\ list[j].id = list[k].binds_to
                    => j = MandateOf(list, list[k])
<1> DEFINE Named(id) == {j \in DOMAIN list :
                            IsMandate(list[j]) /\ list[j].id = id /\ id # "none"}
           m == MandateOf(list, list[k])
<1>1. \E j \in DOMAIN list : IsMandate(list[j]) /\ list[j].id = list[k].binds_to
  BY DEF ValidBindings
<1>2. m \in DOMAIN list /\ IsMandate(list[m]) /\ list[m].id = list[k].binds_to
  BY <1>1 DEF MandateOf
<1>3. list[k].binds_to # "none"
  BY DEF ValidBindings
<1>4. ASSUME NEW j \in DOMAIN list, IsMandate(list[j]), list[j].id = list[k].binds_to
      PROVE  j = m
  <2>1. Named(list[m].id) = {m}
    BY <1>2, <1>3 DEF ValidBindings
  <2>2. j \in Named(list[m].id)
    BY <1>2, <1>3, <1>4
  <2> QED
    BY <2>1, <2>2
<1> QED
  BY <1>2, <1>3, <1>4

\* What is known of a response, and of what was made of it.
Judged ==
    /\ unproven = DOMAIN response.ap2 \ AP2Holds(response.ap2, response.data, response.sdk)
    /\ reported = IF response.leaks THEN <<>> ELSE Redact(response.ap2, response.data)

Recorded ==
    \E order \in LongestFirst(Secrets(response.config)) :
        evidence = [text |-> EvidenceText(order, IF response.leaks THEN REDACTED_RESPONSE
                                                 ELSE response.text),
                    failure |-> RedactText(order, Preview(response.rendered))]

DiscloseInv ==
    /\ response \in Responses
    /\ progress \in {"received", "judged", "recorded", "abandoned"}
    /\ progress # "received" => Judged
    /\ progress = "recorded" => Recorded

LEMMA DiscloseInvariant == DiscloseSpec => []DiscloseInv
<1>1. DiscloseInit => DiscloseInv
  BY DEF DiscloseInit, Received, DiscloseInv
<1>2. DiscloseInv /\ [DiscloseNext]_responseVars => DiscloseInv'
  <2> SUFFICES ASSUME DiscloseInv, [DiscloseNext]_responseVars
               PROVE  DiscloseInv'
    OBVIOUS
  <2>1. ASSUME NEW others \in BOOLEAN, Report(others)
        PROVE  DiscloseInv'
    <3>1. Judged'
      BY <2>1 DEF Report, Judged
    <3> QED
      BY <2>1, <3>1 DEF Report, DiscloseInv
  <2>2. CASE Keep
    <3>1. Recorded'
      BY <2>2 DEF Keep, Recorded
    <3>2. Judged'
      BY <2>2 DEF Keep, Judged, DiscloseInv
    <3> QED
      BY <2>2, <3>1, <3>2 DEF Keep, DiscloseInv
  <2>3. CASE Abandon
    BY <2>3 DEF Abandon, results, DiscloseInv, Judged
  <2>4. CASE UNCHANGED responseVars
    BY <2>4 DEF responseVars, results, DiscloseInv, Judged, Recorded
  <2> QED
    BY <2>1, <2>2, <2>3, <2>4 DEF DiscloseNext
<1>3. QED
  BY <1>1, <1>2, PTL DEF DiscloseSpec

\* A mandate assertion verified a token it may have verified, if any.
LEMMA VerifiedIsProven ==
    ASSUME response \in Responses, NEW m
    PROVE  /\ Verified(m, response.data, response.sdk) # NoToken
                 => Verified(m, response.data, response.sdk) \in Proven(m)
           /\ Proven(m) # {} => Verified(m, response.data, response.sdk) # NoToken
<1> DEFINE I == Verifying(m, response.data, response.sdk)
           token == Verified(m, response.data, response.sdk)
<1>1. DOMAIN response.data = 1..Len(response.data)
  <2>1. response.data \in Seq(Parts)
    BY ResponsesAssumption
  <2> QED
    BY <2>1
<1>2. Proven(m) = {ValueAt(m, k).atom : k \in I}
  BY <1>1 DEF Proven, Located, ValueAt, Verifying, Verifies
<1>3. NoToken \notin Proven(m)
  BY ResponsesAssumption DEF Proven
<1>4. CASE I = {}
  BY <1>2, <1>4, VerifiedIs
<1>5. CASE I # {}
  <2>1. PICK k \in I : token = ValueAt(m, k).atom
    <3> HIDE DEF I
    <3> QED
      BY <1>5, VerifiedIs DEF I, ValueAt
  <2> QED
    BY <1>2, <1>3, <2>1
<1> QED
  BY <1>4, <1>5

LEMMA ReceiptNeedsMandate ==
    ASSUME response \in Responses, Judged,
           NEW k \in DOMAIN response.ap2, ~IsMandate(response.ap2[k]),
           NEW m, m = MandateOf(response.ap2, response.ap2[k]),
           NEW BoundTo, BoundTo = {t \in Proven(response.ap2[m]) :
                            \E j \in Located(response.ap2[k]) :
                               /\ ValueAt(response.ap2[k], j).type = "string"
                               /\ <<ValueAt(response.ap2[k], j).atom, t>>
                                     \in response.sdk.receipts}
    PROVE  /\ k \notin unproven => m \notin unproven /\ BoundTo # {}
           /\ \A t \in BoundTo : Proven(response.ap2[m]) = {t} => k \notin unproven
<1> DEFINE list == response.ap2
           e == list[k]
           token == Verified(list[m], response.data, response.sdk)
           references == References(list, response.data, response.sdk)
<1>1. /\ DOMAIN response.data = 1..Len(response.data)
      /\ ToSet(response.data) = {response.data[j] : j \in DOMAIN response.data}
      /\ ToSet(list) = {list[j] : j \in DOMAIN list}
      /\ ValidBindings(list)
  <2>1. response.data \in Seq(Parts) /\ ValidBindings(list)
    BY ResponsesAssumption
  <2> QED
    BY <2>1 DEF ToSet
<1>2. /\ m \in DOMAIN list /\ IsMandate(list[m]) /\ list[m].id = e.binds_to
      /\ e.binds_to # "none"
      /\ \A j \in DOMAIN list : IsMandate(list[j]) /\ list[j].id = e.binds_to => j = m
  BY <1>1, BoundMandate
<1>3. m \in unproven <=> token = NoToken
  BY <1>2 DEF Judged, AP2Holds
<1>4. \A reference \in references : reference[1] = e.binds_to
         => reference = <<list[m].id, token>> /\ token # NoToken
  <2> TAKE reference \in references
  <2>1. PICK j \in DOMAIN list : /\ IsMandate(list[j]) /\ list[j].id # "none"
                                 /\ Verified(list[j], response.data, response.sdk) # NoToken
                                 /\ reference = <<list[j].id,
                                       Verified(list[j], response.data, response.sdk)>>
    BY <1>1 DEF References
  <2> QED
    BY <1>2, <2>1
<1>5. token # NoToken => <<list[m].id, token>> \in references
  BY <1>1, <1>2 DEF References
<1>6. k \in unproven <=> ~ReceiptHolds(e, references, response.data, response.sdk)
  BY DEF Judged, AP2Holds
<1>7. ReceiptHolds(e, references, response.data, response.sdk)
         <=> /\ token # NoToken
             /\ \E j \in Located(e) : Binds(ValueAt(e, j), token, response.sdk)
  <2> HIDE DEF references
  <2>1. ReceiptHolds(e, references, response.data, response.sdk)
           <=> \E reference \in references, j \in Located(e) :
                  /\ reference[1] = e.binds_to
                  /\ Binds(ValueAt(e, j), reference[2], response.sdk)
    BY <1>1 DEF ReceiptHolds, Located, ValueAt
  <2> QED
    BY <1>2, <1>4, <1>5, <2>1
<1>8. /\ token # NoToken => token \in Proven(list[m])
      /\ Proven(list[m]) # {} => token # NoToken
  BY VerifiedIsProven
<1>9. token # NoToken =>
         (token \in BoundTo <=> \E j \in Located(e) : Binds(ValueAt(e, j), token, response.sdk))
  BY <1>8 DEF Binds
<1> HIDE DEF token, e, list, references
<1>10. k \notin unproven <=> token # NoToken /\ token \in BoundTo
  BY <1>6, <1>7, <1>9
<1>11. \A t \in BoundTo : Proven(response.ap2[m]) = {t} => token = t /\ token # NoToken
  BY <1>8 DEF list
<1> QED
  BY <1>3, <1>10, <1>11

\* Whatever tokens verify and however receipts and mandates are listed, a receipt
\* is accepted only with a mandate that was.
THEOREM ReceiptsNeedMandates == DiscloseSpec => []ReceiptsFollowMandates
<1>1. DiscloseInv => ReceiptsFollowMandates
  <2> SUFFICES ASSUME DiscloseInv, progress = "judged",
                      NEW k \in DOMAIN response.ap2, ~IsMandate(response.ap2[k])
               PROVE  LET e == response.ap2[k]
                          m == CHOOSE j \in DOMAIN response.ap2 :
                                  IsMandate(response.ap2[j]) /\ response.ap2[j].id = e.binds_to
                          BoundTo(t) ==
                              \E j \in Located(e) :
                                  /\ ValueAt(e, j).type = "string"
                                  /\ <<ValueAt(e, j).atom, t>> \in response.sdk.receipts
                          holds == k \notin unproven
                      IN /\ holds => /\ m \notin unproven
                                     /\ \E t \in Proven(response.ap2[m]) : BoundTo(t)
                         /\ \A t \in Proven(response.ap2[m]) :
                               Proven(response.ap2[m]) = {t} /\ BoundTo(t) => holds
    BY DEF ReceiptsFollowMandates
  <2> DEFINE e == response.ap2[k]
             m == MandateOf(response.ap2, e)
             bound == {t \in Proven(response.ap2[m]) :
                          \E j \in Located(e) :
                             /\ ValueAt(e, j).type = "string"
                             /\ <<ValueAt(e, j).atom, t>> \in response.sdk.receipts}
  <2>1. Judged /\ response \in Responses
    BY DEF DiscloseInv
  <2>2. /\ k \notin unproven => m \notin unproven /\ bound # {}
        /\ \A t \in bound : Proven(response.ap2[m]) = {t} => k \notin unproven
    BY <2>1, ReceiptNeedsMandate
  <2> QED
    BY <2>2 DEF MandateOf
<1>2. QED
  BY <1>1, DiscloseInvariant, PTL

-----------------------------------------------------------------------------
(* Recursive functions and state sequences.                                 *)

Stepping(step, N, S) == step \in [1..N -> [S -> S]]

Iterates(f, N, base, step, S) ==
    /\ f \in [0..N -> S]
    /\ f[0] = base
    /\ \A n \in 1..N : f[n] = step[n][f[n - 1]]

\* What is defined step by step from a set to itself is defined.
LEMMA Recursion ==
    ASSUME NEW N \in Nat, NEW S, NEW base \in S, NEW step, Stepping(step, N, S)
    PROVE  \E f : Iterates(f, N, base, step, S)
<1> USE DEF Stepping
<1> DEFINE Upto(n) == n <= N => \E f \in [0..n -> S] :
                         f[0] = base /\ \A i \in 1..n : f[i] = step[i][f[i - 1]]
           good == {n \in Nat : Upto(n)}
<1>1. Upto(0)
  <2> DEFINE f == [i \in 0..0 |-> base]
  <2>1. f \in [0..0 -> S] /\ f[0] = base /\ 1..0 = {}
    OBVIOUS
  <2> HIDE DEF f
  <2> QED
    BY <2>1
<1>2. ASSUME NEW n \in Nat, Upto(n)
      PROVE  Upto(n + 1)
  <2> SUFFICES ASSUME n + 1 <= N
               PROVE  \E f \in [0..(n + 1) -> S] :
                         f[0] = base /\ \A i \in 1..(n + 1) : f[i] = step[i][f[i - 1]]
    OBVIOUS
  <2>1. PICK f \in [0..n -> S] : f[0] = base /\ \A i \in 1..n : f[i] = step[i][f[i - 1]]
    BY <1>2
  <2> DEFINE more == [i \in 0..(n + 1) |-> IF i <= n THEN f[i] ELSE step[n + 1][f[n]]]
  <2>2. \A i \in 0..n : more[i] = f[i]
    OBVIOUS
  <2>3. more[n + 1] = step[n + 1][f[n]]
    <3>1. n + 1 \in 0..(n + 1) /\ ~(n + 1 <= n)
      OBVIOUS
    <3> QED
      BY <3>1
  <2>4. more \in [0..(n + 1) -> S]
    <3>1. n \in 0..n /\ n + 1 \in 1..N
      OBVIOUS
    <3>2. step[n + 1][f[n]] \in S
      BY <3>1
    <3> QED
      BY <3>2
  <2> HIDE DEF more
  <2>5. ASSUME NEW i \in 1..(n + 1)
        PROVE  more[i] = step[i][more[i - 1]]
    <3>1. CASE i = n + 1
      <4>1. i - 1 = n /\ n \in 0..n
        BY <3>1
      <4> QED
        BY <2>2, <2>3, <3>1, <4>1
    <3>2. CASE i \in 1..n
      <4>1. i \in 0..n /\ i - 1 \in 0..n
        BY <3>2
      <4> QED
        BY <2>1, <2>2, <3>2, <4>1
    <3> QED
      BY <3>1, <3>2
  <2>6. more[0] = base
    BY <2>1, <2>2
  <2> QED
    BY <2>4, <2>5, <2>6
<1>3. Upto(N)
  <2> HIDE DEF Upto
  <2>1. 0 \in good /\ \A n \in Nat : n \in good => n + 1 \in good
    BY <1>1, <1>2
  <2>2. N \in good
    <3> HIDE DEF good
    <3> QED
      BY <2>1, Induction
  <2> QED
    BY <2>2
<1> QED
  BY <1>3 DEF Iterates

LEMMA AdvanceIs ==
    ASSUME NEW S, NEW states \in Seq(S), NEW read \in Nat, NEW item
    PROVE  /\ Advance(states, read, item) \in Nat
           /\ Advance(states, read, item) <= Len(states) =>
                 /\ read < Advance(states, read, item)
                 /\ Advance(states, read, item) \in DOMAIN states
                 /\ states[Advance(states, read, item)] = item
           /\ \A k \in DOMAIN states :
                 k > read /\ states[k] = item => Advance(states, read, item) <= k
<1> DEFINE ahead == {k \in DOMAIN states : k > read /\ states[k] = item}
<1>1. Advance(states, read, item) = IF ahead = {} THEN Len(states) + 1 ELSE Min(ahead)
  BY DEF Advance
<1>2. ahead \in SUBSET Nat
  OBVIOUS
<1>3. CASE ahead = {}
  BY <1>1, <1>3
<1>4. CASE ahead # {}
  <2>1. Min(ahead) \in ahead /\ \A k \in ahead : Min(ahead) <= k
    <3> HIDE DEF ahead
    <3> QED
      BY <1>2, <1>4, MinIs
  <2> QED
    BY <1>1, <1>4, <2>1
<1> QED
  BY <1>3, <1>4

\* Where the search for the expected states is after each of them.
Search(f, expected, states) ==
    /\ f \in [0..Len(expected) -> Nat]
    /\ f[0] = 0
    /\ \A n \in 1..Len(expected) : f[n] = Advance(states, f[n - 1], expected[n])

LEMMA SearchIs ==
    ASSUME NEW S, NEW expected \in Seq(S), NEW states \in Seq(S)
    PROVE  \E f : /\ Search(f, expected, states)
                  /\ InOrder(expected, states) <=> f[Len(expected)] <= Len(states)
<1> DEFINE N == Len(expected)
           Body(c) == [n \in 0..N |->
                          IF n = 0 THEN 0 ELSE Advance(states, c[n - 1], expected[n])]
           h == CHOOSE c : c = Body(c)
           step == [n \in 1..N |-> [x \in Nat |-> Advance(states, x, expected[n])]]
<1>1. N \in Nat
  OBVIOUS
<1>2. step \in [1..N -> [Nat -> Nat]]
  <2>1. \A n \in 1..N, x \in Nat : Advance(states, x, expected[n]) \in Nat
    BY AdvanceIs
  <2> QED
    BY <2>1
<1>3. PICK f \in [0..N -> Nat] : f[0] = 0 /\ \A n \in 1..N : f[n] = step[n][f[n - 1]]
  <2>1. Stepping(step, N, Nat) /\ 0 \in Nat
    BY <1>2 DEF Stepping
  <2>2. \E f : Iterates(f, N, 0, step, Nat)
    <3> HIDE DEF N, step
    <3> QED
      BY <1>1, <2>1, Recursion
  <2> QED
    BY <2>2 DEF Iterates
<1>4. \A n \in 1..N : n - 1 \in 0..N /\ f[n] = Advance(states, f[n - 1], expected[n])
  <2> TAKE n \in 1..N
  <2>1. n - 1 \in 0..N
    BY <1>1
  <2>2. f[n - 1] \in Nat
    BY <2>1
  <2> QED
    BY <1>3, <2>1, <2>2
<1>5. f = Body(f)
  BY <1>1, <1>3, <1>4
<1>6. h = Body(h)
  <2> HIDE DEF Body
  <2> QED
    BY <1>5, Zenon
<1>7. DOMAIN h = 0..N /\ h[0] = 0
      /\ \A n \in 1..N : h[n] = Advance(states, h[n - 1], expected[n])
  <2>1. /\ DOMAIN h = 0..N
        /\ \A n \in 0..N : h[n] = IF n = 0 THEN 0 ELSE Advance(states, h[n - 1], expected[n])
    <3> HIDE DEF h
    <3> QED
      BY <1>6
  <2> HIDE DEF h
  <2> QED
    BY <1>1, <2>1
<1>8. InOrder(expected, states) <=> h[N] <= Len(states)
  BY Zenon DEF InOrder
<1>9. \A n \in 0..N : h[n] \in Nat
  <2> HIDE DEF h, N
  <2> DEFINE good == {n \in Nat : n <= N => h[n] \in Nat}
  <2>1. 0 \in good
    BY <1>7
  <2>2. \A n \in Nat : n \in good => n + 1 \in good
    <3> SUFFICES ASSUME NEW n \in Nat, n \in good, n + 1 <= N
                 PROVE  h[n + 1] \in Nat
      OBVIOUS
    <3>1. n + 1 \in 1..N /\ (n + 1) - 1 = n /\ h[n] \in Nat
      BY <1>1
    <3> QED
      BY <1>7, <3>1, AdvanceIs
  <2>3. \A n \in Nat : n \in good
    <3> HIDE DEF good
    <3> QED
      BY <2>1, <2>2, Induction
  <2> QED
    BY <1>1, <2>3
<1>10. h \in [0..N -> Nat]
  <2>1. h = [n \in 0..N |-> h[n]]
    <3> HIDE DEF h
    <3> QED
      BY <1>6
  <2> HIDE DEF h, N
  <2> QED
    BY <1>9, <2>1
<1>11. Search(h, expected, states)
  <2> HIDE DEF h
  <2> QED
    BY <1>7, <1>10 DEF Search
<1> QED
  <2> HIDE DEF h
  <2> QED
    BY <1>8, <1>11

\* Up to the end of a search that found all, every state was found after the last.
LEMMA SearchRises ==
    ASSUME NEW S, NEW expected \in Seq(S), NEW states \in Seq(S),
           NEW f, Search(f, expected, states), f[Len(expected)] <= Len(states)
    PROVE  /\ \A n \in DOMAIN expected : f[n] \in DOMAIN states /\ states[f[n]] = expected[n]
           /\ \A j, k \in DOMAIN expected : j < k => f[j] < f[k]
<1> DEFINE N == Len(expected)
           Rises(n) == \A j \in 0..n : /\ f[j] <= f[n]
                                       /\ j < n => f[j] < f[n]
           good == {n \in Nat : n <= N /\ f[n] <= Len(states) => Rises(n)}
<1>1. N \in Nat /\ DOMAIN expected = 1..N /\ f \in [0..N -> Nat] /\ Len(states) \in Nat
  BY DEF Search
<1>2. ASSUME NEW n \in 1..N, f[n] <= Len(states)
      PROVE  /\ f[n - 1] < f[n]
             /\ f[n] \in DOMAIN states
             /\ states[f[n]] = expected[n]
  <2>1. n - 1 \in 0..N /\ f[n - 1] \in Nat
    BY <1>1
  <2>2. f[n] = Advance(states, f[n - 1], expected[n])
    BY DEF Search
  <2> QED
    BY <1>2, <2>1, <2>2, AdvanceIs
<1>3. 0 \in good
  BY <1>1
<1>4. \A n \in Nat : n \in good => n + 1 \in good
  <2> SUFFICES ASSUME NEW n \in Nat, n \in good, n + 1 <= N, f[n + 1] <= Len(states)
               PROVE  Rises(n + 1)
    OBVIOUS
  <2>1. n + 1 \in 1..N /\ (n + 1) - 1 = n /\ n \in 0..N /\ n + 1 \in 0..N
    BY <1>1
  <2>2. f[n] < f[n + 1]
    BY <1>2, <2>1
  <2>3. Rises(n)
    BY <1>1, <2>1, <2>2
  <2>4. \A j \in 0..(n + 1) : j \in 0..n \/ j = n + 1
    OBVIOUS
  <2>5. \A j \in 0..n : f[j] \in Nat
    BY <1>1, <2>1
  <2> QED
    BY <1>1, <2>1, <2>2, <2>3, <2>4, <2>5
<1>5. \A n \in Nat : n \in good
  <2> HIDE DEF good
  <2> QED
    BY <1>3, <1>4, Induction
<1>6. Rises(N)
  BY <1>1, <1>5
<1>7. \A n \in 0..N : f[n] <= Len(states) /\ Rises(n)
  <2> TAKE n \in 0..N
  <2>1. f[n] \in Nat /\ f[N] \in Nat /\ f[n] <= f[N]
    BY <1>1, <1>6
  <2>2. f[n] <= Len(states)
    BY <1>1, <2>1
  <2> QED
    BY <1>1, <1>5, <2>2
<1> QED
  BY <1>1, <1>2, <1>7

\* The search is never ahead of a way to find the states.
LEMMA SearchIsFirst ==
    ASSUME NEW S, NEW expected \in Seq(S), NEW states \in Seq(S),
           NEW f, Search(f, expected, states), Embeds(expected, states)
    PROVE  f[Len(expected)] <= Len(states)
<1> DEFINE N == Len(expected)
<1>1. N \in Nat /\ DOMAIN expected = 1..N /\ f \in [0..N -> Nat] /\ f[0] = 0
      /\ DOMAIN states = 1..Len(states) /\ Len(states) \in Nat
  BY DEF Search
<1>2. PICK g \in [DOMAIN expected -> DOMAIN states] :
         /\ \A k \in DOMAIN expected : states[g[k]] = expected[k]
         /\ \A j, k \in DOMAIN expected : j < k => g[j] < g[k]
  BY DEF Embeds
<1> DEFINE Below(n) == n \in 1..N => f[n] <= g[n]
           good == {n \in Nat : Below(n)}
<1>3. 0 \in good
  OBVIOUS
<1>4. ASSUME NEW n \in Nat, Below(n), n + 1 \in 1..N
      PROVE  f[n + 1] <= g[n + 1]
  <2>1. n \in 0..N /\ f[n] \in Nat /\ g[n + 1] \in DOMAIN states /\ (n + 1) - 1 = n
    BY <1>1, <1>2, <1>4
  <2>2. f[n] < g[n + 1]
    <3>1. CASE n = 0
      BY <1>1, <2>1, <3>1
    <3>2. CASE n # 0
      <4>1. n \in 1..N /\ f[n] <= g[n]
        BY <1>1, <1>4, <3>2
      <4>2. g[n] \in 1..Len(states) /\ g[n + 1] \in 1..Len(states)
        BY <1>1, <1>2, <1>4, <4>1
      <4>3. g[n] < g[n + 1]
        BY <1>1, <1>2, <1>4, <4>1
      <4> QED
        BY <1>1, <2>1, <4>1, <4>2, <4>3
    <3> QED
      BY <3>1, <3>2
  <2>3. f[n + 1] = Advance(states, f[n], expected[n + 1])
    BY <1>4, <2>1 DEF Search
  <2> QED
    BY <1>1, <1>2, <1>4, <2>1, <2>2, <2>3, AdvanceIs
<1>5. \A n \in Nat : n \in good
  <2>1. \A n \in Nat : Below(n) => Below(n + 1)
    BY <1>4
  <2>2. \A n \in Nat : n \in good => n + 1 \in good
    <3> HIDE DEF Below
    <3> QED
      BY <2>1
  <2> HIDE DEF good
  <2> QED
    BY <1>3, <2>2, Induction
<1>6. CASE N = 0
  BY <1>1, <1>6
<1>7. CASE N # 0
  <2>1. N \in 1..N /\ N \in Nat
    BY <1>1, <1>7
  <2>2. f[N] <= g[N] /\ g[N] \in 1..Len(states) /\ f[N] \in Nat
    BY <1>1, <1>2, <1>5, <2>1
  <2> QED
    BY <1>1, <2>2
<1> QED
  BY <1>6, <1>7

\* contains_in_order, one pass over the states that every expected state
\* consumes, accepts exactly the sequences that the expected states can be
\* embedded in, of every length.
THEOREM ContainsInOrder ==
    ASSUME NEW S, NEW expected \in Seq(S), NEW states \in Seq(S)
    PROVE  InOrder(expected, states) <=> Embeds(expected, states)
<1>1. PICK f : /\ Search(f, expected, states)
               /\ InOrder(expected, states) <=> f[Len(expected)] <= Len(states)
  BY SearchIs
<1>2. ASSUME f[Len(expected)] <= Len(states)
      PROVE  Embeds(expected, states)
  <2> DEFINE g == [n \in DOMAIN expected |-> f[n]]
  <2>1. g \in [DOMAIN expected -> DOMAIN states]
    BY <1>1, <1>2, SearchRises
  <2>2. /\ \A k \in DOMAIN expected : states[g[k]] = expected[k]
        /\ \A j, k \in DOMAIN expected : j < k => g[j] < g[k]
    BY <1>1, <1>2, SearchRises
  <2> HIDE DEF g
  <2> QED
    BY <2>1, <2>2 DEF Embeds
<1>3. Embeds(expected, states) => f[Len(expected)] <= Len(states)
  BY <1>1, SearchIsFirst
<1> QED
  BY <1>1, <1>2, <1>3

-----------------------------------------------------------------------------
(* Secrets in the evidence.                                                 *)

LEMMA MarkersAre ==
    /\ REDACTION \in Seq(Markers) /\ Len(REDACTION) = 10 /\ DOMAIN REDACTION = 1..10
    /\ REDACTION[1] = "[" /\ REDACTION[10] = "]"
    /\ Truncated \in Seq(Markers) /\ Len(Truncated) = 12 /\ DOMAIN Truncated = 1..12
    /\ Truncated[1] = "..."
<1>1. /\ Len(REDACTION) = 10 /\ DOMAIN REDACTION = 1..10
      /\ REDACTION[1] = "[" /\ REDACTION[10] = "]"
  BY DEF REDACTION
<1>2. Len(Truncated) = 12 /\ DOMAIN Truncated = 1..12 /\ Truncated[1] = "..."
  BY DEF Truncated
<1>3. /\ \A i \in 1..10 : REDACTION[i] \in Markers
      /\ \A i \in 1..12 : Truncated[i] \in Markers
  BY <1>1, <1>2 DEF Markers, ToSet
<1>4. REDACTION \in Seq(Markers)
  BY <1>3, SMTT(30) DEF REDACTION
<1>5. Truncated \in Seq(Markers)
  BY <1>3, SMTT(30) DEF Truncated
<1> QED
  BY <1>1, <1>2, <1>4, <1>5

LEMMA Recast ==
    ASSUME NEW D, NEW e \in Seq(D), NEW C, \A i \in DOMAIN e : e[i] \in C
    PROVE  e \in Seq(C)
  OBVIOUS

LEMMA Joined ==
    ASSUME NEW C, NEW out \in Seq(C), NEW e \in Seq(C), e # <<>>
    PROVE  /\ Len(out \o e) \in DOMAIN (out \o e)
           /\ (out \o e)[Len(out \o e)] = e[Len(e)]
  OBVIOUS

\* Two characters that differ in case at most are both brackets or neither is.
LEMMA CaseOfBrackets ==
    ASSUME NEW c, NEW d, Lower(c) = Lower(d), c \notin Brackets
    PROVE  d \notin Brackets
<1>1. \A x \in Capitals : Small[x] \notin Brackets
  BY DEF Capitals, Small, Brackets
<1>2. \A x \in Brackets : x \notin Capitals
  BY DEF Capitals, Small, Brackets
<1> QED
  BY <1>1, <1>2 DEF Lower

\* The characters a step that replaces in the text can write: those of the
\* text, at its places, and those of the markers after them.
Places(text) == 1..(Len(text) + 22)

From(text, p) ==
    IF p <= Len(text) THEN text[p]
    ELSE IF p <= Len(text) + 10 THEN REDACTION[p - Len(text)]
    ELSE Truncated[p - Len(text) - 10]

\* out is made of markers and of runs of the text: src says where each of its
\* characters is from, and where it does not go on there is a bracket.
Copied(out, src, text) ==
    /\ src \in [DOMAIN out -> Places(text)]
    /\ \A i \in DOMAIN out : out[i] = From(text, src[i])
    /\ \A i \in DOMAIN out :
          i + 1 \in DOMAIN out =>
             \/ src[i + 1] = src[i] + 1
             \/ out[i] \in Brackets
             \/ out[i + 1] \in Brackets

\* n places from q on, none of which is the start or the end of the first
\* marker or the start of the second, are of the text or of one marker.
Clear(q, n, l) == \A j \in 1..n : q + j - 1 # l + 1 /\ q + j - 1 # l + 11

OfOne(q, n, l) ==
    \/ /\ q \in 1..l /\ q + n - 1 <= l
       /\ \A j \in 1..n : q + j - 1 <= l
    \/ /\ q - l \in 1..10 /\ (q - l) + n - 1 <= 10
       /\ \A j \in 1..n : /\ ~(q + j - 1 <= l) /\ q + j - 1 <= l + 10
                          /\ (q + j - 1) - l = (q - l) + j - 1
    \/ /\ q - l - 10 \in 1..12 /\ (q - l - 10) + n - 1 <= 12
       /\ \A j \in 1..n : /\ ~(q + j - 1 <= l) /\ ~(q + j - 1 <= l + 10)
                          /\ (q + j - 1) - l - 10 = (q - l - 10) + j - 1

LEMMA OneRun ==
    ASSUME NEW n \in Nat, n > 0, NEW l \in Nat, NEW q \in Nat, q > 0, q + n - 1 <= l + 22,
           Clear(q, n, l)
    PROVE  OfOne(q, n, l)
<1> USE DEF Clear, OfOne
<1>1. CASE q <= l
  <2>1. q + n - 1 <= l
    <3> SUFFICES ASSUME q + n - 1 > l PROVE FALSE
      OBVIOUS
    <3>1. l + 2 - q \in 1..n /\ q + (l + 2 - q) - 1 = l + 1
      BY <1>1
    <3> QED
      BY <3>1
  <2> QED
    BY <1>1, <2>1
<1>2. CASE q > l /\ q <= l + 10
  <2>1. q + n - 1 <= l + 10
    <3> SUFFICES ASSUME q + n - 1 > l + 10 PROVE FALSE
      OBVIOUS
    <3>1. l + 12 - q \in 1..n /\ q + (l + 12 - q) - 1 = l + 11
      BY <1>2
    <3> QED
      BY <3>1
  <2> QED
    BY <1>2, <2>1
<1>3. CASE q > l + 10
  BY <1>3
<1> QED
  BY <1>1, <1>2, <1>3

\* What occurs in such a text, and is no part of a marker, is of one run.
LEMMA CopiedRun ==
    ASSUME NEW C, NEW s \in Seq(C), s # <<>>, Distinct(s),
           NEW text \in Seq(C), NEW out \in Seq(C), NEW src, Copied(out, src, text),
           NEW k \in DOMAIN out, OccursAt(s, out, k)
    PROVE  src[k] \in DOMAIN text /\ OccursAt(s, text, src[k])
<1> DEFINE N == Len(s)
           L == Len(text)
           Spot(j) == src[k] + j - 1
<1>1. /\ N \in Nat /\ N > 0 /\ DOMAIN s = 1..N
      /\ DOMAIN out = 1..Len(out) /\ DOMAIN text = 1..L
      /\ Len(out) \in Nat /\ L \in Nat
      /\ k + N - 1 <= Len(out)
  BY DEF OccursAt
<1>2. \A i \in DOMAIN out : src[i] \in 1..(L + 22)
  BY DEF Copied, Places
<1>3. ASSUME NEW j \in 1..N
      PROVE  /\ k + j - 1 \in DOMAIN out
             /\ Lower(out[k + j - 1]) = Lower(s[j])
             /\ out[k + j - 1] \notin Brackets
  <2>1. k + j - 1 \in DOMAIN out
    BY <1>1
  <2>2. Lower(out[k + j - 1]) = Lower(s[j]) /\ s[j] \notin Brackets
    BY <1>1 DEF OccursAt, Distinct
  <2> QED
    BY <2>1, <2>2, CaseOfBrackets
<1> DEFINE Follows(j) == j \in 1..N => src[k + j - 1] = src[k] + j - 1
           good == {j \in Nat : Follows(j)}
<1>4. ASSUME NEW j \in Nat, Follows(j)
      PROVE  Follows(j + 1)
  <2> SUFFICES ASSUME j + 1 \in 1..N
               PROVE  src[k + (j + 1) - 1] = src[k] + (j + 1) - 1
    OBVIOUS
  <2>1. CASE j = 0
    BY <1>1, <1>2, <2>1
  <2>2. CASE j # 0
    <3> DEFINE i == k + j - 1
    <3>1. j \in 1..N /\ k + (j + 1) - 1 = i + 1
      BY <1>1, <2>2
    <3>2. /\ i \in DOMAIN out /\ i + 1 \in DOMAIN out
          /\ out[i] \notin Brackets /\ out[i + 1] \notin Brackets
      BY <1>3, <3>1
    <3>3. src[i] = src[k] + j - 1
      BY <1>4, <3>1
    <3> HIDE DEF i
    <3>4. src[i + 1] = src[i] + 1
      BY <3>2 DEF Copied
    <3>5. src[k] \in Int
      BY <1>2
    <3> QED
      BY <3>1, <3>3, <3>4, <3>5
  <2> QED
    BY <2>1, <2>2
<1>5. \A j \in 1..N : src[k + j - 1] = Spot(j)
  <2>1. 0 \in good
    OBVIOUS
  <2>2. \A j \in Nat : j \in good => j + 1 \in good
    <3> HIDE DEF Follows
    <3> QED
      BY <1>4
  <2>3. \A j \in Nat : j \in good
    <3> HIDE DEF good
    <3> QED
      BY <2>1, <2>2, Induction
  <2>4. \A j \in Nat : Follows(j)
    <3> HIDE DEF Follows
    <3> QED
      BY <2>3
  <2> QED
    BY <1>1, <2>4
<1>6. ASSUME NEW j \in 1..N
      PROVE  /\ Spot(j) \in 1..(L + 22)
             /\ Lower(From(text, Spot(j))) = Lower(s[j])
             /\ From(text, Spot(j)) \notin Brackets
  <2>1. src[k + j - 1] = Spot(j)
    BY <1>5
  <2>2. out[k + j - 1] = From(text, Spot(j))
    BY <1>3, <2>1 DEF Copied
  <2> QED
    BY <1>2, <1>3, <2>1, <2>2
<1>7. \A j \in 1..N : Spot(j) \notin {L + 1, L + 10, L + 11}
  <2>1. From(text, L + 1) = "[" /\ From(text, L + 10) = "]" /\ From(text, L + 11) = "..."
    BY <1>1, MarkersAre DEF From
  <2> QED
    BY <1>6, <2>1 DEF Brackets
<1>8. src[k] \in 1..(L + 22) /\ Spot(N) \in 1..(L + 22)
  <2>1. 1 \in 1..N /\ N \in 1..N
    BY <1>1
  <2> QED
    BY <1>2, <1>6, <2>1
<1> SUFFICES ASSUME NEW q \in 1..(L + 22), q = src[k]
             PROVE  q \in DOMAIN text /\ OccursAt(s, text, q)
  BY <1>8
<1>9. \A j \in 1..N : Lower(From(text, q + j - 1)) = Lower(s[j])
  BY <1>6
<1>13. /\ N \in Nat /\ N > 0 /\ L \in Nat /\ q \in 1..(L + 22) /\ q + N - 1 <= L + 22
       /\ \A j \in 1..N : q + j - 1 # L + 1 /\ q + j - 1 # L + 11
  <2>1. q + N - 1 = Spot(N)
    OBVIOUS
  <2>2. \A j \in 1..N : q + j - 1 = Spot(j)
    OBVIOUS
  <2> HIDE DEF Spot, N, L
  <2>3. q + N - 1 <= L + 22
    BY <1>1, <1>8, <2>1
  <2>4. \A j \in 1..N : q + j - 1 # L + 1 /\ q + j - 1 # L + 11
    BY <1>7, <2>2
  <2> QED
    BY <1>1, <2>3, <2>4
<1> HIDE DEF N, L, Spot, Follows, good
<1>10. CASE /\ q \in 1..L /\ q + N - 1 <= L
            /\ \A j \in 1..N : q + j - 1 <= L
  <2>1. \A j \in 1..N : Lower(text[q + j - 1]) = Lower(s[j])
    BY <1>9, <1>10 DEF From, L
  <2> QED
    BY <1>1, <1>10, <2>1 DEF OccursAt, N, L
<1>11. CASE /\ q - L \in 1..10 /\ (q - L) + N - 1 <= 10
            /\ \A j \in 1..N : /\ ~(q + j - 1 <= L) /\ q + j - 1 <= L + 10
                               /\ (q + j - 1) - L = (q - L) + j - 1
  <2>1. \A j \in 1..N : Lower(REDACTION[(q - L) + j - 1]) = Lower(s[j])
    BY <1>9, <1>11 DEF From, L
  <2>2. PICK p \in 1..10 : p = q - L
    BY <1>11
  <2>3. OccursAt(s, REDACTION, p)
    BY <1>1, <1>11, <2>1, <2>2, MarkersAre DEF OccursAt, N
  <2> QED
    BY <2>3, MarkersAre DEF Distinct, Absent
<1>12. CASE /\ q - L - 10 \in 1..12 /\ (q - L - 10) + N - 1 <= 12
            /\ \A j \in 1..N : /\ ~(q + j - 1 <= L) /\ ~(q + j - 1 <= L + 10)
                               /\ (q + j - 1) - L - 10 = (q - L - 10) + j - 1
  <2>1. \A j \in 1..N : Lower(Truncated[(q - L - 10) + j - 1]) = Lower(s[j])
    BY <1>9, <1>12 DEF From, L
  <2>2. PICK p \in 1..12 : p = q - L - 10
    BY <1>12
  <2>3. OccursAt(s, Truncated, p)
    BY <1>1, <1>12, <2>1, <2>2, MarkersAre DEF OccursAt, N
  <2> QED
    BY <2>3, MarkersAre DEF Distinct, Absent
<1>14. OfOne(q, N, L)
  <2>1. N \in Nat /\ N > 0 /\ L \in Nat /\ q + N - 1 <= L + 22
    BY <1>13, Zenon
  <2>3. q \in Nat /\ q > 0
    <3>1. \A l \in Nat : \A x \in 1..(l + 22) : x \in Nat /\ x > 0
      OBVIOUS
    <3> QED
      BY <1>13, <3>1, Zenon
  <2>2. Clear(q, N, L)
    BY <1>13 DEF Clear
  <2> QED
    BY <2>1, <2>2, <2>3, OneRun
<1> QED
  BY <1>10, <1>11, <1>12, <1>14, Zenon DEF OfOne

\* So a secret is not in it that was not in the text.
LEMMA CopiedKeepsAbsent ==
    ASSUME NEW C, NEW s \in Seq(C), s # <<>>, Distinct(s),
           NEW text \in Seq(C), NEW out \in Seq(C), NEW src, Copied(out, src, text),
           Absent(s, text)
    PROVE  Absent(s, out)
  BY CopiedRun DEF Absent

\* What is known of done[k] as Substitute scans the text.
Scanned(secret, text, k, r, src) ==
    /\ r.next > k
    /\ Copied(r.out, src, text)
    /\ \A i \in DOMAIN r.out : src[i] \in DOMAIN text => ~OccursAt(secret, text, src[i])
    /\ r.out # <<>> =>
          src[Len(r.out)] = r.next - 1 \/ r.out[Len(r.out)] \in Brackets

Scans(C) == [out : Seq(C), next : Nat]

\* more is src, and goes on with places from a on.
Marked(all, more, out, src, text, a) ==
    /\ Copied(all, more, text)
    /\ \A i \in DOMAIN all : more[i] >= a \/ (i \in DOMAIN out /\ more[i] = src[i])

\* A run of the places of the text after what was copied, if it starts with a
\* bracket.
LEMMA MarkedCopy ==
    ASSUME NEW C, NEW text \in Seq(C), NEW out \in Seq(C), NEW src, Copied(out, src, text),
           NEW e \in Seq(C), e # <<>>, e[1] \in Brackets,
           NEW a \in Places(text), a + Len(e) - 1 \in Places(text),
           \A i \in 1..Len(e) : e[i] = From(text, a + i - 1)
    PROVE  /\ out \o e \in Seq(C)
           /\ \E more : Marked(out \o e, more, out, src, text, a)
<1> DEFINE all == out \o e
           n == Len(out)
           more == [i \in DOMAIN all |-> IF i \in DOMAIN out THEN src[i] ELSE a + (i - n) - 1]
<1>1. /\ all \in Seq(C) /\ n \in Nat /\ Len(e) \in Nat /\ Len(e) > 0
      /\ DOMAIN out = 1..n /\ DOMAIN all = 1..(n + Len(e))
      /\ \A i \in 1..n : all[i] = out[i]
      /\ \A i \in 1..Len(e) : all[n + i] = e[i]
      /\ Len(text) \in Nat /\ Places(text) = 1..(Len(text) + 22)
  BY DEF Places
<1>2. src \in [DOMAIN out -> Places(text)]
  BY DEF Copied
<1>3. /\ \A i \in DOMAIN out : i \in DOMAIN all /\ more[i] = src[i]
      /\ \A i \in DOMAIN all : i \notin DOMAIN out =>
            i - n \in 1..Len(e) /\ n + (i - n) = i /\ more[i] = a + (i - n) - 1
  BY <1>1
<1> HIDE DEF all, more, n
<1>4. ASSUME NEW i \in DOMAIN all
      PROVE  /\ more[i] \in Places(text)
             /\ all[i] = From(text, more[i])
             /\ more[i] >= a \/ (i \in DOMAIN out /\ more[i] = src[i])
  <2>1. CASE i \in DOMAIN out
    BY <1>1, <1>2, <1>3, <2>1 DEF Copied
  <2>2. CASE i \notin DOMAIN out
    <3> DEFINE j == i - n
    <3>1. j \in 1..Len(e) /\ n + j = i /\ more[i] = a + j - 1
      BY <1>3, <2>2
    <3> HIDE DEF j
    <3>2. all[n + j] = e[j] /\ e[j] = From(text, a + j - 1)
      BY <1>1, <3>1
    <3>3. a + j - 1 \in Places(text) /\ a + j - 1 >= a
      <4>1. \A L, x, y, m \in Int : x \in 1..L /\ x + m - 1 \in 1..L /\ y \in 1..m
                                       => x + y - 1 \in 1..L /\ x + y - 1 >= x
        OBVIOUS
      <4>2. a \in Int /\ j \in Int /\ Len(text) + 22 \in Int
        BY <1>1, <3>1
      <4> QED
        BY <1>1, <3>1, <4>1, <4>2
    <3> QED
      BY <3>1, <3>2, <3>3
  <2> QED
    BY <2>1, <2>2
<1>5. ASSUME NEW i \in DOMAIN all, i + 1 \in DOMAIN all
      PROVE  more[i + 1] = more[i] + 1 \/ all[i] \in Brackets \/ all[i + 1] \in Brackets
  <2>1. CASE i + 1 \in DOMAIN out
    <3>1. i \in DOMAIN out
      BY <1>1, <2>1
    <3> QED
      BY <1>1, <1>3, <2>1, <3>1 DEF Copied
  <2>2. CASE i \in DOMAIN out /\ i + 1 \notin DOMAIN out
    <3>1. i + 1 = n + 1 /\ 1 \in 1..Len(e)
      BY <1>1, <2>2
    <3>2. all[i + 1] = e[1]
      BY <1>1, <3>1
    <3> QED
      BY <3>2
  <2>3. CASE i \notin DOMAIN out
    <3>1. i \in Int /\ i + 1 \notin DOMAIN out
      BY <1>1, <2>3
    <3>2. more[i] = a + (i - n) - 1 /\ more[i + 1] = a + ((i + 1) - n) - 1
      BY <1>3, <1>5, <2>3, <3>1
    <3>3. a \in Int /\ n \in Int
      BY <1>1
    <3>4. more[i + 1] = more[i] + 1
      BY <3>1, <3>2, <3>3
    <3> QED
      BY <3>4
  <2> QED
    BY <2>1, <2>2, <2>3
<1>6. more \in [DOMAIN all -> Places(text)]
  <2>1. more = [i \in DOMAIN all |-> more[i]]
    BY DEF more
  <2> QED
    BY <1>4, <2>1
<1>7. Copied(all, more, text)
  BY <1>4, <1>5, <1>6 DEF Copied
<1>8. Marked(all, more, out, src, text, a)
  BY <1>4, <1>7 DEF Marked
<1> QED
  BY <1>1, <1>8 DEF all

\* The markers are such runs.
LEMMA MarkerRuns ==
    ASSUME NEW C, NEW text \in Seq(C)
    PROVE  LET L == Len(text) IN
           /\ L \in Nat /\ L + 1 \in Places(text) /\ L + 11 \in Places(text)
           /\ L + 1 + Len(REDACTION) - 1 \in Places(text)
           /\ L + 11 + Len(Truncated) - 1 \in Places(text)
           /\ REDACTION # <<>> /\ REDACTION[1] \in Brackets
           /\ Truncated # <<>> /\ Truncated[1] \in Brackets
           /\ \A i \in 1..Len(REDACTION) : REDACTION[i] = From(text, L + 1 + i - 1)
           /\ \A i \in 1..Len(Truncated) : Truncated[i] = From(text, L + 11 + i - 1)
<1> DEFINE L == Len(text)
<1>1. L \in Nat
  OBVIOUS
<1>2. /\ REDACTION # <<>> /\ REDACTION[1] \in Brackets
      /\ Truncated # <<>> /\ Truncated[1] \in Brackets
  <2>1. REDACTION[1] \in Brackets /\ Truncated[1] \in Brackets
    BY MarkersAre DEF Brackets
  <2>2. Len(REDACTION) # 0 /\ Len(Truncated) # 0
    BY MarkersAre
  <2> QED
    BY <2>1, <2>2
<1>3. /\ L + 1 \in Places(text) /\ L + 11 \in Places(text)
      /\ L + 1 + Len(REDACTION) - 1 \in Places(text)
      /\ L + 11 + Len(Truncated) - 1 \in Places(text)
  BY <1>1, MarkersAre DEF Places
<1>4. \A i \in 1..10 : REDACTION[i] = From(text, L + 1 + i - 1)
  BY <1>1 DEF From
<1>5. \A i \in 1..12 : Truncated[i] = From(text, L + 11 + i - 1)
  <2> TAKE i \in 1..12
  <2>1. /\ ~(L + 11 + i - 1 <= L) /\ ~(L + 11 + i - 1 <= L + 10)
        /\ (L + 11 + i - 1) - L - 10 = i
    BY <1>1
  <2> QED
    BY <2>1 DEF From
<1> QED
  BY <1>1, <1>2, <1>3, <1>4, <1>5, MarkersAre

ScanStep(secret, text, k, last) ==
    IF k < last.next THEN last
    ELSE IF OccursAt(secret, text, k)
         THEN [out |-> last.out \o REDACTION, next |-> k + Len(secret)]
         ELSE [out |-> Append(last.out, text[k]), next |-> k + 1]

LEMMA ScanSteps ==
    ASSUME NEW C, Markers \subseteq C, NEW secret \in Seq(C), secret # <<>>,
           NEW text \in Seq(C), NEW k \in DOMAIN text, NEW last \in Scans(C),
           NEW src, Scanned(secret, text, k - 1, last, src)
    PROVE  /\ ScanStep(secret, text, k, last) \in Scans(C)
           /\ \E more : Scanned(secret, text, k, ScanStep(secret, text, k, last), more)
<1> DEFINE r == ScanStep(secret, text, k, last)
           out == last.out
<1>1. /\ out \in Seq(C) /\ last.next \in Nat /\ k \in Nat /\ k > 0
      /\ DOMAIN out = 1..Len(out) /\ Len(out) \in Nat
      /\ Len(secret) \in Nat /\ Len(secret) > 0
      /\ DOMAIN text = 1..Len(text)
      /\ src \in [DOMAIN out -> Places(text)] /\ Copied(out, src, text)
      /\ last.next > k - 1 /\ k \in Places(text)
  BY DEF Scans, Scanned, Copied, Places
<1>2. CASE k < last.next
  <2>1. r = last
    BY <1>2 DEF ScanStep
  <2>2. Scanned(secret, text, k, last, src)
    BY <1>2 DEF Scanned
  <2> QED
    BY <2>1, <2>2
<1>3. CASE ~(k < last.next) /\ OccursAt(secret, text, k)
  <2> DEFINE all == out \o REDACTION
  <2>1. r = [out |-> all, next |-> k + Len(secret)]
    BY <1>3 DEF ScanStep
  <2>2. REDACTION \in Seq(C)
    BY MarkersAre
  <2> DEFINE a == Len(text) + 1
  <2>3. /\ REDACTION # <<>> /\ REDACTION[1] \in Brackets
        /\ a \in Places(text) /\ a + Len(REDACTION) - 1 \in Places(text)
        /\ \A i \in 1..Len(REDACTION) : REDACTION[i] = From(text, a + i - 1)
    BY MarkerRuns
  <2> HIDE DEF out, a
  <2>4. all \in Seq(C) /\ \E more : Marked(all, more, out, src, text, a)
    BY <1>1, <2>2, <2>3, MarkedCopy
  <2>5. PICK more : Marked(all, more, out, src, text, a)
    BY <2>4
  <2>9. /\ Len(all) \in DOMAIN all /\ all[Len(all)] \in Brackets
        /\ \A i \in DOMAIN all :
              more[i] \in DOMAIN text => ~OccursAt(secret, text, more[i])
    <3>1. /\ Len(REDACTION) = 10 /\ REDACTION[10] \in Brackets
      BY MarkersAre DEF Brackets
    <3>2. Len(all) \in DOMAIN all /\ all[Len(all)] = REDACTION[Len(REDACTION)]
      BY <1>1, <2>2, <2>3, Joined
    <3>3. ASSUME NEW i \in DOMAIN all, more[i] \in DOMAIN text
          PROVE  ~OccursAt(secret, text, more[i])
      <4>1. ~(more[i] >= a)
        BY <1>1, <3>3 DEF a
      <4>2. i \in DOMAIN out /\ more[i] = src[i]
        BY <2>5, <4>1 DEF Marked
      <4> QED
        BY <3>3, <4>2 DEF Scanned, out
    <3> QED
      BY <3>1, <3>2, <3>3
  <2> HIDE DEF all
  <2>6. r.out = all /\ r.next = k + Len(secret) /\ k + Len(secret) \in Nat
        /\ k + Len(secret) > k
    BY <1>1, <2>1
  <2>7. r \in Scans(C)
    BY <2>1, <2>4, <2>6 DEF Scans
  <2> HIDE DEF r
  <2>8. Scanned(secret, text, k, r, more)
    BY <2>5, <2>6, <2>9 DEF Scanned, Marked
  <2> QED
    BY <2>7, <2>8 DEF r
<1>4. CASE ~(k < last.next) /\ ~OccursAt(secret, text, k)
  <2> DEFINE all == Append(out, text[k])
             L == Len(out) + 1
             more == [i \in DOMAIN all |-> IF i \in DOMAIN out THEN src[i] ELSE k]
  <2>1. r = [out |-> all, next |-> k + 1]
    BY <1>4 DEF ScanStep
  <2>2. last.next = k
    BY <1>1, <1>4
  <2>3. text[k] \in C
    OBVIOUS
  <2>4. /\ all \in Seq(C) /\ DOMAIN all = 1..L /\ Len(all) = L
        /\ \A i \in DOMAIN out : all[i] = out[i]
        /\ all[L] = text[k]
    BY <1>1, <2>3
  <2>5. /\ more \in [DOMAIN all -> Places(text)]
        /\ \A i \in DOMAIN out : i \in DOMAIN all /\ more[i] = src[i]
        /\ L \in DOMAIN all /\ L \notin DOMAIN out /\ more[L] = k
        /\ \A i \in DOMAIN all : i \in DOMAIN out \/ i = L
    <3> HIDE DEF all
    <3> QED
      BY <1>1, <2>4
  <2> HIDE DEF all, more
  <2>6. \A i \in DOMAIN all : all[i] = From(text, more[i])
    <3> TAKE i \in DOMAIN all
    <3>1. CASE i \in DOMAIN out
      BY <1>1, <2>4, <2>5, <3>1 DEF Copied
    <3>2. CASE i = L
      BY <1>1, <2>4, <2>5, <3>2 DEF From
    <3> QED
      BY <2>5, <3>1, <3>2
  <2>7. ASSUME NEW i \in DOMAIN all, i + 1 \in DOMAIN all
        PROVE  more[i + 1] = more[i] + 1 \/ all[i] \in Brackets \/ all[i + 1] \in Brackets
    <3>1. i \in DOMAIN out
      BY <1>1, <2>4, <2>7
    <3>2. CASE i + 1 \in DOMAIN out
      BY <1>1, <2>4, <2>5, <2>7, <3>1, <3>2 DEF Copied
    <3>3. CASE i + 1 \notin DOMAIN out
      <4>1. i + 1 = L /\ i = Len(out) /\ out # <<>>
        BY <1>1, <2>5, <2>7, <3>1, <3>3
      <4>2. src[i] = last.next - 1 \/ out[i] \in Brackets
        BY <4>1 DEF Scanned
      <4>3. more[i] = src[i] /\ more[i + 1] = k /\ all[i] = out[i]
        BY <2>4, <2>5, <3>1, <4>1
      <4> QED
        BY <1>1, <2>2, <4>2, <4>3
    <3> QED
      BY <3>2, <3>3
  <2>8. Copied(all, more, text)
    BY <2>5, <2>6, <2>7 DEF Copied
  <2>9. \A i \in DOMAIN all : more[i] \in DOMAIN text => ~OccursAt(secret, text, more[i])
    BY <1>4, <2>5 DEF Scanned
  <2>10. r.out = all /\ r.next = k + 1 /\ k + 1 \in Nat /\ k + 1 > k
    BY <1>1, <2>1
  <2>11. r \in Scans(C)
    BY <2>1, <2>4, <2>10 DEF Scans
  <2>12. more[Len(all)] = (k + 1) - 1
    BY <1>1, <2>4, <2>5
  <2> HIDE DEF r
  <2>13. Scanned(secret, text, k, r, more)
    BY <2>8, <2>9, <2>10, <2>12 DEF Scanned
  <2> QED
    BY <2>11, <2>13 DEF r
<1> QED
  BY <1>2, <1>3, <1>4

LEMMA SubstituteIs ==
    ASSUME NEW C, Markers \subseteq C, NEW secret \in Seq(C), secret # <<>>,
           NEW text \in Seq(C)
    PROVE  /\ Substitute(secret, text) \in Seq(C)
           /\ \E src : /\ Copied(Substitute(secret, text), src, text)
                       /\ \A i \in DOMAIN Substitute(secret, text) :
                             src[i] \in DOMAIN text => ~OccursAt(secret, text, src[i])
<1> DEFINE N == Len(text)
           start == [out |-> <<>>, next |-> 1]
           Body(c) == [k \in 0..N |->
               IF k = 0 THEN [out |-> <<>>, next |-> 1]
               ELSE LET last == c[k - 1]
                    IN IF k < last.next THEN last
                       ELSE IF OccursAt(secret, text, k)
                            THEN [out |-> last.out \o REDACTION, next |-> k + Len(secret)]
                            ELSE [out |-> Append(last.out, text[k]), next |-> k + 1]]
           h == CHOOSE c : c = Body(c)
           Reached(k, r) == r \in Scans(C) /\ \E src : Scanned(secret, text, k, r, src)
           Upto(n) == n <= N => \E c : /\ c = [k \in 0..n |-> c[k]]
                                       /\ c[0] = start
                                       /\ \A k \in 1..n : c[k] = ScanStep(secret, text, k, c[k - 1])
                                       /\ \A k \in 0..n : Reached(k, c[k])
           good == {n \in Nat : Upto(n)}
<1>1. N \in Nat /\ DOMAIN text = 1..N
  OBVIOUS
<1>2. Reached(0, start)
  <2>1. start.out = <<>> /\ start.next = 1 /\ <<>> \in Seq(C) /\ DOMAIN <<>> = {}
    OBVIOUS
  <2>2. start \in Scans(C)
    BY <2>1 DEF Scans
  <2>3. Scanned(secret, text, 0, start, <<>>)
    <3>1. <<>> \in [DOMAIN <<>> -> Places(text)]
      OBVIOUS
    <3>2. Copied(<<>>, <<>>, text)
      BY <2>1, <3>1 DEF Copied
    <3> QED
      BY <2>1, <3>2 DEF Scanned
  <2> QED
    BY <2>2, <2>3
<1>3. ASSUME NEW k \in 1..N, NEW r, Reached(k - 1, r)
      PROVE  Reached(k, ScanStep(secret, text, k, r))
  BY <1>1, <1>3, ScanSteps
<1> HIDE DEF Reached
<1>4. 0 \in good
  <2> DEFINE c == [k \in 0..0 |-> start]
  <2>1. c = [k \in 0..0 |-> c[k]] /\ c[0] = start /\ 1..0 = {} /\ 0..0 = {0}
    OBVIOUS
  <2> HIDE DEF c, start
  <2>2. Upto(0)
    BY <1>2, <2>1
  <2> QED
    BY <2>2
<1>5. ASSUME NEW n \in Nat, Upto(n)
      PROVE  Upto(n + 1)
  <2> SUFFICES ASSUME n + 1 <= N
               PROVE  \E c : /\ c = [k \in 0..(n + 1) |-> c[k]]
                             /\ c[0] = start
                             /\ \A k \in 1..(n + 1) : c[k] = ScanStep(secret, text, k, c[k - 1])
                             /\ \A k \in 0..(n + 1) : Reached(k, c[k])
    OBVIOUS
  <2>1. PICK c : /\ c = [k \in 0..n |-> c[k]]
                 /\ c[0] = start
                 /\ \A k \in 1..n : c[k] = ScanStep(secret, text, k, c[k - 1])
                 /\ \A k \in 0..n : Reached(k, c[k])
    <3>1. n <= N
      BY <1>1
    <3> HIDE DEF start, N
    <3> QED
      BY <1>5, <3>1
  <2> DEFINE next == ScanStep(secret, text, n + 1, c[n])
             more == [k \in 0..(n + 1) |-> IF k <= n THEN c[k] ELSE next]
  <2> HIDE DEF next, start, N
  <2>2. \A k \in 0..n : more[k] = c[k]
    OBVIOUS
  <2>3. more[n + 1] = next
    <3>1. n + 1 \in 0..(n + 1) /\ ~(n + 1 <= n)
      OBVIOUS
    <3> QED
      BY <3>1
  <2>4. more = [k \in 0..(n + 1) |-> more[k]]
    OBVIOUS
  <2> HIDE DEF more
  <2>5. 0 \in 0..n /\ n \in 0..n /\ n + 1 \in 1..N /\ (n + 1) - 1 = n
    BY <1>1
  <2>6. Reached(n + 1, next)
    BY <1>3, <2>1, <2>5 DEF next
  <2>7. ASSUME NEW k \in 1..(n + 1)
        PROVE  more[k] = ScanStep(secret, text, k, more[k - 1])
    <3>1. CASE k = n + 1
      BY <2>2, <2>3, <2>5, <3>1 DEF next
    <3>2. CASE k \in 1..n
      <4>1. k \in 0..n /\ k - 1 \in 0..n
        BY <3>2
      <4> QED
        BY <2>1, <2>2, <3>2, <4>1
    <3> QED
      BY <3>1, <3>2
  <2>8. ASSUME NEW k \in 0..(n + 1)
        PROVE  Reached(k, more[k])
    <3>1. CASE k = n + 1
      BY <2>3, <2>6, <3>1
    <3>2. CASE k \in 0..n
      BY <2>1, <2>2, <3>2
    <3> QED
      BY <3>1, <3>2
  <2> QED
    BY <2>1, <2>2, <2>4, <2>5, <2>7, <2>8
<1>6. Upto(N)
  <2> HIDE DEF Upto, N
  <2>1. \A n \in Nat : n \in good => n + 1 \in good
    BY <1>5
  <2>2. N \in good
    <3> HIDE DEF good
    <3> QED
      BY <1>1, <1>4, <2>1, Induction
  <2> QED
    BY <2>2
<1>7. PICK c : /\ c = [k \in 0..N |-> c[k]]
               /\ c[0] = start
               /\ \A k \in 1..N : c[k] = ScanStep(secret, text, k, c[k - 1])
               /\ \A k \in 0..N : Reached(k, c[k])
  <2> HIDE DEF start, Reached
  <2> QED
    BY <1>1, <1>6
<1>8. c = Body(c)
  <2>1. \A k \in 0..N : c[k] = IF k = 0 THEN start ELSE ScanStep(secret, text, k, c[k - 1])
    <3> HIDE DEF start, Reached, N
    <3> TAKE k \in 0..N
    <3>1. CASE k = 0
      BY <1>7, <3>1
    <3>2. CASE k # 0
      <4>1. k \in 1..N
        BY <1>1, <3>2
      <4> QED
        BY <1>7, <3>2, <4>1
    <3> QED
      BY <3>1, <3>2
  <2> QED
    BY <1>7, <2>1 DEF ScanStep
<1>9. h = Body(h)
  <2> HIDE DEF Body
  <2> QED
    BY <1>8, Zenon
<1>10. Substitute(secret, text) = h[N].out
  BY Zenon DEF Substitute
<1>11. \A k \in 0..N : h[k] = IF k = 0 THEN start ELSE ScanStep(secret, text, k, h[k - 1])
  <2> HIDE DEF h
  <2> QED
    BY <1>9 DEF ScanStep
<1>12. \A k \in 0..N : Reached(k, h[k])
  <2> DEFINE R(k) == k <= N => Reached(k, h[k])
             reached == {k \in Nat : R(k)}
  <2> HIDE DEF h, start
  <2>1. R(0)
    BY <1>1, <1>2, <1>11
  <2>2. ASSUME NEW k \in Nat, R(k)
        PROVE  R(k + 1)
    <3> SUFFICES ASSUME k + 1 <= N
                 PROVE  Reached(k + 1, h[k + 1])
      OBVIOUS
    <3>1. k + 1 \in 1..N /\ k + 1 \in 0..N /\ (k + 1) - 1 = k /\ k <= N /\ k + 1 # 0
      BY <1>1
    <3>2. Reached(k, h[k])
      BY <2>2, <3>1
    <3>3. h[k + 1] = ScanStep(secret, text, k + 1, h[k])
      BY <1>11, <3>1
    <3> QED
      BY <1>3, <3>1, <3>2, <3>3
  <2>3. \A k \in Nat : k \in reached
    <3>1. 0 \in reached /\ \A k \in Nat : k \in reached => k + 1 \in reached
      <4> HIDE DEF R
      <4> QED
        BY <2>1, <2>2
    <3> HIDE DEF reached
    <3> QED
      BY <3>1, Induction
  <2>4. \A k \in Nat : R(k)
    <3> HIDE DEF R
    <3> QED
      BY <2>3
  <2> QED
    BY <1>1, <2>4
<1>13. Reached(N, h[N])
  <2> HIDE DEF h
  <2>1. N \in 0..N
    BY <1>1
  <2> QED
    BY <1>12, <2>1
<1> QED
  <2> HIDE DEF h
  <2> QED
    BY <1>10, <1>13 DEF Reached, Scanned, Scans

\* A substitution removes its secret and brings back none.
LEMMA SubstituteHides ==
    ASSUME NEW C, Markers \subseteq C, NEW secret \in Seq(C), secret # <<>>,
           NEW text \in Seq(C), NEW s \in Seq(C), s # <<>>, Distinct(s),
           s = secret \/ Absent(s, text)
    PROVE  Absent(s, Substitute(secret, text))
<1> DEFINE out == Substitute(secret, text)
<1>1. out \in Seq(C)
  BY SubstituteIs
<1>2. PICK src : /\ Copied(out, src, text)
                 /\ \A i \in DOMAIN out :
                       src[i] \in DOMAIN text => ~OccursAt(secret, text, src[i])
  BY SubstituteIs
<1> HIDE DEF out
<1>3. ASSUME NEW k \in DOMAIN out, OccursAt(s, out, k)
      PROVE  FALSE
  <2>1. src[k] \in DOMAIN text /\ OccursAt(s, text, src[k])
    BY <1>1, <1>2, <1>3, CopiedRun
  <2> QED
    BY <1>2, <2>1 DEF Absent
<1>4. Absent(s, out)
  BY <1>3 DEF Absent
<1> QED
  BY <1>4 DEF out

LEMMA RedactTextHides ==
    ASSUME NEW C, Markers \subseteq C, NEW order, NEW N \in Nat, order \in [1..N -> Seq(C)],
           <<>> \notin ToSet(order), NEW text \in Seq(C)
    PROVE  /\ RedactText(order, text) \in Seq(C)
           /\ \A s \in ToSet(order) : Distinct(s) => Absent(s, RedactText(order, text))
<1> DEFINE Body(c) == [n \in 0..Len(order) |->
                          IF n = 0 THEN text ELSE Substitute(order[n], c[n - 1])]
           h == CHOOSE c : c = Body(c)
           step == [n \in 1..N |-> [x \in Seq(C) |-> Substitute(order[n], x)]]
<1>1. /\ Len(order) = N /\ DOMAIN order = 1..N
      /\ ToSet(order) = {order[n] : n \in 1..N}
      /\ \A n \in 1..N : order[n] \in Seq(C) /\ order[n] # <<>>
  BY DEF ToSet
<1>2. Stepping(step, N, Seq(C))
  <2>1. \A n \in 1..N, x \in Seq(C) : Substitute(order[n], x) \in Seq(C)
    BY <1>1, SubstituteIs
  <2> QED
    BY <2>1 DEF Stepping
<1>3. PICK f : Iterates(f, N, text, step, Seq(C))
  <2> HIDE DEF step
  <2> QED
    BY <1>2, Recursion
<1>4. /\ f \in [0..N -> Seq(C)] /\ f[0] = text
      /\ \A n \in 1..N : n - 1 \in 0..N /\ f[n] = Substitute(order[n], f[n - 1])
  <2>1. f \in [0..N -> Seq(C)] /\ f[0] = text /\ \A n \in 1..N : f[n] = step[n][f[n - 1]]
    BY <1>3 DEF Iterates
  <2>2. ASSUME NEW n \in 1..N
        PROVE  n - 1 \in 0..N /\ f[n] = Substitute(order[n], f[n - 1])
    <3>1. n - 1 \in 0..N
      OBVIOUS
    <3>2. f[n - 1] \in Seq(C)
      BY <2>1, <3>1
    <3> QED
      BY <2>1, <3>1, <3>2
  <2> QED
    BY <2>1, <2>2
<1>5. f = Body(f)
  BY <1>1, <1>4
<1>6. h = Body(h)
  <2> HIDE DEF Body
  <2> QED
    BY <1>5, Zenon
<1>7. RedactText(order, text) = h[N]
  <2>1. RedactText(order, text) = h[Len(order)]
    BY Zenon DEF RedactText
  <2> HIDE DEF h
  <2> QED
    BY <1>1, <2>1
<1>8. /\ h[0] = text
      /\ \A n \in 1..N : h[n] = Substitute(order[n], h[n - 1])
  <2>1. \A n \in 0..N : h[n] = IF n = 0 THEN text ELSE Substitute(order[n], h[n - 1])
    <3> HIDE DEF h
    <3> QED
      BY <1>1, <1>6
  <2> HIDE DEF h
  <2> QED
    BY <2>1
<1> DEFINE Clean(n) == n <= N =>
               /\ h[n] \in Seq(C)
               /\ \A k \in 1..n : Distinct(order[k]) => Absent(order[k], h[n])
           good == {n \in Nat : Clean(n)}
<1> HIDE DEF h
<1>9. Clean(0)
  BY <1>8
<1>10. ASSUME NEW n \in Nat, Clean(n)
       PROVE  Clean(n + 1)
  <2> SUFFICES ASSUME n + 1 <= N
               PROVE  /\ h[n + 1] \in Seq(C)
                      /\ \A k \in 1..(n + 1) :
                            Distinct(order[k]) => Absent(order[k], h[n + 1])
    OBVIOUS
  <2>1. /\ n + 1 \in 1..N /\ (n + 1) - 1 = n /\ n <= N
        /\ h[n] \in Seq(C)
        /\ \A k \in 1..n : Distinct(order[k]) => Absent(order[k], h[n])
    BY <1>10
  <2>2. h[n + 1] = Substitute(order[n + 1], h[n])
    BY <1>8, <2>1
  <2>3. h[n + 1] \in Seq(C)
    <3>1. order[n + 1] \in Seq(C) /\ order[n + 1] # <<>>
      BY <1>1, <2>1
    <3>2. Substitute(order[n + 1], h[n]) \in Seq(C)
      BY <2>1, <3>1, SubstituteIs
    <3> QED
      BY <2>2, <3>2
  <2>4. ASSUME NEW k \in 1..(n + 1), Distinct(order[k])
        PROVE  Absent(order[k], h[n + 1])
    <3>1. k \in 1..N /\ (k = n + 1 \/ k \in 1..n)
      BY <2>1
    <3>2. order[k] = order[n + 1] \/ Absent(order[k], h[n])
      BY <2>1, <2>4, <3>1
    <3>3. order[k] \in Seq(C) /\ order[k] # <<>>
          /\ order[n + 1] \in Seq(C) /\ order[n + 1] # <<>>
      BY <1>1, <2>1, <3>1
    <3> QED
      BY <2>1, <2>2, <2>4, <3>2, <3>3, SubstituteHides
  <2> QED
    BY <2>3, <2>4
<1>11. \A n \in Nat : n \in good
  <2>1. 0 \in good /\ \A n \in Nat : n \in good => n + 1 \in good
    <3> HIDE DEF Clean
    <3> QED
      BY <1>9, <1>10
  <2> HIDE DEF good
  <2> QED
    BY <2>1, Induction
<1>12. Clean(N)
  BY <1>11
<1> QED
  BY <1>1, <1>7, <1>12

LEMMA MaxIs ==
    ASSUME NEW m \in Nat, NEW T \in SUBSET (1..m), T # {}
    PROVE  Max(T) \in T
<1> DEFINE U == {m - x : x \in T}
<1>1. U \in SUBSET Nat /\ U # {}
  <2>1. \A x \in T : m - x \in Nat
    OBVIOUS
  <2> QED
    BY <2>1
<1>2. PICK u \in U : \A y \in U : u <= y
  <2> HIDE DEF U
  <2> QED
    BY <1>1, LeastOf
<1>3. PICK x \in T : u = m - x
  OBVIOUS
<1>4. \A y \in T : x >= y
  <2> TAKE y \in T
  <2>1. m - x <= m - y
    BY <1>2, <1>3
  <2> QED
    BY <2>1
<1> QED
  BY <1>4 DEF Max

\* The cut brings back no secret either.
LEMMA TruncateHides ==
    ASSUME NEW C, Markers \subseteq C, NEW text \in Seq(C),
           NEW s \in Seq(C), s # <<>>, Distinct(s), Absent(s, text)
    PROVE  Absent(s, Truncate(text))
<1>1. CASE Len(text) <= MaxEvidenceText
  BY <1>1 DEF Truncate
<1>2. CASE ~(Len(text) <= MaxEvidenceText)
  <2> DEFINE N == Len(text)
             prefix == SubSeq(text, 1, MaxEvidenceText)
             I == {k \in 1..Len(prefix) : prefix[k] = "["}
             marker == IF I # {} THEN Max(I) ELSE 0
             Kept(m) == SubSeq(text, 1, m)
             Same(m) == [k \in 1..m |-> k]
  <2>1. /\ MaxEvidenceText \in Nat /\ N \in Nat /\ MaxEvidenceText < N
        /\ DOMAIN text = 1..N
    BY <1>2, EvidenceTextAssumption
  <2>2. ASSUME NEW m \in 0..N
        PROVE  /\ Kept(m) \in Seq(C) /\ Len(Kept(m)) = m
               /\ Copied(Kept(m), Same(m), text)
    <3>1. Kept(m) \in Seq(C) /\ Len(Kept(m)) = m
      BY <2>1
    <3>2. DOMAIN Kept(m) = 1..m /\ \A k \in 1..m : Kept(m)[k] = text[k]
      BY <2>1
    <3>3. /\ Same(m) \in [1..m -> Places(text)]
          /\ \A k \in 1..m : Same(m)[k] = k /\ From(text, k) = text[k]
      BY <2>1 DEF Places, From
    <3>4. \A k \in 1..m : k + 1 \in 1..m => Same(m)[k + 1] = Same(m)[k] + 1
      OBVIOUS
    <3> HIDE DEF Kept, Same, N
    <3>5. Copied(Kept(m), Same(m), text)
      BY <3>2, <3>3, <3>4 DEF Copied
    <3> QED
      BY <3>1, <3>5
  <2>3. Truncated \in Seq(C) /\ REDACTION \in Seq(C)
    BY MarkersAre
  <2>4. ASSUME NEW out \in Seq(C), NEW src, Copied(out, src, text)
        PROVE  /\ out \o Truncated \in Seq(C)
               /\ \E more : Copied(out \o Truncated, more, text)
    <3> DEFINE a == N + 11
    <3>1. /\ Truncated # <<>> /\ Truncated[1] \in Brackets
          /\ a \in Places(text) /\ a + Len(Truncated) - 1 \in Places(text)
          /\ \A i \in 1..Len(Truncated) : Truncated[i] = From(text, a + i - 1)
      BY MarkerRuns
    <3> HIDE DEF a
    <3>2. /\ out \o Truncated \in Seq(C)
          /\ \E more : Marked(out \o Truncated, more, out, src, text, a)
      BY <2>3, <2>4, <3>1, MarkedCopy
    <3> QED
      BY <3>2 DEF Marked
  <2>5. ASSUME NEW out \in Seq(C), NEW src, Copied(out, src, text)
        PROVE  /\ out \o REDACTION \in Seq(C)
               /\ \E more : Copied(out \o REDACTION, more, text)
    <3> DEFINE a == N + 1
    <3>1. /\ REDACTION # <<>> /\ REDACTION[1] \in Brackets
          /\ a \in Places(text) /\ a + Len(REDACTION) - 1 \in Places(text)
          /\ \A i \in 1..Len(REDACTION) : REDACTION[i] = From(text, a + i - 1)
      BY MarkerRuns
    <3> HIDE DEF a
    <3>2. /\ out \o REDACTION \in Seq(C)
          /\ \E more : Marked(out \o REDACTION, more, out, src, text, a)
      BY <2>3, <2>5, <3>1, MarkedCopy
    <3> QED
      BY <3>2 DEF Marked
  <2>6. /\ BoundedPrefix(text) \in Seq(C)
        /\ \E src : Copied(BoundedPrefix(text), src, text)
    <3> DEFINE whole == marker # 0 /\ SubSeq(text, marker, marker + Len(REDACTION) - 1)
                                         = REDACTION
    <3>1. BoundedPrefix(text) = IF whole THEN SubSeq(text, 1, marker - 1) \o REDACTION
                                ELSE prefix
      BY DEF BoundedPrefix, SelectLastInSeq
    <3>2. CASE whole
      <4>1. I \in SUBSET (1..MaxEvidenceText) /\ I # {}
        <5>1. Len(prefix) = MaxEvidenceText
          BY <2>1, <2>2
        <5> QED
          BY <3>2, <5>1
      <4>2. Max(I) \in I
        <5> HIDE DEF I
        <5> QED
          BY <2>1, <4>1, MaxIs
      <4>3. marker - 1 \in 0..N
        <5>1. marker = Max(I)
          BY <4>1
        <5>2. Max(I) \in 1..MaxEvidenceText
          <6> HIDE DEF I
          <6> QED
            BY <4>1, <4>2
        <5> HIDE DEF marker, I
        <5> QED
          BY <2>1, <5>1, <5>2
      <4> DEFINE m == marker - 1
      <4>4. BoundedPrefix(text) = Kept(m) \o REDACTION
        <5> HIDE DEF whole, marker, prefix, I
        <5> QED
          BY <3>1, <3>2
      <4>5. m \in 0..N
        BY <4>3
      <4> HIDE DEF m, Kept, Same, N
      <4> QED
        BY <2>2, <2>5, <4>4, <4>5
    <3>3. CASE ~whole
      <4>1. BoundedPrefix(text) = Kept(MaxEvidenceText)
        BY <3>1, <3>3
      <4>2. MaxEvidenceText \in 0..N
        BY <2>1
      <4> HIDE DEF Kept, Same, N
      <4> QED
        BY <2>2, <4>1, <4>2
    <3> QED
      BY <3>2, <3>3
  <2>7. Truncate(text) = BoundedPrefix(text) \o Truncated
    BY <1>2 DEF Truncate
  <2> HIDE DEF prefix, I, marker, Kept, Same, N
  <2>8. PICK src : Copied(BoundedPrefix(text), src, text)
    BY <2>6
  <2>9. Truncate(text) \in Seq(C) /\ \E more : Copied(Truncate(text), more, text)
    BY <2>4, <2>6, <2>7, <2>8
  <2> QED
    BY <2>9, CopiedKeepsAbsent
<1> QED
  BY <1>1, <1>2

\* What the headers hold and name is what is redacted.
LEMMA ConfidentialIs ==
    ASSUME NEW config
    PROVE  Confidential(config) \ {<<>>} \subseteq Secrets(config)
<1> DEFINE Named == {n \in DOMAIN config.env :
                        \/ n \in config.denied
                        \/ \E h \in config.headers : \E k \in DOMAIN h :
                              h[k].kind = "reference" /\ h[k].name = n}
<1>1. \A n \in Named : n \in Referenced(config) \union config.denied
  BY DEF Referenced, ToSet
<1>2. Confidential(config) = {Expand(h, config.env) : h \in config.headers}
                               \union {config.env[n] : n \in Named}
  BY DEF Confidential
<1> HIDE DEF Named
<1> QED
  BY <1>1, <1>2 DEF Secrets

LEMMA PreviewIs ==
    ASSUME NEW C, "..." \in C, NEW text \in Seq(C)
    PROVE  Preview(text) \in Seq(C)
<1>1. CASE Len(text) <= MaxPreview
  BY <1>1 DEF Preview
<1>2. CASE ~(Len(text) <= MaxPreview)
  <2>1. SubSeq(text, 1, MaxPreview) \in Seq(C)
    BY <1>2, EvidenceTextAssumption
  <2>2. <<"...">> \in Seq(C)
    OBVIOUS
  <2>3. SubSeq(text, 1, MaxPreview) \o <<"...">> \in Seq(C)
    BY <2>1, <2>2
  <2> QED
    BY <1>2, <2>3 DEF Preview
<1> QED
  BY <1>1, <1>2

\* Whatever text came back and whatever the headers, the variables in them and
\* those of not_contains_env are, of every length and however they overlap, the
\* evidence of a turn holds none of them whole, neither in its text nor in what
\* a failure quotes, except one with a bracket or an ellipsis in it and one
\* that is a part of a marker.
THEOREM SecretsStayHidden == DiscloseSpec => []EvidenceHidesSecrets
<1>1. DiscloseInv => EvidenceHidesSecrets
  <2> SUFFICES ASSUME DiscloseInv, progress = "recorded",
                      NEW s \in Confidential(response.config), Distinct(s)
               PROVE  Absent(s, evidence.text) /\ Absent(s, evidence.failure)
    BY DEF EvidenceHidesSecrets
  <2> DEFINE text == IF response.leaks THEN REDACTED_RESPONSE ELSE response.text
             shown == Preview(response.rendered)
             secrets == Secrets(response.config)
             C == Markers \union ToSet(REDACTED_RESPONSE) \union ToSet(response.text)
                    \union ToSet(response.rendered)
                    \union UNION {ToSet(secret) : secret \in secrets}
  <2>1. PICK order \in LongestFirst(secrets) :
           /\ evidence.text = EvidenceText(order, text)
           /\ evidence.failure = RedactText(order, shown)
    BY DEF DiscloseInv, Recorded
  <2>2. /\ response.text \in Seq(ToSet(response.text))
        /\ response.rendered \in Seq(ToSet(response.rendered))
        /\ IsFiniteSet(secrets)
        /\ \A secret \in secrets : secret \in Seq(ToSet(secret)) /\ secret # <<>>
    <3>1. <<>> \notin secrets
      BY DEF Secrets
    <3> QED
      BY <3>1, ResponsesAssumption DEF DiscloseInv
  <2>3. Cardinality(secrets) \in Nat
    BY <2>2, FS_CardinalityType
  <2>4. text \in Seq(C) /\ shown \in Seq(C)
    <3>1. response.text \in Seq(C) /\ response.rendered \in Seq(C)
      BY <2>2
    <3>2. REDACTED_RESPONSE \in Seq(C)
      <4> DEFINE letters == {"[", "R", "E", "D", "A", "C", "T", ":", " ", "g", "l",
                             "o", "b", "a", "i", "n", "v", "r", "t", "]"}
      <4>1. REDACTED_RESPONSE \in Seq(letters)
        BY DEF REDACTED_RESPONSE
      <4>2. \A i \in DOMAIN REDACTED_RESPONSE : REDACTED_RESPONSE[i] \in C
        BY DEF ToSet
      <4> HIDE DEF C, letters
      <4> QED
        BY <4>1, <4>2, Recast
    <3>3. "..." \in C
      BY MarkersAre DEF Markers, ToSet
    <3> HIDE DEF C
    <3>4. shown \in Seq(C)
      BY <3>1, <3>3, PreviewIs
    <3> QED
      BY <3>1, <3>2, <3>4
  <2>5. \A secret \in secrets : secret \in Seq(C)
    <3> TAKE secret \in secrets
    <3>1. ToSet(secret) \subseteq C
      OBVIOUS
    <3> QED
      BY <2>2, <3>1
  <2>6. /\ order \in [1..Cardinality(secrets) -> Seq(C)]
        /\ ToSet(order) = secrets /\ <<>> \notin ToSet(order)
    <3> HIDE DEF C
    <3> QED
      BY <2>2, <2>5 DEF LongestFirst, Orders
  <2>7. Markers \subseteq C
    OBVIOUS
  <2>8. s # <<>> /\ s \in secrets
    <3>1. ASSUME s = <<>> PROVE FALSE
      <4>1. OccursAt(<<>>, REDACTION, 1)
        BY MarkersAre DEF OccursAt
      <4> QED
        BY <3>1, <4>1, MarkersAre DEF Distinct, Absent
    <3> QED
      BY <3>1, ConfidentialIs
  <2> HIDE DEF C, text, shown, secrets
  <2>9. /\ RedactText(order, text) \in Seq(C) /\ Absent(s, RedactText(order, text))
        /\ Absent(s, RedactText(order, shown))
    BY <2>3, <2>4, <2>6, <2>7, <2>8, RedactTextHides
  <2>10. s \in Seq(C) /\ s # <<>>
    BY <2>5, <2>8
  <2> QED
    BY <2>1, <2>7, <2>9, <2>10, TruncateHides DEF EvidenceText
<1>2. QED
  BY <1>1, DiscloseInvariant, PTL

-----------------------------------------------------------------------------
(* Values, and what a replacement leaves of them.                           *)

\* What a pointer leads through.
Walk(f, value, p) ==
    /\ f = [n \in 0..Len(p) |-> f[n]]
    /\ f[0] = value
    /\ \A n \in 1..Len(p) : f[n] = Item(f[n - 1], p[n])

LEMMA WalkExists ==
    ASSUME NEW T, NEW p \in Seq(T), NEW value
    PROVE  \E f : Walk(f, value, p)
<1> DEFINE N == Len(p)
           Upto(n) == n <= N => \E f : /\ f = [i \in 0..n |-> f[i]]
                                       /\ f[0] = value
                                       /\ \A i \in 1..n : f[i] = Item(f[i - 1], p[i])
           good == {n \in Nat : Upto(n)}
<1>1. N \in Nat
  OBVIOUS
<1>2. Upto(0)
  <2> DEFINE f == [i \in 0..0 |-> value]
  <2>1. f = [i \in 0..0 |-> f[i]] /\ f[0] = value /\ 1..0 = {}
    OBVIOUS
  <2> HIDE DEF f
  <2> QED
    BY <2>1
<1>3. ASSUME NEW n \in Nat, Upto(n)
      PROVE  Upto(n + 1)
  <2> HIDE DEF N
  <2> SUFFICES ASSUME n + 1 <= N
               PROVE  \E f : /\ f = [i \in 0..(n + 1) |-> f[i]]
                             /\ f[0] = value
                             /\ \A i \in 1..(n + 1) : f[i] = Item(f[i - 1], p[i])
    OBVIOUS
  <2>1. PICK f : /\ f = [i \in 0..n |-> f[i]]
                 /\ f[0] = value
                 /\ \A i \in 1..n : f[i] = Item(f[i - 1], p[i])
    BY <1>1, <1>3
  <2> DEFINE next == Item(f[n], p[n + 1])
             more == [i \in 0..(n + 1) |-> IF i <= n THEN f[i] ELSE next]
  <2> HIDE DEF next
  <2>2. \A i \in 0..n : more[i] = f[i]
    OBVIOUS
  <2>3. more[n + 1] = next
    <3>1. n + 1 \in 0..(n + 1) /\ ~(n + 1 <= n)
      OBVIOUS
    <3> QED
      BY <3>1
  <2>4. more = [i \in 0..(n + 1) |-> more[i]]
    OBVIOUS
  <2> HIDE DEF more
  <2>5. 0 \in 0..n /\ n \in 0..n /\ (n + 1) - 1 = n
    OBVIOUS
  <2>6. ASSUME NEW i \in 1..(n + 1)
        PROVE  more[i] = Item(more[i - 1], p[i])
    <3>1. CASE i = n + 1
      BY <2>2, <2>3, <2>5, <3>1 DEF next
    <3>2. CASE i \in 1..n
      <4>1. i \in 0..n /\ i - 1 \in 0..n
        BY <3>2
      <4> QED
        BY <2>1, <2>2, <3>2, <4>1
    <3> QED
      BY <3>1, <3>2
  <2>7. more[0] = value
    BY <2>1, <2>2, <2>5
  <2> QED
    BY <2>4, <2>6, <2>7
<1>4. Upto(N)
  <2> HIDE DEF Upto, N
  <2>1. 0 \in good /\ \A n \in Nat : n \in good => n + 1 \in good
    BY <1>2, <1>3
  <2>2. N \in good
    <3> HIDE DEF good
    <3> QED
      BY <1>1, <2>1, Induction
  <2> QED
    BY <2>2
<1> QED
  BY <1>1, <1>4 DEF Walk

LEMMA WalkResolves ==
    ASSUME NEW T, NEW p \in Seq(T), NEW value, NEW f, Walk(f, value, p)
    PROVE  Resolve(value, p) = f[Len(p)]
<1> DEFINE N == Len(p)
           Body(c) == [n \in 0..N |-> IF n = 0 THEN value ELSE Item(c[n - 1], p[n])]
           h == CHOOSE c : c = Body(c)
<1>1. N \in Nat
  OBVIOUS
<1>2. f = Body(f)
  <2>1. \A n \in 0..N : f[n] = IF n = 0 THEN value ELSE Item(f[n - 1], p[n])
    <3> TAKE n \in 0..N
    <3>1. CASE n = 0
      BY <3>1 DEF Walk
    <3>2. CASE n # 0
      <4>1. n \in 1..N
        BY <1>1, <3>2
      <4> QED
        BY <3>2, <4>1 DEF Walk
    <3> QED
      BY <3>1, <3>2
  <2> QED
    BY <2>1 DEF Walk
<1>3. h = Body(h)
  <2> HIDE DEF Body
  <2> QED
    BY <1>2, Zenon
<1>4. Resolve(value, p) = h[N]
  BY Zenon DEF Resolve
<1>5. \A n \in 0..N : h[n] = IF n = 0 THEN value ELSE Item(h[n - 1], p[n])
  <2> HIDE DEF h
  <2> QED
    BY <1>3
<1> HIDE DEF h
<1> DEFINE Same(n) == n <= N => h[n] = f[n]
           good == {n \in Nat : Same(n)}
<1>6. Same(0)
  BY <1>1, <1>5 DEF Walk
<1>7. ASSUME NEW n \in Nat, Same(n)
      PROVE  Same(n + 1)
  <2> SUFFICES ASSUME n + 1 <= N
               PROVE  h[n + 1] = f[n + 1]
    OBVIOUS
  <2>1. n + 1 \in 1..N /\ n + 1 \in 0..N /\ (n + 1) - 1 = n /\ n + 1 # 0 /\ h[n] = f[n]
    BY <1>1, <1>7
  <2>2. f[n + 1] = Item(f[n], p[n + 1])
    BY <2>1 DEF Walk
  <2>3. h[n + 1] = Item(h[n], p[n + 1])
    BY <1>5, <2>1
  <2> QED
    BY <2>1, <2>2, <2>3
<1>8. \A n \in Nat : n \in good
  <2>1. 0 \in good /\ \A n \in Nat : n \in good => n + 1 \in good
    <3> HIDE DEF Same
    <3> QED
      BY <1>6, <1>7
  <2> HIDE DEF good
  <2> QED
    BY <2>1, Induction
<1>9. Same(N)
  BY <1>1, <1>8
<1> QED
  BY <1>1, <1>4, <1>9

\* The value a pointer has led to after d tokens.
Node(value, p, d) == Resolve(value, SubSeq(p, 1, d))

LEMMA Resolution ==
    ASSUME NEW T, NEW p \in Seq(T), NEW value
    PROVE  /\ Node(value, p, 0) = value
           /\ \A d \in 1..Len(p) : Node(value, p, d) = Item(Node(value, p, d - 1), p[d])
           /\ Node(value, p, Len(p)) = Resolve(value, p)
<1> DEFINE N == Len(p)
<1>1. N \in Nat
  OBVIOUS
<1>2. PICK f : Walk(f, value, p)
  BY WalkExists
<1>3. ASSUME NEW d \in 0..N
      PROVE  Node(value, p, d) = f[d]
  <2> DEFINE q == SubSeq(p, 1, d)
             g == [n \in 0..d |-> f[n]]
  <2>1. q \in Seq(T) /\ Len(q) = d /\ \A n \in 1..d : q[n] = p[n]
    BY <1>1
  <2>2. \A n \in 0..d : g[n] = f[n]
    OBVIOUS
  <2>3. g = [n \in 0..d |-> g[n]]
    OBVIOUS
  <2> HIDE DEF q, g
  <2>4. \A n \in 1..d : g[n] = Item(g[n - 1], q[n])
    <3> TAKE n \in 1..d
    <3>1. n \in 1..N /\ n \in 0..d /\ n - 1 \in 0..d
      BY <1>1
    <3> QED
      BY <1>2, <2>1, <2>2, <3>1 DEF Walk
  <2>5. Walk(g, value, q)
    <3>1. g[0] = value
      BY <1>1, <1>2, <2>2 DEF Walk
    <3> QED
      BY <2>1, <2>3, <2>4, <3>1 DEF Walk
  <2>6. Resolve(value, q) = g[d]
    BY <2>1, <2>5, WalkResolves
  <2> QED
    BY <2>2, <2>6 DEF Node, q
<1>4. Resolve(value, p) = f[N]
  BY <1>2, WalkResolves
<1>5. \A d \in 1..N : d \in 0..N /\ d - 1 \in 0..N /\ f[d] = Item(f[d - 1], p[d])
  <2> TAKE d \in 1..N
  <2>1. d \in 0..N /\ d - 1 \in 0..N
    BY <1>1
  <2> QED
    BY <1>2, <2>1 DEF Walk
<1>6. 0 \in 0..N /\ N \in 0..N /\ f[0] = value
  BY <1>1, <1>2 DEF Walk
<1> QED
  BY <1>3, <1>4, <1>5, <1>6

\* Values that pointers lead through alike.
Shape(u, v) == u.type = v.type /\ u.keys = v.keys /\ Len(u.items) = Len(v.items)

LEMMA SamePosition ==
    ASSUME NEW u, NEW v, Shape(u, v), NEW token
    PROVE  Position(u, token) = Position(v, token)
  BY DEF Shape, Position

LEMMA PositionIs ==
    ASSUME NEW v, WellFormed(v), NEW token, Position(v, token) # 0
    PROVE  /\ Position(v, token) \in DOMAIN v.items
           /\ \A other : Position(v, other) = Position(v, token) => other = token
<1>1. /\ v.keys \in Seq(ToSet(v.keys)) /\ v.items \in Seq(ToSet(v.items))
      /\ DOMAIN v.keys = 1..Len(v.keys) /\ DOMAIN v.items = 1..Len(v.items)
      /\ Len(v.items) \in Nat /\ Len(v.keys) \in Nat
  BY DEF WellFormed
<1>2. \A t \in ToSet(v.keys) : \E k \in DOMAIN v.keys : v.keys[k] = t
  BY DEF ToSet
<1>3. ASSUME v.type = "object", NEW t, Position(v, t) # 0
      PROVE  Position(v, t) \in DOMAIN v.keys /\ v.keys[Position(v, t)] = t
  <2>1. t \in ToSet(v.keys)
    BY <1>3 DEF Position
  <2>2. Position(v, t) = CHOOSE k \in DOMAIN v.keys : v.keys[k] = t
    BY <1>3, <2>1 DEF Position
  <2> QED
    BY <1>2, <2>1, <2>2
<1>4. ASSUME v.type # "object", NEW t, Position(v, t) # 0
      PROVE  /\ v.type = "array" /\ t \in {"0", "1"}
             /\ Position(v, t) = (IF t = "0" THEN 1 ELSE 2)
             /\ Position(v, t) <= Len(v.items)
  <2>1. v.type = "array" /\ IsIndex(t) /\ Digits[t] < Len(v.items)
        /\ Position(v, t) = Digits[t] + 1
    BY <1>4 DEF Position
  <2>2. t \in {"0", "1"}
    BY <2>1 DEF IsIndex, Digits, StartsWithZero
  <2>3. Digits[t] = IF t = "0" THEN 0 ELSE 1
    BY <2>2 DEF Digits
  <2> QED
    BY <1>1, <2>1, <2>2, <2>3
<1>5. CASE v.type = "object"
  <2>1. Len(v.keys) = Len(v.items)
    BY <1>5 DEF WellFormed
  <2>2. Position(v, token) \in DOMAIN v.keys /\ v.keys[Position(v, token)] = token
    BY <1>3, <1>5
  <2>3. ASSUME NEW other, Position(v, other) = Position(v, token)
        PROVE  other = token
    <3>1. v.keys[Position(v, other)] = other
      BY <1>3, <1>5, <2>3
    <3> QED
      BY <2>2, <2>3, <3>1
  <2> QED
    BY <1>1, <2>1, <2>2, <2>3
<1>6. CASE v.type # "object"
  <2>1. /\ token \in {"0", "1"} /\ Position(v, token) = (IF token = "0" THEN 1 ELSE 2)
        /\ Position(v, token) <= Len(v.items)
    BY <1>4, <1>6
  <2>2. ASSUME NEW other, Position(v, other) = Position(v, token)
        PROVE  other = token
    <3>1. other \in {"0", "1"} /\ Position(v, other) = (IF other = "0" THEN 1 ELSE 2)
      BY <1>4, <1>6, <2>2
    <3> QED
      BY <2>1, <2>2, <3>1
  <2> QED
    BY <1>1, <2>1, <2>2
<1> QED
  BY <1>5, <1>6

\* v with x as its item k.
With(v, k, x) == [v EXCEPT !.items[k] = x]

LEMMA WithIs ==
    ASSUME NEW v, WellFormed(v), NEW k \in DOMAIN v.items, NEW x
    PROVE  /\ Shape(With(v, k, x), v)
           /\ With(v, k, x).items[k] = x
           /\ \A j \in DOMAIN v.items : j # k => With(v, k, x).items[j] = v.items[j]
           /\ WellFormed(With(v, k, x))
<1> DEFINE w == With(v, k, x)
<1>1. DOMAIN v = {"type", "atom", "keys", "items"}
      /\ v.items \in Seq(ToSet(v.items)) /\ DOMAIN v.items = 1..Len(v.items)
      /\ Len(v.items) \in Nat
  BY DEF WellFormed
<1>2. /\ w.type = v.type /\ w.keys = v.keys
      /\ w.items = [v.items EXCEPT ![k] = x]
      /\ DOMAIN w = DOMAIN v
  BY <1>1 DEF With
<1> HIDE DEF w
<1>3. /\ DOMAIN w.items = DOMAIN v.items
      /\ w.items[k] = x
      /\ \A j \in DOMAIN v.items : j # k => w.items[j] = v.items[j]
  BY <1>2
<1>4. /\ w.items \in Seq(ToSet(w.items)) /\ Len(w.items) = Len(v.items)
  <2>1. w.items = [j \in 1..Len(v.items) |-> IF j = k THEN x ELSE v.items[j]]
    BY <1>1, <1>2
  <2>2. \A j \in 1..Len(v.items) : w.items[j] \in ToSet(w.items)
    BY <1>1, <1>3 DEF ToSet
  <2>3. \A j \in 1..Len(v.items) : (IF j = k THEN x ELSE v.items[j]) \in ToSet(w.items)
    BY <1>1, <1>3, <2>2
  <2> QED
    BY <1>1, <2>1, <2>3
<1>5. Shape(w, v)
  BY <1>2, <1>4 DEF Shape
<1>6. v.items # <<>>
  BY <1>1
<1>7. WellFormed(w)
  <2>1. w.keys \in Seq(ToSet(w.keys))
    BY <1>2 DEF WellFormed
  <2>2. \A i, j \in DOMAIN w.keys : w.keys[i] = w.keys[j] => i = j
    BY <1>2 DEF WellFormed
  <2>3. IF w.type = "object" THEN Len(w.keys) = Len(w.items)
        ELSE w.keys = <<>> /\ (w.type # "array" => w.items = <<>>)
    BY <1>2, <1>4, <1>6 DEF WellFormed
  <2> QED
    BY <1>1, <1>2, <1>4, <2>1, <2>2, <2>3 DEF WellFormed
<1> QED
  BY <1>3, <1>5, <1>7 DEF w

\* What a replacement leaves at the depths of its pointer.
Replaced(c, value, q, replacement) ==
    /\ c[Len(q)] = replacement
    /\ \A d \in 1..Len(q) :
          c[d - 1] = With(Node(value, q, d - 1), Position(Node(value, q, d - 1), q[d]), c[d])

LEMMA ReplaceIs ==
    ASSUME NEW T, NEW q \in Seq(T), NEW value, NEW replacement,
           IsPresent(Resolve(value, q))
    PROVE  \E c : /\ Replaced(c, value, q, replacement)
                  /\ ReplacePointer(value, q, replacement) = c[0]
<1> DEFINE N == Len(q)
           Step(n, x) == With(Node(value, q, N - n),
                              Position(Node(value, q, N - n), q[N - n + 1]), x)
           Body(c) == [n \in 0..N |->
                          IF n = 0 THEN replacement
                          ELSE LET v == Resolve(value, SubSeq(q, 1, N - n))
                                   k == Position(v, q[N - n + 1])
                               IN [v EXCEPT !.items[k] = c[n - 1]]]
           h == CHOOSE c : c = Body(c)
           Upto(n) == n <= N => \E f : /\ f = [i \in 0..n |-> f[i]]
                                       /\ f[0] = replacement
                                       /\ \A i \in 1..n : f[i] = Step(i, f[i - 1])
           good == {n \in Nat : Upto(n)}
<1>1. N \in Nat
  OBVIOUS
<1>2. Upto(0)
  <2> DEFINE f == [i \in 0..0 |-> replacement]
  <2>1. f = [i \in 0..0 |-> f[i]] /\ f[0] = replacement /\ 1..0 = {}
    OBVIOUS
  <2> HIDE DEF f, Step
  <2> QED
    BY <2>1
<1>3. ASSUME NEW n \in Nat, Upto(n)
      PROVE  Upto(n + 1)
  <2> HIDE DEF N, Step
  <2> SUFFICES ASSUME n + 1 <= N
               PROVE  \E f : /\ f = [i \in 0..(n + 1) |-> f[i]]
                             /\ f[0] = replacement
                             /\ \A i \in 1..(n + 1) : f[i] = Step(i, f[i - 1])
    OBVIOUS
  <2>1. PICK f : /\ f = [i \in 0..n |-> f[i]]
                 /\ f[0] = replacement
                 /\ \A i \in 1..n : f[i] = Step(i, f[i - 1])
    BY <1>1, <1>3
  <2> DEFINE next == Step(n + 1, f[n])
             more == [i \in 0..(n + 1) |-> IF i <= n THEN f[i] ELSE next]
  <2> HIDE DEF next
  <2>2. \A i \in 0..n : more[i] = f[i]
    OBVIOUS
  <2>3. more[n + 1] = next
    <3>1. n + 1 \in 0..(n + 1) /\ ~(n + 1 <= n)
      OBVIOUS
    <3> QED
      BY <3>1
  <2>4. more = [i \in 0..(n + 1) |-> more[i]]
    OBVIOUS
  <2> HIDE DEF more
  <2>5. 0 \in 0..n /\ n \in 0..n /\ (n + 1) - 1 = n
    OBVIOUS
  <2>6. ASSUME NEW i \in 1..(n + 1)
        PROVE  more[i] = Step(i, more[i - 1])
    <3>1. CASE i = n + 1
      BY <2>2, <2>3, <2>5, <3>1 DEF next
    <3>2. CASE i \in 1..n
      <4>1. i \in 0..n /\ i - 1 \in 0..n
        BY <3>2
      <4> QED
        BY <2>1, <2>2, <3>2, <4>1
    <3> QED
      BY <3>1, <3>2
  <2>7. more[0] = replacement
    BY <2>1, <2>2, <2>5
  <2> QED
    BY <2>4, <2>6, <2>7
<1>4. Upto(N)
  <2> HIDE DEF Upto, N
  <2>1. 0 \in good /\ \A n \in Nat : n \in good => n + 1 \in good
    BY <1>2, <1>3
  <2>2. N \in good
    <3> HIDE DEF good
    <3> QED
      BY <1>1, <2>1, Induction
  <2> QED
    BY <2>2
<1>5. PICK f : /\ f = [i \in 0..N |-> f[i]]
               /\ f[0] = replacement
               /\ \A i \in 1..N : f[i] = Step(i, f[i - 1])
  <2> HIDE DEF N, Step
  <2> QED
    BY <1>1, <1>4
<1>6. f = Body(f)
  <2>1. \A n \in 0..N : f[n] = IF n = 0 THEN replacement ELSE Step(n, f[n - 1])
    <3> HIDE DEF Step
    <3> TAKE n \in 0..N
    <3>1. CASE n = 0
      BY <1>5, <3>1
    <3>2. CASE n # 0
      <4>1. n \in 1..N
        BY <1>1, <3>2
      <4> QED
        BY <1>5, <3>2, <4>1
    <3> QED
      BY <3>1, <3>2
  <2> QED
    BY <1>5, <2>1 DEF With, Node
<1>7. h = Body(h)
  <2> HIDE DEF Body
  <2> QED
    BY <1>6, Zenon
<1>8. ReplacePointer(value, q, replacement) = h[N]
  BY Zenon DEF ReplacePointer
<1>9. \A n \in 0..N : h[n] = IF n = 0 THEN replacement ELSE Step(n, h[n - 1])
  <2> HIDE DEF h
  <2> QED
    BY <1>7 DEF With, Node
<1> DEFINE c == [d \in 0..N |-> h[N - d]]
<1> HIDE DEF h
<1>10. \A d \in 0..N : c[d] = h[N - d] /\ N - d \in 0..N
  BY <1>1
<1> HIDE DEF c
<1>11. ASSUME NEW d \in 1..N
       PROVE  c[d - 1] = With(Node(value, q, d - 1), Position(Node(value, q, d - 1), q[d]), c[d])
  <2> DEFINE n == N - d + 1
  <2>1. /\ d \in 0..N /\ d - 1 \in 0..N /\ n \in 0..N /\ n # 0
        /\ N - (d - 1) = n /\ n - 1 = N - d /\ N - n = d - 1 /\ N - n + 1 = d
    BY <1>1
  <2>2. c[d - 1] = h[n] /\ c[d] = h[n - 1]
    BY <1>10, <2>1
  <2> HIDE DEF n
  <2>3. h[n] = Step(n, h[n - 1])
    <3> HIDE DEF Step, N
    <3> QED
      BY <1>9, <2>1
  <2> QED
    BY <2>1, <2>2, <2>3
<1>12. c[N] = replacement /\ c[0] = h[N]
  <2> HIDE DEF Step
  <2>1. N \in 0..N /\ 0 \in 0..N /\ N - N = 0 /\ N - 0 = N
    BY <1>1
  <2> QED
    BY <1>9, <1>10, <2>1
<1>13. Replaced(c, value, q, replacement)
  BY <1>11, <1>12 DEF Replaced
<1> QED
  BY <1>8, <1>12, <1>13

LEMMA PrefixIs ==
    ASSUME NEW T, NEW p \in Seq(T), NEW q \in Seq(T)
    PROVE  /\ IsPrefix(p, q) <=> Len(p) <= Len(q) /\ \A i \in 1..Len(p) : p[i] = q[i]
           /\ IsPrefix(p, q) => SubSeq(q, 1, Len(p)) = p
           /\ IsStrictPrefix(p, q) <=> IsPrefix(p, q) /\ Len(p) < Len(q)
<1>1. Len(p) \in Nat /\ Len(q) \in Nat /\ DOMAIN p = 1..Len(p) /\ DOMAIN q = 1..Len(q)
  OBVIOUS
<1>2. SubSeq(p, 1, Len(p)) = p
  OBVIOUS
<1>3. ASSUME Len(p) <= Len(q)
      PROVE  SubSeq(q, 1, Len(p)) = p <=> \A i \in 1..Len(p) : p[i] = q[i]
  <2> DEFINE s == SubSeq(q, 1, Len(p))
  <2>1. s \in Seq(T) /\ Len(s) = Len(p) /\ \A i \in 1..Len(p) : s[i] = q[i]
    BY <1>1, <1>3
  <2> HIDE DEF s
  <2>2. s = p <=> \A i \in 1..Len(p) : s[i] = p[i]
    BY <1>1, <2>1
  <2> QED
    BY <2>1, <2>2 DEF s
<1>4. IsPrefix(p, q) <=> Len(p) <= Len(q) /\ SubSeq(q, 1, Len(p)) = p
  BY <1>2 DEF IsPrefix
<1>5. IsPrefix(p, q) /\ Len(p) = Len(q) => p = q
  <2>1. SubSeq(q, 1, Len(q)) = q
    OBVIOUS
  <2> QED
    BY <1>4, <2>1
<1>6. IsStrictPrefix(p, q) <=> IsPrefix(p, q) /\ Len(p) < Len(q)
  <2>1. Len(p) < Len(q) => p # q
    BY <1>1
  <2>2. IsPrefix(p, q) => Len(p) <= Len(q)
    BY <1>4
  <2>3. Len(p) <= Len(q) /\ Len(p) # Len(q) => Len(p) < Len(q)
    <3>1. \A m, n \in Nat : m <= n /\ m # n => m < n
      OBVIOUS
    <3> QED
      BY <1>1, <3>1
  <2> QED
    BY <1>5, <2>1, <2>2, <2>3 DEF IsStrictPrefix
<1>7. IsPrefix(p, q) <=> Len(p) <= Len(q) /\ \A i \in 1..Len(p) : p[i] = q[i]
  BY <1>3, <1>4
<1> QED
  BY <1>4, <1>6, <1>7

\* Pointers that agree so far lead to the same.
LEMMA SameNode ==
    ASSUME NEW T, NEW p \in Seq(T), NEW q \in Seq(T), NEW d \in 0..Len(p), d <= Len(q),
           \A i \in 1..d : p[i] = q[i], NEW u
    PROVE  Node(u, p, d) = Node(u, q, d)
<1>1. SubSeq(p, 1, d) = SubSeq(q, 1, d)
  <2> DEFINE s == SubSeq(p, 1, d)
             t == SubSeq(q, 1, d)
  <2>1. s \in Seq(T) /\ t \in Seq(T) /\ Len(s) = d /\ Len(t) = d
        /\ \A i \in 1..d : s[i] = p[i] /\ t[i] = q[i]
    OBVIOUS
  <2> HIDE DEF s, t
  <2>2. s = t
    BY <2>1
  <2> QED
    BY <2>2 DEF s, t
<1> QED
  BY <1>1 DEF Node

\* Nothing is below what has no items.
LEMMA DeadEnd ==
    ASSUME NEW T, NEW p \in Seq(T), NEW u, NEW d \in 0..Len(p),
           \A t : Position(Node(u, p, d), t) = 0
    PROVE  \A e \in (d + 1)..Len(p) : Node(u, p, e) = Missing
<1> DEFINE Gone(n) == n \in (d + 1)..Len(p) => Node(u, p, n) = Missing
           good == {n \in Nat : Gone(n)}
<1>1. \A t : Position(Missing, t) = 0
  BY DEF Missing, Scalar, Position
<1>2. Len(p) \in Nat
  OBVIOUS
<1>3. Gone(0)
  OBVIOUS
<1>4. ASSUME NEW n \in Nat, Gone(n)
      PROVE  Gone(n + 1)
  <2> SUFFICES ASSUME n + 1 \in (d + 1)..Len(p)
               PROVE  Node(u, p, n + 1) = Missing
    OBVIOUS
  <2>1. n + 1 \in 1..Len(p) /\ (n + 1) - 1 = n /\ (n = d \/ n \in (d + 1)..Len(p))
    BY <1>2
  <2>2. \A t : Position(Node(u, p, n), t) = 0
    BY <1>1, <1>4, <2>1
  <2>3. Node(u, p, n + 1) = Item(Node(u, p, n), p[n + 1])
    <3>1. \A i \in 1..Len(p) : Node(u, p, i) = Item(Node(u, p, i - 1), p[i])
      BY Resolution, Zenon
    <3> QED
      BY <2>1, <3>1
  <2> QED
    BY <2>2, <2>3 DEF Item
<1>5. \A n \in Nat : n \in good
  <2>1. 0 \in good /\ \A n \in Nat : n \in good => n + 1 \in good
    <3> HIDE DEF Gone
    <3> QED
      BY <1>3, <1>4
  <2> HIDE DEF good
  <2> QED
    BY <2>1, Induction
<1>6. \A n \in Nat : Gone(n)
  <2> HIDE DEF Gone
  <2> QED
    BY <1>5
<1> QED
  BY <1>2, <1>6

\* What two values share at a node they share below it.
LEMMA SameBelow ==
    ASSUME NEW T, NEW p \in Seq(T), NEW u, NEW v, NEW d \in 0..Len(p),
           Node(u, p, d) = Node(v, p, d)
    PROVE  Resolve(u, p) = Resolve(v, p)
<1> DEFINE Same(n) == n \in d..Len(p) => Node(u, p, n) = Node(v, p, n)
           good == {n \in Nat : Same(n)}
<1>1. Len(p) \in Nat /\ d \in Nat
  OBVIOUS
<1>2. Same(0)
  BY <1>1
<1>3. ASSUME NEW n \in Nat, Same(n)
      PROVE  Same(n + 1)
  <2> SUFFICES ASSUME n + 1 \in d..Len(p)
               PROVE  Node(u, p, n + 1) = Node(v, p, n + 1)
    OBVIOUS
  <2>1. CASE n + 1 = d
    BY <2>1
  <2>2. CASE n + 1 # d
    <3>1. n + 1 \in 1..Len(p) /\ (n + 1) - 1 = n /\ n \in d..Len(p)
      BY <1>1, <2>2
    <3>2. Node(u, p, n) = Node(v, p, n)
      BY <1>3, <3>1
    <3>3. /\ Node(u, p, n + 1) = Item(Node(u, p, n), p[n + 1])
          /\ Node(v, p, n + 1) = Item(Node(v, p, n), p[n + 1])
      <4>1. \A i \in 1..Len(p) : Node(u, p, i) = Item(Node(u, p, i - 1), p[i])
        BY Resolution, Zenon
      <4>2. \A i \in 1..Len(p) : Node(v, p, i) = Item(Node(v, p, i - 1), p[i])
        BY Resolution, Zenon
      <4> QED
        BY <3>1, <4>1, <4>2
    <3> QED
      BY <3>2, <3>3
  <2> QED
    BY <2>1, <2>2
<1>4. \A n \in Nat : n \in good
  <2>1. 0 \in good /\ \A n \in Nat : n \in good => n + 1 \in good
    <3> HIDE DEF Same
    <3> QED
      BY <1>2, <1>3
  <2> HIDE DEF good
  <2> QED
    BY <2>1, Induction
<1>5. Node(u, p, Len(p)) = Node(v, p, Len(p))
  <2>1. Len(p) \in d..Len(p)
    BY <1>1
  <2> QED
    BY <1>1, <1>4, <2>1
<1>6. Resolve(u, p) = Node(u, p, Len(p)) /\ Resolve(v, p) = Node(v, p, Len(p))
  BY Resolution
<1> QED
  BY <1>5, <1>6

Hidings == {RedactedMandate, RedactedReceipt}

LEMMA HidingsAre ==
    ASSUME NEW R \in Hidings
    PROVE  WellFormed(R) /\ IsPresent(R) /\ \A t : Position(R, t) = 0
<1>1. /\ DOMAIN R = {"type", "atom", "keys", "items"}
      /\ R.type = "string" /\ R.keys = <<>> /\ R.items = <<>>
  BY DEF Hidings, RedactedMandate, RedactedReceipt, Scalar
<1>2. <<>> \in Seq(ToSet(<<>>)) /\ DOMAIN <<>> = {}
  OBVIOUS
<1>3. WellFormed(R)
  BY <1>1, <1>2 DEF WellFormed
<1> QED
  BY <1>1, <1>3 DEF IsPresent, Position

\* Along its pointer a replacement changes one item of each value.
LEMMA ReplaceAlong ==
    ASSUME NEW T, NEW q \in Seq(T), NEW value, NEW R,
           IsPresent(Resolve(value, q)),
           \A d \in 0..Len(q) : WellFormed(Node(value, q, d)),
           NEW w, w = ReplacePointer(value, q, R)
    PROVE  /\ Resolve(w, q) = R
           /\ \A d \in 0..(Len(q) - 1) :
                 /\ Shape(Node(w, q, d), Node(value, q, d))
                 /\ WellFormed(Node(w, q, d))
                 /\ \A t : t # q[d + 1] =>
                       Item(Node(w, q, d), t) = Item(Node(value, q, d), t)
<1> DEFINE N == Len(q)
           old(d) == Node(value, q, d)
           at(d) == Position(old(d - 1), q[d])
<1>1. N \in Nat
  OBVIOUS
<1>2. PICK c : Replaced(c, value, q, R) /\ w = c[0]
  BY ReplaceIs
<1>3. ASSUME NEW d \in 1..N
      PROVE  at(d) # 0
  <2> SUFFICES ASSUME at(d) = 0 PROVE FALSE
    OBVIOUS
  <2>1. old(d) = Missing
    BY Resolution DEF Item
  <2>2. \A t : Position(Missing, t) = 0
    BY DEF Missing, Scalar, Position
  <2>3. d \in 0..N /\ (N = d \/ N \in (d + 1)..N)
    BY <1>1
  <2>4. old(N) = Missing
    <3>1. \A e \in (d + 1)..N : old(e) = Missing
      BY <2>1, <2>2, <2>3, DeadEnd
    <3> QED
      BY <2>1, <2>3, <3>1
  <2>5. Resolve(value, q) = Missing
    BY <2>4, Resolution
  <2> QED
    BY <2>5 DEF IsPresent, Missing, Scalar
<1>4. ASSUME NEW d \in 1..N
      PROVE  /\ c[d - 1] = With(old(d - 1), at(d), c[d])
             /\ WellFormed(old(d - 1))
             /\ at(d) \in DOMAIN old(d - 1).items
             /\ \A t : Position(old(d - 1), t) = at(d) => t = q[d]
             /\ Shape(c[d - 1], old(d - 1)) /\ WellFormed(c[d - 1])
             /\ c[d - 1].items[at(d)] = c[d]
             /\ \A j \in DOMAIN old(d - 1).items :
                   j # at(d) => c[d - 1].items[j] = old(d - 1).items[j]
  <2>1. d - 1 \in 0..N
    BY <1>1
  <2>2. WellFormed(old(d - 1))
    BY <2>1
  <2>3. c[d - 1] = With(old(d - 1), at(d), c[d])
    BY <1>2 DEF Replaced
  <2> HIDE DEF old
  <2>4. /\ at(d) \in DOMAIN old(d - 1).items
        /\ \A t : Position(old(d - 1), t) = at(d) => t = q[d]
    BY <1>3, <2>2, PositionIs
  <2> HIDE DEF at
  <2> QED
    BY <2>2, <2>3, <2>4, WithIs
<1>5. ASSUME NEW d \in 1..N, NEW t
      PROVE  Item(c[d - 1], t) = IF t = q[d] THEN c[d] ELSE Item(old(d - 1), t)
  <2> HIDE DEF old
  <2>1. Position(c[d - 1], t) = Position(old(d - 1), t)
    BY <1>4, SamePosition
  <2>2. CASE t = q[d]
    <3>1. Position(c[d - 1], t) = at(d) /\ at(d) # 0
      BY <1>3, <2>1, <2>2
    <3> QED
      BY <1>4, <2>2, <3>1 DEF Item
  <2>3. CASE t # q[d] /\ Position(old(d - 1), t) = 0
    BY <2>1, <2>3 DEF Item
  <2>4. CASE t # q[d] /\ Position(old(d - 1), t) # 0
    <3>1. Position(old(d - 1), t) \in DOMAIN old(d - 1).items
      BY <1>4, <2>4, PositionIs
    <3>2. Position(old(d - 1), t) # at(d)
      BY <1>4, <2>4
    <3> HIDE DEF at
    <3>3. c[d - 1].items[Position(old(d - 1), t)] = old(d - 1).items[Position(old(d - 1), t)]
      BY <1>4, <3>1, <3>2
    <3> QED
      BY <2>1, <2>4, <3>3 DEF Item
  <2> QED
    BY <2>2, <2>3, <2>4
<1> HIDE DEF at
<1> DEFINE Same(n) == n <= N => Node(w, q, n) = c[n]
           good == {n \in Nat : Same(n)}
<1>6. Same(0)
  BY <1>2, Resolution
<1>7. ASSUME NEW n \in Nat, Same(n)
      PROVE  Same(n + 1)
  <2> SUFFICES ASSUME n + 1 <= N
               PROVE  Node(w, q, n + 1) = c[n + 1]
    OBVIOUS
  <2>1. n + 1 \in 1..N /\ (n + 1) - 1 = n /\ Node(w, q, n) = c[n]
    BY <1>1, <1>7
  <2>2. Node(w, q, n + 1) = Item(Node(w, q, n), q[n + 1])
    <3>1. \A i \in 1..N : Node(w, q, i) = Item(Node(w, q, i - 1), q[i])
      BY Resolution
    <3> QED
      BY <2>1, <3>1
  <2>3. Item(c[n], q[n + 1]) = c[n + 1]
    BY <1>5, <2>1
  <2> QED
    BY <2>1, <2>2, <2>3
<1>8. \A n \in Nat : Same(n)
  <2>1. 0 \in good /\ \A n \in Nat : n \in good => n + 1 \in good
    <3> HIDE DEF Same
    <3> QED
      BY <1>6, <1>7
  <2>2. \A n \in Nat : n \in good
    <3> HIDE DEF good
    <3> QED
      BY <2>1, Induction
  <2> HIDE DEF Same
  <2> QED
    BY <2>2
<1>9. Resolve(w, q) = R
  <2>1. Node(w, q, N) = c[N]
    BY <1>1, <1>8
  <2>2. Node(w, q, N) = Resolve(w, q)
    BY Resolution
  <2> QED
    BY <1>2, <2>1, <2>2 DEF Replaced
<1>10. ASSUME NEW d \in 0..(N - 1)
       PROVE  /\ Shape(Node(w, q, d), old(d))
              /\ WellFormed(Node(w, q, d))
              /\ \A t : t # q[d + 1] => Item(Node(w, q, d), t) = Item(old(d), t)
  <2>1. d + 1 \in 1..N /\ (d + 1) - 1 = d /\ d \in Nat /\ d <= N
    BY <1>1
  <2>2. Node(w, q, d) = c[d]
    BY <1>8, <2>1
  <2> HIDE DEF old
  <2>3. Shape(c[d], old(d)) /\ WellFormed(c[d])
    BY <1>4, <2>1
  <2>4. \A t : t # q[d + 1] => Item(c[d], t) = Item(old(d), t)
    BY <1>5, <2>1
  <2> QED
    BY <2>2, <2>3, <2>4
<1> QED
  BY <1>9, <1>10

\* What another pointer finds after a replacement.
LEMMA ReplaceElsewhere ==
    ASSUME NEW T, NEW q \in Seq(T), NEW value, NEW R \in Hidings,
           IsPresent(Resolve(value, q)),
           \A d \in 0..Len(q) : WellFormed(Node(value, q, d)),
           NEW w, w = ReplacePointer(value, q, R),
           NEW p \in Seq(T)
    PROVE  /\ p = q => Resolve(w, p) = R
           /\ IsStrictPrefix(q, p) => Resolve(w, p) = Missing
           /\ IsStrictPrefix(p, q) =>
                 Shape(Resolve(w, p), Resolve(value, p)) /\ WellFormed(Resolve(w, p))
           /\ ~IsPrefix(p, q) /\ ~IsPrefix(q, p) => Resolve(w, p) = Resolve(value, p)
<1> DEFINE N == Len(q)
           M == Len(p)
<1>1. N \in Nat /\ M \in Nat
  OBVIOUS
<1>2. Resolve(w, q) = R
  BY ReplaceAlong
<1>3. ASSUME NEW d \in 0..(N - 1)
      PROVE  /\ Shape(Node(w, q, d), Node(value, q, d))
             /\ WellFormed(Node(w, q, d))
             /\ \A t : t # q[d + 1] => Item(Node(w, q, d), t) = Item(Node(value, q, d), t)
  BY ReplaceAlong
<1>4. ASSUME IsStrictPrefix(q, p)
      PROVE  Resolve(w, p) = Missing
  <2>1. N < M /\ \A i \in 1..N : q[i] = p[i]
    BY <1>4, PrefixIs
  <2>2. N \in 0..M /\ M \in (N + 1)..M /\ N <= M
    BY <1>1, <2>1
  <2>3. Node(w, p, N) = R
    <3>1. Node(w, q, N) = Node(w, p, N)
      <4>1. N \in 0..Len(q) /\ N <= Len(p)
        BY <1>1, <2>1
      <4> HIDE DEF N
      <4> QED
        BY <2>1, <4>1, SameNode
    <3>2. Node(w, q, N) = Resolve(w, q)
      BY Resolution
    <3> QED
      BY <1>2, <3>1, <3>2
  <2>4. \A t : Position(Node(w, p, N), t) = 0
    BY <2>3, HidingsAre
  <2>5. Node(w, p, M) = Missing
    <3> HIDE DEF N
    <3> QED
      BY <2>2, <2>4, DeadEnd
  <2> QED
    BY <2>5, Resolution
<1>5. ASSUME IsStrictPrefix(p, q)
      PROVE  Shape(Resolve(w, p), Resolve(value, p)) /\ WellFormed(Resolve(w, p))
  <2>1. M \in 0..(N - 1) /\ SubSeq(q, 1, M) = p
    BY <1>1, <1>5, PrefixIs
  <2>2. Node(w, q, M) = Resolve(w, p) /\ Node(value, q, M) = Resolve(value, p)
    BY <2>1 DEF Node
  <2> QED
    BY <1>3, <2>1, <2>2
<1>6. ASSUME ~IsPrefix(p, q), ~IsPrefix(q, p)
      PROVE  Resolve(w, p) = Resolve(value, p)
  <2> DEFINE apart == {i \in Nat : i \in 1..M /\ i \in 1..N /\ p[i] # q[i]}
  <2>1. apart # {}
    <3>1. CASE M <= N
      <4>1. \E i \in 1..M : p[i] # q[i]
        BY <1>6, <3>1, PrefixIs
      <4> QED
        BY <1>1, <3>1, <4>1
    <3>2. CASE N <= M
      <4>1. \E i \in 1..N : q[i] # p[i]
        BY <1>6, <3>2, PrefixIs
      <4> QED
        BY <1>1, <3>2, <4>1
    <3> QED
      BY <1>1, <3>1, <3>2
  <2>2. PICK i \in apart : \A j \in apart : i <= j
    <3>1. apart \in SUBSET Nat
      OBVIOUS
    <3> HIDE DEF apart
    <3> QED
      BY <2>1, <3>1, LeastOf
  <2>3. /\ i \in 1..M /\ i \in 1..N /\ p[i] # q[i]
        /\ i - 1 \in 0..(N - 1) /\ i - 1 \in 0..M /\ i - 1 <= N /\ i \in 0..M
        /\ (i - 1) + 1 = i
    BY <1>1, <2>2
  <2>4. \A j \in 1..(i - 1) : p[j] = q[j]
    <3> SUFFICES ASSUME NEW j \in 1..(i - 1), p[j] # q[j] PROVE FALSE
      OBVIOUS
    <3>1. j \in Nat /\ j \in 1..M /\ j \in 1..N /\ j < i
      BY <1>1, <2>3
    <3> QED
      BY <2>2, <3>1
  <2> HIDE DEF N, M, apart
  <2>5. \A u : Node(u, p, i - 1) = Node(u, q, i - 1)
    <3>1. (i - 1) \in 0..Len(p) /\ i - 1 <= Len(q)
      BY <2>3 DEF M, N
    <3> QED
      BY <2>4, <3>1, SameNode, SMTT(30)
  <2>6. \A u : Node(u, p, i) = Item(Node(u, p, i - 1), p[i])
    BY <2>3, Resolution DEF M
  <2>7. Item(Node(w, q, i - 1), p[i]) = Item(Node(value, q, i - 1), p[i])
    BY <1>3, <2>3
  <2>8. Node(w, p, i) = Node(value, p, i)
    BY <2>5, <2>6, <2>7
  <2> QED
    BY <2>3, <2>8, SameBelow DEF M
<1> QED
  BY <1>2, <1>4, <1>5, <1>6

LEMMA PrefixOrder ==
    ASSUME NEW T, NEW p \in Seq(T), NEW q \in Seq(T), NEW r \in Seq(T)
    PROVE  /\ IsPrefix(p, p) /\ ~IsStrictPrefix(p, p)
           /\ IsStrictPrefix(p, q) <=> IsPrefix(p, q) /\ p # q
           /\ IsPrefix(p, q) /\ IsPrefix(q, r) => IsPrefix(p, r)
           /\ IsPrefix(p, q) /\ IsStrictPrefix(q, r) => IsStrictPrefix(p, r)
           /\ IsStrictPrefix(p, q) /\ IsPrefix(q, r) => IsStrictPrefix(p, r)
<1>1. Len(p) \in Nat /\ Len(q) \in Nat /\ Len(r) \in Nat
  OBVIOUS
<1>2. /\ IsPrefix(p, q) <=> Len(p) <= Len(q) /\ \A i \in 1..Len(p) : p[i] = q[i]
      /\ IsPrefix(q, r) <=> Len(q) <= Len(r) /\ \A i \in 1..Len(q) : q[i] = r[i]
      /\ IsPrefix(p, r) <=> Len(p) <= Len(r) /\ \A i \in 1..Len(p) : p[i] = r[i]
      /\ IsPrefix(p, p) <=> Len(p) <= Len(p) /\ \A i \in 1..Len(p) : p[i] = p[i]
  BY PrefixIs
<1>3. /\ IsStrictPrefix(p, q) <=> IsPrefix(p, q) /\ Len(p) < Len(q)
      /\ IsStrictPrefix(q, r) <=> IsPrefix(q, r) /\ Len(q) < Len(r)
      /\ IsStrictPrefix(p, r) <=> IsPrefix(p, r) /\ Len(p) < Len(r)
      /\ IsStrictPrefix(p, p) <=> IsPrefix(p, p) /\ Len(p) < Len(p)
  BY PrefixIs
<1>4. IsPrefix(p, p) /\ ~IsStrictPrefix(p, p)
  BY <1>1, <1>2, <1>3
<1>5. IsStrictPrefix(p, q) <=> IsPrefix(p, q) /\ p # q
  BY DEF IsStrictPrefix
<1>6. IsPrefix(p, q) /\ IsPrefix(q, r) => IsPrefix(p, r)
  <2> SUFFICES ASSUME IsPrefix(p, q), IsPrefix(q, r)
               PROVE  Len(p) <= Len(r) /\ \A i \in 1..Len(p) : p[i] = r[i]
    BY <1>2
  <2>1. Len(p) <= Len(q) /\ Len(q) <= Len(r)
    BY <1>2
  <2>2. \A i \in 1..Len(p) : i \in 1..Len(q)
    BY <1>1, <2>1
  <2> QED
    BY <1>1, <1>2, <2>1, <2>2
<1>7. \A a, b, c \in Nat : /\ a <= b /\ b < c => a < c
                           /\ a < b /\ b <= c => a < c
  OBVIOUS
<1>8. /\ IsPrefix(p, q) => Len(p) <= Len(q)
      /\ IsPrefix(q, r) => Len(q) <= Len(r)
  BY <1>2
<1>9. IsPrefix(p, q) /\ IsStrictPrefix(q, r) => IsStrictPrefix(p, r)
  BY <1>1, <1>3, <1>6, <1>7, <1>8
<1>10. IsStrictPrefix(p, q) /\ IsPrefix(q, r) => IsStrictPrefix(p, r)
  BY <1>1, <1>3, <1>6, <1>7, <1>8
<1> QED
  BY <1>4, <1>5, <1>6, <1>9, <1>10

-----------------------------------------------------------------------------
(* What the report shows.                                                   *)

\* w is v with what is at the hidden pointers replaced.
Shows(w, v, hidden) ==
    \A p \in Pointers :
        /\ WellFormed(Resolve(w, p))
        /\ (\E h \in hidden : IsStrictPrefix(h, p)) => Resolve(w, p) = Missing
        /\ p \in hidden /\ (\A h \in hidden : ~IsStrictPrefix(h, p)) =>
              Resolve(w, p) \in Hidings
        /\ (\A h \in hidden : ~IsPrefix(h, p) /\ ~IsPrefix(p, h)) =>
              Resolve(w, p) = Resolve(v, p)
        /\ (\A h \in hidden : ~IsPrefix(h, p)) => Resolve(w, p).type = Resolve(v, p).type

LEMMA PointersAre ==
    \E T : \A p \in Pointers :
        p \in Seq(T) /\ \A d \in 0..Len(p) : SubSeq(p, 1, d) \in Pointers
<1> DEFINE T == UNION {ToSet(p) : p \in Pointers}
<1>1. ASSUME NEW p \in Pointers
      PROVE  p \in Seq(T)
  <2>1. p \in Seq(ToSet(p)) /\ ToSet(p) \subseteq T
    BY ResponsesAssumption
  <2> QED
    BY <2>1
<1>2. \A p \in Pointers : \A d \in 0..Len(p) : SubSeq(p, 1, d) \in Pointers
  BY ResponsesAssumption
<1> HIDE DEF T
<1> QED
  BY <1>1, <1>2

\* Only below a hidden pointer there is less than there was.
LEMMA GoneIsBelow ==
    ASSUME NEW v, NEW w, NEW hidden \in SUBSET Pointers, Shows(w, v, hidden),
           \A h \in hidden : IsPresent(Resolve(v, h)),
           NEW q \in Pointers, \A h \in hidden : ~IsStrictPrefix(h, q)
    PROVE  /\ IsPresent(Resolve(v, q)) <=> IsPresent(Resolve(w, q))
           /\ q \in hidden => IsPresent(Resolve(w, q))
<1>1. PICK T : \A p \in Pointers : p \in Seq(T)
  BY PointersAre
<1>2. CASE q \in hidden
  <2>1. Resolve(w, q) \in Hidings
    BY <1>2 DEF Shows
  <2> QED
    BY <1>2, <2>1, HidingsAre
<1>3. CASE q \notin hidden
  <2>1. \A h \in hidden : ~IsPrefix(h, q)
    BY <1>1, <1>3, PrefixOrder
  <2> QED
    BY <1>3, <2>1 DEF Shows, IsPresent
<1> QED
  BY <1>2, <1>3

LEMMA HideOne ==
    ASSUME NEW v, NEW w, NEW hidden \in SUBSET Pointers, Shows(w, v, hidden),
           \A h \in hidden : IsPresent(Resolve(v, h)),
           NEW q \in Pointers, NEW R \in Hidings,
           NEW more, more = hidden \union (IF IsPresent(Resolve(v, q)) THEN {q} ELSE {})
    PROVE  Shows(ReplacePointer(w, q, R), v, more)
<1>1. PICK T : \A p \in Pointers :
                  p \in Seq(T) /\ \A d \in 0..Len(p) : SubSeq(p, 1, d) \in Pointers
  BY PointersAre
<1> DEFINE x == ReplacePointer(w, q, R)
<1>2. CASE ~IsPresent(Resolve(w, q))
  <2>1. x = w
    BY <1>2 DEF ReplacePointer
  <2>2. CASE \A h \in hidden : ~IsStrictPrefix(h, q)
    <3>1. more = hidden
      BY <1>2, <2>2, GoneIsBelow
    <3> QED
      BY <2>1, <3>1
  <2>3. CASE \E h \in hidden : IsStrictPrefix(h, q)
    <3>1. PICK g \in hidden : IsStrictPrefix(g, q)
      BY <2>3
    <3>2. ASSUME NEW p \in Pointers
          PROVE  /\ WellFormed(Resolve(w, p))
                 /\ (\E h \in more : IsStrictPrefix(h, p)) => Resolve(w, p) = Missing
                 /\ p \in more /\ (\A h \in more : ~IsStrictPrefix(h, p)) =>
                       Resolve(w, p) \in Hidings
                 /\ (\A h \in more : ~IsPrefix(h, p) /\ ~IsPrefix(p, h)) =>
                       Resolve(w, p) = Resolve(v, p)
                 /\ (\A h \in more : ~IsPrefix(h, p)) =>
                       Resolve(w, p).type = Resolve(v, p).type
      <4>1. p \in Seq(T) /\ q \in Seq(T) /\ g \in Seq(T) /\ g \in more
        BY <1>1
      <4>2. IsStrictPrefix(q, p) => IsStrictPrefix(g, p)
        BY <3>1, <4>1, PrefixOrder
      <4>3. (\E h \in more : IsStrictPrefix(h, p)) => Resolve(w, p) = Missing
        BY <4>2 DEF Shows
      <4>4. p = q => IsStrictPrefix(g, p)
        BY <3>1
      <4> QED
        BY <4>1, <4>3, <4>4 DEF Shows
    <3> QED
      BY <2>1, <3>2 DEF Shows
  <2> QED
    BY <2>2, <2>3
<1>3. CASE IsPresent(Resolve(w, q))
  <2>1. \A h \in hidden : ~IsStrictPrefix(h, q)
    BY <1>3 DEF Shows, IsPresent, Missing, Scalar
  <2>2. IsPresent(Resolve(v, q)) /\ more = hidden \union {q}
    BY <1>3, <2>1, GoneIsBelow
  <2>3. \A d \in 0..Len(q) : WellFormed(Node(w, q, d))
    BY <1>1 DEF Node, Shows
  <2> HIDE DEF x
  <2>4. ASSUME NEW p \in Pointers
        PROVE  /\ WellFormed(Resolve(x, p))
               /\ (\E h \in more : IsStrictPrefix(h, p)) => Resolve(x, p) = Missing
               /\ p \in more /\ (\A h \in more : ~IsStrictPrefix(h, p)) =>
                     Resolve(x, p) \in Hidings
               /\ (\A h \in more : ~IsPrefix(h, p) /\ ~IsPrefix(p, h)) =>
                     Resolve(x, p) = Resolve(v, p)
               /\ (\A h \in more : ~IsPrefix(h, p)) =>
                     Resolve(x, p).type = Resolve(v, p).type
    <3>1. /\ p \in Seq(T) /\ q \in Seq(T)
          /\ \A h \in hidden : h \in Seq(T)
      BY <1>1
    <3>2. /\ p = q => Resolve(x, p) = R
          /\ IsStrictPrefix(q, p) => Resolve(x, p) = Missing
          /\ IsStrictPrefix(p, q) =>
                Shape(Resolve(x, p), Resolve(w, p)) /\ WellFormed(Resolve(x, p))
          /\ ~IsPrefix(p, q) /\ ~IsPrefix(q, p) => Resolve(x, p) = Resolve(w, p)
      BY <1>3, <2>3, <3>1, ReplaceElsewhere DEF x
    <3>3. /\ IsPrefix(q, q) /\ ~IsStrictPrefix(q, q)
          /\ IsStrictPrefix(p, q) <=> IsPrefix(p, q) /\ p # q
          /\ IsStrictPrefix(q, p) <=> IsPrefix(q, p) /\ q # p
      BY <3>1, PrefixOrder
    <3>4. CASE p = q
      <4>1. WellFormed(R)
        BY HidingsAre
      <4>2. \A h \in more : ~IsStrictPrefix(h, p)
        BY <2>1, <2>2, <3>3, <3>4
      <4>3. q \in more /\ IsPrefix(q, p)
        BY <2>2, <3>3, <3>4
      <4> QED
        BY <3>2, <3>4, <4>1, <4>2, <4>3
    <3>5. CASE IsStrictPrefix(q, p)
      <4>1. WellFormed(Missing)
        <5>1. DOMAIN Missing = {"type", "atom", "keys", "items"} /\ Missing.keys = <<>>
              /\ Missing.items = <<>> /\ Missing.type = "missing"
          BY DEF Missing, Scalar
        <5>2. <<>> \in Seq(ToSet(<<>>)) /\ DOMAIN <<>> = {}
          OBVIOUS
        <5> QED
          BY <5>1, <5>2 DEF WellFormed
      <4>2. q \in more /\ IsPrefix(q, p)
        BY <2>2, <3>3, <3>5
      <4> QED
        BY <3>2, <3>5, <4>1, <4>2
    <3>6. CASE IsStrictPrefix(p, q)
      <4>1. \A h \in hidden : ~IsPrefix(h, p)
        <5> SUFFICES ASSUME NEW h \in hidden, IsPrefix(h, p) PROVE FALSE
          OBVIOUS
        <5>1. IsStrictPrefix(h, q)
          BY <3>1, <3>6, PrefixOrder
        <5> QED
          BY <2>1, <5>1
      <4>2. \A h \in hidden : ~IsStrictPrefix(h, p) /\ h # p
        BY <3>1, <4>1, PrefixOrder
      <4>3. ~IsStrictPrefix(q, p) /\ p # q /\ IsPrefix(p, q)
        <5>1. IsStrictPrefix(q, p) => IsStrictPrefix(q, q)
          BY <3>1, <3>3, <3>6, PrefixOrder
        <5> QED
          BY <3>3, <3>6, <5>1
      <4>4. Resolve(w, p).type = Resolve(v, p).type
        BY <4>1 DEF Shows
      <4>5. Resolve(x, p).type = Resolve(v, p).type
        BY <3>2, <3>6, <4>4 DEF Shape
      <4> QED
        BY <2>2, <3>2, <3>6, <4>2, <4>3, <4>5
    <3>7. CASE ~IsPrefix(p, q) /\ ~IsPrefix(q, p)
      <4>1. Resolve(x, p) = Resolve(w, p)
        BY <3>2, <3>7
      <4>2. p # q /\ ~IsStrictPrefix(q, p)
        BY <3>3, <3>7
      <4> QED
        BY <2>2, <3>7, <4>1, <4>2 DEF Shows
    <3> QED
      BY <3>3, <3>4, <3>5, <3>6, <3>7
  <2>5. Shows(x, v, more)
    BY <2>4 DEF Shows
  <2> QED
    BY <2>5 DEF x
<1> QED
  BY <1>2, <1>3

RedactStep(e, part, w) ==
    IF MatchesLocation(e, part) THEN ReplacePointer(w, e.path, Marker(e)) ELSE w

\* The hidden pointers of a part, by the first n assertions.
Hidden(list, part, n) ==
    {list[i].path : i \in {i \in 1..n : /\ MatchesLocation(list[i], part)
                                        /\ IsPresent(Resolve(part.value, list[i].path))}}

LEMMA RedactPartIs ==
    ASSUME NEW S, NEW list \in Seq(S), NEW part
    PROVE  \E f : /\ f[0] = part.value
                  /\ \A n \in 1..Len(list) : f[n] = RedactStep(list[n], part, f[n - 1])
                  /\ RedactPart(list, part) = f[Len(list)]
<1> DEFINE N == Len(list)
           Body(c) == [n \in 0..N |->
                          IF n = 0 THEN part.value
                          ELSE IF MatchesLocation(list[n], part)
                               THEN ReplacePointer(c[n - 1], list[n].path, Marker(list[n]))
                               ELSE c[n - 1]]
           h == CHOOSE c : c = Body(c)
           Upto(n) == n <= N => \E f : /\ f = [i \in 0..n |-> f[i]]
                                       /\ f[0] = part.value
                                       /\ \A i \in 1..n :
                                             f[i] = RedactStep(list[i], part, f[i - 1])
           good == {n \in Nat : Upto(n)}
<1>1. N \in Nat
  OBVIOUS
<1>2. Upto(0)
  <2> DEFINE f == [i \in 0..0 |-> part.value]
  <2>1. f = [i \in 0..0 |-> f[i]] /\ f[0] = part.value /\ 1..0 = {}
    OBVIOUS
  <2> HIDE DEF f
  <2> QED
    BY <2>1
<1>3. ASSUME NEW n \in Nat, Upto(n)
      PROVE  Upto(n + 1)
  <2> HIDE DEF N
  <2> SUFFICES ASSUME n + 1 <= N
               PROVE  \E f : /\ f = [i \in 0..(n + 1) |-> f[i]]
                             /\ f[0] = part.value
                             /\ \A i \in 1..(n + 1) :
                                   f[i] = RedactStep(list[i], part, f[i - 1])
    OBVIOUS
  <2>1. PICK f : /\ f = [i \in 0..n |-> f[i]]
                 /\ f[0] = part.value
                 /\ \A i \in 1..n : f[i] = RedactStep(list[i], part, f[i - 1])
    BY <1>1, <1>3
  <2> DEFINE next == RedactStep(list[n + 1], part, f[n])
             more == [i \in 0..(n + 1) |-> IF i <= n THEN f[i] ELSE next]
  <2> HIDE DEF next
  <2>2. \A i \in 0..n : more[i] = f[i]
    OBVIOUS
  <2>3. more[n + 1] = next
    <3>1. n + 1 \in 0..(n + 1) /\ ~(n + 1 <= n)
      OBVIOUS
    <3> QED
      BY <3>1
  <2>4. more = [i \in 0..(n + 1) |-> more[i]]
    OBVIOUS
  <2> HIDE DEF more
  <2>5. 0 \in 0..n /\ n \in 0..n /\ (n + 1) - 1 = n
    OBVIOUS
  <2>6. ASSUME NEW i \in 1..(n + 1)
        PROVE  more[i] = RedactStep(list[i], part, more[i - 1])
    <3>1. CASE i = n + 1
      BY <2>2, <2>3, <2>5, <3>1 DEF next
    <3>2. CASE i \in 1..n
      <4>1. i \in 0..n /\ i - 1 \in 0..n
        BY <3>2
      <4> QED
        BY <2>1, <2>2, <3>2, <4>1
    <3> QED
      BY <3>1, <3>2
  <2>7. more[0] = part.value
    BY <2>1, <2>2, <2>5
  <2> QED
    BY <2>4, <2>6, <2>7
<1>4. Upto(N)
  <2> HIDE DEF Upto, N
  <2>1. 0 \in good /\ \A n \in Nat : n \in good => n + 1 \in good
    BY <1>2, <1>3
  <2>2. N \in good
    <3> HIDE DEF good
    <3> QED
      BY <1>1, <2>1, Induction
  <2> QED
    BY <2>2
<1>5. PICK f : /\ f = [i \in 0..N |-> f[i]]
               /\ f[0] = part.value
               /\ \A i \in 1..N : f[i] = RedactStep(list[i], part, f[i - 1])
  BY <1>1, <1>4
<1>6. f = Body(f)
  <2>1. \A n \in 0..N : f[n] = IF n = 0 THEN part.value
                                ELSE RedactStep(list[n], part, f[n - 1])
    <3> TAKE n \in 0..N
    <3>1. CASE n = 0
      BY <1>5, <3>1
    <3>2. CASE n # 0
      <4>1. n \in 1..N
        BY <1>1, <3>2
      <4> QED
        BY <1>5, <3>2, <4>1
    <3> QED
      BY <3>1, <3>2
  <2> QED
    BY <1>5, <2>1 DEF RedactStep
<1>7. h = Body(h)
  <2> HIDE DEF Body
  <2> QED
    BY <1>6, Zenon
<1>8. RedactPart(list, part) = h[N]
  BY Zenon DEF RedactPart
<1>9. \A n \in 0..N : h[n] = IF n = 0 THEN part.value
                              ELSE RedactStep(list[n], part, h[n - 1])
  <2> HIDE DEF h
  <2> QED
    BY <1>7 DEF RedactStep
<1>10. 0 \in 0..N /\ \A n \in 1..N : n \in 0..N /\ n # 0
  BY <1>1
<1> HIDE DEF h
<1>11. /\ h[0] = part.value
       /\ \A n \in 1..N : h[n] = RedactStep(list[n], part, h[n - 1])
  BY <1>9, <1>10
<1> QED
  BY <1>8, <1>11

LEMMA RedactPartShows ==
    ASSUME NEW S, NEW list \in Seq(S), \A n \in 1..Len(list) : list[n].path \in Pointers,
           NEW part \in Parts
    PROVE  Shows(RedactPart(list, part), part.value, Hidden(list, part, Len(list)))
<1> DEFINE N == Len(list)
           v == part.value
<1>1. N \in Nat
  OBVIOUS
<1>2. PICK f : /\ f[0] = v
               /\ \A n \in 1..N : f[n] = RedactStep(list[n], part, f[n - 1])
               /\ RedactPart(list, part) = f[N]
  BY RedactPartIs
<1> DEFINE Good(n) == n <= N => Shows(f[n], v, Hidden(list, part, n))
           good == {n \in Nat : Good(n)}
<1>3. Good(0)
  <2>1. Hidden(list, part, 0) = {}
    BY DEF Hidden
  <2>2. \A p \in Pointers : WellFormed(Resolve(v, p))
    BY ResponsesAssumption
  <2> QED
    BY <1>2, <2>1, <2>2 DEF Shows
<1>4. ASSUME NEW n \in Nat, Good(n)
      PROVE  Good(n + 1)
  <2> SUFFICES ASSUME n + 1 <= N
               PROVE  Shows(f[n + 1], v, Hidden(list, part, n + 1))
    OBVIOUS
  <2> DEFINE e == list[n + 1]
             hidden == Hidden(list, part, n)
             more == Hidden(list, part, n + 1)
  <2>1. /\ n + 1 \in 1..N /\ (n + 1) - 1 = n /\ n <= N
        /\ 1..(n + 1) = (1..n) \union {n + 1}
    BY <1>1
  <2>2. f[n + 1] = RedactStep(e, part, f[n]) /\ Shows(f[n], v, hidden) /\ e.path \in Pointers
    BY <1>2, <1>4, <2>1
  <2>3. hidden \in SUBSET Pointers /\ \A h \in hidden : IsPresent(Resolve(v, h))
    <3>1. \A i \in 1..n : i \in 1..N
      BY <1>1, <2>1
    <3> QED
      BY <3>1 DEF Hidden
  <2>4. CASE ~MatchesLocation(e, part)
    <3>1. more = hidden
      BY <2>1, <2>4 DEF Hidden
    <3> QED
      BY <2>2, <2>4, <3>1 DEF RedactStep
  <2>5. CASE MatchesLocation(e, part)
    <3>1. more = hidden \union (IF IsPresent(Resolve(v, e.path)) THEN {e.path} ELSE {})
      <4>1. more = {list[i].path : i \in {i \in (1..n) \union {n + 1} :
                       /\ MatchesLocation(list[i], part)
                       /\ IsPresent(Resolve(part.value, list[i].path))}}
        BY <2>1 DEF Hidden
      <4> HIDE DEF more
      <4> QED
        BY <2>5, <4>1 DEF Hidden
    <3>2. Marker(e) \in Hidings
      BY DEF Marker, Hidings
    <3> HIDE DEF e, hidden, more
    <3>3. Shows(ReplacePointer(f[n], e.path, Marker(e)), v, more)
      BY <2>2, <2>3, <3>1, <3>2, HideOne
    <3> QED
      BY <2>2, <2>5, <3>3 DEF RedactStep, more
  <2> QED
    BY <2>4, <2>5
<1>5. \A n \in Nat : n \in good
  <2>1. 0 \in good /\ \A n \in Nat : n \in good => n + 1 \in good
    <3> HIDE DEF Good
    <3> QED
      BY <1>3, <1>4
  <2> HIDE DEF good
  <2> QED
    BY <2>1, Induction
<1>6. Good(N)
  BY <1>1, <1>5
<1> QED
  BY <1>1, <1>2, <1>6

\* Whatever values came back and however the paths of the assertions are nested,
\* the report hides each of them and what is below, and nothing else.
THEOREM RedactionIsExactly == DiscloseSpec => []RedactionIsExact
<1>1. DiscloseInv => RedactionIsExact
  <2> SUFFICES ASSUME DiscloseInv, progress = "judged", ~response.leaks,
                      NEW k \in DOMAIN response.data, NEW p \in Pointers
               PROVE  LET part == response.data[k]
                          hidden == {e.path : e \in {e \in ToSet(response.ap2) :
                                        /\ MatchesLocation(e, part)
                                        /\ IsPresent(Resolve(part.value, e.path))}}
                          shown == Resolve(reported[k].value, p)
                          value == Resolve(part.value, p)
                      IN /\ (\E h \in hidden : IsStrictPrefix(h, p)) => ~IsPresent(shown)
                         /\ p \in hidden /\ ~(\E h \in hidden : IsStrictPrefix(h, p)) =>
                               shown \in {RedactedMandate, RedactedReceipt}
                         /\ (\A h \in hidden : ~IsPrefix(h, p) /\ ~IsPrefix(p, h)) =>
                               shown = value
                         /\ (\A h \in hidden : ~IsPrefix(h, p)) => shown.type = value.type
    <3>1. DiscloseInv /\ progress = "judged" => Judged
      BY DEF DiscloseInv
    <3>2. DiscloseInv /\ progress = "judged" /\ response.leaks => reported = <<>>
      BY <3>1, Zenon DEF Judged
    <3> QED
      BY <3>2, Zenon DEF RedactionIsExact
  <2> DEFINE list == response.ap2
             part == response.data[k]
             hidden == {e.path : e \in {e \in ToSet(list) :
                           /\ MatchesLocation(e, part)
                           /\ IsPresent(Resolve(part.value, e.path))}}
             shown == Resolve(reported[k].value, p)
             value == Resolve(part.value, p)
  <2>1. /\ response \in Responses /\ reported = Redact(list, response.data)
    BY DEF DiscloseInv, Judged
  <2>2. /\ list \in Seq(ToSet(list)) /\ response.data \in Seq(Parts)
        /\ \A e \in ToSet(list) : e.path \in Pointers
    BY <2>1, ResponsesAssumption
  <2>3. part \in Parts /\ DOMAIN part = {"source", "media", "value"}
    <3>1. part \in Parts
      BY <2>2
    <3> QED
      BY <3>1, ResponsesAssumption
  <2>4. reported[k].value = RedactPart(list, part)
    BY <2>1, <2>3 DEF Redact
  <2>5. /\ ToSet(list) = {list[n] : n \in 1..Len(list)}
        /\ \A n \in 1..Len(list) : list[n].path \in Pointers
    <3>1. DOMAIN list = 1..Len(list)
      BY <2>2
    <3>2. ToSet(list) = {list[n] : n \in 1..Len(list)}
      <4> HIDE DEF list
      <4> QED
        BY <3>1 DEF ToSet
    <3> QED
      BY <2>2, <3>2
  <2>6. hidden = Hidden(list, part, Len(list))
    BY <2>5 DEF Hidden
  <2> HIDE DEF hidden, list, part
  <2>7. Shows(RedactPart(list, part), part.value, hidden)
    BY <2>2, <2>3, <2>5, <2>6, RedactPartShows
  <2>8. /\ (\E h \in hidden : IsStrictPrefix(h, p)) => shown = Missing
        /\ p \in hidden /\ (\A h \in hidden : ~IsStrictPrefix(h, p)) => shown \in Hidings
        /\ (\A h \in hidden : ~IsPrefix(h, p) /\ ~IsPrefix(p, h)) => shown = value
        /\ (\A h \in hidden : ~IsPrefix(h, p)) => shown.type = value.type
    BY <2>4, <2>7 DEF Shows
  <2>9. ~IsPresent(Missing)
    BY DEF IsPresent, Missing, Scalar
  <2> QED
    BY <2>8, <2>9 DEF Hidings, hidden, list, part
<1>2. QED
  BY <1>1, DiscloseInvariant, PTL
===============================================================================
