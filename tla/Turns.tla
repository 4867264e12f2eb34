-------------------------------- MODULE Turns --------------------------------
(***************************************************************************)
(* The turn lists of a scenario, as far as the order of operations goes.   *)
(***************************************************************************)
EXTENDS Integers, Sequences

\* "operate" stands for cancel and get_task, which check no identity.
Kinds == {"send", "push", "await_push", "operate", "subscribe"}
Actions == {"await_push", "operate", "subscribe"}

\* What a trial relies on: a task to operate on may exist, and a wait comes
\* right after the push turn it belongs to.
ValidScript(script) ==
    /\ script # <<>>
    /\ script[1] \notin Actions
    /\ \A i \in 1..Len(script) :
          /\ script[i] = "push" =>
                i < Len(script) /\ script[i + 1] = "await_push"
          /\ script[i] = "await_push" => i > 1 /\ script[i - 1] = "push"
=============================================================================
