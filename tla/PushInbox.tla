------------------------------ MODULE PushInbox ------------------------------
(***************************************************************************)
(* What a push subscription promises the trial that awaits it, with no     *)
(* server, connection or queue: an ordered collection of distinct          *)
(* deliveries, and at most one verdict.  A success is the shortest prefix  *)
(* of the accepted deliveries that ends with a terminal one; every         *)
(* delivery in it is of the bound identity.                                *)
(***************************************************************************)
EXTENDS Integers, Sequences, SequencesExt

CONSTANTS Subs, Events, Identities, None

VARIABLES
    accepted, \* the distinct deliveries of each subscription, in order
    bound,    \* the identity each subscription is bound to
    verdict,  \* "pending", "ok" or "error"
    outcome   \* the deliveries the successful outcome was built from

vars == <<accepted, bound, verdict, outcome>>

Init ==
    /\ accepted = [s \in Subs |-> <<>>]
    /\ bound = [s \in Subs |-> None]
    /\ verdict = [s \in Subs |-> "pending"]
    /\ outcome = [s \in Subs |-> <<>>]

Accept(s, e) ==
    /\ e \notin ToSet(accepted[s])
    /\ accepted' = [accepted EXCEPT ![s] = Append(@, e)]
    /\ UNCHANGED <<bound, verdict, outcome>>

Bind(s, i) ==
    /\ bound[s] = None
    /\ bound' = [bound EXCEPT ![s] = i]
    /\ UNCHANGED <<accepted, verdict, outcome>>

Decides(s, n) ==
    /\ accepted[s][n].outer = bound[s]
    /\ accepted[s][n].kind = "terminal"
    /\ \A k \in 1..(n - 1) :
          accepted[s][k].outer = bound[s] /\ accepted[s][k].kind = "progress"

Succeed(s) ==
    /\ bound[s] # None
    /\ verdict[s] = "pending"
    /\ \E n \in DOMAIN accepted[s] :
          /\ Decides(s, n)
          /\ outcome' = [outcome EXCEPT ![s] = SubSeq(accepted[s], 1, n)]
    /\ verdict' = [verdict EXCEPT ![s] = "ok"]
    /\ UNCHANGED <<accepted, bound>>

Fail(s) ==
    /\ bound[s] # None
    /\ verdict[s] = "pending"
    /\ verdict' = [verdict EXCEPT ![s] = "error"]
    /\ UNCHANGED <<accepted, bound, outcome>>

Next ==
    \E s \in Subs :
        \/ \E e \in Events : Accept(s, e)
        \/ \E i \in Identities : Bind(s, i)
        \/ Succeed(s)
        \/ Fail(s)

Spec == Init /\ [][Next]_vars
=============================================================================
