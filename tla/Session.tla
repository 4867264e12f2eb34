------------------------------- MODULE Session -------------------------------
(***************************************************************************)
(* A2ASession.connect and close: the Agent Card is resolved and validated, *)
(* then one client is created and, for an agent that streams, a second one *)
(* for the task lifecycle.  Each client has an HTTP transport of its own.  *)
(* An attempt that fails closes what it opened before it raises.           *)
(* discover_agent stops at the card.                                       *)
(*                                                                         *)
(* That closing a client closes its transport is the SDK's part.           *)
(***************************************************************************)
VARIABLES
    phase,      \* where connect or close is
    cardPath,   \* whether the configuration names the card's path
    streams,    \* card.capabilities.streaming
    transports, \* the transports that are open: of the "client", of the "lifecycle"
    raised      \* the class of the exception in flight, or "none"

vars == <<phase, cardPath, streams, transports, raised>>

Phases == {"idle", "card", "legacy", "validate", "create", "lifecycle", "connected",
           "failing", "failingLifecycle", "failed", "closing", "closed"}
Classes == {"caught", "uncaught", "interrupt"}

Init ==
    /\ phase = "idle"
    /\ cardPath \in BOOLEAN
    /\ streams = FALSE
    /\ transports = {}
    /\ raised = "none"

\* The except clause takes over.
Fail(class) ==
    /\ raised' = class
    /\ phase' = "failing"

Go(p) ==
    /\ phase' = p
    /\ UNCHANGED raised

\* _http_client, before the try statement; nothing else is open.
Open ==
    /\ phase \in {"idle", "closed"}
    /\ transports' = {"client"}
    /\ Go("card")
    /\ UNCHANGED <<cardPath, streams>>

-----------------------------------------------------------------------------
(* connect                                                                  *)

CardArrives ==
    /\ streams' \in BOOLEAN
    /\ Go("validate")

CardFails ==
    /\ \E class \in Classes : Fail(class)
    /\ UNCHANGED streams

\* _resolve_card: a 404 at the default path leads to the legacy one.
ResolveCard ==
    /\ phase = "card"
    /\ \/ CardArrives
       \/ CardFails
       \/ ~cardPath /\ Go("legacy") /\ UNCHANGED streams
    /\ UNCHANGED <<cardPath, transports>>

ResolveLegacyCard ==
    /\ phase = "legacy"
    /\ CardArrives \/ CardFails
    /\ UNCHANGED <<cardPath, transports>>

\* _validate_card_interfaces and _validate_card_extensions: ProtocolError.
ValidateCard ==
    /\ phase = "validate"
    /\ Go("create") \/ Fail("caught")
    /\ UNCHANGED <<cardPath, streams, transports>>

\* ClientFactory.create raises ValueError without a common transport, and
\* _grpc_target a ProtocolError.
CreateFails == Fail("caught") \/ Fail("uncaught")

CreateClient ==
    /\ phase = "create"
    /\ Go(IF streams THEN "lifecycle" ELSE "connected") \/ CreateFails
    /\ UNCHANGED <<cardPath, streams, transports>>

\* The second transport is opened, then its client created.
CreateLifecycleClient ==
    /\ phase = "lifecycle"
    /\ transports' = transports \union {"lifecycle"}
    /\ Go("connected") \/ CreateFails
    /\ UNCHANGED <<cardPath, streams>>

\* discover_agent creates no client: its transport is all there is to close.
Discovered ==
    /\ phase = "create"
    /\ streams' = FALSE
    /\ Go("connected")
    /\ UNCHANGED <<cardPath, transports>>

\* Fault: the second transport stays open when closing the first one fails.
CloseClientOnly ==
    /\ phase = "failing"
    /\ transports' = transports \ {"client"}
    /\ \/ Go("failingLifecycle")
       \/ raised' \in Classes /\ phase' = "failed"
    /\ UNCHANGED <<cardPath, streams>>

\* Awaiting a close may raise, which replaces the exception in flight.
CloseOne(transport, next) ==
    /\ transports' = transports \ {transport}
    /\ raised' \in {raised} \union Classes
    /\ phase' = next
    /\ UNCHANGED <<cardPath, streams>>

\* The except clause: the client, or the transport without one, and finally
\* whatever there is of the second.
CloseFailed ==
    /\ phase = "failing"
    /\ CloseOne("client", "failingLifecycle")

CloseFailedLifecycle ==
    /\ phase = "failingLifecycle"
    /\ \/ "lifecycle" \in transports /\ CloseOne("lifecycle", "failed")
       \/ /\ "lifecycle" \notin transports
          /\ Go("failed")
          /\ UNCHANGED <<cardPath, streams, transports>>

Start ==
    \/ Open
    \/ ResolveCard
    \/ ResolveLegacyCard
    \/ ValidateCard
    \/ CloseFailed
    \/ CloseFailedLifecycle

Connect ==
    \/ Start
    \/ CreateClient
    \/ CreateLifecycleClient

Discover ==
    \/ Start
    \/ Discovered

-----------------------------------------------------------------------------
(* close                                                                    *)

CloseClient ==
    /\ phase = "connected"
    /\ CloseOne("client", IF streams THEN "closing" ELSE "closed")

CloseLifecycle ==
    /\ phase = "closing"
    /\ CloseOne("lifecycle", "closed")

Close == CloseClient \/ CloseLifecycle

=============================================================================
