--------------------------- MODULE MCPushDelivery ---------------------------
(* Small instances of PushDelivery for TLC.                                 *)
EXTENDS PushDelivery, TLC

CONSTANTS i1, i2

Delivery(body, outer, kind) ==
    [body |-> body, outer |-> outer, kind |-> kind, size |-> 1]

\* A progress and a terminal delivery of the task, and one of another task.
MCEvents == {Delivery(1, i1, "progress"),
             Delivery(2, i1, "terminal"),
             Delivery(3, i2, "terminal")}

\* The two deliveries of the task.
OwnEvents == {Delivery(1, i1, "progress"),
             Delivery(2, i1, "terminal")}

Symmetry == Permutations(Conns)
=============================================================================
