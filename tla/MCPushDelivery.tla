--------------------------- MODULE MCPushDelivery ---------------------------
(* Instances of PushDelivery for TLC. *)
EXTENDS PushDelivery, TLC

CONSTANTS j1, j2, d1, d2

OneAccount == [x \in Jobs \cup Devices |-> 1]

TwoAccounts == (j1 :> 1) @@ (d1 :> 1) @@ (j2 :> 2) @@ (d2 :> 2)
=============================================================================
