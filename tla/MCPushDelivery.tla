--------------------------- MODULE MCPushDelivery ---------------------------
(* Finite instances of PushDelivery. *)
EXTENDS PushDelivery, TLC

CONSTANTS n1, d1, d2, w1, w2

OneNote == {n1}
TwoDevices == {d1, d2}
TwoWorkers == {w1, w2}
=============================================================================
