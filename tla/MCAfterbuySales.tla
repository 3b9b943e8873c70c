--------------------------- MODULE MCAfterbuySales --------------------------
(* Finite instances of AfterbuySales. *)
EXTENDS AfterbuySales, TLC
=============================================================================
