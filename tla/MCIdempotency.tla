--------------------------- MODULE MCIdempotency ----------------------------
(* Finite instances of Idempotency: three requests, two payloads. *)
EXTENDS Idempotency, TLC

CONSTANTS r1, r2, r3

ThreeRequests == {r1, r2, r3}
TwoPayloads   == (r1 :> "a") @@ (r2 :> "a") @@ (r3 :> "b")
=============================================================================
