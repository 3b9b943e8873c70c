---------------------------- MODULE MCSellerPurge ----------------------------
(* Finite instances of SellerPurge. *)
EXTENDS SellerPurge, TLC
=============================================================================
