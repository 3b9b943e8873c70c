------------------------ MODULE MCConfirmationPolling ------------------------
(* Finite instances of ConfirmationPolling. *)
EXTENDS ConfirmationPolling, TLC

OttoJv     == [market |-> "otto", account |-> "jv"]
KauflandJv == [market |-> "kaufland", account |-> "jv"]
BothMarkets == {OttoJv, KauflandJv}
=============================================================================
