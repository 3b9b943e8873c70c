--------------------------- MODULE MCOrchestrator ---------------------------
(* Finite instances of Orchestrator for TLC. *)
EXTENDS Orchestrator, TLC

OttoJv     == [market |-> "otto", account |-> "jv"]
HoodJv     == [market |-> "hood", account |-> "jv"]
KauflandJv == [market |-> "kaufland", account |-> "jv"]
KauflandXl == [market |-> "kaufland", account |-> "xl"]

OneTarget    == {KauflandJv}

MixedTargets == {OttoJv, KauflandXl}

ContentOps == {"update", "search", "publish"}

VisibilityOps == PublicationOps \ {"update"}

Symmetry == Permutations(Jobs) \cup Permutations(Workers)
=============================================================================
