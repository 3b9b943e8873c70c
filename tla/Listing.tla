------------------------------ MODULE Listing ------------------------------
(***************************************************************************)
(* The life of one MarketplacePublication row, as functions on its record: *)
(* which operations a marketplace supports, which status a running and a   *)
(* finished operation leaves, and what start / success / failure write.    *)
(* These are the pure parts of apps/orchestrator that the state machines   *)
(* (Orchestrator, and the modules composed with it) share.                 *)
(***************************************************************************)
EXTENDS Naturals, FiniteSets

Markets  == {"otto", "hood", "kaufland"}
Accounts == {"jv", "xl"}

(* One row per (product, marketplace, account); the product is fixed.      *)
AllTargets == [market : Markets, account : Accounts]

PublicationOps == {"publish", "update", "activate", "deactivate", "delete"}
Operations     == PublicationOps \cup {"search"}

StableStatuses   == {"pending", "active", "deactivated", "deleted", "failed"}
RunningStatuses  == {"publishing", "deactivating", "deleting"}
PubStatuses      == StableStatuses \cup RunningStatuses

(* "none" is the missing row; before = "" is the blank column.  published  *)
(* is published_at IS NOT NULL.                                            *)
Publication == [status : PubStatuses \cup {"none"},
                before : PubStatuses \cup {""},
                published : BOOLEAN]

NoRow == [status |-> "none", before |-> "", published |-> FALSE]

Supports(m, op) ==
  \/ op \in {"search", "publish", "update"}
  \/ op \in {"activate", "deactivate"} /\ m \in {"otto", "kaufland"}
  \/ op = "delete" /\ m \in {"hood", "kaufland"}

StatusAfterSuccess(op) ==
  CASE op \in {"publish", "update", "activate"} -> "active"
    [] op = "deactivate" -> "deactivated"
    [] op = "delete"     -> "deleted"

StatusDuring(op) ==
  CASE op \in {"publish", "update", "activate"} -> "publishing"
    [] op = "deactivate" -> "deactivating"
    [] op = "delete"     -> "deleting"

(* The statuses an operation may start from; "publish" checks none, and    *)
(* creates the row when it is missing.                                     *)
StartableFrom(op) ==
  CASE op = "publish"    -> PubStatuses \cup {"none"}
    [] op = "update"     -> {"active"}
    [] op = "activate"   -> {"deactivated", "publishing"}
    [] op = "deactivate" -> {"active", "deactivating"}
    [] op = "delete"     -> {"active", "deactivated", "deleting"}

(* Moves a row into its in-progress status.  The status it leaves is       *)
(* remembered unless the row already has that in-progress status.          *)
Begun(p, op) ==
  LET from == IF p.status = "none" THEN "pending" ELSE p.status
  IN  [p EXCEPT !.status = StatusDuring(op),
                !.before = IF from = StatusDuring(op) THEN @ ELSE from]

(* start_publication_attempt *)
CanStart(p, op) == p.status \in StartableFrom(op)
Started(p, op)  == Begun(p, op)

(* mark_publication_succeeded, and the flag it returns. *)
Succeeded(p, op) ==
  [p EXCEPT !.status    = StatusAfterSuccess(op),
            !.before    = "",
            !.published = @ \/ StatusAfterSuccess(op) = "active"]
(* Faulty: asked after the row was saved. *)
FirstSuccessLate(p, op) ==
  StatusAfterSuccess(op) = "active" /\ ~Succeeded(p, op).published
FirstSuccess(p, op) == StatusAfterSuccess(op) = "active" /\ ~p.published

(* Faulty: restores without asking whether there is a status to restore.   *)
FailedUnchecked(p, op) ==
  [p EXCEPT !.status = IF op = "publish" THEN "failed" ELSE p.before,
            !.before = ""]

(* mark_publication_failed *)
Failed(p, op) ==
  [p EXCEPT !.status = CASE op = "publish" -> "failed"
                         [] op # "publish" /\ p.before # "" -> p.before
                         [] OTHER -> @,
            !.before = ""]

(* The external operation behind a listing-state action, "none" if the     *)
(* marketplace has no way back.                                            *)
OperationFor(m, action) ==
  CASE action = "deactivate" -> IF m = "otto" THEN "deactivate" ELSE "delete"
    [] action = "activate"   -> IF m = "otto" THEN "activate"   ELSE "none"

(* The status a listing-state action selects publications by. *)
DesiredStatus(action) ==
  IF action = "deactivate" THEN "active" ELSE "deactivated"

(* What a manual or checked reconciliation to status s writes. *)
Reconciled(p, s) ==
  [p EXCEPT !.status = s, !.before = "", !.published = @ \/ s = "active"]
=============================================================================
