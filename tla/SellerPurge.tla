----------------------------- MODULE SellerPurge -----------------------------
(***************************************************************************)
(* Deleting a seller (apps/accounts/purge.py, tasks.py). The request first *)
(* blocks the account and takes the active listings off the marketplaces;  *)
(* a task retried a limited number of times deletes the account and its    *)
(* products when no job is busy and no listing active. Checking, erasing   *)
(* the rows that refer to a product and erasing the product are statements *)
(* of one transaction, which holds the seller's row and nothing that a     *)
(* manager needs to publish: PostgreSQL shows each statement what has been *)
(* committed by then, and Django refuses to erase a product with rows.     *)
(***************************************************************************)
EXTENDS AccountCodes

CONSTANTS
  Listings,    \* listings of the seller's product, each with an operation of
               \* its own to take it off (OTTO: deactivate, Kaufland: delete)
  MaxRetries,  \* max_retries of finalize_seller_purge
  MaxFaults    \* bound on dying workers and lost messages

ASSUME RetriesAssumption == MaxRetries \in Nat
ASSUME FaultsAssumption  == MaxFaults \in Nat

VARIABLES
  rows,      \* rows[l]: the publication's status
  jobs,      \* jobs[l]: the job about l that is not finished
  online,    \* listings that customers see
  code,      \* the product's EAN code
  purge,     \* the transaction of a purge, and the rows it has erased
  finals,    \* the finalize tasks to run: how many retries each has left
  faults
VARIABLE
  crossed    \* history: a publication was requested within such a transaction

purgeVars == <<rows, jobs, online, code, purge, finals, faults, crossed>>
vars == <<accountVars, purgeVars>>

-----------------------------------------------------------------------------
RowStatus == {"none", "busy", "active", "off", "failed"}
Job       == [kind : {"none", "publish", "remove"},
              pc : {"none", "queued", "lost", "claimed", "started", "ok", "failed", "dead"}]
NoJob     == [kind |-> "none", pc |-> "none"]
Closed    == [pc |-> "idle", by |-> "none", rows |-> {}, jobs |-> {}]

(* What the open transaction has erased cannot be updated until its end.   *)
Erased(l) == l \in purge.rows \cup purge.jobs
Deleted   == account.status = "deleted"
Active    == {l \in Listings : rows[l] = "active"}
Alive(l)  == jobs[l].pc \in {"queued", "claimed", "started", "ok", "failed"}

(* _seller_has_busy_marketplace_work                                       *)
Busy == \E l \in Listings : jobs[l].pc # "none" \/ rows[l] = "busy"

Fault == faults < MaxFaults /\ faults' = faults + 1

(* A new account owns nothing; a seller owns a product with a code, which  *)
(* its first active listing has spent.                                     *)
PurgeInit ==
  /\ Init
  /\ IF Present
     THEN /\ rows \in [Listings -> {"none", "active", "failed"}]
          /\ code = IF Active = {} THEN "reserved" ELSE "consumed"
     ELSE rows = [l \in Listings |-> "none"] /\ code = "none"
  /\ online = Active
  /\ jobs = [l \in Listings |-> NoJob]
  /\ purge = Closed /\ finals = {} /\ faults = 0 /\ crossed = FALSE

-----------------------------------------------------------------------------
(* purge_seller locks the seller and refuses while work is in progress.    *)
RequestPurge ==
  /\ Event /\ Present /\ purge = Closed /\ ~Busy
  /\ purge' = [Closed EXCEPT !.pc = "checked", !.by = "request"]
  /\ UNCHANGED <<account, email, reset, stamp, tokens, sessions, pending, wrong, resets, late>>
  /\ UNCHANGED <<rows, jobs, online, code, finals, faults, crossed>>

(* Listings are active: create_listing_state_jobs, is_active = False,      *)
(* revoke_refresh_tokens, and after the commit the messages in their       *)
(* order, those of the jobs first: one that fails stops the rest.          *)
Block ==
  /\ purge.pc = "checked" /\ purge.by = "request" /\ Active # {}
  /\ purge' = Closed
  /\ account' = [account EXCEPT !.active = FALSE] /\ sessions' = {}
  /\ rows' = [l \in Listings |-> IF l \in Active THEN "busy" ELSE rows[l]]
  /\ \E lost \in SUBSET Active, told \in BOOLEAN :
       /\ lost # {} => ~told
       /\ IF told THEN UNCHANGED faults ELSE Fault
       /\ jobs' = [l \in Listings |->
                     IF l \notin Active THEN jobs[l]
                     ELSE [kind |-> "remove", pc |-> IF l \in lost THEN "lost" ELSE "queued"]]
       /\ finals' = IF told THEN finals \cup {MaxRetries} ELSE finals
  /\ UNCHANGED <<email, reset, stamp, tokens, pending, events, wrong, resets, late>>
  /\ UNCHANGED <<online, code, crossed>>

Retried(k) == IF k = 0 THEN {} ELSE {k - 1}

(* The last retry comes forty times twenty seconds after the first try,    *)
(* when the jobs of the purge have ended if a worker runs them at all.     *)
Patient(k) == k = 0 => \A l \in Listings : ~Alive(l)

(* Faulty: a listing that is still active does not hold the deletion up.   *)
FinalizeActive(k) ==
  /\ k \in finals /\ purge = Closed /\ Patient(k)
  /\ IF ~Present THEN finals' = finals \ {k} /\ UNCHANGED purge
     ELSE IF Busy
     THEN finals' = (finals \ {k}) \cup Retried(k) /\ UNCHANGED purge
     ELSE /\ finals' = finals \ {k}
          /\ purge' = [Closed EXCEPT !.pc = "checked", !.by = "finalize"]
  /\ UNCHANGED <<accountVars, rows, jobs, online, code, faults, crossed>>

(* Faulty: a task that finds work in progress is not retried.              *)
FinalizeOnce(k) ==
  /\ k \in finals /\ purge = Closed /\ Patient(k)
  /\ finals' = finals \ {k}
  /\ IF ~Present \/ Busy \/ Active # {} THEN UNCHANGED purge
     ELSE purge' = [Closed EXCEPT !.pc = "checked", !.by = "finalize"]
  /\ UNCHANGED <<accountVars, rows, jobs, online, code, faults, crossed>>

(* finalize_seller_purge and try_finalize_seller_purge up to its checks    *)
Finalize(k) ==
  /\ k \in finals /\ purge = Closed /\ Patient(k)
  /\ IF ~Present THEN finals' = finals \ {k} /\ UNCHANGED purge
     ELSE IF Busy \/ Active # {}
     THEN finals' = (finals \ {k}) \cup Retried(k) /\ UNCHANGED purge
     ELSE /\ finals' = finals \ {k}
          /\ purge' = [Closed EXCEPT !.pc = "checked", !.by = "finalize"]
  /\ UNCHANGED <<accountVars, rows, jobs, online, code, faults, crossed>>

(* _hard_delete_seller_rows: publications and jobs, as they are by now ... *)
Erase ==
  /\ purge.pc = "checked" /\ (purge.by = "request" => Active = {})
  /\ purge' = [purge EXCEPT !.pc = "erased",
                         !.rows = {l \in Listings : rows[l] # "none"},
                         !.jobs = {l \in Listings : jobs[l] # NoJob}]
  /\ UNCHANGED <<accountVars, rows, jobs, online, code, finals, faults, crossed>>

(* ... then codes, products and the seller.  A row that came since then    *)
(* protects its product: nothing is deleted.                               *)
Commit ==
  /\ purge.pc = "erased" /\ purge' = Closed
  /\ IF \E l \in Listings : \/ l \notin purge.rows /\ rows[l] # "none"
                            \/ l \notin purge.jobs /\ jobs[l] # NoJob
     THEN UNCHANGED <<account, sessions, rows, jobs, code>>
     ELSE /\ account' = [account EXCEPT !.status = "deleted"] /\ sessions' = {}
          /\ rows' = [l \in Listings |-> "none"]
          /\ jobs' = [l \in Listings |->
                        IF Alive(l) /\ jobs[l].pc # "queued" THEN jobs[l] ELSE NoJob]
          /\ code' = IF code = "reserved" THEN "available" ELSE code
  /\ UNCHANGED <<email, reset, stamp, tokens, pending, events, wrong, resets, late>>
  /\ UNCHANGED <<online, finals, faults, crossed>>

-----------------------------------------------------------------------------
(* A manager has a listing published: only a job is created.               *)
Publish(l) ==
  /\ Event /\ Present /\ code # "none"
  /\ jobs[l] = NoJob /\ rows[l] \in {"none", "off", "failed"}
  /\ jobs' = [jobs EXCEPT ![l] = [kind |-> "publish", pc |-> "queued"]]
  /\ crossed' = (crossed \/ purge # Closed)
  /\ UNCHANGED <<account, email, reset, stamp, tokens, sessions, pending, wrong, resets, late>>
  /\ UNCHANGED <<rows, online, code, purge, finals, faults>>

(* execute_marketplace_job: the claim, ...                                 *)
Claim(l) ==
  /\ jobs[l].pc = "queued" /\ l \notin purge.jobs
  /\ jobs' = [jobs EXCEPT ![l].pc = "claimed"]
  /\ UNCHANGED <<accountVars, rows, online, code, purge, finals, faults, crossed>>

(* ... start_publication_attempt, which fails without a product, ...       *)
Start(l) ==
  /\ jobs[l].pc = "claimed" /\ ~Erased(l)
  /\ IF Deleted THEN jobs' = [jobs EXCEPT ![l] = NoJob] /\ UNCHANGED rows
     ELSE /\ jobs' = [jobs EXCEPT ![l].pc = "started"]
          /\ rows' = [rows EXCEPT ![l] = "busy"]
  /\ UNCHANGED <<accountVars, online, code, purge, finals, faults, crossed>>

(* ... the request to the marketplace, ...                                 *)
Call(l) == \E done \in BOOLEAN :
  /\ jobs[l].pc = "started"
  /\ jobs' = [jobs EXCEPT ![l].pc = IF done THEN "ok" ELSE "failed"]
  /\ online' = IF ~done THEN online
               ELSE IF jobs[l].kind = "publish" THEN online \cup {l} ELSE online \ {l}
  /\ UNCHANGED <<accountVars, rows, code, purge, finals, faults, crossed>>

(* ... and the end: mark_publication_succeeded with consume_ean_code, or   *)
(* mark_publication_failed, and the job, all of them updates of rows.      *)
Outcome(job) ==
  CASE job.kind = "publish" -> IF job.pc = "ok" THEN "active" ELSE "failed"
    [] job.kind = "remove"  -> IF job.pc = "ok" THEN "off" ELSE "active"

Mark(l) ==
  /\ jobs[l].pc \in {"ok", "failed"} /\ ~Erased(l)
  /\ jobs' = [jobs EXCEPT ![l] = NoJob]
  /\ IF Deleted THEN UNCHANGED <<rows, code>>
     ELSE /\ rows' = [rows EXCEPT ![l] = Outcome(jobs[l])]
          /\ code' = IF rows'[l] = "active" THEN "consumed" ELSE code
  /\ UNCHANGED <<accountVars, online, purge, finals, faults, crossed>>

(* A worker dies, and nobody runs its job again ...                        *)
Die(l) ==
  /\ Fault /\ jobs[l].pc \in {"claimed", "started", "ok", "failed"}
  /\ jobs' = [jobs EXCEPT ![l] = IF Deleted THEN NoJob ELSE [@ EXCEPT !.pc = "dead"]]
  /\ UNCHANGED <<accountVars, rows, online, code, purge, finals, crossed>>

(* ... until recover_stale_orchestrator_jobs fails the job, not the row.   *)
Recover(l) ==
  /\ jobs[l].pc = "dead" /\ l \notin purge.jobs
  /\ jobs' = [jobs EXCEPT ![l] = NoJob]
  /\ UNCHANGED <<accountVars, rows, online, code, purge, finals, faults, crossed>>

-----------------------------------------------------------------------------
Transact == Block \/ Erase \/ Commit
Work(l)  == Claim(l) \/ Start(l) \/ Call(l) \/ Mark(l)

Next ==
  \/ purge = Closed /\ Locking /\ UNCHANGED purgeVars
  \/ Free /\ UNCHANGED purgeVars
  \/ RequestPurge \/ Transact
  \/ \E k \in 0 .. MaxRetries : Finalize(k)
  \/ \E l \in Listings : Publish(l) \/ Work(l) \/ Die(l) \/ Recover(l)

(* A transaction ends, a message that was sent is delivered, and a worker  *)
(* goes on with what it runs.  Nobody has to call.                         *)
Fairness ==
  /\ WF_vars(Transact)
  /\ \A k \in 0 .. MaxRetries : WF_vars(Finalize(k))
  /\ \A l \in Listings : WF_vars(Work(l))

Spec == PurgeInit /\ [][Next]_vars /\ Fairness

-----------------------------------------------------------------------------
TypeOK ==
  /\ AccountTypeOK
  /\ rows \in [Listings -> RowStatus] /\ jobs \in [Listings -> Job]
  /\ online \subseteq Listings /\ code \in {"none", "reserved", "consumed", "available"}
  /\ purge \in [pc : {"idle", "checked", "erased"}, by : {"none", "request", "finalize"},
                rows : SUBSET Listings, jobs : SUBSET Listings]
  /\ finals \subseteq 0 .. MaxRetries /\ faults \in 0 .. MaxFaults /\ crossed \in BOOLEAN

CodesOk == TypeOK /\ CodesHold

(* "Active marketplace listings are removed first": a seller who is gone   *)
(* leaves no listing online and no request under way, so that the codes    *)
(* given back are on no shelf, unless a manager requested a publication    *)
(* while a purge's transaction was open.                                   *)
NothingLeft ==
  (Deleted /\ ~crossed) => online = {} /\ \A l \in Listings : jobs[l] = NoJob

(* "fully deleted after those jobs finish": a purge that began deletes the *)
(* seller, or ends over a listing that is active again, or over one whose  *)
(* job died or was never delivered.                                        *)
PurgeEnds ==
  (finals # {}) ~> \/ Deleted
                   \/ crossed
                   \/ Active # {}
                   \/ \E l \in Listings :
                        \/ jobs[l].pc \in {"lost", "dead"}
                        \/ rows[l] = "busy" /\ jobs[l] = NoJob
=============================================================================
