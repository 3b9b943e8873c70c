---------------------------- MODULE Orchestrator ----------------------------
(***************************************************************************)
(* The marketplace orchestrator of one product: managers create jobs, the  *)
(* broker delivers them at least once to Celery workers, a worker claims a *)
(* job, and for each target starts an attempt on the publication row,      *)
(* calls the marketplace outside any transaction and records the answer.   *)
(* Workers die, answers get lost, a periodic sweep fails abandoned jobs,   *)
(* and managers reconcile rows with what the marketplace shows.            *)
(*                                                                         *)
(* Every action is one database transaction or one external call of the    *)
(* code; steps of different workers and requests interleave freely.        *)
(***************************************************************************)
EXTENDS Listing, Functions

CONSTANTS
  Jobs,         \* identifiers of the MarketplaceJob rows that may be created
  Workers,      \* processes of the "marketplace" queue
  Targets,      \* the (marketplace, account) pairs in use
  Requestable,  \* the operations managers ask for
  BrokerMayFail,\* can .delay() fail after the row was committed?
  None          \* no job, no target

ASSUME TargetsAssumption     == Targets \subseteq AllTargets
ASSUME RequestableAssumption == Requestable \subseteq Operations
ASSUME BrokerAssumption      == BrokerMayFail \in BOOLEAN
ASSUME NoneAssumption        == None \notin Jobs /\ None \notin Targets

VARIABLES
  job,      \* the MarketplaceJob rows
  pub,      \* the MarketplacePublication row of each target
  consumed, \* accounts whose EAN code is CONSUMED (the others: RESERVED)
  msgs,     \* jobs with an unacknowledged Celery message
  wrk,      \* what each worker process is doing
  fresh,    \* checks whose publication kept its updated_at since the request
  market    \* what the marketplace really shows

(* History: not read by any guard. *)
VARIABLES
  sent,     \* how often each job called the marketplace for each target
  acked,    \* targets each job got a positive answer for
  doubt     \* targets whose real state the system cannot know

rows    == <<job, pub, consumed>>
history == <<sent, acked, doubt>>
vars    == <<job, pub, consumed, msgs, wrk, fresh, market, sent, acked, doubt>>

-----------------------------------------------------------------------------
(* Rows and workers *)

Finished    == {"succeeded", "partial", "failed"}
JobStatuses == {"absent", "queued", "running"} \cup Finished

(* kind: what asked for the job, a marketplace request, a listing-state    *)
(* request or a reconciliation.                                            *)
Kinds == {"direct", "listing", "reconcile"}
Job   == [status : JobStatuses, op : Operations, kind : Kinds,
          targets : SUBSET Targets]

NoJob ==
  [status |-> "absent", op |-> "search", kind |-> "direct", targets |-> {}]
NewJob(kind, op, ts) ==
  [status |-> "queued", op |-> op, kind |-> kind, targets |-> ts]

(* pc: where a worker is in execute_marketplace_job.                       *)
(*   idle | next (between targets) | call (attempt started, request to be  *)
(*   sent) | record (answered) | look, confirm (the two halves of a check) *)
(* todo, cur, ok, oks: the loop's remaining targets, its target, the       *)
(* answer to it, and the targets answered ok so far (the list "results").  *)
(* solo (history): no other worker had an attempt on cur meanwhile.        *)
Worker == [pc : {"idle", "next", "call", "record", "look", "confirm"},
           job : Jobs \cup {None}, todo : SUBSET Targets,
           cur : Targets \cup {None}, ok : BOOLEAN, oks : SUBSET Targets,
           solo : BOOLEAN]

Idle == [pc |-> "idle", job |-> None, todo |-> {}, cur |-> None, ok |-> FALSE,
         oks |-> {}, solo |-> FALSE]

JobOf(w)     == job[wrk[w].job]
InAttempt(w) == wrk[w].pc \in {"call", "record"}
Attempting(t) == {w \in Workers : InAttempt(w) /\ wrk[w].cur = t}

Unfinished   == {j \in Jobs : job[j].status \in {"queued", "running"}}
Unused       == {j \in Jobs : job[j].status = "absent"}

(* updated_at is auto_now: a save of the row of t outdates every check of t. *)
FreshAfterSaving(ts) == {j \in fresh : job[j].targets \cap ts = {}}

SetStatus(j, s) == job' = [job EXCEPT ![j].status = s]

-----------------------------------------------------------------------------
(* At the start a target was never published, or was published by an      *)
(* earlier job: the row is active, its EAN code spent, the listing online. *)
Init ==
  /\ \E old \in SUBSET Targets :
       /\ pub = [t \in Targets |->
                   IF t \in old THEN Succeeded(NoRow, "publish") ELSE NoRow]
       /\ consumed = {t.account : t \in old}
       /\ market = [t \in Targets |-> IF t \in old THEN "online" ELSE "absent"]
  /\ job = [j \in Jobs |-> NoJob]
  /\ msgs = {}
  /\ wrk = [w \in Workers |-> Idle]
  /\ fresh = {}
  /\ sent = [j \in Jobs |-> [t \in Targets |-> 0]]
  /\ acked = [j \in Jobs |-> {}]
  /\ doubt = {}

-----------------------------------------------------------------------------
(* Requests of managers *)

(* The rows are committed before .delay() is called, so a broker failure   *)
(* leaves a queued job without a message.                                  *)
Enqueue(js) ==
  \E delivered \in SUBSET js :
    /\ delivered = js \/ BrokerMayFail
    /\ msgs' = msgs \cup delivered

RequestJob(j, op, ts) ==
  /\ job[j].status = "absent"
  /\ ts # {} /\ \A t \in ts : Supports(t.market, op)
  /\ job' = [job EXCEPT ![j] = NewJob("direct", op, ts)]
  /\ Enqueue({j})
  /\ UNCHANGED <<pub, consumed, wrk, fresh, market, history>>

(* "activate" / "deactivate" chosen targets: one job per external          *)
(* operation, and the rows are moved to their in-progress status at once.  *)
RequestListingState(action, ts) ==
  LET op(t)    == OperationFor(t.market, action)
      selected == {t \in ts : /\ pub[t].status = DesiredStatus(action)
                              /\ op(t) # "none"}
  IN  /\ selected # {}
      /\ \E js \in SUBSET Unused :
           \E opOf \in Bijection(js, {op(t) : t \in selected}) :
             /\ job' = [j \in Jobs |->
                          IF j \in js
                          THEN NewJob("listing", opOf[j],
                                      {t \in selected : op(t) = opOf[j]})
                          ELSE job[j]]
             /\ Enqueue(js)
      /\ pub' = [t \in Targets |->
                   IF t \in selected THEN Begun(pub[t], op(t)) ELSE pub[t]]
      /\ fresh' = FreshAfterSaving(selected)
      /\ UNCHANGED <<consumed, wrk, market, history>>

(* A row may be reconciled when it rests and no job of the product is in   *)
(* flight.                                                                 *)
CanReconcile(t) ==
  /\ pub[t].status \in {"failed", "active", "deactivated", "deleted"}
  /\ Unfinished = {}

RequestCheck(j, t) ==
  /\ job[j].status = "absent"
  /\ CanReconcile(t)
  /\ job' = [job EXCEPT ![j] = NewJob("reconcile", "search", {t})]
  /\ fresh' = fresh \cup {j}
  /\ Enqueue({j})
  /\ UNCHANGED <<pub, consumed, wrk, market, history>>

(* finish_reconciliation with confirmed = TRUE and target status s. *)
Reconcile(t, s) ==
  /\ pub' = [pub EXCEPT ![t] = Reconciled(pub[t], s)]
  /\ consumed' = IF s = "failed" THEN consumed ELSE consumed \cup {t.account}
  /\ fresh' = FreshAfterSaving({t})

(* confirm_manual asserts "active" of a failed row; set_manual asserts any *)
(* of three statuses, "deactivated" meaning deleted outside OTTO.          *)
ManualStatuses(t) ==
  (IF pub[t].status = "failed" THEN {"active"} ELSE {})
    \cup {"active", "failed"}
    \cup {IF t.market = "otto" THEN "deactivated" ELSE "deleted"}

RequestManual(j, t, s) ==
  /\ job[j].status = "absent"
  /\ CanReconcile(t)
  /\ s \in ManualStatuses(t)
  /\ job' = [job EXCEPT ![j] =
               [NewJob("reconcile", "search", {t})
                  EXCEPT !.status = "succeeded"]]
  /\ Reconcile(t, s)
  /\ doubt' = doubt \cup {t}
  /\ UNCHANGED <<msgs, wrk, market, sent, acked>>

-----------------------------------------------------------------------------
(* execute_marketplace_job *)

(* Faulty: a redelivered message restarts a job that is running.           *)
ClaimAgain(w, j) ==
  /\ wrk[w].pc = "idle"
  /\ j \in msgs
  /\ job[j].status \in {"queued", "running"}
  /\ SetStatus(j, "running")
  /\ wrk' = [wrk EXCEPT ![w] = [Idle EXCEPT !.pc = "next", !.job = j,
                                            !.todo = job[j].targets]]
  /\ UNCHANGED <<pub, consumed, msgs, fresh, market, history>>

(* The claim, under the job's row lock.  The message stays unacknowledged  *)
(* (acks_late), so another worker may get it again.                        *)
Claim(w, j) ==
  /\ wrk[w].pc = "idle"
  /\ j \in msgs
  /\ job[j].status = "queued"
  /\ SetStatus(j, "running")
  /\ wrk' = [wrk EXCEPT ![w] =
               [Idle EXCEPT !.job = j, !.todo = job[j].targets,
                            !.pc = IF job[j].kind = "reconcile"
                                   THEN "look" ELSE "next"]]
  /\ UNCHANGED <<pub, consumed, msgs, fresh, market, history>>

(* A redelivered message of a job that is not queued is dropped. *)
Discard(w, j) ==
  /\ wrk[w].pc = "idle"
  /\ j \in msgs
  /\ job[j].status # "queued"
  /\ msgs' = msgs \ {j}
  /\ UNCHANGED <<rows, wrk, fresh, market, history>>

(* The task returns: its message is acknowledged, unless the ack is lost.  *)
Return(w) ==
  /\ wrk' = [wrk EXCEPT ![w] = Idle]
  /\ \E lost \in BOOLEAN :
       msgs' = IF lost THEN msgs ELSE msgs \ {wrk[w].job}

(* The stored payload of a direct request was truncated and cannot be      *)
(* rebuilt: the job fails before any target is touched.                    *)
RejectPayload(w) ==
  /\ wrk[w].pc = "next"
  /\ wrk[w].todo = JobOf(w).targets
  /\ JobOf(w).kind = "direct"
  /\ SetStatus(wrk[w].job, "failed")
  /\ Return(w)
  /\ UNCHANGED <<pub, consumed, fresh, market, history>>

(* start_publication_attempt succeeds for target t. *)
StartAttempt(w, t) ==
  LET op     == JobOf(w).op
      others == Attempting(t) \ {w}
  IN  /\ wrk[w].pc = "next"
      /\ t \in wrk[w].todo
      /\ op \in PublicationOps
      /\ CanStart(pub[t], op)
      /\ pub' = [pub EXCEPT ![t] = Started(pub[t], op)]
      /\ fresh' = FreshAfterSaving({t})
      /\ wrk' = [v \in Workers |->
                   CASE v = w -> [wrk[w] EXCEPT !.pc = "call", !.cur = t,
                                     !.todo = @ \ {t}, !.solo = (others = {})]
                     [] v \in others -> [wrk[v] EXCEPT !.solo = FALSE]
                     [] OTHER -> wrk[v]]
      /\ doubt' = IF others = {} THEN doubt ELSE doubt \cup {t}
      /\ UNCHANGED <<job, consumed, msgs, market, sent, acked>>

(* It raises ValueError: the target's result is "not ok", nothing is sent. *)
RefuseAttempt(w, t) ==
  /\ wrk[w].pc = "next"
  /\ t \in wrk[w].todo
  /\ JobOf(w).op \in PublicationOps
  /\ ~CanStart(pub[t], JobOf(w).op)
  /\ wrk' = [wrk EXCEPT ![w].todo = @ \ {t}]
  /\ UNCHANGED <<rows, msgs, fresh, market, history>>

(* A search has no publication attempt and nothing to record. *)
SearchTarget(w, t) ==
  /\ wrk[w].pc = "next"
  /\ t \in wrk[w].todo
  /\ JobOf(w).op = "search"
  /\ \E ok \in BOOLEAN :
       wrk' = [wrk EXCEPT ![w].todo = @ \ {t},
                          ![w].oks = IF ok THEN @ \cup {t} ELSE @]
  /\ UNCHANGED <<rows, msgs, fresh, market, history>>

(* What the marketplace shows after it accepted op for t. *)
MarketAfter(t, op) ==
  CASE op \in {"publish", "activate"} -> "online"
    [] op = "update"     -> market[t]
    [] op = "deactivate" -> IF market[t] = "online" THEN "hidden" ELSE market[t]
    [] op = "delete"     -> "absent"

(* Faulty: a negative answer is followed by another request.               *)
CallRetrying(w) ==
  /\ wrk[w].pc = "call"
  /\ \E ok \in BOOLEAN :
       wrk' = [wrk EXCEPT ![w].pc = IF ok THEN "record" ELSE "call",
                          ![w].ok = ok]
  /\ sent' = [sent EXCEPT ![wrk[w].job][wrk[w].cur] = @ + 1]
  /\ UNCHANGED <<rows, msgs, fresh, market, acked, doubt>>

(* The external call.  A positive answer means the request took effect; a  *)
(* negative one (error status, timeout, the second call of an OTTO         *)
(* activation failing) may hide an effect.                                 *)
CallMarketplace(w) ==
  LET t == wrk[w].cur
      j == wrk[w].job
  IN  /\ wrk[w].pc = "call"
      /\ \E ok, effect \in BOOLEAN :
           /\ ok => effect
           /\ market' = IF effect
                        THEN [market EXCEPT ![t] = MarketAfter(t, JobOf(w).op)]
                        ELSE market
           /\ acked' = IF ok THEN [acked EXCEPT ![j] = @ \cup {t}] ELSE acked
           /\ doubt' = IF effect /\ ~ok THEN doubt \cup {t} ELSE doubt
           /\ wrk' = [wrk EXCEPT ![w].pc = "record", ![w].ok = ok]
      /\ sent' = [sent EXCEPT ![j][t] = @ + 1]
      /\ UNCHANGED <<rows, msgs, fresh>>

(* mark_publication_succeeded and, in the same transaction, the EAN code   *)
(* of a first successful publish is consumed.  An accepted update does not *)
(* say whether the listing is shown: it settles no doubt.                  *)
RecordSuccess(w) ==
  LET t  == wrk[w].cur
      op == JobOf(w).op
  IN  /\ wrk[w].pc = "record" /\ wrk[w].ok
      /\ pub' = [pub EXCEPT ![t] = Succeeded(pub[t], op)]
      /\ consumed' = IF op = "publish" /\ FirstSuccess(pub[t], op)
                     THEN consumed \cup {t.account} ELSE consumed
      /\ fresh' = FreshAfterSaving({t})
      /\ wrk' = [wrk EXCEPT ![w].pc = "next", ![w].cur = None, ![w].ok = FALSE,
                            ![w].solo = FALSE, ![w].oks = @ \cup {t}]
      /\ doubt' = IF wrk[w].solo /\ op # "update" THEN doubt \ {t} ELSE doubt
      /\ UNCHANGED <<job, msgs, market, sent, acked>>

(* mark_publication_failed *)
RecordFailure(w) ==
  LET t == wrk[w].cur
  IN  /\ wrk[w].pc = "record" /\ ~wrk[w].ok
      /\ pub' = [pub EXCEPT ![t] = Failed(pub[t], JobOf(w).op)]
      /\ fresh' = FreshAfterSaving({t})
      /\ wrk' = [wrk EXCEPT ![w].pc = "next", ![w].cur = None,
                            ![w].solo = FALSE]
      /\ UNCHANGED <<job, consumed, msgs, market, history>>

(* Faulty: one positive answer is enough.                                  *)
VerdictAny(oks, ts) == IF oks # {} THEN "succeeded" ELSE "failed"

(* _refresh_job_status: the verdict over all results. *)
Verdict(oks, ts) ==
  CASE oks = ts            -> "succeeded"
    [] oks = {}            -> "failed"
    [] OTHER               -> "partial"

FinishJob(w) ==
  /\ wrk[w].pc = "next" /\ wrk[w].todo = {}
  /\ SetStatus(wrk[w].job, Verdict(wrk[w].oks, JobOf(w).targets))
  /\ Return(w)
  /\ UNCHANGED <<pub, consumed, fresh, market, history>>

(* check_publication asks the marketplace.  An exception, an unreadable or *)
(* a negative answer counts as "not confirmed".                            *)
LookAtMarketplace(w) ==
  /\ wrk[w].pc = "look"
  /\ \E t \in JobOf(w).targets, seen \in BOOLEAN :
       /\ seen => market[t] = "online"
       /\ wrk' = [wrk EXCEPT ![w].pc = "confirm", ![w].cur = t, ![w].ok = seen]
  /\ UNCHANGED <<rows, msgs, fresh, market, history>>

(* finish_reconciliation: the row becomes active only if it was confirmed. *)
FinishCheckIf(w, confirmed) ==
  /\ wrk[w].pc = "confirm"
  /\ IF confirmed
     THEN Reconcile(wrk[w].cur, "active") /\ doubt' = doubt \ {wrk[w].cur}
     ELSE UNCHANGED <<pub, consumed, fresh, doubt>>
  /\ SetStatus(wrk[w].job, IF confirmed THEN "succeeded" ELSE "failed")
  /\ Return(w)
  /\ UNCHANGED <<market, sent, acked>>

(* Faulty: trusts the look, or ignores that the row was saved since.       *)
FinishCheckTrusting(w) == FinishCheckIf(w, wrk[w].ok)
FinishCheckUnversioned(w) ==
  FinishCheckIf(w, wrk[w].ok /\ Unfinished \ {wrk[w].job} = {})

(* Confirmed: seen online, the row unchanged since the request, and no     *)
(* other job of the product open.                                          *)
FinishCheck(w) ==
  FinishCheckIf(w, wrk[w].ok /\ wrk[w].job \in fresh
                             /\ Unfinished \ {wrk[w].job} = {})

-----------------------------------------------------------------------------
(* Failures and recovery *)

(* A worker process is killed (deploy, out of memory, hard time limit) or  *)
(* its task ends in an uncaught exception (soft time limit).  A lost       *)
(* worker's message is requeued, a failed task's is acknowledged.          *)
Crash(w) ==
  /\ wrk[w].pc # "idle"
  /\ Return(w)
  /\ doubt' = IF wrk[w].pc = "record" THEN doubt \cup {wrk[w].cur} ELSE doubt
  /\ UNCHANGED <<rows, fresh, market, sent, acked>>

(* Faulty: the task may outlive the cutoff; or checks are not swept.       *)
RunningJobs       == {j \in Jobs : job[j].status = "running"}
AbandonedNoChecks ==
  {j \in RunningJobs : /\ job[j].kind # "reconcile"
                       /\ \A w \in Workers : wrk[w].job # j}

(* Running jobs no worker executes.  The hard time limit of the task (450  *)
(* seconds) is shorter than ORCHESTRATOR_STALE_JOB_MINUTES (20), so a job  *)
(* the sweep finds stale has no worker any more.                           *)
Abandoned == {j \in Jobs : job[j].status = "running"
                             /\ \A w \in Workers : wrk[w].job # j}

(* recover_stale_orchestrator_jobs fails those started before the cutoff;  *)
(* publications whose job does not await a confirmation are left alone.    *)
RecoverStaleJobs ==
  \E stale \in SUBSET Abandoned :
    /\ stale # {}
    /\ job' = [j \in Jobs |->
                 IF j \in stale
                 THEN [job[j] EXCEPT !.status = "failed"] ELSE job[j]]
    /\ UNCHANGED <<pub, consumed, msgs, wrk, fresh, market, history>>

-----------------------------------------------------------------------------
ManagerRequest ==
  \/ \E j \in Jobs, op \in Requestable, ts \in SUBSET Targets :
       RequestJob(j, op, ts)
  \/ \E action \in {"activate", "deactivate"}, ts \in SUBSET Targets :
       RequestListingState(action, ts)
  \/ \E j \in Jobs, t \in Targets : RequestCheck(j, t)
  \/ \E j \in Jobs, t \in Targets, s \in PubStatuses : RequestManual(j, t, s)

Receive(w) == \E j \in Jobs : Claim(w, j) \/ Discard(w, j)

Execute(w) ==
  \/ RejectPayload(w)
  \/ \E t \in Targets :
       StartAttempt(w, t) \/ RefuseAttempt(w, t) \/ SearchTarget(w, t)
  \/ CallMarketplace(w) \/ RecordSuccess(w) \/ RecordFailure(w)
  \/ FinishJob(w)
  \/ LookAtMarketplace(w) \/ FinishCheck(w)

Next ==
  \/ ManagerRequest
  \/ \E w \in Workers : Receive(w) \/ Execute(w) \/ Crash(w)
  \/ RecoverStaleJobs

Spec == Init /\ [][Next]_vars

(* Celery keeps an idle worker consuming and a busy one running its task;  *)
(* beat runs the sweep every ten minutes.  Managers and crashes owe        *)
(* nothing.                                                                *)
Fairness ==
  /\ \A w \in Workers : WF_vars(Receive(w)) /\ WF_vars(Execute(w))
  /\ WF_vars(RecoverStaleJobs)

FairSpec == Spec /\ Fairness

-----------------------------------------------------------------------------
(* Properties *)

(* Every row and every worker has the shape of its model class. *)
TypeOK ==
  /\ job \in [Jobs -> Job]
  /\ pub \in [Targets -> Publication]
  /\ consumed \subseteq Accounts
  /\ msgs \subseteq Jobs
  /\ wrk \in [Workers -> Worker]
  /\ fresh \subseteq Jobs
  /\ market \in [Targets -> {"online", "hidden", "absent"}]
  /\ sent \in [Jobs -> [Targets -> Nat]]
  /\ acked \in [Jobs -> SUBSET Targets]
  /\ doubt \subseteq Targets

(* However often the broker delivers a job's message and whoever crashes,  *)
(* the marketplace is called at most once per job and target: a worker     *)
(* about to send never repeats a request of its job.                       *)
NoSecondCall ==
  \A w \in Workers : wrk[w].pc = "call" => sent[wrk[w].job][wrk[w].cur] = 0

(* A job that reached a final status keeps it: neither a slow worker, nor  *)
(* a duplicate delivery, nor the recovery sweep ever rewrites it.          *)
FinishedStaysFinished ==
  [][\A j \in Jobs : job[j].status \in Finished => job'[j] = job[j]]_vars

(* The verdict a manager reads tells what the marketplaces answered:       *)
(* "succeeded" and "partial" never claim a target that was not confirmed,  *)
(* nor hide one, and "failed" hides a confirmed target only when the job's *)
(* worker was lost.                                                        *)
VerdictTruthful ==
  [][\A j \in Jobs : job[j].op \in PublicationOps /\ job[j].status = "running" =>
       CASE job'[j].status = "succeeded" -> acked'[j] = job[j].targets
         [] job'[j].status = "partial"   -> acked'[j] \notin {{}, job[j].targets}
         [] job'[j].status = "failed"    -> acked'[j] = {} \/ j \in Abandoned
         [] OTHER                        -> TRUE]_vars

(* While one worker alone works on a publication nothing else moves the    *)
(* row: listing-state requests, reconciliations, checks requested earlier  *)
(* and the sweep all leave it in the worker's in-progress status.          *)
AttemptUndisturbed ==
  \A w \in Workers :
    InAttempt(w) /\ wrk[w].solo =>
      pub[wrk[w].cur].status = StatusDuring(JobOf(w).op)

(* A row at rest agrees with the marketplace, unless attempts overlapped,  *)
(* an answer was lost or a manager set the status by hand since the last   *)
(* undisturbed success: restoring after failures, retries after crashes    *)
(* and checks racing new jobs never make it claim a state that is not so.  *)
Agreement ==
  \A t \in Targets \ doubt :
    Attempting(t) = {} =>
      /\ pub[t].status = "active"      => market[t] = "online"
      /\ pub[t].status = "deactivated" => market[t] # "online"
      /\ pub[t].status = "deleted"     => market[t] = "absent"

(* An EAN code is spent once its listing was published (README:329,        *)
(* ean/services.py:111).                                                   *)
PublishedSpendsEan ==
  \A t \in Targets : pub[t].published => t.account \in consumed

(* Seen from outside, the orchestrator is a ledger of jobs executed at     *)
(* most once: a job's state is its status, its calls are those sent.       *)
LedgerState(s) ==
  CASE s = "absent"  -> "absent"
    [] s = "queued"  -> "waiting"
    [] s = "running" -> "taken"
    [] OTHER         -> "closed"

Ledger == INSTANCE JobLedger WITH
            state <- [j \in Jobs |-> LedgerState(job[j].status)],
            calls <- sent

(* Claims, redeliveries, crashes and the sweep implement that promise.     *)
ImplementsLedger == Ledger!Spec

(* Every job whose message the broker took reaches a final status,         *)
(* whatever crashes.                                                       *)
JobsFinish ==
  \A j \in Jobs :
    job[j].status = "running" \/ (job[j].status = "queued" /\ j \in msgs)
      ~> job[j].status \in Finished
=============================================================================
