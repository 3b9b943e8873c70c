------------------------- MODULE OrchestratorProofs -------------------------
(***************************************************************************)
(* Proofs about the orchestrator, for any number of jobs, workers, targets *)
(* and crashes.                                                            *)
(***************************************************************************)
EXTENDS Orchestrator, TLAPS

-----------------------------------------------------------------------------
(* What the functions of Listing return. *)

(* The row a listing operation writes is a row of the table. *)
LEMMA RowTypes ==
  ASSUME NEW p \in Publication, NEW op \in PublicationOps
  PROVE  /\ CanStart(p, op) => Started(p, op) \in Publication
         /\ Begun(p, op) \in Publication
         /\ Succeeded(p, op) \in Publication
         /\ Failed(p, op) \in Publication
BY DEF Publication, PublicationOps, CanStart, Started, Begun, Succeeded, Failed, PubStatuses,
       StableStatuses, RunningStatuses, StatusDuring, StatusAfterSuccess

-----------------------------------------------------------------------------
(* The inductive invariant                                                 *)

(* A worker is busy with a running job; while it attempts a target, that   *)
(* target is no longer in todo.                                            *)
WorkerHoldsJob(w) ==
  /\ wrk[w].pc = "idle" <=> wrk[w].job = None
  /\ wrk[w].pc # "idle" => /\ JobOf(w).status = "running"
                           /\ wrk[w].todo \subseteq JobOf(w).targets
  /\ InAttempt(w) => /\ wrk[w].cur \in JobOf(w).targets \ wrk[w].todo
                     /\ JobOf(w).op \in PublicationOps
  /\ wrk[w].pc \in {"look", "confirm"} => JobOf(w).kind = "reconcile"
  /\ wrk[w].pc = "confirm" => wrk[w].cur \in JobOf(w).targets

OneWorkerPerJob ==
  \A v, w \in Workers : wrk[v].job = wrk[w].job /\ wrk[v].job # None => v = w

(* A job calls nothing before it is claimed, and a worker's remaining      *)
(* targets were not called for.                                            *)
CalledOnce ==
  /\ \A j \in Jobs, t \in Targets :
       job[j].status \in {"absent", "queued"} => sent[j][t] = 0
  /\ \A w \in Workers : wrk[w].pc # "idle" =>
       \A t \in Targets :
         t \in wrk[w].todo \/ (wrk[w].pc = "call" /\ t = wrk[w].cur)
           => sent[wrk[w].job][t] = 0

ChecksSearch == \A j \in Jobs : job[j].kind = "reconcile" => job[j].op = "search"

ClaimParts ==
  /\ \A w \in Workers : WorkerHoldsJob(w)
  /\ OneWorkerPerJob
  /\ CalledOnce
  /\ ChecksSearch

ClaimInv == TypeOK /\ ClaimParts

-----------------------------------------------------------------------------
(* Type correctness *)

LEMMA ReconciledTypes ==
  ASSUME NEW p \in Publication, NEW s \in PubStatuses
  PROVE  Reconciled(p, s) \in Publication
BY DEF Publication, Reconciled

LEMMA JobTypes ==
  ASSUME NEW kind \in Kinds, NEW op \in Operations, NEW ts \in SUBSET Targets
  PROVE  NewJob(kind, op, ts) \in Job
BY DEF NewJob, Job, JobStatuses

LEMMA InitType == Init => TypeOK
<1> SUFFICES ASSUME Init PROVE TypeOK
  OBVIOUS
<1>1. NoJob \in Job
  BY DEF NoJob, Job, JobStatuses, Kinds, Operations
<1>2. NoRow \in Publication /\ Succeeded(NoRow, "publish") \in Publication
  BY RowTypes DEF NoRow, Publication, PublicationOps
<1>3. Idle \in Worker
  BY DEF Idle, Worker
<1>4. \A t \in Targets : t.account \in Accounts
  BY TargetsAssumption DEF AllTargets
<1> QED
  BY <1>1, <1>2, <1>3, <1>4 DEF Init, TypeOK

LEMMA RequestsKeepType ==
  ASSUME TypeOK, ManagerRequest PROVE TypeOK'
<1>1. ASSUME NEW j \in Jobs, NEW op \in Requestable, NEW ts \in SUBSET Targets,
             RequestJob(j, op, ts)
      PROVE  TypeOK'
  <2>1. NewJob("direct", op, ts) \in Job
    BY JobTypes, RequestableAssumption DEF Kinds
  <2> QED
    BY <1>1, <2>1 DEF RequestJob, Enqueue, TypeOK, history
<1>2. ASSUME NEW action \in {"activate", "deactivate"}, NEW ts \in SUBSET Targets,
             RequestListingState(action, ts)
      PROVE  TypeOK'
  <2> DEFINE op(t)    == OperationFor(t.market, action)
             selected == {t \in ts : /\ pub[t].status = DesiredStatus(action)
                                     /\ op(t) # "none"}
             ops      == {op(t) : t \in selected}
  <2>1. \A t \in selected : t \in Targets /\ op(t) \in PublicationOps
    BY DEF OperationFor, PublicationOps
  <2>2. PICK js \in SUBSET Unused : \E opOf \in [js -> ops] :
          /\ job' = [j \in Jobs |->
                       IF j \in js
                       THEN NewJob("listing", opOf[j], {t \in selected : op(t) = opOf[j]})
                       ELSE job[j]]
          /\ Enqueue(js)
    BY <1>2 DEF RequestListingState, Bijection, Injection
  <2>9. PICK opOf \in [js -> ops] :
          /\ job' = [j \in Jobs |->
                       IF j \in js
                       THEN NewJob("listing", opOf[j], {t \in selected : op(t) = opOf[j]})
                       ELSE job[j]]
          /\ Enqueue(js)
    BY <2>2
  <2>3. \A j \in js : NewJob("listing", opOf[j], {t \in selected : op(t) = opOf[j]}) \in Job
    <3> SUFFICES ASSUME NEW j \in js
                 PROVE  NewJob("listing", opOf[j], {t \in selected : op(t) = opOf[j]}) \in Job
      OBVIOUS
    <3>1. opOf[j] \in Operations
      BY <2>1, <2>9 DEF Operations
    <3>2. {t \in selected : op(t) = opOf[j]} \in SUBSET Targets
      BY <2>1
    <3> QED
      BY <3>1, <3>2, JobTypes DEF Kinds
  <2>4. job' \in [Jobs -> Job]
    <3> HIDE DEF op, selected, ops
    <3> QED
      BY <2>3, <2>9 DEF TypeOK
  <2>5. pub' \in [Targets -> Publication]
    <3>1. pub' = [t \in Targets |->
                    IF t \in selected THEN Begun(pub[t], op(t)) ELSE pub[t]]
      BY <1>2 DEF RequestListingState
    <3> HIDE DEF op, selected, ops
    <3> QED
      BY <2>1, <3>1, RowTypes DEF TypeOK
  <2>6. msgs' \subseteq Jobs
    BY <2>9 DEF Enqueue, TypeOK, Unused
  <2> QED
    BY <1>2, <2>4, <2>5, <2>6 DEF RequestListingState, FreshAfterSaving, TypeOK, history
<1>3. ASSUME NEW j \in Jobs, NEW t \in Targets, RequestCheck(j, t)
      PROVE  TypeOK'
  <2>1. NewJob("reconcile", "search", {t}) \in Job
    BY JobTypes DEF Kinds, Operations
  <2> QED
    BY <1>3, <2>1 DEF RequestCheck, Enqueue, TypeOK, history
<1>4. ASSUME NEW j \in Jobs, NEW t \in Targets, NEW s \in PubStatuses,
             RequestManual(j, t, s)
      PROVE  TypeOK'
  <2>1. [NewJob("reconcile", "search", {t}) EXCEPT !.status = "succeeded"] \in Job
    BY DEF NewJob, Job, JobStatuses, Kinds, Operations, Finished
  <2>2. Reconciled(pub[t], s) \in Publication
    BY ReconciledTypes DEF TypeOK
  <2>3. t.account \in Accounts
    BY TargetsAssumption DEF AllTargets
  <2> QED
    BY <1>4, <2>1, <2>2, <2>3 DEF RequestManual, Reconcile, FreshAfterSaving, TypeOK
<1> QED
  BY <1>1, <1>2, <1>3, <1>4 DEF ManagerRequest

(* A status written to a claimed job, and a task that returns. *)
LEMMA StatusTypes ==
  ASSUME TypeOK, NEW j \in Jobs, NEW s \in JobStatuses, SetStatus(j, s)
  PROVE  job' \in [Jobs -> Job]
<1>1. job[j] \in Job /\ job \in [Jobs -> Job]
  BY DEF TypeOK
<1>2. [job[j] EXCEPT !.status = s] \in Job
  BY <1>1 DEF Job
<1> QED
  BY <1>1, <1>2 DEF SetStatus

LEMMA ReturnTypes ==
  ASSUME TypeOK, NEW w \in Workers, Return(w)
  PROVE  wrk' \in [Workers -> Worker] /\ msgs' \subseteq Jobs
<1>1. Idle \in Worker
  BY DEF Idle, Worker
<1> QED
  BY <1>1 DEF Return, TypeOK

(* What a step writes to a worker leaves it one. *)
LEMMA WorkerUpdates ==
  ASSUME NEW x \in Worker, NEW t \in Targets, NEW b \in BOOLEAN
  PROVE  /\ [x EXCEPT !.solo = FALSE] \in Worker
         /\ [x EXCEPT !.pc = "call", !.cur = t, !.todo = @ \ {t}, !.solo = b] \in Worker
         /\ [x EXCEPT !.todo = @ \ {t}] \in Worker
         /\ [x EXCEPT !.todo = @ \ {t}, !.oks = IF b THEN @ \cup {t} ELSE @] \in Worker
         /\ [x EXCEPT !.pc = "record", !.ok = b] \in Worker
         /\ [x EXCEPT !.pc = "next", !.cur = None, !.ok = FALSE, !.solo = FALSE,
                      !.oks = @ \cup {t}] \in Worker
         /\ [x EXCEPT !.pc = "next", !.cur = None, !.solo = FALSE] \in Worker
         /\ [x EXCEPT !.pc = "confirm", !.cur = t, !.ok = b] \in Worker
<1>1. [x EXCEPT !.solo = FALSE] \in Worker
  BY DEF Worker
<1>2. [x EXCEPT !.pc = "call", !.cur = t, !.todo = @ \ {t}, !.solo = b] \in Worker
  BY DEF Worker
<1>3. [x EXCEPT !.todo = @ \ {t}] \in Worker
  BY DEF Worker
<1>4. [x EXCEPT !.todo = @ \ {t}, !.oks = IF b THEN @ \cup {t} ELSE @] \in Worker
  BY DEF Worker
<1>5. [x EXCEPT !.pc = "record", !.ok = b] \in Worker
  BY DEF Worker
<1>6. [x EXCEPT !.pc = "next", !.cur = None, !.ok = FALSE, !.solo = FALSE,
               !.oks = @ \cup {t}] \in Worker
  BY DEF Worker
<1>7. [x EXCEPT !.pc = "next", !.cur = None, !.solo = FALSE] \in Worker
  BY DEF Worker
<1>8. [x EXCEPT !.pc = "confirm", !.cur = t, !.ok = b] \in Worker
  BY DEF Worker
<1> QED
  BY <1>1, <1>2, <1>3, <1>4, <1>5, <1>6, <1>7, <1>8

LEMMA WorkersKeepType ==
  ASSUME ClaimInv, NEW w \in Workers, Receive(w) \/ Execute(w) \/ Crash(w)
  PROVE  TypeOK'
<1> USE DEF TypeOK
<1>a. TypeOK /\ WorkerHoldsJob(w)
  BY DEF ClaimInv, ClaimParts
<1>b. wrk[w].pc # "idle" => wrk[w].job \in Jobs
  BY <1>a DEF WorkerHoldsJob, Worker
<1>c. wrk[w].pc # "idle" => JobOf(w) \in Job
  BY <1>a, <1>b DEF JobOf
<1>d. InAttempt(w) => wrk[w].cur \in Targets /\ JobOf(w).op \in PublicationOps
  BY <1>a, <1>c DEF WorkerHoldsJob, Job, InAttempt
<1>e. {"succeeded", "partial", "failed"} \subseteq JobStatuses
  BY DEF JobStatuses, Finished
<1>f. \A t \in Targets : t.account \in Accounts
  BY TargetsAssumption DEF AllTargets
<1>g. \A v \in Workers : wrk[v] \in Worker
  BY <1>a
<1>h. wrk[w] \in Worker
  BY <1>g
<1>1. ASSUME NEW j \in Jobs, Claim(w, j) PROVE TypeOK'
  <2>1. [Idle EXCEPT !.job = j, !.todo = job[j].targets,
                     !.pc = IF job[j].kind = "reconcile" THEN "look" ELSE "next"] \in Worker
    BY <1>a DEF Idle, Worker, Job
  <2>2. wrk' \in [Workers -> Worker]
    BY <1>1, <1>a, <2>1 DEF Claim
  <2>3. job' \in [Jobs -> Job]
    BY <1>1, <1>a, StatusTypes DEF Claim, JobStatuses
  <2> QED
    BY <1>1, <1>a, <2>2, <2>3 DEF Claim, history
<1>2. ASSUME NEW j \in Jobs, Discard(w, j) PROVE TypeOK'
  BY <1>2, <1>a DEF Discard, rows, history
<1>3. CASE RejectPayload(w)
  BY <1>3, <1>a, <1>b, <1>e, StatusTypes, ReturnTypes DEF RejectPayload, history
<1>4. ASSUME NEW t \in Targets, StartAttempt(w, t) PROVE TypeOK'
  <2>1. \A v \in Workers : [wrk[v] EXCEPT !.solo = FALSE] \in Worker /\ wrk[v] \in Worker
    BY <1>g, WorkerUpdates
  <2>2. wrk' \in [Workers -> Worker]
    <3> DEFINE others == Attempting(t) \ {w}
               begun  == [wrk[w] EXCEPT !.pc = "call", !.cur = t, !.todo = @ \ {t},
                                        !.solo = (others = {})]
    <3>1. begun \in Worker
      BY <1>h, WorkerUpdates
    <3>2. wrk' = [v \in Workers |->
                    CASE v = w -> begun
                      [] v \in others -> [wrk[v] EXCEPT !.solo = FALSE]
                      [] OTHER -> wrk[v]]
      BY <1>4 DEF StartAttempt
    <3> HIDE DEF others, begun
    <3>3. \A v \in Workers : v \in others => v # w
      BY DEF others
    <3> QED
      BY <2>1, <3>1, <3>2, <3>3
  <2>3. pub' \in [Targets -> Publication]
    BY <1>4, <1>a, RowTypes DEF StartAttempt
  <2> QED
    BY <1>4, <1>a, <2>2, <2>3 DEF StartAttempt, FreshAfterSaving
<1>5. ASSUME NEW t \in Targets, RefuseAttempt(w, t) PROVE TypeOK'
  <2>1. [wrk[w] EXCEPT !.todo = @ \ {t}] \in Worker
    BY <1>h, WorkerUpdates
  <2> QED
    BY <1>5, <1>a, <2>1 DEF RefuseAttempt, rows, history
<1>6. ASSUME NEW t \in Targets, SearchTarget(w, t) PROVE TypeOK'
  <2>1. \A ok \in BOOLEAN :
          [wrk[w] EXCEPT !.todo = @ \ {t}, !.oks = IF ok THEN @ \cup {t} ELSE @] \in Worker
    BY <1>h, WorkerUpdates
  <2>2. PICK ok \in BOOLEAN :
          wrk' = [wrk EXCEPT ![w] = [wrk[w] EXCEPT
                     !.todo = @ \ {t}, !.oks = IF ok THEN @ \cup {t} ELSE @]]
    BY <1>6, <1>a DEF SearchTarget
  <2>3. wrk' \in [Workers -> Worker]
    BY <1>a, <2>1, <2>2
  <2> QED
    BY <1>6, <1>a, <2>3 DEF SearchTarget, rows, history
<1>7. CASE CallMarketplace(w)
  <2>1. wrk[w].cur \in Targets /\ wrk[w].job \in Jobs /\ JobOf(w).op \in PublicationOps
    BY <1>7, <1>b, <1>d DEF CallMarketplace, InAttempt
  <2>2. MarketAfter(wrk[w].cur, JobOf(w).op) \in {"online", "hidden", "absent"}
    BY <1>a, <2>1 DEF MarketAfter, PublicationOps
  <2>3. \A ok \in BOOLEAN : [wrk[w] EXCEPT !.pc = "record", !.ok = ok] \in Worker
    BY <1>h, <2>1, WorkerUpdates
  <2>4. wrk' \in [Workers -> Worker]
    BY <1>7, <1>a, <2>3 DEF CallMarketplace
  <2>5. market' \in [Targets -> {"online", "hidden", "absent"}]
    BY <1>7, <1>a, <2>2 DEF CallMarketplace
  <2>6. sent' \in [Jobs -> [Targets -> Nat]]
    BY <1>7, <1>a, <2>1 DEF CallMarketplace
  <2>7. acked' \in [Jobs -> SUBSET Targets] /\ doubt' \subseteq Targets
    BY <1>7, <1>a, <2>1 DEF CallMarketplace
  <2> QED
    BY <1>7, <1>a, <2>4, <2>5, <2>6, <2>7 DEF CallMarketplace, rows
<1>8. CASE RecordSuccess(w)
  <2>1. wrk[w].cur \in Targets /\ JobOf(w).op \in PublicationOps
    BY <1>8, <1>d DEF RecordSuccess, InAttempt
  <2>2. [wrk[w] EXCEPT !.pc = "next", !.cur = None, !.ok = FALSE, !.solo = FALSE,
                       !.oks = @ \cup {wrk[w].cur}] \in Worker
    BY <1>h, <2>1, WorkerUpdates
  <2>3. wrk' \in [Workers -> Worker]
    BY <1>8, <1>a, <2>2 DEF RecordSuccess
  <2>4. pub' \in [Targets -> Publication]
    BY <1>8, <1>a, <2>1, RowTypes DEF RecordSuccess
  <2> QED
    BY <1>8, <1>a, <1>f, <2>1, <2>3, <2>4 DEF RecordSuccess, FreshAfterSaving
<1>9. CASE RecordFailure(w)
  <2>1. wrk[w].cur \in Targets /\ JobOf(w).op \in PublicationOps
    BY <1>9, <1>d DEF RecordFailure, InAttempt
  <2>2. [wrk[w] EXCEPT !.pc = "next", !.cur = None, !.solo = FALSE] \in Worker
    BY <1>h, <2>1, WorkerUpdates
  <2>3. wrk' \in [Workers -> Worker]
    BY <1>9, <1>a, <2>2 DEF RecordFailure
  <2>4. pub' \in [Targets -> Publication]
    BY <1>9, <1>a, <2>1, RowTypes DEF RecordFailure
  <2> QED
    BY <1>9, <1>a, <2>3, <2>4 DEF RecordFailure, FreshAfterSaving, history
<1>10. CASE FinishJob(w)
  <2>1. Verdict(wrk[w].oks, JobOf(w).targets) \in JobStatuses
    BY <1>e DEF Verdict
  <2> QED
    BY <1>10, <1>a, <1>b, <2>1, StatusTypes, ReturnTypes DEF FinishJob, history
<1>11. CASE LookAtMarketplace(w)
  <2>1. \A t \in Targets, seen \in BOOLEAN :
          [wrk[w] EXCEPT !.pc = "confirm", !.cur = t, !.ok = seen] \in Worker
    BY <1>h, WorkerUpdates
  <2>2. JobOf(w).targets \subseteq Targets
    BY <1>11, <1>c DEF LookAtMarketplace, Job
  <2>3. PICK t \in JobOf(w).targets, seen \in BOOLEAN :
          wrk' = [wrk EXCEPT ![w].pc = "confirm", ![w].cur = t, ![w].ok = seen]
    BY <1>11 DEF LookAtMarketplace
  <2>4. wrk' = [wrk EXCEPT ![w] = [wrk[w] EXCEPT !.pc = "confirm", !.cur = t, !.ok = seen]]
    BY <2>3
  <2>5. [wrk[w] EXCEPT !.pc = "confirm", !.cur = t, !.ok = seen] \in Worker
    BY <2>1, <2>2
  <2>6. wrk' \in [Workers -> Worker]
    BY <1>a, <2>4, <2>5
  <2> QED
    BY <1>11, <1>a, <2>6 DEF LookAtMarketplace, rows, history
<1>12. CASE FinishCheck(w)
  <2>1. wrk[w].cur \in Targets /\ wrk[w].job \in Jobs
    BY <1>12, <1>a, <1>b, <1>c DEF FinishCheck, FinishCheckIf, WorkerHoldsJob, Job
  <2>2. Reconciled(pub[wrk[w].cur], "active") \in Publication
    BY <1>a, <2>1, ReconciledTypes DEF PubStatuses, StableStatuses
  <2>3. job' \in [Jobs -> Job]
    BY <1>12, <1>a, <1>e, <2>1, StatusTypes DEF FinishCheck, FinishCheckIf
  <2>4. /\ pub' \in [Targets -> Publication]
        /\ consumed' \subseteq Accounts
        /\ fresh' \subseteq Jobs
        /\ doubt' \subseteq Targets
    <3>1. CASE wrk[w].ok /\ wrk[w].job \in fresh /\ Unfinished \ {wrk[w].job} = {}
      <4>1. /\ pub' = [pub EXCEPT ![wrk[w].cur] = Reconciled(pub[wrk[w].cur], "active")]
            /\ consumed' = consumed \cup {wrk[w].cur.account}
            /\ fresh' \subseteq fresh
            /\ doubt' = doubt \ {wrk[w].cur}
        BY <1>12, <3>1 DEF FinishCheck, FinishCheckIf, Reconcile, FreshAfterSaving
      <4> QED
        BY <1>a, <1>f, <2>1, <2>2, <4>1
    <3>2. CASE ~(wrk[w].ok /\ wrk[w].job \in fresh /\ Unfinished \ {wrk[w].job} = {})
      BY <1>12, <1>a, <3>2 DEF FinishCheck, FinishCheckIf
    <3> QED
      BY <3>1, <3>2
  <2> QED
    BY <1>12, <1>a, <2>3, <2>4, ReturnTypes DEF FinishCheck, FinishCheckIf
<1>13. CASE Crash(w)
  <2>1. wrk[w].pc = "record" => wrk[w].cur \in Targets
    BY <1>d DEF InAttempt
  <2> QED
    BY <1>13, <1>a, <2>1, ReturnTypes DEF Crash, rows
<1> QED
  BY <1>1, <1>2, <1>3, <1>4, <1>5, <1>6, <1>7, <1>8, <1>9, <1>10, <1>11, <1>12, <1>13
     DEF Receive, Execute

LEMMA SweepKeepsType ==
  ASSUME TypeOK, RecoverStaleJobs PROVE TypeOK'
<1>1. \A j \in Jobs : [job[j] EXCEPT !.status = "failed"] \in Job
  BY DEF TypeOK, Job, JobStatuses, Finished
<1> QED
  BY <1>1 DEF RecoverStaleJobs, TypeOK, history

LEMMA TypeStep == ClaimInv /\ [Next]_vars => TypeOK'
<1> SUFFICES ASSUME ClaimInv, [Next]_vars PROVE TypeOK'
  OBVIOUS
<1>1. TypeOK
  BY DEF ClaimInv
<1>2. CASE UNCHANGED vars
  BY <1>1, <1>2 DEF vars, TypeOK
<1> QED
  BY <1>1, <1>2, RequestsKeepType, WorkersKeepType, SweepKeepsType DEF Next

-----------------------------------------------------------------------------
(* The claims *)

LEMMA InitClaims == Init => ClaimParts
BY NoneAssumption DEF Init, ClaimParts, WorkerHoldsJob, OneWorkerPerJob, CalledOnce, ChecksSearch,
   Idle, NoJob, InAttempt

(* What a claim says of a worker depends on its own record and job only. *)
LEMMA Untouched ==
  ASSUME NEW v \in Workers, WorkerHoldsJob(v),
         wrk'[v].pc = wrk[v].pc, wrk'[v].job = wrk[v].job,
         wrk'[v].todo = wrk[v].todo, wrk'[v].cur = wrk[v].cur,
         wrk[v].pc # "idle" => job'[wrk[v].job] = job[wrk[v].job]
  PROVE  WorkerHoldsJob(v)'
BY DEF WorkerHoldsJob, InAttempt, JobOf

(* Requests of managers only fill rows that were absent. *)
LEMMA RequestsFillRows ==
  ASSUME TypeOK, ManagerRequest, NEW j \in Jobs, job'[j] # job[j]
  PROVE  /\ job[j].status = "absent"
         /\ job'[j].kind = "reconcile" => job'[j].op = "search"
<1>1. ASSUME NEW i \in Jobs, NEW op \in Requestable, NEW ts \in SUBSET Targets,
             RequestJob(i, op, ts)
      PROVE  job[j].status = "absent" /\ job'[j].kind # "reconcile"
  BY <1>1 DEF RequestJob, NewJob, TypeOK
<1>2. ASSUME NEW action \in {"activate", "deactivate"}, NEW ts \in SUBSET Targets,
             RequestListingState(action, ts)
      PROVE  job[j].status = "absent" /\ job'[j].kind # "reconcile"
  <2> DEFINE op(t)    == OperationFor(t.market, action)
             selected == {t \in ts : /\ pub[t].status = DesiredStatus(action)
                                     /\ op(t) # "none"}
  <2>1. PICK js \in SUBSET Unused : \E opOf \in Bijection(js, {op(t) : t \in selected}) :
          job' = [i \in Jobs |->
                    IF i \in js
                    THEN NewJob("listing", opOf[i], {t \in selected : op(t) = opOf[i]})
                    ELSE job[i]]
    BY <1>2 DEF RequestListingState
  <2>2. j \in js /\ job'[j].kind = "listing"
    BY <2>1 DEF NewJob
  <2> QED
    BY <2>1, <2>2 DEF Unused
<1>3. ASSUME NEW i \in Jobs, NEW t \in Targets, RequestCheck(i, t)
      PROVE  job[j].status = "absent" /\ job'[j].op = "search"
  BY <1>3 DEF RequestCheck, NewJob, TypeOK
<1>4. ASSUME NEW i \in Jobs, NEW t \in Targets, NEW s \in PubStatuses,
             RequestManual(i, t, s)
      PROVE  job[j].status = "absent" /\ job'[j].op = "search"
  BY <1>4 DEF RequestManual, NewJob, TypeOK
<1> QED
  BY <1>1, <1>2, <1>3, <1>4 DEF ManagerRequest

LEMMA RequestsKeepClaims ==
  ASSUME ClaimInv, ManagerRequest PROVE ClaimParts'
<1>1. wrk' = wrk /\ sent' = sent
  BY DEF ManagerRequest, RequestJob, RequestListingState, RequestCheck, RequestManual, history
<1>2. \A w \in Workers : wrk[w].pc # "idle" =>
        wrk[w].job \in Jobs /\ job[wrk[w].job].status = "running"
  BY DEF ClaimInv, ClaimParts, WorkerHoldsJob, JobOf, TypeOK, Worker
<1>3. \A j \in Jobs : job'[j] # job[j] => job[j].status = "absent"
  BY RequestsFillRows DEF ClaimInv
<1>4. \A w \in Workers : WorkerHoldsJob(w)'
  BY <1>1, <1>2, <1>3, Untouched DEF ClaimInv, ClaimParts
<1>5. OneWorkerPerJob'
  BY <1>1 DEF ClaimInv, ClaimParts, OneWorkerPerJob
<1>6. CalledOnce'
  BY <1>1, <1>3 DEF ClaimInv, ClaimParts, CalledOnce
<1>7. ChecksSearch'
  BY RequestsFillRows DEF ClaimInv, ClaimParts, ChecksSearch
<1> QED
  BY <1>4, <1>5, <1>6, <1>7 DEF ClaimParts

(* A worker whose task returns leaves the other workers alone. *)
LEMMA ReturnKeepsClaims ==
  ASSUME ClaimInv, NEW w \in Workers, wrk[w].pc # "idle",
         wrk' = [wrk EXCEPT ![w] = Idle], sent' = sent,
         \/ job' = job
         \/ \E s \in Finished : SetStatus(wrk[w].job, s)
  PROVE  ClaimParts'
<1> USE DEF ClaimInv, ClaimParts
<1>1. wrk[w].job \in Jobs /\ job[wrk[w].job].status = "running"
  BY DEF WorkerHoldsJob, JobOf, TypeOK, Worker
<1>2. \A j \in Jobs : j # wrk[w].job => job'[j] = job[j]
  BY DEF SetStatus, TypeOK
<1>3. \A j \in Jobs : job'[j].kind = job[j].kind /\ job'[j].op = job[j].op
  <2>1. job[wrk[w].job] \in Job
    BY <1>1 DEF TypeOK
  <2>2. ASSUME NEW s \in Finished, SetStatus(wrk[w].job, s)
        PROVE  job'[wrk[w].job] = [job[wrk[w].job] EXCEPT !.status = s]
    BY <1>1, <2>2 DEF SetStatus, TypeOK
  <2> QED
    BY <1>2, <2>1, <2>2 DEF Job
<1>4. job'[wrk[w].job].status \notin {"absent", "queued"}
  BY <1>1 DEF SetStatus, TypeOK, Job, Finished
<1>5. ASSUME NEW v \in Workers PROVE WorkerHoldsJob(v)'
  <2>1. CASE v = w
    BY <2>1 DEF WorkerHoldsJob, Idle, InAttempt, TypeOK
  <2>2. CASE v # w
    <3>1. wrk'[v] = wrk[v]
      BY <2>2 DEF TypeOK
    <3>2. wrk[v].pc # "idle" => wrk[v].job \in Jobs /\ wrk[v].job # wrk[w].job
      BY <2>2, <1>1, NoneAssumption DEF WorkerHoldsJob, OneWorkerPerJob, TypeOK, Worker
    <3> QED
      BY <1>2, <3>1, <3>2, Untouched
  <2> QED
    BY <2>1, <2>2
<1>6. OneWorkerPerJob'
  BY DEF OneWorkerPerJob, Idle, TypeOK
<1>7. CalledOnce'
  <2>1. \A j \in Jobs, t \in Targets :
          job'[j].status \in {"absent", "queued"} => sent[j][t] = 0
    BY <1>2, <1>4 DEF CalledOnce
  <2>2. \A v \in Workers : wrk'[v].pc # "idle" => wrk'[v] = wrk[v]
    BY DEF Idle, TypeOK
  <2> QED
    BY <2>1, <2>2 DEF CalledOnce
<1>8. ChecksSearch'
  BY <1>3 DEF ChecksSearch
<1> QED
  BY <1>5, <1>6, <1>7, <1>8

(* A worker that moves on inside its job, without a call. *)
LEMMA ProgressKeepsClaims ==
  ASSUME ClaimInv, NEW w \in Workers, wrk[w].pc # "idle",
         job' = job, sent' = sent,
         \A v \in Workers : v # w => /\ wrk'[v].pc = wrk[v].pc
                                     /\ wrk'[v].job = wrk[v].job
                                     /\ wrk'[v].todo = wrk[v].todo
                                     /\ wrk'[v].cur = wrk[v].cur,
         wrk'[w].job = wrk[w].job,
         wrk'[w].todo \subseteq wrk[w].todo,
         \/ wrk'[w].pc = "next"
         \/ /\ wrk'[w].pc = "call"
            /\ wrk'[w].cur \in wrk[w].todo \ wrk'[w].todo
            /\ JobOf(w).op \in PublicationOps
         \/ /\ wrk[w].pc = "look" /\ wrk'[w].pc = "confirm"
            /\ wrk'[w].cur \in JobOf(w).targets
  PROVE  ClaimParts'
<1> USE DEF ClaimInv, ClaimParts
<1>1. ASSUME NEW v \in Workers PROVE WorkerHoldsJob(v)'
  <2>1. CASE v # w
    BY <2>1, Untouched
  <2>2. CASE v = w
    BY <2>2, NoneAssumption DEF WorkerHoldsJob, InAttempt, JobOf, TypeOK, Worker
  <2> QED
    BY <2>1, <2>2
<1>2. OneWorkerPerJob'
  <2>1. \A v \in Workers : wrk'[v].job = wrk[v].job
    OBVIOUS
  <2> QED
    BY <2>1 DEF OneWorkerPerJob
<1>3. CalledOnce'
  BY DEF CalledOnce
<1>4. ChecksSearch'
  BY DEF ChecksSearch
<1> QED
  BY <1>1, <1>2, <1>3, <1>4

LEMMA WorkersKeepClaims ==
  ASSUME ClaimInv, NEW w \in Workers, Receive(w) \/ Execute(w) \/ Crash(w)
  PROVE  ClaimParts'
<1>a. TypeOK /\ WorkerHoldsJob(w)
  BY DEF ClaimInv, ClaimParts
<1>b. wrk[w].pc # "idle" => wrk[w].job \in Jobs
  BY <1>a DEF WorkerHoldsJob, TypeOK, Worker
<1>1. ASSUME NEW j \in Jobs, Claim(w, j) PROVE ClaimParts'
  <2> USE DEF ClaimInv, ClaimParts
  <2>1. /\ wrk'[w].job = j /\ wrk'[w].todo = job[j].targets
        /\ wrk'[w].pc = IF job[j].kind = "reconcile" THEN "look" ELSE "next"
        /\ \A v \in Workers : v # w => wrk'[v] = wrk[v]
    BY <1>1 DEF Claim, Idle, TypeOK
  <2>2. /\ job'[j].status = "running" /\ job'[j].kind = job[j].kind
        /\ job'[j].op = job[j].op /\ job'[j].targets = job[j].targets
        /\ \A i \in Jobs : i # j => job'[i] = job[i]
    BY <1>1 DEF Claim, SetStatus, TypeOK, Job
  <2>3. job[j].status = "queued" /\ sent' = sent
    BY <1>1 DEF Claim, history
  <2>4. \A v \in Workers : wrk[v].job # j
    BY <2>3, NoneAssumption DEF WorkerHoldsJob, JobOf
  <2>5. ASSUME NEW v \in Workers PROVE WorkerHoldsJob(v)'
    <3>1. CASE v = w
      BY <3>1, <2>1, <2>2, NoneAssumption DEF WorkerHoldsJob, InAttempt, JobOf
    <3>2. CASE v # w
      <4>1. WorkerHoldsJob(v) /\ wrk'[v] = wrk[v]
        BY <3>2, <2>1
      <4>2. wrk[v].pc # "idle" => wrk[v].job \in Jobs
        BY <4>1 DEF WorkerHoldsJob, TypeOK, Worker
      <4>3. wrk[v].pc # "idle" => job'[wrk[v].job] = job[wrk[v].job]
        BY <2>2, <2>4, <4>2
      <4> HIDE DEF ClaimInv, ClaimParts
      <4> QED
        BY <4>1, <4>3, Untouched
    <3> QED
      BY <3>1, <3>2
  <2>6. OneWorkerPerJob'
    BY <2>1, <2>4 DEF OneWorkerPerJob
  <2>7. CalledOnce'
    BY <2>1, <2>2, <2>3 DEF CalledOnce
  <2>8. ChecksSearch'
    BY <2>2 DEF ChecksSearch
  <2> QED
    BY <2>5, <2>6, <2>7, <2>8
<1>2. ASSUME NEW j \in Jobs, Discard(w, j) PROVE ClaimParts'
  BY <1>2 DEF Discard, rows, history, ClaimInv, ClaimParts, WorkerHoldsJob, OneWorkerPerJob,
              CalledOnce, ChecksSearch, InAttempt, JobOf
<1>3. CASE RejectPayload(w)
  BY <1>3, ReturnKeepsClaims DEF RejectPayload, Return, Finished, history
<1>4. ASSUME NEW t \in Targets, StartAttempt(w, t) PROVE ClaimParts'
  <2>1. /\ wrk'[w].pc = "call" /\ wrk'[w].cur = t /\ wrk'[w].todo = wrk[w].todo \ {t}
        /\ wrk'[w].job = wrk[w].job
    BY <1>4, <1>a DEF StartAttempt, TypeOK, Worker
  <2>2. \A v \in Workers : v # w => /\ wrk'[v].pc = wrk[v].pc
                                    /\ wrk'[v].job = wrk[v].job
                                    /\ wrk'[v].todo = wrk[v].todo
                                    /\ wrk'[v].cur = wrk[v].cur
    BY <1>4, <1>a DEF StartAttempt, TypeOK, Worker
  <2>3. /\ wrk[w].pc = "next" /\ t \in wrk[w].todo /\ JobOf(w).op \in PublicationOps
        /\ job' = job /\ sent' = sent
    BY <1>4 DEF StartAttempt
  <2> QED
    BY <2>1, <2>2, <2>3, ProgressKeepsClaims
<1>5. ASSUME NEW t \in Targets, RefuseAttempt(w, t) PROVE ClaimParts'
  BY <1>5, <1>a, ProgressKeepsClaims DEF RefuseAttempt, rows, history, TypeOK, Worker
<1>6. ASSUME NEW t \in Targets, SearchTarget(w, t) PROVE ClaimParts'
  <2>1. /\ wrk'[w].pc = "next" /\ wrk'[w].job = wrk[w].job
        /\ wrk'[w].todo = wrk[w].todo \ {t}
        /\ \A v \in Workers : v # w => wrk'[v] = wrk[v]
        /\ wrk[w].pc = "next" /\ job' = job /\ sent' = sent
    BY <1>6, <1>a DEF SearchTarget, rows, history, TypeOK, Worker
  <2> QED
    BY <2>1, ProgressKeepsClaims
<1>7. CASE CallMarketplace(w)
  <2> USE DEF ClaimInv, ClaimParts
  <2>1. /\ wrk[w].pc = "call" /\ wrk'[w].pc = "record"
        /\ wrk'[w].job = wrk[w].job /\ wrk'[w].cur = wrk[w].cur
        /\ wrk'[w].todo = wrk[w].todo
        /\ \A v \in Workers : v # w => wrk'[v] = wrk[v]
        /\ job' = job
    BY <1>7, <1>a DEF CallMarketplace, TypeOK, Worker, rows
  <2>2. \A i \in Jobs, t \in Targets :
          ~(i = wrk[w].job /\ t = wrk[w].cur) => sent'[i][t] = sent[i][t]
    BY <1>7 DEF CallMarketplace, TypeOK
  <2>3. ASSUME NEW v \in Workers PROVE WorkerHoldsJob(v)'
    <3>1. CASE v # w
      BY <2>1, <3>1, Untouched
    <3>2. CASE v = w
      BY <2>1, <3>2 DEF WorkerHoldsJob, InAttempt, JobOf
    <3> QED
      BY <3>1, <3>2
  <2>4. OneWorkerPerJob'
    BY <2>1 DEF OneWorkerPerJob
  <2>5. CalledOnce'
    <3>1. ASSUME NEW i \in Jobs, NEW t \in Targets, job'[i].status \in {"absent", "queued"}
          PROVE  sent'[i][t] = 0
      BY <2>1, <2>2, <3>1 DEF CalledOnce, WorkerHoldsJob, JobOf
    <3>2. ASSUME NEW v \in Workers, wrk'[v].pc # "idle", NEW t \in Targets,
                 t \in wrk'[v].todo \/ (wrk'[v].pc = "call" /\ t = wrk'[v].cur)
          PROVE  sent'[wrk'[v].job][t] = 0
      <4>1. CASE v = w
        <5>1. t # wrk[w].cur
          BY <2>1, <3>2, <4>1 DEF WorkerHoldsJob, InAttempt
        <5> QED
          BY <1>b, <2>1, <2>2, <3>2, <4>1, <5>1 DEF CalledOnce
      <4>2. CASE v # w
        <5>1. wrk[v].job \in Jobs /\ wrk[v].job # wrk[w].job
          BY <2>1, <3>2, <4>2 DEF WorkerHoldsJob, OneWorkerPerJob, TypeOK, Worker
        <5> QED
          BY <2>1, <2>2, <3>2, <4>2, <5>1 DEF CalledOnce
      <4> QED
        BY <4>1, <4>2
    <3> QED
      BY <3>1, <3>2 DEF CalledOnce
  <2>6. ChecksSearch'
    BY <2>1 DEF ChecksSearch
  <2> QED
    BY <2>3, <2>4, <2>5, <2>6
<1>8. CASE RecordSuccess(w)
  BY <1>8, <1>a, ProgressKeepsClaims DEF RecordSuccess, TypeOK, Worker
<1>9. CASE RecordFailure(w)
  BY <1>9, <1>a, ProgressKeepsClaims DEF RecordFailure, history, TypeOK, Worker
<1>10. CASE FinishJob(w)
  <2>1. Verdict(wrk[w].oks, JobOf(w).targets) \in Finished
    BY DEF Verdict, Finished
  <2> QED
    BY <1>10, <2>1, ReturnKeepsClaims DEF FinishJob, Return, history
<1>11. CASE LookAtMarketplace(w)
  BY <1>11, <1>a, ProgressKeepsClaims DEF LookAtMarketplace, rows, history, TypeOK, Worker
<1>12. CASE FinishCheck(w)
  BY <1>12, ReturnKeepsClaims DEF FinishCheck, FinishCheckIf, Return, Finished
<1>13. CASE Crash(w)
  BY <1>13, ReturnKeepsClaims DEF Crash, Return, rows
<1> QED
  BY <1>1, <1>2, <1>3, <1>4, <1>5, <1>6, <1>7, <1>8, <1>9, <1>10, <1>11, <1>12, <1>13
     DEF Receive, Execute

LEMMA SweepKeepsClaims ==
  ASSUME ClaimInv, RecoverStaleJobs PROVE ClaimParts'
<1> USE DEF ClaimInv, ClaimParts
<1>1. PICK stale \in SUBSET Abandoned :
        /\ job' = [j \in Jobs |-> IF j \in stale THEN [job[j] EXCEPT !.status = "failed"]
                                                 ELSE job[j]]
        /\ wrk' = wrk /\ sent' = sent
  BY DEF RecoverStaleJobs, history
<1>2. \A j \in Jobs : /\ job'[j].kind = job[j].kind /\ job'[j].op = job[j].op
                      /\ job'[j] # job[j] => job'[j].status = "failed"
  BY <1>1 DEF TypeOK, Job
<1>3. \A w \in Workers : wrk[w].pc # "idle" => job'[wrk[w].job] = job[wrk[w].job]
  BY <1>1 DEF WorkerHoldsJob, TypeOK, Worker, Abandoned
<1>4. \A w \in Workers : WorkerHoldsJob(w)'
  BY <1>1, <1>3, Untouched
<1>5. OneWorkerPerJob' /\ CalledOnce' /\ ChecksSearch'
  BY <1>1, <1>2 DEF OneWorkerPerJob, CalledOnce, ChecksSearch
<1> QED
  BY <1>4, <1>5

LEMMA ClaimStep == ClaimInv /\ [Next]_vars => ClaimInv'
<1> SUFFICES ASSUME ClaimInv, [Next]_vars PROVE ClaimInv'
  OBVIOUS
<1>1. ASSUME UNCHANGED vars PROVE ClaimParts'
  <2>1. job' = job /\ wrk' = wrk /\ sent' = sent
    BY <1>1 DEF vars
  <2>2. \A w \in Workers : WorkerHoldsJob(w)'
    BY <2>1, Untouched DEF ClaimInv, ClaimParts
  <2> QED
    BY <2>1, <2>2 DEF ClaimInv, ClaimParts, OneWorkerPerJob, CalledOnce, ChecksSearch
<1>2. ClaimParts'
  BY <1>1, RequestsKeepClaims, WorkersKeepClaims, SweepKeepsClaims DEF Next, ClaimInv
<1> QED
  BY <1>2, TypeStep DEF ClaimInv

(* The strengthening that TypeOK, NoSecondCall, FinishedStaysFinished and  *)
(* the refinement rest on: a busy worker owns its running job alone.       *)
THEOREM Claims == Spec => []ClaimInv
<1>1. Init => ClaimInv
  BY InitType, InitClaims DEF ClaimInv
<1> QED
  BY <1>1, ClaimStep, PTL DEF Spec

-----------------------------------------------------------------------------
(* Every row and every worker keeps the shape of its model class.          *)
THEOREM TypeCorrect == Spec => []TypeOK
<1>1. ClaimInv => TypeOK
  BY DEF ClaimInv
<1> QED
  BY <1>1, Claims, PTL

(* A worker about to call a marketplace has never called it for that       *)
(* target on behalf of that job, for any number of deliveries and crashes. *)
THEOREM CallsAtMostOnce == Spec => []NoSecondCall
<1>1. ClaimInv => NoSecondCall
  BY DEF ClaimInv, ClaimParts, CalledOnce, NoSecondCall, WorkerHoldsJob, InAttempt, JobOf, TypeOK,
         Worker, Job
<1> QED
  BY <1>1, Claims, PTL

-----------------------------------------------------------------------------
(* What each kind of step does to the rows of jobs and to the calls.       *)

(* A worker's step takes a waiting job, closes its own job or calls for    *)
(* one of its targets; or it changes neither jobs nor calls.               *)
LEMMA WorkerSteps ==
  ASSUME ClaimInv, NEW w \in Workers, Receive(w) \/ Execute(w) \/ Crash(w)
  PROVE  \/ /\ \E j \in Jobs : job[j].status = "queued" /\ SetStatus(j, "running")
            /\ sent' = sent
         \/ /\ wrk[w].job \in Jobs /\ job[wrk[w].job].status = "running"
            /\ \E s \in Finished : SetStatus(wrk[w].job, s)
            /\ sent' = sent
         \/ /\ wrk[w].job \in Jobs /\ job[wrk[w].job].status = "running"
            /\ wrk[w].cur \in Targets /\ sent[wrk[w].job][wrk[w].cur] = 0
            /\ sent' = [sent EXCEPT ![wrk[w].job][wrk[w].cur] = @ + 1]
            /\ job' = job
         \/ job' = job /\ sent' = sent
<1>1. wrk[w].pc # "idle" => wrk[w].job \in Jobs /\ job[wrk[w].job].status = "running"
  BY DEF ClaimInv, ClaimParts, WorkerHoldsJob, JobOf, TypeOK, Worker
<1>2. wrk[w].pc = "call" => wrk[w].cur \in Targets /\ sent[wrk[w].job][wrk[w].cur] = 0
  BY <1>1 DEF ClaimInv, ClaimParts, WorkerHoldsJob, CalledOnce, InAttempt, JobOf, TypeOK, Job
<1>3. \A oks, ts : Verdict(oks, ts) \in Finished
  BY DEF Verdict, Finished
<1>4. CASE Receive(w)
  BY <1>4 DEF Receive, Claim, Discard, rows, history
<1>5. CASE Execute(w)
  BY <1>1, <1>2, <1>3, <1>5
     DEF Execute, RejectPayload, StartAttempt, RefuseAttempt, SearchTarget, CallMarketplace,
         RecordSuccess, RecordFailure, FinishJob, LookAtMarketplace, FinishCheck, FinishCheckIf,
         rows, history, Finished
<1>6. CASE Crash(w)
  BY <1>6 DEF Crash, rows
<1> QED
  BY <1>4, <1>5, <1>6

LEMMA FinishedStep ==
  ASSUME ClaimInv, [Next]_vars, NEW j \in Jobs, job[j].status \in Finished
  PROVE  job'[j] = job[j]
<1>1. job[j].status \notin {"absent", "queued", "running"} /\ TypeOK
  BY DEF Finished, ClaimInv
<1>2. CASE ManagerRequest
  BY <1>1, <1>2, RequestsFillRows
<1>3. ASSUME NEW w \in Workers, Receive(w) \/ Execute(w) \/ Crash(w)
      PROVE  job'[j] = job[j]
  BY <1>1, <1>3, WorkerSteps DEF SetStatus, TypeOK
<1>4. CASE RecoverStaleJobs
  BY <1>1, <1>4 DEF RecoverStaleJobs, Abandoned
<1> QED
  BY <1>2, <1>3, <1>4 DEF Next, vars

(* No slow worker, duplicate delivery or sweep rewrites a finished job.    *)
THEOREM FinishedIsFinal == Spec => FinishedStaysFinished
<1>1. ClaimInv /\ [Next]_vars
        => [\A j \in Jobs : job[j].status \in Finished => job'[j] = job[j]]_vars
  BY FinishedStep
<1> QED
  BY <1>1, Claims, PTL DEF Spec, FinishedStaysFinished

-----------------------------------------------------------------------------
(* The refinement of the ledger *)

LEMMA LedgerStates ==
  ASSUME NEW s \in JobStatuses
  PROVE  /\ LedgerState(s) = "absent"  <=> s = "absent"
         /\ LedgerState(s) = "waiting" <=> s = "queued"
         /\ LedgerState(s) = "taken"   <=> s = "running"
         /\ LedgerState(s) = "closed"  <=> s \in Finished
BY DEF JobStatuses, Finished, LedgerState

(* Jobs that change together from one ledger state to another. *)
LEMMA Moves ==
  ASSUME NEW js \in SUBSET Jobs, NEW from, NEW to, sent' = sent,
         \A j \in js : /\ LedgerState(job[j].status) = from
                       /\ LedgerState(job'[j].status) = to,
         \A j \in Jobs \ js : job'[j].status = job[j].status
  PROVE  Ledger!Move(js, from, to)
BY DEF Ledger!Move

LEMMA LedgerInit == Init => Ledger!Init
BY DEF Init, Ledger!Init, NoJob, LedgerState

LEMMA RequestsRefine ==
  ASSUME TypeOK, TypeOK', ManagerRequest
  PROVE  Ledger!Next
<1>1. \A j \in Jobs : job[j].status \in JobStatuses /\ job'[j].status \in JobStatuses
  BY DEF TypeOK, Job
<1>2. sent' = sent
  BY DEF ManagerRequest, RequestJob, RequestListingState, RequestCheck, RequestManual, history
<1> DEFINE js == {j \in Jobs : job'[j] # job[j]}
<1>3. \A j \in js : LedgerState(job[j].status) = "absent"
  BY RequestsFillRows DEF LedgerState
<1>4. \/ \A j \in js : job'[j].status = "queued"
      \/ \A j \in js : job'[j].status = "succeeded"
  <2>1. ASSUME NEW i \in Jobs, NEW op \in Requestable, NEW ts \in SUBSET Targets,
               RequestJob(i, op, ts)
        PROVE  \A j \in js : job'[j].status = "queued"
    BY <2>1 DEF RequestJob, NewJob, TypeOK
  <2>2. ASSUME NEW action \in {"activate", "deactivate"}, NEW ts \in SUBSET Targets,
               RequestListingState(action, ts)
        PROVE  \A j \in js : job'[j].status = "queued"
    <3> DEFINE op(t)    == OperationFor(t.market, action)
               selected == {t \in ts : /\ pub[t].status = DesiredStatus(action)
                                       /\ op(t) # "none"}
    <3>1. PICK is \in SUBSET Unused : \E opOf \in Bijection(is, {op(t) : t \in selected}) :
            job' = [i \in Jobs |->
                      IF i \in is
                      THEN NewJob("listing", opOf[i], {t \in selected : op(t) = opOf[i]})
                      ELSE job[i]]
      BY <2>2 DEF RequestListingState
    <3> QED
      BY <3>1 DEF NewJob
  <2>3. ASSUME NEW i \in Jobs, NEW t \in Targets, RequestCheck(i, t)
        PROVE  \A j \in js : job'[j].status = "queued"
    BY <2>3 DEF RequestCheck, NewJob, TypeOK
  <2>4. ASSUME NEW i \in Jobs, NEW t \in Targets, NEW s \in PubStatuses, RequestManual(i, t, s)
        PROVE  \A j \in js : job'[j].status = "succeeded"
    BY <2>4 DEF RequestManual, NewJob, TypeOK
  <2> QED
    BY <2>1, <2>2, <2>3, <2>4 DEF ManagerRequest
<1>5. CASE \A j \in js : job'[j].status = "queued"
  <2>1. Ledger!Submit(js)
    BY <1>2, <1>3, <1>5, Moves DEF Ledger!Submit, LedgerState
  <2> QED
    BY <2>1 DEF Ledger!Next
<1>6. CASE \A j \in js : job'[j].status = "succeeded"
  <2>1. Ledger!Settle(js)
    BY <1>2, <1>3, <1>6, Moves DEF Ledger!Settle, LedgerState
  <2> QED
    BY <2>1 DEF Ledger!Next
<1> QED
  BY <1>4, <1>5, <1>6

LEMMA StatusMoves ==
  ASSUME TypeOK, NEW j \in Jobs, NEW s \in JobStatuses, SetStatus(j, s), sent' = sent
  PROVE  Ledger!Move({j}, LedgerState(job[j].status), LedgerState(s))
<1>1. job'[j].status = s /\ \A i \in Jobs : i # j => job'[i] = job[i]
  BY DEF SetStatus, TypeOK, Job
<1> QED
  BY <1>1, Moves

LEMMA WorkersRefine ==
  ASSUME ClaimInv, NEW w \in Workers, Receive(w) \/ Execute(w) \/ Crash(w)
  PROVE  [Ledger!Next]_(Ledger!vars)
<1> USE DEF ClaimInv
<1>1. CASE /\ \E j \in Jobs : job[j].status = "queued" /\ SetStatus(j, "running")
           /\ sent' = sent
  <2>1. PICK j \in Jobs : job[j].status = "queued" /\ SetStatus(j, "running")
    BY <1>1
  <2>2. Ledger!Move({j}, LedgerState("queued"), LedgerState("running"))
    BY <1>1, <2>1, StatusMoves DEF JobStatuses
  <2>3. Ledger!Take({j})
    BY <2>2 DEF Ledger!Take, LedgerState
  <2> QED
    BY <2>3 DEF Ledger!Next
<1>2. CASE /\ wrk[w].job \in Jobs /\ job[wrk[w].job].status = "running"
           /\ \E s \in Finished : SetStatus(wrk[w].job, s)
           /\ sent' = sent
  <2>1. PICK s \in Finished : SetStatus(wrk[w].job, s)
    BY <1>2
  <2>2. Ledger!Move({wrk[w].job}, LedgerState("running"), LedgerState(s))
    BY <1>2, <2>1, StatusMoves DEF JobStatuses
  <2>3. Ledger!Close({wrk[w].job})
    BY <2>2 DEF Ledger!Close, LedgerState, Finished
  <2> QED
    BY <1>2, <2>3 DEF Ledger!Next
<1>3. CASE /\ wrk[w].job \in Jobs /\ job[wrk[w].job].status = "running"
           /\ wrk[w].cur \in Targets /\ sent[wrk[w].job][wrk[w].cur] = 0
           /\ sent' = [sent EXCEPT ![wrk[w].job][wrk[w].cur] = @ + 1]
           /\ job' = job
  <2>1. sent' = [sent EXCEPT ![wrk[w].job][wrk[w].cur] = 1]
    BY <1>3 DEF TypeOK
  <2>2. Ledger!Call(wrk[w].job, wrk[w].cur)
    BY <1>3, <2>1 DEF Ledger!Call, LedgerState
  <2> QED
    BY <1>3, <2>2 DEF Ledger!Next
<1>4. CASE job' = job /\ sent' = sent
  BY <1>4 DEF Ledger!vars
<1> QED
  BY <1>1, <1>2, <1>3, <1>4, WorkerSteps

LEMMA SweepRefines ==
  ASSUME TypeOK, RecoverStaleJobs PROVE Ledger!Next
<1>1. PICK stale \in SUBSET Abandoned :
        /\ job' = [j \in Jobs |-> IF j \in stale THEN [job[j] EXCEPT !.status = "failed"]
                                                 ELSE job[j]]
        /\ sent' = sent
  BY DEF RecoverStaleJobs, history
<1>2. \A j \in stale : j \in Jobs /\ job[j].status = "running" /\ job'[j].status = "failed"
  BY <1>1 DEF Abandoned, TypeOK, Job
<1>3. Ledger!Move(stale, LedgerState("running"), LedgerState("failed"))
  BY <1>1, <1>2, Moves
<1>4. Ledger!Close(stale)
  BY <1>3 DEF Ledger!Close, LedgerState
<1> QED
  BY <1>2, <1>4 DEF Ledger!Next

(* The orchestrator, with its workers, messages and crashes, is a ledger   *)
(* of jobs taken once, each target of which is called at most once.        *)
THEOREM Refinement == Spec => ImplementsLedger
<1>1. ClaimInv /\ ClaimInv' /\ [Next]_vars => [Ledger!Next]_(Ledger!vars)
  <2> SUFFICES ASSUME ClaimInv, ClaimInv', [Next]_vars PROVE [Ledger!Next]_(Ledger!vars)
    OBVIOUS
  <2>1. TypeOK /\ TypeOK'
    BY DEF ClaimInv
  <2>2. CASE UNCHANGED vars
    BY <2>2 DEF vars, Ledger!vars
  <2> QED
    BY <2>1, <2>2, RequestsRefine, WorkersRefine, SweepRefines DEF Next
<1> QED
  BY <1>1, LedgerInit, Claims, PTL DEF Spec, ImplementsLedger, Ledger!Spec

-----------------------------------------------------------------------------
(* What a worker's step leaves to the other workers.                       *)

LEMMA OthersKeepTheirs ==
  ASSUME ClaimInv, NEW w \in Workers, Receive(w) \/ Execute(w) \/ Crash(w),
         NEW v \in Workers, v # w
  PROVE  /\ wrk'[v].pc = wrk[v].pc /\ wrk'[v].job = wrk[v].job
         /\ wrk'[v].todo = wrk[v].todo /\ wrk'[v].cur = wrk[v].cur
         /\ wrk'[v].ok = wrk[v].ok /\ wrk'[v].oks = wrk[v].oks
         /\ (\A t \in Targets : ~StartAttempt(w, t)) => wrk'[v] = wrk[v]
         /\ wrk[v].pc # "idle" => /\ wrk[v].job \in Jobs
                                  /\ wrk[v].job # wrk[w].job
                                  /\ job'[wrk[v].job] = job[wrk[v].job]
<1> USE DEF ClaimInv
<1>1. wrk[v] \in Worker
  BY DEF TypeOK
<1>2. ASSUME NEW t \in Targets, StartAttempt(w, t)
      PROVE  wrk'[v] = wrk[v] \/ wrk'[v] = [wrk[v] EXCEPT !.solo = FALSE]
  BY <1>2 DEF StartAttempt
<1>3. ASSUME \A t \in Targets : ~StartAttempt(w, t) PROVE wrk'[v] = wrk[v]
  <2>1. CASE Receive(w)
    BY <2>1 DEF Receive, Claim, Discard, TypeOK
  <2>2. CASE Crash(w) \/ RejectPayload(w) \/ FinishJob(w) \/ FinishCheck(w)
    BY <2>2 DEF Crash, RejectPayload, FinishJob, FinishCheck, FinishCheckIf, Return, TypeOK
  <2>3. ASSUME NEW t \in Targets, RefuseAttempt(w, t) \/ SearchTarget(w, t)
        PROVE  wrk'[v] = wrk[v]
    BY <2>3 DEF RefuseAttempt, SearchTarget, TypeOK
  <2>4. CASE CallMarketplace(w) \/ LookAtMarketplace(w)
    BY <2>4 DEF CallMarketplace, LookAtMarketplace, TypeOK
  <2>5. CASE RecordSuccess(w) \/ RecordFailure(w)
    BY <2>5 DEF RecordSuccess, RecordFailure, TypeOK
  <2> QED
    BY <1>3, <2>1, <2>2, <2>3, <2>4, <2>5 DEF Execute
<1>4. /\ wrk'[v].pc = wrk[v].pc /\ wrk'[v].job = wrk[v].job
      /\ wrk'[v].todo = wrk[v].todo /\ wrk'[v].cur = wrk[v].cur
      /\ wrk'[v].ok = wrk[v].ok /\ wrk'[v].oks = wrk[v].oks
      /\ (\A t \in Targets : ~StartAttempt(w, t)) => wrk'[v] = wrk[v]
  BY <1>1, <1>2, <1>3 DEF Worker
<1>5. ASSUME wrk[v].pc # "idle"
      PROVE  /\ wrk[v].job \in Jobs /\ wrk[v].job # wrk[w].job
             /\ job'[wrk[v].job] = job[wrk[v].job]
  <2>1. /\ wrk[v].job \in Jobs /\ wrk[v].job # wrk[w].job
        /\ job[wrk[v].job].status = "running"
    BY <1>1, <1>5 DEF ClaimParts, WorkerHoldsJob, OneWorkerPerJob, JobOf, Worker
  <2> QED
    BY <2>1, WorkerSteps DEF SetStatus, TypeOK
<1> QED
  BY <1>4, <1>5

(* A worker's step changes nothing of a job but its status. *)
LEMMA OrdersStay ==
  ASSUME ClaimInv, NEW w \in Workers, Receive(w) \/ Execute(w) \/ Crash(w)
  PROVE  \A j \in Jobs : /\ job'[j].op = job[j].op /\ job'[j].targets = job[j].targets
                         /\ job'[j].kind = job[j].kind
                         /\ job[j].status # "absent" => job'[j].status # "absent"
<1>1. \/ job' = job
      \/ \E i \in Jobs, s \in JobStatuses \ {"absent"} : job' = [job EXCEPT ![i].status = s]
  BY WorkerSteps DEF SetStatus, JobStatuses, Finished
<1>2. ASSUME NEW i \in Jobs, NEW s \in JobStatuses \ {"absent"},
             job' = [job EXCEPT ![i].status = s], NEW j \in Jobs
      PROVE  /\ job'[j].op = job[j].op /\ job'[j].targets = job[j].targets
             /\ job'[j].kind = job[j].kind
             /\ job[j].status # "absent" => job'[j].status # "absent"
  <2>1. job[j] \in Job /\ (job'[j] = job[j] \/ job'[j] = [job[j] EXCEPT !.status = s])
    BY <1>2 DEF ClaimInv, TypeOK
  <2> QED
    BY <2>1 DEF Job
<1> QED
  BY <1>1, <1>2

-----------------------------------------------------------------------------
(* The verdicts                                                            *)

(* The targets a worker has a positive answer for.                         *)
AnswersOf(w) ==
  wrk[w].oks \cup (IF wrk[w].pc = "record" /\ wrk[w].ok THEN {wrk[w].cur} ELSE {})

KnowsAnswers(w) ==
  wrk[w].pc \in {"next", "call", "record"} /\ JobOf(w).op \in PublicationOps =>
    /\ acked[wrk[w].job] = AnswersOf(w)
    /\ wrk[w].oks \subseteq JobOf(w).targets \ wrk[w].todo

(* A job got no answer before it is claimed; then its worker knows all.    *)
AnswersInv ==
  /\ \A j \in Jobs : job[j].status \in {"absent", "queued"} => acked[j] = {}
  /\ \A w \in Workers : KnowsAnswers(w)

LEMMA SameAnswers ==
  ASSUME NEW v \in Workers, KnowsAnswers(v),
         wrk'[v].pc = wrk[v].pc, wrk'[v].job = wrk[v].job, wrk'[v].todo = wrk[v].todo,
         wrk'[v].cur = wrk[v].cur, wrk'[v].ok = wrk[v].ok, wrk'[v].oks = wrk[v].oks,
         wrk[v].pc # "idle" => /\ job'[wrk[v].job].op = job[wrk[v].job].op
                               /\ job'[wrk[v].job].targets = job[wrk[v].job].targets
                               /\ acked'[wrk[v].job] = acked[wrk[v].job]
  PROVE  KnowsAnswers(v)'
BY DEF KnowsAnswers, AnswersOf, JobOf

LEMMA RequestsKeepAnswers ==
  ASSUME ClaimInv, AnswersInv, ManagerRequest PROVE AnswersInv'
<1>1. wrk' = wrk /\ acked' = acked
  BY DEF ManagerRequest, RequestJob, RequestListingState, RequestCheck, RequestManual, history
<1>2. \A j \in Jobs : job'[j] # job[j] => job[j].status = "absent"
  BY RequestsFillRows DEF ClaimInv
<1>3. \A w \in Workers : wrk[w].pc # "idle" =>
        wrk[w].job \in Jobs /\ job[wrk[w].job].status = "running"
  BY DEF ClaimInv, ClaimParts, WorkerHoldsJob, JobOf, TypeOK, Worker
<1>4. ASSUME NEW w \in Workers PROVE KnowsAnswers(w)'
  BY <1>1, <1>2, <1>3, SameAnswers DEF AnswersInv
<1> QED
  BY <1>1, <1>2, <1>4 DEF AnswersInv

LEMMA SweepKeepsAnswers ==
  ASSUME ClaimInv, AnswersInv, RecoverStaleJobs PROVE AnswersInv'
<1>1. PICK stale \in SUBSET Abandoned :
        /\ job' = [j \in Jobs |-> IF j \in stale THEN [job[j] EXCEPT !.status = "failed"]
                                                 ELSE job[j]]
        /\ wrk' = wrk /\ acked' = acked
  BY DEF RecoverStaleJobs, history
<1>2. \A j \in Jobs : job'[j] # job[j] => job'[j].status = "failed"
  BY <1>1 DEF ClaimInv, TypeOK, Job
<1>3. \A w \in Workers : wrk[w].pc # "idle" => job'[wrk[w].job] = job[wrk[w].job]
  BY <1>1 DEF ClaimInv, ClaimParts, WorkerHoldsJob, TypeOK, Worker, Abandoned
<1>4. ASSUME NEW w \in Workers PROVE KnowsAnswers(w)'
  BY <1>1, <1>3, SameAnswers DEF AnswersInv
<1> QED
  BY <1>1, <1>2, <1>4 DEF AnswersInv

LEMMA WorkersKeepAnswers ==
  ASSUME ClaimInv, AnswersInv, NEW w \in Workers, Receive(w) \/ Execute(w) \/ Crash(w)
  PROVE  AnswersInv'
<1>a. TypeOK /\ wrk[w] \in Worker /\ WorkerHoldsJob(w) /\ KnowsAnswers(w)
  BY DEF ClaimInv, ClaimParts, TypeOK, AnswersInv
<1>b. wrk[w].pc # "idle" => /\ wrk[w].job \in Jobs /\ job[wrk[w].job] \in Job
                            /\ job[wrk[w].job].status = "running"
  BY <1>a DEF WorkerHoldsJob, Worker, JobOf, TypeOK
<1>c. CASE CallMarketplace(w)
  <2>1. /\ wrk[w].pc = "call" /\ wrk[w].job \in Jobs /\ wrk[w].cur \in Targets
        /\ JobOf(w).op \in PublicationOps /\ job' = job
    BY <1>a, <1>b, <1>c DEF CallMarketplace, WorkerHoldsJob, InAttempt, JobOf, Job, rows
  <2>2. PICK ok \in BOOLEAN :
          /\ acked' = IF ok THEN [acked EXCEPT ![wrk[w].job] = @ \cup {wrk[w].cur}] ELSE acked
          /\ wrk' = [wrk EXCEPT ![w] = [wrk[w] EXCEPT !.pc = "record", !.ok = ok]]
    BY <1>a, <1>c DEF CallMarketplace, TypeOK
  <2>3. /\ wrk'[w].pc = "record" /\ wrk'[w].ok = ok /\ wrk'[w].job = wrk[w].job
        /\ wrk'[w].cur = wrk[w].cur /\ wrk'[w].oks = wrk[w].oks
        /\ wrk'[w].todo = wrk[w].todo
    BY <1>a, <2>2 DEF TypeOK, Worker
  <2>4. acked'[wrk[w].job] = acked[wrk[w].job] \cup (IF ok THEN {wrk[w].cur} ELSE {})
    BY <1>a, <2>1, <2>2 DEF TypeOK
  <2>5. acked[wrk[w].job] = wrk[w].oks
        /\ wrk[w].oks \subseteq JobOf(w).targets \ wrk[w].todo
    BY <1>a, <2>1 DEF KnowsAnswers, AnswersOf
  <2>6. KnowsAnswers(w)'
    BY <2>1, <2>3, <2>4, <2>5 DEF KnowsAnswers, AnswersOf, JobOf
  <2>7. \A j \in Jobs : j # wrk[w].job => acked'[j] = acked[j]
    BY <1>a, <2>2 DEF TypeOK
  <2>8. ASSUME NEW v \in Workers, v # w PROVE KnowsAnswers(v)'
    BY <2>1, <2>7, <2>8, OthersKeepTheirs, SameAnswers DEF AnswersInv
  <2>9. \A j \in Jobs : job'[j].status \in {"absent", "queued"} => acked'[j] = {}
    BY <1>b, <2>1, <2>7 DEF AnswersInv
  <2> QED
    BY <2>6, <2>8, <2>9 DEF AnswersInv
<1>d. CASE ~CallMarketplace(w)
  <2>1. acked' = acked
    BY <1>d DEF Receive, Execute, Crash, Claim, Discard, RejectPayload, StartAttempt, RefuseAttempt,
           SearchTarget, RecordSuccess, RecordFailure, FinishJob, LookAtMarketplace,
           FinishCheck, FinishCheckIf, history
  <2>2. ASSUME NEW v \in Workers, v # w PROVE KnowsAnswers(v)'
    BY <2>1, <2>2, OthersKeepTheirs, SameAnswers DEF AnswersInv
  <2>3. \A j \in Jobs : job'[j].status \in {"absent", "queued"} => job'[j] = job[j]
    <3>1. job \in [Jobs -> Job]
      BY <1>a DEF TypeOK
    <3>2. \/ job' = job
          \/ \E i \in Jobs, s \in Finished \cup {"running"} : SetStatus(i, s)
      BY WorkerSteps
    <3>3. ASSUME NEW i \in Jobs, NEW s \in Finished \cup {"running"}, SetStatus(i, s),
                 NEW j \in Jobs, job'[j].status \in {"absent", "queued"}
          PROVE  job'[j] = job[j]
      BY <3>1, <3>3 DEF SetStatus, Job, Finished
    <3> QED
      BY <3>2, <3>3
  <2>4. KnowsAnswers(w)'
    <3>1. ASSUME NEW j \in Jobs, Claim(w, j) PROVE KnowsAnswers(w)'
      <4>1. wrk'[w].oks = {} /\ wrk'[w].ok = FALSE /\ wrk'[w].job = j
            /\ wrk'[w].pc \in {"look", "next"}
        BY <1>a, <3>1 DEF Claim, Idle, TypeOK
      <4>2. acked'[j] = {}
        BY <2>1, <3>1 DEF Claim, AnswersInv
      <4> QED
        BY <4>1, <4>2 DEF KnowsAnswers, AnswersOf
    <3>2. ASSUME NEW j \in Jobs, Discard(w, j) PROVE KnowsAnswers(w)'
      BY <1>a, <3>2 DEF Discard, KnowsAnswers, AnswersOf, JobOf, rows, history
    <3>3. ASSUME wrk'[w] = Idle PROVE KnowsAnswers(w)'
      BY <3>3 DEF KnowsAnswers, Idle
    <3>4. CASE Crash(w) \/ RejectPayload(w) \/ FinishJob(w) \/ FinishCheck(w)
      <4>1. wrk'[w] = Idle
        BY <1>a, <3>4 DEF Crash, RejectPayload, FinishJob, FinishCheck, FinishCheckIf, Return, TypeOK
      <4> QED
        BY <3>3, <4>1
    <3>5. ASSUME NEW t \in Targets, StartAttempt(w, t) PROVE KnowsAnswers(w)'
      <4>1. /\ wrk'[w].pc = "call" /\ wrk'[w].todo = wrk[w].todo \ {t}
            /\ wrk'[w].job = wrk[w].job /\ wrk'[w].oks = wrk[w].oks
            /\ wrk[w].pc = "next" /\ JobOf(w).op \in PublicationOps /\ job' = job
        BY <1>a, <3>5 DEF StartAttempt, TypeOK, Worker
      <4> QED
        BY <1>a, <2>1, <4>1 DEF KnowsAnswers, AnswersOf, JobOf
    <3>6. ASSUME NEW t \in Targets, RefuseAttempt(w, t) PROVE KnowsAnswers(w)'
      <4>1. /\ wrk'[w].pc = "next" /\ wrk'[w].todo = wrk[w].todo \ {t}
            /\ wrk'[w].job = wrk[w].job /\ wrk'[w].oks = wrk[w].oks
            /\ wrk[w].pc = "next" /\ job' = job
        BY <1>a, <3>6 DEF RefuseAttempt, TypeOK, Worker, rows
      <4> QED
        BY <1>a, <2>1, <4>1 DEF KnowsAnswers, AnswersOf, JobOf
    <3>7. ASSUME NEW t \in Targets, SearchTarget(w, t) PROVE KnowsAnswers(w)'
      <4>1. wrk'[w].job = wrk[w].job /\ job' = job /\ JobOf(w).op = "search"
        BY <1>a, <3>7 DEF SearchTarget, TypeOK, Worker, rows
      <4> QED
        BY <4>1 DEF KnowsAnswers, JobOf, PublicationOps
    <3>8. CASE RecordSuccess(w)
      <4>1. /\ wrk'[w].pc = "next" /\ wrk'[w].todo = wrk[w].todo
            /\ wrk'[w].job = wrk[w].job /\ wrk'[w].oks = wrk[w].oks \cup {wrk[w].cur}
            /\ wrk[w].pc = "record" /\ wrk[w].ok /\ job' = job
        BY <1>a, <3>8 DEF RecordSuccess, TypeOK, Worker
      <4>2. JobOf(w).op \in PublicationOps /\ wrk[w].cur \in JobOf(w).targets \ wrk[w].todo
        BY <1>a, <4>1 DEF WorkerHoldsJob, InAttempt
      <4> QED
        BY <1>a, <2>1, <4>1, <4>2 DEF KnowsAnswers, AnswersOf, JobOf
    <3>9. CASE RecordFailure(w)
      <4>1. /\ wrk'[w].pc = "next" /\ wrk'[w].todo = wrk[w].todo
            /\ wrk'[w].job = wrk[w].job /\ wrk'[w].oks = wrk[w].oks
            /\ wrk[w].pc = "record" /\ ~wrk[w].ok /\ job' = job
        BY <1>a, <3>9 DEF RecordFailure, TypeOK, Worker
      <4> QED
        BY <1>a, <2>1, <4>1 DEF KnowsAnswers, AnswersOf, JobOf
    <3>10. CASE LookAtMarketplace(w)
      <4>1. wrk'[w].pc = "confirm"
        BY <1>a, <3>10 DEF LookAtMarketplace, TypeOK, Worker
      <4> QED
        BY <4>1 DEF KnowsAnswers
    <3> QED
      BY <1>d, <3>1, <3>2, <3>4, <3>5, <3>6, <3>7, <3>8, <3>9, <3>10 DEF Receive, Execute
  <2> QED
    BY <2>1, <2>2, <2>3, <2>4 DEF AnswersInv
<1> QED
  BY <1>c, <1>d

LEMMA AnswersStep == ClaimInv /\ AnswersInv /\ [Next]_vars => AnswersInv'
<1> SUFFICES ASSUME ClaimInv, AnswersInv, [Next]_vars PROVE AnswersInv'
  OBVIOUS
<1>1. CASE UNCHANGED vars
  BY <1>1 DEF vars, AnswersInv, KnowsAnswers, AnswersOf, JobOf
<1> QED
  BY <1>1, RequestsKeepAnswers, WorkersKeepAnswers, SweepKeepsAnswers DEF Next

LEMMA Answers == Spec => []AnswersInv
<1>1. Init => AnswersInv
  BY DEF Init, AnswersInv, KnowsAnswers, Idle
<1> QED
  BY <1>1, AnswersStep, Claims, PTL DEF Spec

(* The verdict of a job, as VerdictTruthful states it for one step.        *)
Truthful(j) ==
  CASE job'[j].status = "succeeded" -> acked'[j] = job[j].targets
    [] job'[j].status = "partial"   -> acked'[j] \notin {{}, job[j].targets}
    [] job'[j].status = "failed"    -> acked'[j] = {} \/ j \in Abandoned
    [] OTHER                        -> TRUE

LEMMA VerdictStep ==
  ASSUME ClaimInv, AnswersInv, [Next]_vars, NEW j \in Jobs,
         job[j].op \in PublicationOps, job[j].status = "running"
  PROVE  Truthful(j)
<1>1. ASSUME job'[j] = job[j] PROVE Truthful(j)
  BY <1>1 DEF Truthful
<1>2. CASE UNCHANGED vars
  BY <1>1, <1>2 DEF vars
<1>3. CASE ManagerRequest
  BY <1>1, <1>3, RequestsFillRows DEF ClaimInv
<1>4. CASE RecoverStaleJobs
  <2>1. job'[j] = job[j] \/ (j \in Abandoned /\ job'[j].status = "failed")
    BY <1>4 DEF RecoverStaleJobs, ClaimInv, TypeOK, Job
  <2> QED
    BY <1>1, <2>1 DEF Truthful
<1>5. ASSUME NEW w \in Workers, Receive(w) \/ Execute(w) \/ Crash(w) PROVE Truthful(j)
  <2>a. TypeOK /\ wrk[w] \in Worker /\ WorkerHoldsJob(w) /\ KnowsAnswers(w) /\ job[j] \in Job
    BY DEF ClaimInv, ClaimParts, TypeOK, AnswersInv
  <2>b. wrk[w].pc # "idle" => wrk[w].job \in Jobs
    BY <2>a DEF WorkerHoldsJob, Worker
  <2>1. CASE RejectPayload(w) /\ wrk[w].job = j
    <3>1. job'[j].status = "failed" /\ acked' = acked
      BY <2>1, <2>a DEF RejectPayload, SetStatus, history, TypeOK, Job
    <3>2. acked[j] = wrk[w].oks /\ wrk[w].oks \subseteq job[j].targets \ wrk[w].todo
      BY <2>1, <2>a DEF RejectPayload, KnowsAnswers, AnswersOf, JobOf
    <3>3. wrk[w].todo = job[j].targets
      BY <2>1 DEF RejectPayload, JobOf
    <3> QED
      BY <3>1, <3>2, <3>3 DEF Truthful
  <2>2. CASE FinishJob(w) /\ wrk[w].job = j
    <3>1. job'[j].status = Verdict(wrk[w].oks, job[j].targets) /\ acked' = acked
      BY <2>2, <2>a DEF FinishJob, SetStatus, history, TypeOK, Job, JobOf
    <3>2. acked[j] = wrk[w].oks
      BY <2>2, <2>a DEF FinishJob, KnowsAnswers, AnswersOf, JobOf
    <3> QED
      BY <3>1, <3>2 DEF Truthful, Verdict
  <2>3. CASE FinishCheck(w) /\ wrk[w].job = j
    <3>1. job[j].op = "search"
      BY <2>3, <2>a
         DEF FinishCheck, FinishCheckIf, ClaimInv, ClaimParts, WorkerHoldsJob, ChecksSearch, JobOf
    <3> QED
      BY <3>1 DEF PublicationOps
  <2>4. CASE ~(wrk[w].job = j /\ (RejectPayload(w) \/ FinishJob(w) \/ FinishCheck(w)))
    <3>1. job'[j] = job[j]
      BY <1>5, <2>4, <2>a, <2>b
         DEF Receive, Execute, Crash, Claim, Discard, RejectPayload, StartAttempt, RefuseAttempt,
             SearchTarget, CallMarketplace, RecordSuccess, RecordFailure, FinishJob,
             LookAtMarketplace, FinishCheck, FinishCheckIf, SetStatus, rows, history, TypeOK
    <3> QED
      BY <1>1, <3>1
  <2> QED
    BY <2>1, <2>2, <2>3, <2>4
<1> QED
  BY <1>2, <1>3, <1>4, <1>5 DEF Next

(* "succeeded" and "partial" claim exactly the targets whose marketplace   *)
(* answered ok, and "failed" hides such an answer only when the job's      *)
(* worker was lost, for any number of targets and crashes.                 *)
THEOREM VerdictsTellAnswers == Spec => VerdictTruthful
<1>1. ClaimInv /\ AnswersInv /\ [Next]_vars
        => [\A j \in Jobs : job[j].op \in PublicationOps /\ job[j].status = "running" =>
              CASE job'[j].status = "succeeded" -> acked'[j] = job[j].targets
                [] job'[j].status = "partial"   -> acked'[j] \notin {{}, job[j].targets}
                [] job'[j].status = "failed"    -> acked'[j] = {} \/ j \in Abandoned
                [] OTHER                        -> TRUE]_vars
  BY VerdictStep DEF Truthful
<1> QED
  BY <1>1, Claims, Answers, PTL DEF Spec, VerdictTruthful

-----------------------------------------------------------------------------
(* Codes spent                                                             *)

(* Statuses a row reaches, or leaves an operation with, only after its     *)
(* code was spent.                                                         *)
Bought == {"active", "deactivated", "deleted", "deactivating", "deleting"}

BoughtRow(p) == p.published \/ p.status \in Bought \/ p.before \in Bought

(* The way in that spends no code: a request for "activate", which a row   *)
(* accepts while its first publish is open.                                *)
Ordered(t) ==
  \E j \in Jobs : job[j].kind = "direct" /\ job[j].op = "activate" /\ t \in job[j].targets

Paid(t) == t.account \in consumed \/ Ordered(t)

SpentInv ==
  /\ \A t \in Targets : BoughtRow(pub[t]) => Paid(t)
  /\ \A w \in Workers : InAttempt(w) /\ JobOf(w).op # "publish" => Paid(wrk[w].cur)
  /\ \A j \in Jobs :
       /\ job[j].status = "absent" => job[j].op = "search"
       /\ job[j].op = "activate" => \A t \in job[j].targets : Paid(t)
       /\ job[j].kind = "direct" => job[j].op \in Requestable \cup {"search"}

(* Which rows an operation may turn into bought ones. *)
LEMMA BuyingRows ==
  ASSUME NEW p \in Publication, NEW op \in PublicationOps
  PROVE  /\ BoughtRow(Begun(p, op)) => BoughtRow(p) \/ op \in {"deactivate", "delete"}
         /\ BoughtRow(Failed(p, op)) => BoughtRow(p)
         /\ CanStart(p, op) /\ op \in {"update", "deactivate", "delete"} => BoughtRow(p)
         /\ op = "publish" /\ ~FirstSuccess(p, op) => BoughtRow(p)
<1>1. BoughtRow(Begun(p, op)) => BoughtRow(p) \/ op \in {"deactivate", "delete"}
  BY DEF BoughtRow, Begun, Publication, PublicationOps, StatusDuring, Bought
<1>2. BoughtRow(Failed(p, op)) => BoughtRow(p)
  BY DEF BoughtRow, Failed, Publication, Bought
<1>3. CanStart(p, op) /\ op \in {"update", "deactivate", "delete"} => BoughtRow(p)
  BY DEF BoughtRow, CanStart, StartableFrom, Bought
<1>4. op = "publish" /\ ~FirstSuccess(p, op) => BoughtRow(p)
  BY DEF BoughtRow, FirstSuccess, StatusAfterSuccess
<1> QED
  BY <1>1, <1>2, <1>3, <1>4

(* Codes stay spent. *)
LEMMA ConsumedGrows ==
  ASSUME [Next]_vars PROVE consumed \subseteq consumed'
<1>1. CASE ManagerRequest
  <2>1. ASSUME NEW j \in Jobs, NEW op \in Requestable, NEW ts \in SUBSET Targets,
               RequestJob(j, op, ts)
        PROVE  consumed' = consumed
    BY <2>1 DEF RequestJob
  <2>2. ASSUME NEW action \in {"activate", "deactivate"}, NEW ts \in SUBSET Targets,
               RequestListingState(action, ts)
        PROVE  consumed' = consumed
    BY <2>2 DEF RequestListingState
  <2>3. ASSUME NEW j \in Jobs, NEW t \in Targets, RequestCheck(j, t)
        PROVE  consumed' = consumed
    BY <2>3 DEF RequestCheck
  <2>4. ASSUME NEW j \in Jobs, NEW t \in Targets, NEW s \in PubStatuses, RequestManual(j, t, s)
        PROVE  consumed \subseteq consumed'
    BY <2>4 DEF RequestManual, Reconcile
  <2> QED
    BY <1>1, <2>1, <2>2, <2>3, <2>4 DEF ManagerRequest
<1>2. ASSUME NEW w \in Workers, RecordSuccess(w) \/ FinishCheck(w)
      PROVE  consumed \subseteq consumed'
  BY <1>2 DEF RecordSuccess, FinishCheck, FinishCheckIf, Reconcile
<1>3. ASSUME NEW w \in Workers, NEW j \in Jobs, Claim(w, j) \/ Discard(w, j)
      PROVE  consumed' = consumed
  BY <1>3 DEF Claim, Discard, rows
<1>4. ASSUME NEW w \in Workers, NEW t \in Targets,
             StartAttempt(w, t) \/ RefuseAttempt(w, t) \/ SearchTarget(w, t)
      PROVE  consumed' = consumed
  BY <1>4 DEF StartAttempt, RefuseAttempt, SearchTarget, rows
<1>5. ASSUME NEW w \in Workers, CallMarketplace(w) \/ RecordFailure(w) \/ LookAtMarketplace(w)
      PROVE  consumed' = consumed
  BY <1>5 DEF CallMarketplace, RecordFailure, LookAtMarketplace, rows
<1>6. ASSUME NEW w \in Workers, RejectPayload(w) \/ FinishJob(w) \/ Crash(w)
      PROVE  consumed' = consumed
  BY <1>6 DEF RejectPayload, FinishJob, Crash, rows
<1>7. ASSUME NEW w \in Workers, Receive(w) \/ Execute(w) \/ Crash(w)
      PROVE  consumed \subseteq consumed'
  BY <1>2, <1>3, <1>4, <1>5, <1>6, <1>7 DEF Receive, Execute
<1>8. CASE RecoverStaleJobs \/ UNCHANGED vars
  BY <1>8 DEF RecoverStaleJobs, vars
<1> QED
  BY <1>1, <1>7, <1>8 DEF Next

(* A job row keeps its order, or an absent one is filled with one that is  *)
(* paid for.                                                               *)
OrderKept(j) ==
  /\ job'[j].op = job[j].op /\ job'[j].targets = job[j].targets /\ job'[j].kind = job[j].kind
  /\ job[j].status # "absent" => job'[j].status # "absent"

OrderPlaced(j) ==
  /\ job[j].status = "absent" /\ job'[j].status # "absent"
  /\ job'[j].op = "activate" => \A t \in job'[j].targets : Paid(t)'
  /\ job'[j].kind = "direct" => job'[j].op \in Requestable \cup {"search"}

LEMMA PaidStays ==
  ASSUME SpentInv, [Next]_vars, \A j \in Jobs : OrderKept(j) \/ OrderPlaced(j),
         NEW t, Paid(t)
  PROVE  Paid(t)'
<1>1. CASE t.account \in consumed
  BY <1>1, ConsumedGrows DEF Paid
<1>2. CASE Ordered(t)
  <2>1. PICK j \in Jobs : /\ job[j].kind = "direct" /\ job[j].op = "activate"
                          /\ t \in job[j].targets
    BY <1>2 DEF Ordered
  <2>2. OrderKept(j)
    BY <2>1 DEF SpentInv, OrderPlaced
  <2> QED
    BY <2>1, <2>2 DEF Paid, Ordered, OrderKept
<1> QED
  BY <1>1, <1>2 DEF Paid

(* Jobs, rows and attempts that are new keep the codes of SpentInv.        *)
LEMMA SpentFrame ==
  ASSUME ClaimInv, SpentInv, [Next]_vars,
         \A t \in Targets : BoughtRow(pub'[t]) => BoughtRow(pub[t]) \/ Paid(t)',
         \A w \in Workers : InAttempt(w)' => \/ InAttempt(w) /\ wrk'[w].cur = wrk[w].cur
                                                /\ JobOf(w)'.op = JobOf(w).op
                                             \/ JobOf(w)'.op = "publish"
                                             \/ Paid(wrk[w].cur)',
         \A j \in Jobs : OrderKept(j) \/ OrderPlaced(j)
  PROVE  SpentInv'
<1>1. \A t : Paid(t) => Paid(t)'
  BY PaidStays
<1>2. \A t \in Targets : BoughtRow(pub'[t]) => Paid(t)'
  BY <1>1 DEF SpentInv
<1>3. ASSUME NEW w \in Workers, InAttempt(w)', JobOf(w)'.op # "publish"
      PROVE  Paid(wrk[w].cur)'
  <2>1. CASE InAttempt(w) /\ wrk'[w].cur = wrk[w].cur /\ JobOf(w)'.op = JobOf(w).op
    <3>1. Paid(wrk[w].cur)
      BY <1>3, <2>1 DEF SpentInv
    <3> QED
      BY <1>1, <2>1, <3>1 DEF Paid, Ordered
  <2> QED
    BY <1>3, <2>1
<1>4. ASSUME NEW j \in Jobs
      PROVE  /\ job'[j].status = "absent" => job'[j].op = "search"
             /\ job'[j].op = "activate" => \A t \in job'[j].targets : Paid(t)'
             /\ job'[j].kind = "direct" => job'[j].op \in Requestable \cup {"search"}
  <2>1. CASE OrderKept(j)
    BY <1>1, <2>1 DEF OrderKept, SpentInv
  <2>2. CASE OrderPlaced(j)
    BY <2>2 DEF OrderPlaced
  <2> QED
    BY <2>1, <2>2
<1> QED
  BY <1>2, <1>3, <1>4 DEF SpentInv

LEMMA RequestsKeepSpent ==
  ASSUME ClaimInv, SpentInv, ManagerRequest PROVE SpentInv'
<1>1. wrk' = wrk /\ \A j \in Jobs : job'[j] # job[j] => job[j].status = "absent"
  BY RequestsFillRows
     DEF ManagerRequest, RequestJob, RequestListingState, RequestCheck, RequestManual, history,
         ClaimInv
<1>2. ASSUME NEW w \in Workers, InAttempt(w)'
      PROVE  InAttempt(w) /\ wrk'[w].cur = wrk[w].cur /\ JobOf(w)'.op = JobOf(w).op
  BY <1>1, <1>2 DEF InAttempt, JobOf, ClaimInv, ClaimParts, WorkerHoldsJob, TypeOK, Worker
<1>3. [Next]_vars
  BY DEF Next
<1>4. SUFFICES
        /\ \A t \in Targets : BoughtRow(pub'[t]) => BoughtRow(pub[t]) \/ Paid(t)'
        /\ \A j \in Jobs : job'[j] # job[j] => OrderPlaced(j)
  BY <1>2, <1>3, <1>4, SpentFrame DEF OrderKept
<1>5. TypeOK
  BY DEF ClaimInv
<1>6. ASSUME NEW i \in Jobs, NEW op \in Requestable, NEW ts \in SUBSET Targets,
             RequestJob(i, op, ts)
      PROVE  /\ pub' = pub
             /\ \A j \in Jobs : job'[j] # job[j] => OrderPlaced(j)
  <2>1. /\ pub' = pub /\ job[i].status = "absent" /\ i \in Jobs
        /\ job' = [job EXCEPT ![i] = NewJob("direct", op, ts)]
    BY <1>6 DEF RequestJob
  <2>2. job'[i] = NewJob("direct", op, ts) /\ \A j \in Jobs \ {i} : job'[j] = job[j]
    BY <1>5, <2>1 DEF TypeOK
  <2>3. op = "activate" => \A t \in ts : Paid(t)'
    BY <2>2 DEF Paid, Ordered, NewJob
  <2>4. OrderPlaced(i)
    BY <2>1, <2>2, <2>3 DEF OrderPlaced, NewJob
  <2> QED
    BY <2>1, <2>2, <2>4
<1>7. ASSUME NEW action \in {"activate", "deactivate"}, NEW ts \in SUBSET Targets,
             RequestListingState(action, ts)
      PROVE  /\ \A t \in Targets : BoughtRow(pub'[t]) => BoughtRow(pub[t])
             /\ \A j \in Jobs : job'[j] # job[j] => OrderPlaced(j)
  <2> DEFINE op(t)    == OperationFor(t.market, action)
             selected == {t \in ts : /\ pub[t].status = DesiredStatus(action)
                                     /\ op(t) # "none"}
  <2>1. PICK js \in SUBSET Unused : \E opOf \in Bijection(js, {op(t) : t \in selected}) :
          job' = [i \in Jobs |->
                    IF i \in js
                    THEN NewJob("listing", opOf[i], {t \in selected : op(t) = opOf[i]})
                    ELSE job[i]]
    BY <1>7 DEF RequestListingState
  <2>2. pub' = [t \in Targets |-> IF t \in selected THEN Begun(pub[t], op(t)) ELSE pub[t]]
    BY <1>7 DEF RequestListingState
  <2>3. \A t \in selected : t \in Targets /\ BoughtRow(pub[t])
    BY DEF BoughtRow, DesiredStatus, Bought
  <2>4. \A t \in selected : Paid(t)
    BY <2>3 DEF SpentInv
  <2>5. ASSUME NEW t, Paid(t) PROVE Paid(t)'
    <3>1. CASE t.account \in consumed
      BY <1>3, <3>1, ConsumedGrows DEF Paid
    <3>2. CASE Ordered(t)
      <4>1. PICK j \in Jobs : /\ job[j].kind = "direct" /\ job[j].op = "activate"
                              /\ t \in job[j].targets
        BY <3>2 DEF Ordered
      <4>2. job'[j] = job[j]
        BY <1>1, <4>1 DEF SpentInv
      <4> QED
        BY <4>1, <4>2 DEF Paid, Ordered
    <3> QED
      BY <2>5, <3>1, <3>2 DEF Paid
  <2>6. ASSUME NEW j \in Jobs, job'[j] # job[j]
        PROVE  /\ job'[j].kind = "listing" /\ job'[j].status = "queued"
               /\ \A t \in job'[j].targets : t \in selected
    <3> HIDE DEF op, selected
    <3> QED
      BY <2>1, <2>6 DEF NewJob
  <2>7. \A t \in Targets : BoughtRow(pub'[t]) => BoughtRow(pub[t])
    <3> HIDE DEF op, selected
    <3> QED
      BY <2>2, <2>3
  <2> HIDE DEF op, selected
  <2>8. ASSUME NEW j \in Jobs, job'[j] # job[j] PROVE OrderPlaced(j)
    <3>1. \A t \in job'[j].targets : Paid(t)'
      BY <2>4, <2>5, <2>6, <2>8
    <3> QED
      BY <1>1, <2>6, <2>8, <3>1 DEF OrderPlaced
  <2> QED
    BY <2>7, <2>8
<1>8. ASSUME NEW i \in Jobs, NEW t \in Targets, RequestCheck(i, t)
      PROVE  /\ pub' = pub
             /\ \A j \in Jobs : job'[j] # job[j] => OrderPlaced(j)
  BY <1>5, <1>8 DEF RequestCheck, NewJob, TypeOK, OrderPlaced
<1>9. ASSUME NEW i \in Jobs, NEW t \in Targets, NEW s \in PubStatuses, RequestManual(i, t, s)
      PROVE  /\ \A u \in Targets : BoughtRow(pub'[u]) => BoughtRow(pub[u]) \/ Paid(u)'
             /\ \A j \in Jobs : job'[j] # job[j] => OrderPlaced(j)
  <2>1. \A j \in Jobs : job'[j] # job[j] => OrderPlaced(j)
    BY <1>5, <1>9 DEF RequestManual, NewJob, TypeOK, OrderPlaced
  <2>2. pub' = [pub EXCEPT ![t] = Reconciled(pub[t], s)]
        /\ consumed' = IF s = "failed" THEN consumed ELSE consumed \cup {t.account}
    BY <1>9 DEF RequestManual, Reconcile
  <2>3. s = "failed" /\ BoughtRow(Reconciled(pub[t], s)) => BoughtRow(pub[t])
    BY <1>5 DEF BoughtRow, Reconciled, Bought, TypeOK, Publication
  <2>4. pub \in [Targets -> Publication]
    BY <1>5 DEF TypeOK
  <2>5. ASSUME NEW u \in Targets, BoughtRow(pub'[u]) PROVE BoughtRow(pub[u]) \/ Paid(u)'
    <3>1. CASE u # t
      BY <2>2, <2>4, <2>5, <3>1
    <3>2. CASE u = t /\ s # "failed"
      BY <2>2, <3>2 DEF Paid
    <3>3. CASE u = t /\ s = "failed"
      BY <2>2, <2>3, <2>4, <2>5, <3>3
    <3> QED
      BY <3>1, <3>2, <3>3
  <2> QED
    BY <2>1, <2>5
<1>a. CASE \E i \in Jobs, op \in Requestable, ts \in SUBSET Targets : RequestJob(i, op, ts)
  BY <1>6, <1>a
<1>b. CASE \E action \in {"activate", "deactivate"}, ts \in SUBSET Targets :
             RequestListingState(action, ts)
  BY <1>7, <1>b
<1>c. CASE \E i \in Jobs, t \in Targets : RequestCheck(i, t)
  BY <1>8, <1>c
<1>d. CASE \E i \in Jobs, t \in Targets, s \in PubStatuses : RequestManual(i, t, s)
  BY <1>9, <1>d
<1> QED
  BY <1>a, <1>b, <1>c, <1>d DEF ManagerRequest

LEMMA WorkersKeepSpent ==
  ASSUME ClaimInv, SpentInv, NEW w \in Workers, Receive(w) \/ Execute(w) \/ Crash(w)
  PROVE  SpentInv'
<1>a. TypeOK /\ wrk[w] \in Worker /\ WorkerHoldsJob(w)
  BY DEF ClaimInv, ClaimParts, TypeOK
<1>b. wrk[w].pc # "idle" => wrk[w].job \in Jobs /\ job[wrk[w].job] \in Job
  BY <1>a DEF WorkerHoldsJob, Worker, TypeOK
<1>c. InAttempt(w) => wrk[w].cur \in Targets /\ JobOf(w).op \in PublicationOps
  BY <1>a, <1>b DEF WorkerHoldsJob, InAttempt, JobOf, Job
<1>d. [Next]_vars
  BY DEF Next
<1>e. \A j \in Jobs : OrderKept(j)
  BY OrdersStay DEF OrderKept
<1>f. \A t : Paid(t) => Paid(t)'
  BY <1>d, <1>e, PaidStays
<1>1. ASSUME NEW v \in Workers, v # w, InAttempt(v)'
      PROVE  InAttempt(v) /\ wrk'[v].cur = wrk[v].cur /\ JobOf(v)'.op = JobOf(v).op
  BY <1>1, OthersKeepTheirs DEF InAttempt, JobOf
<1>2. SUFFICES
        /\ \A t \in Targets : BoughtRow(pub'[t]) => BoughtRow(pub[t]) \/ Paid(t)'
        /\ InAttempt(w)' => \/ InAttempt(w) /\ wrk'[w].cur = wrk[w].cur
                               /\ JobOf(w)'.op = JobOf(w).op
                            \/ JobOf(w)'.op = "publish"
                            \/ Paid(wrk[w].cur)'
  BY <1>1, <1>2, <1>d, <1>e, SpentFrame
<1>3. ASSUME NEW j \in Jobs, Claim(w, j) \/ Discard(w, j)
      PROVE  pub' = pub /\ ~InAttempt(w)'
  BY <1>3, <1>a DEF Claim, Discard, InAttempt, Idle, rows, TypeOK
<1>4. ASSUME RejectPayload(w) \/ FinishJob(w) \/ Crash(w)
      PROVE  pub' = pub /\ ~InAttempt(w)'
  BY <1>4, <1>a DEF RejectPayload, FinishJob, Crash, Return, InAttempt, Idle, rows, TypeOK
<1>5. ASSUME NEW t \in Targets, RefuseAttempt(w, t) \/ SearchTarget(w, t)
      PROVE  pub' = pub /\ ~InAttempt(w)'
  BY <1>5, <1>a DEF RefuseAttempt, SearchTarget, InAttempt, rows, TypeOK, Worker
<1>6. ASSUME LookAtMarketplace(w) PROVE pub' = pub /\ ~InAttempt(w)'
  BY <1>6, <1>a DEF LookAtMarketplace, InAttempt, rows, TypeOK, Worker
<1>7. ASSUME NEW t \in Targets, StartAttempt(w, t)
      PROVE  /\ \A u \in Targets : BoughtRow(pub'[u]) => BoughtRow(pub[u])
                                                         \/ Paid(u)'
             /\ JobOf(w)'.op = "publish" \/ Paid(wrk[w].cur)'
  <2>1. /\ wrk'[w].cur = t /\ wrk'[w].job = wrk[w].job /\ job' = job /\ consumed' = consumed
        /\ wrk[w].pc = "next" /\ t \in JobOf(w).targets
        /\ CanStart(pub[t], JobOf(w).op) /\ JobOf(w).op \in PublicationOps
        /\ pub' = [pub EXCEPT ![t] = Begun(pub[t], JobOf(w).op)]
    BY <1>7, <1>a DEF StartAttempt, TypeOK, Worker, WorkerHoldsJob, Started
  <2>2. pub[t] \in Publication
    BY <1>a DEF TypeOK
  <2>3. JobOf(w).op \notin {"publish", "activate"} => BoughtRow(pub[t])
    BY <2>1, <2>2, BuyingRows DEF PublicationOps
  <2>4. JobOf(w).op # "publish" => Paid(t)
    BY <1>b, <2>1, <2>3 DEF SpentInv, JobOf
  <2>5. BoughtRow(pub'[t]) => BoughtRow(pub[t]) \/ Paid(t)'
    BY <1>a, <1>f, <2>1, <2>2, <2>4, BuyingRows DEF TypeOK
  <2> QED
    BY <1>a, <1>f, <2>1, <2>4, <2>5 DEF TypeOK, JobOf, Paid, Ordered
<1>8. ASSUME CallMarketplace(w)
      PROVE  /\ pub' = pub /\ InAttempt(w) /\ wrk'[w].cur = wrk[w].cur
             /\ JobOf(w)'.op = JobOf(w).op
  BY <1>8, <1>a DEF CallMarketplace, InAttempt, JobOf, rows, TypeOK, Worker
<1>9. ASSUME RecordSuccess(w)
      PROVE  /\ \A u \in Targets : BoughtRow(pub'[u]) => BoughtRow(pub[u])
                                                         \/ Paid(u)'
             /\ ~InAttempt(w)'
  <2>1. InAttempt(w) /\ ~InAttempt(w)'
    BY <1>9, <1>a DEF RecordSuccess, InAttempt, TypeOK, Worker
  <2>2. PICK t \in Targets : t = wrk[w].cur
    BY <2>1, <1>c
  <2>3. /\ pub' = [pub EXCEPT ![t] = Succeeded(pub[t], JobOf(w).op)]
        /\ consumed' = IF JobOf(w).op = "publish" /\ FirstSuccess(pub[t], JobOf(w).op)
                       THEN consumed \cup {t.account} ELSE consumed
    BY <1>9, <2>2 DEF RecordSuccess
  <2>4. JobOf(w).op # "publish" => Paid(t)
    BY <2>1, <2>2 DEF SpentInv
  <2>5. JobOf(w).op = "publish" /\ ~FirstSuccess(pub[t], JobOf(w).op) => Paid(t)
    BY <1>a, <1>c, <2>1, BuyingRows DEF SpentInv, TypeOK
  <2>6. Paid(t)'
    BY <1>f, <2>3, <2>4, <2>5 DEF Paid
  <2> QED
    BY <1>a, <2>1, <2>3, <2>6 DEF TypeOK
<1>10. ASSUME RecordFailure(w)
       PROVE  /\ \A u \in Targets : BoughtRow(pub'[u]) => BoughtRow(pub[u])
              /\ ~InAttempt(w)'
  <2>1. InAttempt(w) /\ ~InAttempt(w)'
    BY <1>10, <1>a DEF RecordFailure, InAttempt, TypeOK, Worker
  <2>2. PICK t \in Targets : t = wrk[w].cur
    BY <2>1, <1>c
  <2>3. pub' = [pub EXCEPT ![t] = Failed(pub[t], JobOf(w).op)]
    BY <1>10, <2>2 DEF RecordFailure
  <2>4. BoughtRow(Failed(pub[t], JobOf(w).op)) => BoughtRow(pub[t])
    BY <1>a, <1>c, <2>1, BuyingRows DEF TypeOK
  <2> QED
    BY <1>a, <2>1, <2>3, <2>4 DEF TypeOK
<1>11. ASSUME FinishCheck(w)
       PROVE  /\ \A u \in Targets : BoughtRow(pub'[u]) => BoughtRow(pub[u])
                                                          \/ Paid(u)'
              /\ ~InAttempt(w)'
  <2>1. ~InAttempt(w)'
    BY <1>11, <1>a DEF FinishCheck, FinishCheckIf, Return, Idle, InAttempt, TypeOK
  <2>2. \/ pub' = pub
        \/ /\ pub' = [pub EXCEPT ![wrk[w].cur] = Reconciled(pub[wrk[w].cur], "active")]
           /\ consumed' = consumed \cup {wrk[w].cur.account}
    BY <1>11 DEF FinishCheck, FinishCheckIf, Reconcile
  <2> QED
    BY <1>a, <2>1, <2>2 DEF TypeOK, Paid
<1>l. CASE \E j \in Jobs : Claim(w, j) \/ Discard(w, j)
  BY <1>3, <1>l
<1>m. CASE RejectPayload(w) \/ FinishJob(w) \/ Crash(w)
  BY <1>4, <1>m
<1>n. CASE \E t \in Targets : RefuseAttempt(w, t) \/ SearchTarget(w, t)
  BY <1>5, <1>n
<1>o. CASE \E t \in Targets : StartAttempt(w, t)
  BY <1>7, <1>o
<1>p. CASE LookAtMarketplace(w) \/ CallMarketplace(w)
  BY <1>6, <1>8, <1>p
<1>q. CASE RecordSuccess(w) \/ RecordFailure(w) \/ FinishCheck(w)
  BY <1>9, <1>10, <1>11, <1>q
<1> QED
  BY <1>l, <1>m, <1>n, <1>o, <1>p, <1>q DEF Receive, Execute

LEMMA SpentStep ==
  ClaimInv /\ SpentInv /\ [Next]_vars => SpentInv'
<1> SUFFICES ASSUME ClaimInv, SpentInv, [Next]_vars PROVE SpentInv'
  OBVIOUS
<1>1. CASE UNCHANGED vars
  BY <1>1 DEF vars, SpentInv, InAttempt, JobOf, Paid, Ordered
<1>2. CASE RecoverStaleJobs
  <2>1. /\ pub' = pub /\ wrk' = wrk
        /\ \A j \in Jobs : OrderKept(j)
    BY <1>2 DEF RecoverStaleJobs, ClaimInv, TypeOK, Job, OrderKept
  <2>2. ASSUME NEW w \in Workers, InAttempt(w)'
        PROVE  InAttempt(w) /\ wrk'[w].cur = wrk[w].cur /\ JobOf(w)'.op = JobOf(w).op
    BY <2>1, <2>2 DEF InAttempt, JobOf, ClaimInv, ClaimParts, WorkerHoldsJob, TypeOK, Worker,
                      OrderKept
  <2> QED
    BY <2>1, <2>2, SpentFrame
<1> QED
  BY <1>1, <1>2, RequestsKeepSpent, WorkersKeepSpent DEF Next

LEMMA InitSpent == Init => SpentInv
<1> SUFFICES ASSUME Init PROVE SpentInv
  OBVIOUS
<1>1. PICK old \in SUBSET Targets :
        /\ pub = [t \in Targets |->
                    IF t \in old THEN Succeeded(NoRow, "publish") ELSE NoRow]
        /\ consumed = {t.account : t \in old}
  BY DEF Init
<1>2. \A t \in Targets : BoughtRow(pub[t]) => Paid(t)
  BY <1>1 DEF BoughtRow, NoRow, Bought, Paid
<1> QED
  BY <1>2 DEF Init, SpentInv, InAttempt, Idle, NoJob, Paid

(* Whenever a row says it was published, its account's code is spent or    *)
(* "activate" was requested for it.                                        *)
THEOREM PublishedIsPaid ==
  Spec => [](\A t \in Targets : pub[t].published => t.account \in consumed \/ Ordered(t))
<1>1. Spec => []SpentInv
  BY SpentStep, InitSpent, Claims, PTL DEF Spec
<1>2. SpentInv
        => \A t \in Targets : pub[t].published => t.account \in consumed \/ Ordered(t)
  BY DEF SpentInv, BoughtRow, Paid
<1> QED
  BY <1>1, <1>2, PTL

(* So the code of every published row is spent as long as "activate" comes *)
(* through listing states only, which take rows that were active before.   *)
THEOREM PublishedHasSpent ==
  ASSUME "activate" \notin Requestable
  PROVE  Spec => []PublishedSpendsEan
<1>1. Spec => []SpentInv
  BY SpentStep, InitSpent, Claims, PTL DEF Spec
<1>2. SpentInv => PublishedSpendsEan
  BY DEF SpentInv, BoughtRow, Paid, Ordered, PublishedSpendsEan
<1> QED
  BY <1>1, <1>2, PTL

-----------------------------------------------------------------------------
(* Rows and what the marketplace shows                                     *)

(* What a row's status claims of the marketplace. *)
Shows(s, m) ==
  /\ s = "active"      => m = "online"
  /\ s = "deactivated" => m # "online"
  /\ s = "deleted"     => m = "absent"

(* The marketplace said ok and the row does not know it yet. *)
Answered(w) == wrk[w].pc = "record" /\ wrk[w].ok

(* An undisturbed attempt is the only one on its row, which stays as it    *)
(* was started.                                                            *)
Alone(w) ==
  InAttempt(w) /\ wrk[w].solo =>
    /\ \A v \in Workers : InAttempt(v) /\ wrk[v].cur = wrk[w].cur => v = w
    /\ pub[wrk[w].cur].status = StatusDuring(JobOf(w).op)
    /\ JobOf(w).op = "update" => pub[wrk[w].cur].before = "active"

(* An attempt on a row that is not in doubt is undisturbed. *)
Sure(w) == InAttempt(w) /\ wrk[w].cur \notin doubt => wrk[w].solo

(* The marketplace shows what an undisturbed worker was answered; an       *)
(* update promises nothing if the row was in doubt before.                 *)
AnswerTrue(w) ==
  /\ Answered(w) /\ wrk[w].solo
  /\ JobOf(w).op # "update" \/ wrk[w].cur \notin doubt
  => Shows(StatusAfterSuccess(JobOf(w).op), market[wrk[w].cur])

(* What a check saw is still so if the row was not saved meanwhile. *)
LookTrue(w) ==
  wrk[w].pc = "confirm" /\ wrk[w].ok /\ wrk[w].job \in fresh
    => market[wrk[w].cur] = "online"

WorkerTrue(w) == Alone(w) /\ Sure(w) /\ AnswerTrue(w) /\ LookTrue(w)

(* Nobody attempts a row a fresh check is about: the attempt's start would *)
(* have saved the row.                                                     *)
FreshQuiet ==
  \A j \in fresh :
    /\ job[j].status # "absent"
    /\ \A w \in Workers : InAttempt(w) => wrk[w].cur \notin job[j].targets

(* A row claims what is so, and so does the status that a failure would    *)
(* restore, unless a positive answer is about to replace it.               *)
RowTrue(t) ==
  t \notin doubt =>
    /\ Shows(pub[t].status, market[t])
    /\ \/ \E w \in Workers : Answered(w) /\ wrk[w].cur = t
       \/ Shows(pub[t].before, market[t])

RowsInv ==
  /\ \A w \in Workers : WorkerTrue(w)
  /\ FreshQuiet
  /\ \A t \in Targets : RowTrue(t)

(* What the functions of Listing leave to claim. *)
LEMMA ClaimingRows ==
  ASSUME NEW p \in Publication, NEW op \in PublicationOps, NEW m
  PROVE  /\ Shows(Begun(p, op).status, m)
         /\ Shows(p.status, m) /\ Shows(p.before, m) => Shows(Begun(p, op).before, m)
         /\ Begun(p, op).status = StatusDuring(op)
         /\ StatusDuring(op) \in RunningStatuses
         /\ op = "update" /\ CanStart(p, op) => Begun(p, op).before = "active"
         /\ Succeeded(p, op).status = StatusAfterSuccess(op)
         /\ Shows(Succeeded(p, op).before, m)
         /\ Shows(p.status, m) /\ Shows(p.before, m) => Shows(Failed(p, op).status, m)
         /\ Shows(Failed(p, op).before, m)
<1>1. /\ Begun(p, op).status = StatusDuring(op)
      /\ StatusDuring(op) \in RunningStatuses
  BY DEF Begun, Publication, StatusDuring, PublicationOps, RunningStatuses
<1>2. Shows(Begun(p, op).status, m)
  BY <1>1 DEF Shows, RunningStatuses
<1>3. Shows(p.status, m) /\ Shows(p.before, m) => Shows(Begun(p, op).before, m)
  BY DEF Shows, Begun, Publication
<1>4. op = "update" /\ CanStart(p, op) => Begun(p, op).before = "active"
  BY DEF CanStart, StartableFrom, Begun, Publication, StatusDuring
<1>5. /\ Succeeded(p, op).status = StatusAfterSuccess(op)
      /\ Shows(Succeeded(p, op).before, m) /\ Shows(Failed(p, op).before, m)
  BY DEF Succeeded, Failed, Shows, Publication
<1>6. Shows(p.status, m) /\ Shows(p.before, m) => Shows(Failed(p, op).status, m)
  BY DEF Shows, Failed, Publication
<1> QED
  BY <1>1, <1>2, <1>3, <1>4, <1>5, <1>6

(* A worker about which nothing changes that it relies on. *)
LEMMA SameWorkerTrue ==
  ASSUME NEW w \in Workers, WorkerTrue(w),
         wrk'[w].pc = wrk[w].pc, wrk'[w].cur = wrk[w].cur, wrk'[w].ok = wrk[w].ok,
         wrk'[w].job = wrk[w].job,
         InAttempt(w) => /\ wrk'[w].solo = wrk[w].solo
                         /\ JobOf(w)'.op = JobOf(w).op
                         /\ wrk[w].cur \in doubt => wrk[w].cur \in doubt',
         InAttempt(w) /\ wrk[w].solo =>
           /\ pub'[wrk[w].cur] = pub[wrk[w].cur]
           /\ market'[wrk[w].cur] = market[wrk[w].cur]
           /\ \A v \in Workers : InAttempt(v)' /\ wrk'[v].cur = wrk[w].cur
                                   => InAttempt(v) /\ wrk[v].cur = wrk[w].cur,
         wrk[w].pc = "confirm" /\ wrk[w].job \in fresh' =>
           wrk[w].job \in fresh /\ market'[wrk[w].cur] = market[wrk[w].cur]
  PROVE  WorkerTrue(w)'
<1>1. Alone(w)' /\ Sure(w)'
  BY DEF WorkerTrue, Alone, Sure, InAttempt
<1>2. AnswerTrue(w)'
  BY DEF WorkerTrue, AnswerTrue, Answered, InAttempt
<1>3. LookTrue(w)'
  BY DEF WorkerTrue, LookTrue
<1> QED
  BY <1>1, <1>2, <1>3 DEF WorkerTrue

(* A worker that attempts and confirms nothing relies on nothing. *)
LEMMA RestingWorkerTrue ==
  ASSUME NEW w \in Workers, wrk[w].pc \notin {"call", "record", "confirm"}
  PROVE  WorkerTrue(w)
BY DEF WorkerTrue, Alone, Sure, AnswerTrue, Answered, LookTrue, InAttempt

LEMMA SameRowTrue ==
  ASSUME NEW t \in Targets, RowTrue(t), pub'[t] = pub[t], market'[t] = market[t],
         t \in doubt => t \in doubt',
         t \notin doubt' => \A w \in Workers : Answered(w) /\ wrk[w].cur = t
                              => Answered(w)' /\ wrk'[w].cur = t
  PROVE  RowTrue(t)'
BY DEF RowTrue

(* Checks that stay fresh while nobody new attempts their rows. *)
LEMMA SameFreshQuiet ==
  ASSUME FreshQuiet, fresh' \subseteq fresh,
         \A j \in fresh' : job'[j].status # "absent" /\ job'[j].targets = job[j].targets,
         \A w \in Workers : InAttempt(w)' =>
           \/ InAttempt(w) /\ wrk'[w].cur = wrk[w].cur
           \/ \A j \in fresh' : wrk'[w].cur \notin job[j].targets
  PROVE  FreshQuiet'
BY DEF FreshQuiet

(* Steps that leave rows and marketplace alone and start no attempt. *)
LEMMA QuietStep ==
  ASSUME RowsInv, pub' = pub, market' = market, doubt \subseteq doubt', fresh' \subseteq fresh,
         \A j \in fresh' : job'[j].status # "absent" /\ job'[j].targets = job[j].targets,
         \A w \in Workers :
           \/ wrk'[w].pc \notin {"call", "record", "confirm"}
           \/ /\ wrk'[w] = wrk[w]
              /\ InAttempt(w) => JobOf(w)'.op = JobOf(w).op
           \/ wrk'[w].pc = "confirm" /\ WorkerTrue(w)',
         \A w \in Workers : Answered(w) =>
           wrk[w].cur \in doubt' \/ wrk'[w] = wrk[w]
  PROVE  RowsInv'
<1>1. \A w \in Workers : InAttempt(w)' => InAttempt(w) /\ wrk'[w] = wrk[w]
  BY DEF InAttempt
<1>2. ASSUME NEW w \in Workers PROVE WorkerTrue(w)'
  <2>1. CASE wrk'[w].pc \notin {"call", "record", "confirm"}
    BY <2>1 DEF WorkerTrue, Alone, Sure, AnswerTrue, Answered, LookTrue, InAttempt
  <2>2. CASE wrk'[w] = wrk[w] /\ (InAttempt(w) => JobOf(w)'.op = JobOf(w).op)
    BY <1>1, <2>2, SameWorkerTrue DEF RowsInv
  <2> QED
    BY <2>1, <2>2
<1>3. FreshQuiet'
  BY <1>1, SameFreshQuiet DEF RowsInv
<1>4. ASSUME NEW t \in Targets PROVE RowTrue(t)'
  BY <1>4, SameRowTrue DEF RowsInv, Answered
<1> QED
  BY <1>2, <1>3, <1>4 DEF RowsInv

(* A step that saves the row of t when nobody, or nobody else than w who   *)
(* leaves it, attempts a target: the other rows and workers keep theirs.   *)
LEMMA SavingStep ==
  ASSUME RowsInv, NEW t \in Targets, fresh' \subseteq fresh,
         \A j \in fresh' : t \notin job[j].targets,
         \A j \in fresh' : job'[j].status # "absent" /\ job'[j].targets = job[j].targets,
         \A u \in Targets : u # t => /\ pub'[u] = pub[u] /\ market'[u] = market[u]
                                     /\ u \in doubt => u \in doubt',
         \A w \in Workers :
           \/ WorkerTrue(w)' /\ (InAttempt(w)' => wrk'[w].cur = t)
           \/ /\ wrk'[w] = wrk[w]
              /\ InAttempt(w) => wrk[w].cur # t /\ JobOf(w)'.op = JobOf(w).op
              /\ wrk[w].pc = "confirm" => wrk[w].cur \in job[wrk[w].job].targets
                                          /\ wrk[w].cur \in Targets,
         \A w \in Workers : Answered(w) => wrk[w].cur = t \/ wrk'[w] = wrk[w],
         \A w \in Workers : InAttempt(w) => wrk[w].cur \in Targets,
         RowTrue(t)'
  PROVE  RowsInv'
<1>1. ASSUME NEW w \in Workers PROVE WorkerTrue(w)'
  <2>1. SUFFICES ASSUME /\ wrk'[w] = wrk[w]
                        /\ InAttempt(w) => wrk[w].cur # t /\ JobOf(w)'.op = JobOf(w).op
                        /\ wrk[w].pc = "confirm" => wrk[w].cur \in job[wrk[w].job].targets
                                                    /\ wrk[w].cur \in Targets
                 PROVE  WorkerTrue(w)'
    OBVIOUS
  <2>2. InAttempt(w) =>
          /\ pub'[wrk[w].cur] = pub[wrk[w].cur]
          /\ market'[wrk[w].cur] = market[wrk[w].cur]
          /\ wrk[w].cur \in doubt => wrk[w].cur \in doubt'
          /\ \A v \in Workers : InAttempt(v)' /\ wrk'[v].cur = wrk[w].cur
                                  => InAttempt(v) /\ wrk[v].cur = wrk[w].cur
    BY <2>1 DEF InAttempt
  <2>3. wrk[w].pc = "confirm" /\ wrk[w].job \in fresh' =>
          wrk[w].job \in fresh /\ market'[wrk[w].cur] = market[wrk[w].cur]
    BY <2>1
  <2> QED
    BY <2>1, <2>2, <2>3, SameWorkerTrue DEF RowsInv
<1>2. FreshQuiet'
  <2>1. \A w \in Workers : InAttempt(w)' =>
           \/ InAttempt(w) /\ wrk'[w].cur = wrk[w].cur
           \/ \A j \in fresh' : wrk'[w].cur \notin job[j].targets
    BY DEF InAttempt
  <2> QED
    BY <2>1, SameFreshQuiet DEF RowsInv
<1>3. ASSUME NEW u \in Targets PROVE RowTrue(u)'
  <2>1. CASE u # t
    BY <2>1, SameRowTrue DEF RowsInv, Answered
  <2> QED
    BY <2>1
<1> QED
  BY <1>1, <1>2, <1>3 DEF RowsInv

(* What a busy worker works on. *)
LEMMA BusyWorker ==
  ASSUME ClaimInv, NEW w \in Workers
  PROVE  /\ wrk[w].pc # "idle" => /\ wrk[w].job \in Jobs /\ JobOf(w) \in Job
                                  /\ JobOf(w).status = "running"
                                  /\ wrk[w].job \in Unfinished
         /\ InAttempt(w) => wrk[w].cur \in Targets /\ JobOf(w).op \in PublicationOps
         /\ wrk[w].pc = "confirm" => wrk[w].cur \in JobOf(w).targets /\ wrk[w].cur \in Targets
<1>1. WorkerHoldsJob(w) /\ wrk[w] \in Worker /\ TypeOK
  BY DEF ClaimInv, ClaimParts, TypeOK
<1>2. wrk[w].pc # "idle" => /\ wrk[w].job \in Jobs /\ JobOf(w) \in Job
                            /\ JobOf(w).status = "running"
  BY <1>1 DEF WorkerHoldsJob, Worker, TypeOK, JobOf
<1>3. wrk[w].pc # "idle" => wrk[w].job \in Unfinished
  BY <1>2 DEF Unfinished, JobOf
<1>4. InAttempt(w) => wrk[w].cur \in Targets /\ JobOf(w).op \in PublicationOps
  BY <1>1, <1>2 DEF WorkerHoldsJob, InAttempt, Job
<1>5. wrk[w].pc = "confirm" => wrk[w].cur \in JobOf(w).targets /\ wrk[w].cur \in Targets
  BY <1>1, <1>2 DEF WorkerHoldsJob, Job
<1> QED
  BY <1>2, <1>3, <1>4, <1>5

LEMMA RequestsKeepRows ==
  ASSUME ClaimInv, RowsInv, ManagerRequest PROVE RowsInv'
<1> USE DEF RowsInv
<1>a. wrk' = wrk /\ TypeOK
  BY DEF ManagerRequest, RequestJob, RequestListingState, RequestCheck, RequestManual, history,
         ClaimInv
<1>b. \A j \in Jobs : job[j].status # "absent" => job'[j] = job[j]
  BY <1>a, RequestsFillRows
<1>c. \A j \in fresh : j \in Jobs /\ job'[j] = job[j] /\ job[j].status # "absent"
  BY <1>a, <1>b DEF FreshQuiet, TypeOK
<1>d. \A w \in Workers : wrk[w].pc # "idle" => JobOf(w)' = JobOf(w)
  BY <1>a, <1>b, BusyWorker DEF JobOf
<1>e. Unfinished = {} => \A w \in Workers : wrk[w].pc = "idle"
  BY BusyWorker
<1>1. ASSUME NEW i \in Jobs, NEW op \in Requestable, NEW ts \in SUBSET Targets,
             RequestJob(i, op, ts)
      PROVE  RowsInv'
  <2>1. pub' = pub /\ market' = market /\ doubt' = doubt /\ fresh' = fresh
    BY <1>1 DEF RequestJob, history
  <2>2. \A w \in Workers : wrk'[w] = wrk[w] /\ (InAttempt(w) => JobOf(w)'.op = JobOf(w).op)
    BY <1>a, <1>d DEF InAttempt
  <2> QED
    BY <1>c, <2>1, <2>2, QuietStep
<1>2. ASSUME NEW action \in {"activate", "deactivate"}, NEW ts \in SUBSET Targets,
             RequestListingState(action, ts)
      PROVE  RowsInv'
  <2> DEFINE op(t)    == OperationFor(t.market, action)
             selected == {t \in ts : /\ pub[t].status = DesiredStatus(action)
                                     /\ op(t) # "none"}
  <2>1. /\ pub' = [t \in Targets |-> IF t \in selected THEN Begun(pub[t], op(t)) ELSE pub[t]]
        /\ market' = market /\ doubt' = doubt /\ fresh' \subseteq fresh
    BY <1>2 DEF RequestListingState, FreshAfterSaving, history
  <2>2. \A t \in selected : /\ t \in Targets /\ op(t) \in PublicationOps
                            /\ pub[t].status \notin RunningStatuses
    BY DEF OperationFor, PublicationOps, DesiredStatus, RunningStatuses
  <2> HIDE DEF op, selected
  <2>3. ASSUME NEW w \in Workers, InAttempt(w), wrk[w].solo
        PROVE  wrk[w].cur \in Targets \ selected
    <3>1. wrk[w].cur \in Targets /\ JobOf(w).op \in PublicationOps
      BY <2>3, BusyWorker
    <3>2. pub[wrk[w].cur].status = StatusDuring(JobOf(w).op)
      BY <2>3 DEF WorkerTrue, Alone
    <3>3. StatusDuring(JobOf(w).op) \in RunningStatuses
      BY <3>1, <1>a, ClaimingRows DEF TypeOK
    <3> QED
      BY <2>2, <3>1, <3>2, <3>3
  <2>4. ASSUME NEW w \in Workers PROVE WorkerTrue(w)'
    <3>1. InAttempt(w) => JobOf(w)'.op = JobOf(w).op
      BY <1>d DEF InAttempt
    <3>2. InAttempt(w) /\ wrk[w].solo => pub'[wrk[w].cur] = pub[wrk[w].cur]
      BY <2>1, <2>3
    <3>3. \A v \in Workers : InAttempt(v)' => InAttempt(v) /\ wrk'[v].cur = wrk[v].cur
      BY <1>a DEF InAttempt
    <3> QED
      BY <1>a, <2>1, <3>1, <3>2, <3>3, SameWorkerTrue
  <2>5. FreshQuiet'
    <3>1. \A w \in Workers : InAttempt(w)' => InAttempt(w) /\ wrk'[w].cur = wrk[w].cur
      BY <1>a DEF InAttempt
    <3> QED
      BY <1>c, <2>1, <3>1, SameFreshQuiet
  <2>6. ASSUME NEW t \in Targets PROVE RowTrue(t)'
    <3>1. CASE t \notin selected
      BY <1>a, <2>1, <3>1, SameRowTrue DEF Answered
    <3>2. CASE t \in selected /\ t \notin doubt
      <4>1. \A w \in Workers : ~(Answered(w) /\ wrk[w].cur = t)
        BY <2>3, <3>2 DEF WorkerTrue, Sure, Answered, InAttempt
      <4>2. Shows(pub[t].status, market[t]) /\ Shows(pub[t].before, market[t])
        BY <3>2, <4>1 DEF RowTrue
      <4>3. pub'[t] = Begun(pub[t], op(t)) /\ pub[t] \in Publication
            /\ op(t) \in PublicationOps
        BY <1>a, <2>1, <2>2, <3>2 DEF TypeOK
      <4>4. Shows(pub'[t].status, market[t]) /\ Shows(pub'[t].before, market[t])
        BY <4>2, <4>3, ClaimingRows
      <4> QED
        BY <2>1, <4>4 DEF RowTrue
    <3>3. CASE t \in doubt
      BY <2>1, <3>3 DEF RowTrue
    <3> QED
      BY <3>1, <3>2, <3>3
  <2> QED
    BY <2>4, <2>5, <2>6
<1>3. ASSUME NEW i \in Jobs, NEW t \in Targets, RequestCheck(i, t) PROVE RowsInv'
  <2>1. /\ pub' = pub /\ market' = market /\ doubt' = doubt /\ fresh' = fresh \cup {i}
        /\ \A w \in Workers : wrk'[w].pc = "idle"
    BY <1>3, <1>a, <1>e DEF RequestCheck, CanReconcile, history
  <2>2. job'[i].status # "absent"
    BY <1>3, <1>a DEF RequestCheck, NewJob, TypeOK
  <2>3. \A w \in Workers : WorkerTrue(w)'
    BY <2>1 DEF WorkerTrue, Alone, Sure, AnswerTrue, Answered, LookTrue, InAttempt
  <2>4. FreshQuiet'
    BY <1>c, <2>1, <2>2 DEF FreshQuiet, InAttempt
  <2>5. \A u \in Targets : RowTrue(u)'
    BY <1>a, <2>1, SameRowTrue DEF Answered
  <2> QED
    BY <2>3, <2>4, <2>5
<1>4. ASSUME NEW i \in Jobs, NEW t \in Targets, NEW s \in PubStatuses, RequestManual(i, t, s)
      PROVE  RowsInv'
  <2>1. /\ market' = market /\ doubt' = doubt \cup {t}
        /\ fresh' \subseteq fresh /\ \A j \in fresh' : t \notin job[j].targets
        /\ \A w \in Workers : wrk[w].pc = "idle"
    BY <1>4, <1>e DEF RequestManual, CanReconcile, Reconcile, FreshAfterSaving
  <2>2. \A u \in Targets : u # t => pub'[u] = pub[u]
    BY <1>4, <1>a DEF RequestManual, Reconcile, TypeOK
  <2>3. \A w \in Workers : wrk'[w] = wrk[w] /\ ~InAttempt(w) /\ ~Answered(w)
    BY <1>a, <2>1 DEF InAttempt, Answered
  <2>4. RowTrue(t)'
    BY <2>1 DEF RowTrue
  <2>5. \A w \in Workers : wrk[w].pc # "confirm"
    BY <2>1
  <2>6. \A j \in fresh' : job'[j].status # "absent" /\ job'[j].targets = job[j].targets
    BY <1>c, <2>1
  <2> QED
    BY <2>1, <2>2, <2>3, <2>4, <2>5, <2>6, SavingStep
<1>5. CASE \E i \in Jobs, op \in Requestable, ts \in SUBSET Targets : RequestJob(i, op, ts)
  BY <1>1, <1>5
<1>6. CASE \E action \in {"activate", "deactivate"}, ts \in SUBSET Targets :
             RequestListingState(action, ts)
  BY <1>2, <1>6
<1>7. CASE \E i \in Jobs, t \in Targets : RequestCheck(i, t)
  BY <1>3, <1>7
<1>8. CASE \E i \in Jobs, t \in Targets, s \in PubStatuses : RequestManual(i, t, s)
  BY <1>4, <1>8
<1> QED
  BY <1>5, <1>6, <1>7, <1>8 DEF ManagerRequest

(* The steps of a worker that touch no row and start no attempt. *)
LEMMA RestingStep ==
  ASSUME ClaimInv, RowsInv, NEW w \in Workers, Receive(w) \/ Execute(w) \/ Crash(w),
         \A t \in Targets : ~StartAttempt(w, t),
         pub' = pub, market' = market, fresh' = fresh, doubt \subseteq doubt',
         \/ wrk'[w].pc \notin {"call", "record", "confirm"}
         \/ wrk'[w].pc = "confirm" /\ WorkerTrue(w)',
         Answered(w) => wrk[w].cur \in doubt'
  PROVE  RowsInv'
<1>1. \A j \in fresh' : job'[j].status # "absent" /\ job'[j].targets = job[j].targets
  BY OrdersStay DEF RowsInv, FreshQuiet, ClaimInv, TypeOK
<1>2. \A v \in Workers : v # w =>
        wrk'[v] = wrk[v] /\ (InAttempt(v) => JobOf(v)'.op = JobOf(v).op)
  BY OthersKeepTheirs DEF InAttempt, JobOf
<1> QED
  BY <1>1, <1>2, QuietStep

LEMMA StartKeepsRows ==
  ASSUME ClaimInv, RowsInv, NEW w \in Workers, NEW t \in Targets, StartAttempt(w, t)
  PROVE  RowsInv'
<1> DEFINE others == Attempting(t) \ {w}
<1>a. TypeOK /\ wrk[w] \in Worker /\ pub[t] \in Publication
  BY DEF ClaimInv, TypeOK
<1>b. Receive(w) \/ Execute(w) \/ Crash(w)
  BY DEF Execute
<1>1. /\ wrk[w].pc = "next" /\ JobOf(w).op \in PublicationOps /\ CanStart(pub[t], JobOf(w).op)
      /\ pub' = [pub EXCEPT ![t] = Begun(pub[t], JobOf(w).op)]
      /\ market' = market /\ job' = job
      /\ fresh' \subseteq fresh /\ \A j \in fresh' : t \notin job[j].targets
      /\ doubt' = IF others = {} THEN doubt ELSE doubt \cup {t}
  BY DEF StartAttempt, Started, FreshAfterSaving
<1>2. /\ wrk'[w].pc = "call" /\ wrk'[w].cur = t /\ wrk'[w].job = wrk[w].job
      /\ wrk'[w].solo = (others = {})
  BY <1>a DEF StartAttempt, Worker
<1>3. \A v \in Workers : v \in others <=> v # w /\ InAttempt(v) /\ wrk[v].cur = t
  BY DEF Attempting
<1>4. ASSUME NEW v \in Workers, v # w
      PROVE  /\ v \in others => wrk'[v] = [wrk[v] EXCEPT !.solo = FALSE]
             /\ v \notin others => wrk'[v] = wrk[v]
  BY <1>4 DEF StartAttempt
<1> HIDE DEF others
<1>5. ASSUME NEW v \in Workers, v \in others
      PROVE  WorkerTrue(v)' /\ wrk'[v].cur = t
  <2>1. /\ wrk'[v].solo = FALSE /\ wrk'[v].pc = wrk[v].pc /\ wrk'[v].cur = t
        /\ t \in doubt' /\ wrk[v].pc \in {"call", "record"}
    BY <1>1, <1>3, <1>4, <1>5, <1>a DEF TypeOK, Worker, InAttempt
  <2> QED
    BY <2>1 DEF WorkerTrue, Alone, Sure, AnswerTrue, LookTrue
<1>6. WorkerTrue(w)'
  <2>1. JobOf(w)' = JobOf(w)
    BY <1>1, <1>2 DEF JobOf
  <2>2. ASSUME others = {}, NEW v \in Workers, InAttempt(v)', wrk'[v].cur = t PROVE v = w
    BY <1>3, <1>4, <2>2 DEF InAttempt
  <2>3. /\ pub'[t] = Begun(pub[t], JobOf(w).op)
        /\ pub'[t].status = StatusDuring(JobOf(w).op)
        /\ JobOf(w).op = "update" => pub'[t].before = "active"
    BY <1>a, <1>1, ClaimingRows DEF TypeOK
  <2>4. Alone(w)'
    BY <1>2, <2>1, <2>2, <2>3 DEF Alone
  <2>5. Sure(w)'
    BY <1>1, <1>2 DEF Sure
  <2> QED
    BY <1>2, <2>4, <2>5 DEF WorkerTrue, AnswerTrue, Answered, LookTrue
<1>7. RowTrue(t)'
  <2> SUFFICES ASSUME t \notin doubt' PROVE RowTrue(t)'
    BY DEF RowTrue
  <2>1. others = {} /\ t \notin doubt
    BY <1>1
  <2>2. \A v \in Workers : ~(Answered(v) /\ wrk[v].cur = t)
    BY <1>1, <1>3, <2>1 DEF Answered, InAttempt
  <2>3. Shows(pub[t].status, market[t]) /\ Shows(pub[t].before, market[t])
    BY <2>1, <2>2 DEF RowsInv, RowTrue
  <2>4. pub'[t] = Begun(pub[t], JobOf(w).op)
    BY <1>a, <1>1 DEF TypeOK
  <2>5. Shows(pub'[t].status, market[t]) /\ Shows(pub'[t].before, market[t])
    BY <1>a, <1>1, <2>3, <2>4, ClaimingRows
  <2> QED
    BY <1>1, <2>5 DEF RowTrue
<1>8. \A u \in Targets : u # t => /\ pub'[u] = pub[u] /\ market'[u] = market[u]
                                  /\ u \in doubt => u \in doubt'
  BY <1>1, <1>a DEF TypeOK
<1>9. ASSUME NEW v \in Workers
      PROVE  \/ WorkerTrue(v)' /\ (InAttempt(v)' => wrk'[v].cur = t)
             \/ /\ wrk'[v] = wrk[v]
                /\ InAttempt(v) => wrk[v].cur # t /\ JobOf(v)'.op = JobOf(v).op
                /\ wrk[v].pc = "confirm" => wrk[v].cur \in job[wrk[v].job].targets
                                            /\ wrk[v].cur \in Targets
  <2>1. CASE v = w
    BY <1>2, <1>6, <2>1
  <2>2. CASE v # w /\ v \in others
    BY <1>5, <2>2
  <2>3. CASE v # w /\ v \notin others
    <3>1. wrk'[v] = wrk[v] /\ job' = job
      BY <1>1, <1>4, <2>3
    <3>2. InAttempt(v) => wrk[v].cur # t /\ JobOf(v)'.op = JobOf(v).op
      BY <1>3, <2>3, <3>1 DEF JobOf
    <3>3. wrk[v].pc = "confirm" => wrk[v].cur \in job[wrk[v].job].targets
                                   /\ wrk[v].cur \in Targets
      BY BusyWorker DEF JobOf
    <3> QED
      BY <3>1, <3>2, <3>3
  <2> QED
    BY <2>1, <2>2, <2>3
<1>10. \A v \in Workers : Answered(v) => wrk[v].cur = t \/ wrk'[v] = wrk[v]
  BY <1>1, <1>3, <1>4 DEF Answered
<1>11. \A j \in fresh' : job'[j].status # "absent" /\ job'[j].targets = job[j].targets
  BY <1>1 DEF RowsInv, FreshQuiet
<1>12. \A v \in Workers : InAttempt(v) => wrk[v].cur \in Targets
  BY BusyWorker
<1> QED
  BY <1>1, <1>7, <1>8, <1>9, <1>10, <1>11, <1>12, SavingStep

(* A worker's attempt on t goes on or ends: what the others rely on stays  *)
(* if the row was in doubt, or stays in doubt, while others attempt it.    *)
LEMMA AttemptStep ==
  ASSUME ClaimInv, RowsInv, NEW w \in Workers, Receive(w) \/ Execute(w) \/ Crash(w),
         InAttempt(w), NEW t \in Targets, t = wrk[w].cur,
         job' = job, fresh' \subseteq fresh,
         \A v \in Workers : v # w => wrk'[v] = wrk[v],
         \A u \in Targets : u # t => /\ pub'[u] = pub[u] /\ market'[u] = market[u]
                                     /\ u \in doubt => u \in doubt',
         t \in doubt => wrk[w].solo \/ t \in doubt',
         InAttempt(w)' => wrk'[w].cur = t,
         WorkerTrue(w)', RowTrue(t)'
  PROVE  RowsInv'
<1>1. \A j \in fresh' : t \notin job[j].targets
  BY DEF RowsInv, FreshQuiet
<1>2. \A j \in fresh' : job'[j].status # "absent" /\ job'[j].targets = job[j].targets
  BY DEF RowsInv, FreshQuiet
<1>3. ASSUME NEW v \in Workers, v # w, InAttempt(v), wrk[v].cur = t
      PROVE  WorkerTrue(v)'
  <2>a. Alone(v) /\ Sure(v) /\ Alone(w)
    BY DEF RowsInv, WorkerTrue
  <2>b. wrk[v].cur = wrk[w].cur
    BY <1>3
  <2>1. wrk[v].solo # TRUE /\ wrk[w].solo # TRUE
    BY <1>3, <2>a, <2>b DEF Alone
  <2>2. t \in doubt
    BY <1>3, <2>1, <2>a DEF Sure
  <2>3. t \in doubt' /\ wrk'[v].solo # TRUE /\ wrk'[v].cur = t
    BY <1>3, <2>1, <2>2
  <2>4. wrk'[v].solo = FALSE /\ wrk'[v].pc # "confirm"
    BY <1>3, <2>3 DEF ClaimInv, TypeOK, Worker, InAttempt
  <2> QED
    BY <2>3, <2>4 DEF WorkerTrue, Alone, Sure, AnswerTrue, LookTrue
<1>4. ASSUME NEW v \in Workers
      PROVE  \/ WorkerTrue(v)' /\ (InAttempt(v)' => wrk'[v].cur = t)
             \/ /\ wrk'[v] = wrk[v]
                /\ InAttempt(v) => wrk[v].cur # t /\ JobOf(v)'.op = JobOf(v).op
                /\ wrk[v].pc = "confirm" => wrk[v].cur \in job[wrk[v].job].targets
                                            /\ wrk[v].cur \in Targets
  <2>1. CASE v = w
    BY <2>1
  <2>2. CASE v # w /\ InAttempt(v) /\ wrk[v].cur = t
    BY <1>3, <2>2
  <2>3. CASE v # w /\ ~(InAttempt(v) /\ wrk[v].cur = t)
    BY <2>3, BusyWorker DEF JobOf
  <2> QED
    BY <2>1, <2>2, <2>3
<1>5. \A v \in Workers : Answered(v) => wrk[v].cur = t \/ wrk'[v] = wrk[v]
  OBVIOUS
<1>6. \A v \in Workers : InAttempt(v) => wrk[v].cur \in Targets
  BY BusyWorker
<1> QED
  BY <1>1, <1>2, <1>4, <1>5, <1>6, SavingStep

(* What an accepted operation makes the marketplace show. *)
LEMMA AcceptedShows ==
  ASSUME NEW t \in Targets, NEW op \in PublicationOps, op # "update"
  PROVE  Shows(StatusAfterSuccess(op), MarketAfter(t, op))
BY DEF Shows, StatusAfterSuccess, MarketAfter, PublicationOps

LEMMA CallKeepsRows ==
  ASSUME ClaimInv, RowsInv, NEW w \in Workers, CallMarketplace(w) PROVE RowsInv'
<1>a. TypeOK /\ wrk[w] \in Worker /\ InAttempt(w) /\ WorkerTrue(w)
  BY DEF ClaimInv, TypeOK, CallMarketplace, InAttempt, RowsInv
<1>b. Receive(w) \/ Execute(w) \/ Crash(w)
  BY DEF Execute
<1>c. PICK t \in Targets : t = wrk[w].cur
  BY <1>a, BusyWorker
<1>d. JobOf(w).op \in PublicationOps /\ wrk[w].pc = "call" /\ pub[t] \in Publication
  BY <1>a, BusyWorker DEF CallMarketplace, TypeOK
<1>1. PICK ok \in BOOLEAN, effect \in BOOLEAN :
        /\ ok => effect
        /\ market' = IF effect
                     THEN [market EXCEPT ![t] = MarketAfter(t, JobOf(w).op)]
                     ELSE market
        /\ doubt' = IF effect /\ ~ok THEN doubt \cup {t} ELSE doubt
        /\ wrk' = [wrk EXCEPT ![w] = [wrk[w] EXCEPT !.pc = "record", !.ok = ok]]
  BY <1>a, <1>c DEF CallMarketplace, TypeOK
<1>2. /\ wrk'[w].pc = "record" /\ wrk'[w].ok = ok /\ wrk'[w].cur = t
      /\ wrk'[w].solo = wrk[w].solo /\ wrk'[w].job = wrk[w].job
      /\ \A v \in Workers : v # w => wrk'[v] = wrk[v]
  BY <1>1, <1>a, <1>c DEF TypeOK, Worker
<1>3. pub' = pub /\ job' = job /\ fresh' = fresh
  BY DEF CallMarketplace, rows
<1>4. JobOf(w)' = JobOf(w)
  BY <1>2, <1>3 DEF JobOf
<1>5. ASSUME t \notin doubt
      PROVE  /\ wrk[w].solo
             /\ Shows(pub[t].before, market[t]) /\ Shows(pub[t].status, market[t])
  <2>1. wrk[w].solo
    BY <1>5, <1>a, <1>c DEF WorkerTrue, Sure
  <2>2. \A v \in Workers : ~(Answered(v) /\ wrk[v].cur = t)
    BY <1>a, <1>c, <1>d, <2>1 DEF WorkerTrue, Alone, Answered, InAttempt
  <2> QED
    BY <1>5, <2>1, <2>2 DEF RowsInv, RowTrue
<1>6. WorkerTrue(w)'
  <2>1. Alone(w)'
    <3>1. \A v \in Workers : InAttempt(v)' => InAttempt(v) /\ wrk'[v].cur = wrk[v].cur
      BY <1>a, <1>c, <1>2 DEF InAttempt
    <3> QED
      BY <1>a, <1>c, <1>2, <1>3, <1>4, <3>1 DEF WorkerTrue, Alone
  <2>2. Sure(w)'
    BY <1>1, <1>2, <1>5 DEF Sure
  <2>3. AnswerTrue(w)'
    <3> SUFFICES ASSUME ok, wrk[w].solo, JobOf(w).op # "update" \/ t \notin doubt
                 PROVE  Shows(StatusAfterSuccess(JobOf(w).op), market'[t])
      BY <1>1, <1>2, <1>4 DEF AnswerTrue, Answered
    <3>1. market'[t] = MarketAfter(t, JobOf(w).op)
      BY <1>1, <1>a DEF TypeOK
    <3>2. CASE JobOf(w).op # "update"
      BY <1>d, <3>1, <3>2, AcceptedShows
    <3>3. CASE JobOf(w).op = "update"
      <4>1. pub[t].before = "active" /\ market'[t] = market[t]
        BY <1>a, <1>c, <3>1, <3>3 DEF WorkerTrue, Alone, MarketAfter
      <4> QED
        BY <1>5, <3>3, <4>1 DEF StatusAfterSuccess
    <3> QED
      BY <3>2, <3>3
  <2>4. LookTrue(w)'
    BY <1>2 DEF LookTrue
  <2> QED
    BY <2>1, <2>2, <2>3, <2>4 DEF WorkerTrue
<1>7. RowTrue(t)'
  <2> SUFFICES ASSUME t \notin doubt' PROVE RowTrue(t)'
    BY DEF RowTrue
  <2>1. t \notin doubt /\ (ok \/ ~effect)
    BY <1>1
  <2>2. CASE ok
    <3>1. pub[t].status \in RunningStatuses
      <4>1. pub[t].status = StatusDuring(JobOf(w).op)
        BY <1>5, <1>a, <1>c, <2>1 DEF WorkerTrue, Alone
      <4>2. StatusDuring(JobOf(w).op) \in RunningStatuses
        BY <1>d, ClaimingRows
      <4> QED
        BY <4>1, <4>2
    <3>2. Shows(pub'[t].status, market'[t])
      BY <1>3, <3>1 DEF Shows, RunningStatuses
    <3>3. Answered(w)' /\ wrk'[w].cur = t
      BY <1>2, <2>2 DEF Answered
    <3> QED
      BY <3>2, <3>3 DEF RowTrue
  <2>3. CASE ~ok
    BY <1>1, <1>3, <1>5, <2>1, <2>3 DEF RowTrue
  <2> QED
    BY <2>2, <2>3
<1>8. \A u \in Targets : u # t => /\ pub'[u] = pub[u] /\ market'[u] = market[u]
                                  /\ u \in doubt => u \in doubt'
  BY <1>1, <1>3, <1>a DEF TypeOK
<1>9. t \in doubt => t \in doubt'
  BY <1>1
<1> QED
  BY <1>a, <1>b, <1>c, <1>2, <1>3, <1>6, <1>7, <1>8, <1>9, AttemptStep

LEMMA RecordKeepsRows ==
  ASSUME ClaimInv, RowsInv, NEW w \in Workers, RecordSuccess(w) \/ RecordFailure(w)
  PROVE  RowsInv'
<1>a. TypeOK /\ wrk[w] \in Worker /\ InAttempt(w) /\ WorkerTrue(w) /\ wrk[w].pc = "record"
  BY DEF ClaimInv, TypeOK, RecordSuccess, RecordFailure, InAttempt, RowsInv
<1>b. Receive(w) \/ Execute(w) \/ Crash(w)
  BY DEF Execute
<1>c. PICK t \in Targets : t = wrk[w].cur
  BY <1>a, BusyWorker
<1>d. JobOf(w).op \in PublicationOps /\ pub[t] \in Publication
  BY <1>a, BusyWorker DEF TypeOK
<1>1. /\ job' = job /\ market' = market /\ fresh' \subseteq fresh
      /\ wrk'[w].pc = "next" /\ \A v \in Workers : v # w => wrk'[v] = wrk[v]
  BY <1>a DEF RecordSuccess, RecordFailure, FreshAfterSaving, history, TypeOK, Worker
<1>2. WorkerTrue(w)' /\ ~InAttempt(w)'
  BY <1>1 DEF WorkerTrue, Alone, Sure, AnswerTrue, Answered, LookTrue, InAttempt
<1>3. CASE RecordSuccess(w)
  <2>1. /\ pub' = [pub EXCEPT ![t] = Succeeded(pub[t], JobOf(w).op)]
        /\ doubt' = IF wrk[w].solo /\ JobOf(w).op # "update" THEN doubt \ {t} ELSE doubt
        /\ wrk[w].ok
    BY <1>3, <1>c DEF RecordSuccess
  <2>2. \A u \in Targets : u # t => /\ pub'[u] = pub[u] /\ market'[u] = market[u]
                                    /\ u \in doubt => u \in doubt'
    BY <1>1, <1>a, <2>1 DEF TypeOK
  <2>3. RowTrue(t)'
    <3> SUFFICES ASSUME t \notin doubt'
                 PROVE  Shows(pub'[t].status, market'[t]) /\ Shows(pub'[t].before, market'[t])
      BY DEF RowTrue
    <3>1. wrk[w].solo /\ (JobOf(w).op # "update" \/ t \notin doubt)
      BY <1>a, <1>c, <2>1 DEF WorkerTrue, Sure
    <3>2. Shows(StatusAfterSuccess(JobOf(w).op), market[t])
      BY <1>a, <1>c, <2>1, <3>1 DEF WorkerTrue, AnswerTrue, Answered
    <3>3. pub'[t] = Succeeded(pub[t], JobOf(w).op)
      BY <1>a, <2>1 DEF TypeOK
    <3> QED
      BY <1>1, <1>d, <3>2, <3>3, ClaimingRows
  <2>4. t \in doubt => wrk[w].solo \/ t \in doubt'
    BY <2>1
  <2> QED
    BY <1>a, <1>b, <1>c, <1>1, <1>2, <2>2, <2>3, <2>4, AttemptStep
<1>4. CASE RecordFailure(w)
  <2>1. /\ pub' = [pub EXCEPT ![t] = Failed(pub[t], JobOf(w).op)]
        /\ doubt' = doubt /\ ~wrk[w].ok
    BY <1>4, <1>c DEF RecordFailure, history
  <2>2. \A u \in Targets : u # t => /\ pub'[u] = pub[u] /\ market'[u] = market[u]
                                    /\ u \in doubt => u \in doubt'
    BY <1>1, <1>a, <2>1 DEF TypeOK
  <2>3. RowTrue(t)'
    <3> SUFFICES ASSUME t \notin doubt
                 PROVE  Shows(pub'[t].status, market'[t]) /\ Shows(pub'[t].before, market'[t])
      BY <2>1 DEF RowTrue
    <3>1. wrk[w].solo
      BY <1>a, <1>c DEF WorkerTrue, Sure
    <3>2. \A v \in Workers : ~(Answered(v) /\ wrk[v].cur = t)
      BY <1>a, <1>c, <2>1, <3>1 DEF WorkerTrue, Alone, Answered, InAttempt
    <3>3. Shows(pub[t].status, market[t]) /\ Shows(pub[t].before, market[t])
      BY <3>2 DEF RowsInv, RowTrue
    <3>4. pub'[t] = Failed(pub[t], JobOf(w).op)
      BY <1>a, <2>1 DEF TypeOK
    <3> QED
      BY <1>1, <1>d, <3>3, <3>4, ClaimingRows
  <2>4. t \in doubt => t \in doubt'
    BY <2>1
  <2> QED
    BY <1>a, <1>b, <1>c, <1>1, <1>2, <2>2, <2>3, <2>4, AttemptStep
<1> QED
  BY <1>3, <1>4

LEMMA CheckKeepsRows ==
  ASSUME ClaimInv, RowsInv, NEW w \in Workers, FinishCheck(w) PROVE RowsInv'
<1> DEFINE confirmed == /\ wrk[w].ok /\ wrk[w].job \in fresh
                        /\ Unfinished \ {wrk[w].job} = {}
<1>a. TypeOK /\ wrk[w].pc = "confirm" /\ WorkerTrue(w) /\ ~InAttempt(w) /\ ~Answered(w)
  BY DEF ClaimInv, FinishCheck, FinishCheckIf, RowsInv, InAttempt, Answered
<1>b. Receive(w) \/ Execute(w) \/ Crash(w)
  BY DEF Execute
<1>c. PICK t \in Targets : t = wrk[w].cur /\ t \in JobOf(w).targets
  BY <1>a, BusyWorker
<1>1. wrk'[w] = Idle /\ market' = market /\ \A v \in Workers : v # w => wrk'[v] = wrk[v]
  BY <1>a DEF FinishCheck, FinishCheckIf, Return, TypeOK
<1>2. WorkerTrue(w)' /\ ~InAttempt(w)' /\ wrk'[w].pc = "idle"
  BY <1>1 DEF Idle, WorkerTrue, Alone, Sure, AnswerTrue, Answered, LookTrue, InAttempt
<1>3. CASE ~confirmed
  <2>1. pub' = pub /\ fresh' = fresh /\ doubt' = doubt
    BY <1>3 DEF FinishCheck, FinishCheckIf
  <2>2. \A u \in Targets : ~StartAttempt(w, u)
    BY <1>a DEF StartAttempt
  <2> QED
    BY <1>a, <1>b, <1>1, <1>2, <2>1, <2>2, RestingStep
<1>4. CASE confirmed
  <2>1. /\ pub' = [pub EXCEPT ![t] = Reconciled(pub[t], "active")]
        /\ doubt' = doubt \ {t} /\ fresh' \subseteq fresh
        /\ \A j \in fresh' : t \notin job[j].targets
    BY <1>4, <1>c DEF FinishCheck, FinishCheckIf, Reconcile, FreshAfterSaving
  <2>2. ASSUME NEW v \in Workers, v # w PROVE wrk[v].pc = "idle"
    <3>1. wrk[v].pc # "idle" => wrk[v].job \in Unfinished \ {wrk[w].job}
      BY <1>b, <2>2, BusyWorker, OthersKeepTheirs
    <3> QED
      BY <1>4, <3>1
  <2>3. market[t] = "online"
    BY <1>a, <1>c, <1>4 DEF WorkerTrue, LookTrue
  <2>4. RowTrue(t)'
    <3>1. pub'[t].status = "active" /\ pub'[t].before = ""
      BY <1>a, <2>1 DEF Reconciled, TypeOK, Publication
    <3> QED
      BY <1>1, <2>3, <3>1 DEF RowTrue, Shows
  <2>5. \A u \in Targets : u # t => /\ pub'[u] = pub[u] /\ market'[u] = market[u]
                                    /\ u \in doubt => u \in doubt'
    BY <1>1, <1>a, <2>1 DEF TypeOK
  <2>6. \A j \in fresh' : job'[j].status # "absent" /\ job'[j].targets = job[j].targets
    BY <1>a, <1>b, <2>1, OrdersStay DEF RowsInv, FreshQuiet, TypeOK
  <2>7. \A v \in Workers : ~InAttempt(v) /\ ~Answered(v) /\ (v # w => wrk[v].pc # "confirm")
    BY <1>a, <2>2 DEF InAttempt, Answered
  <2>8. \A v \in Workers :
           \/ WorkerTrue(v)' /\ (InAttempt(v)' => wrk'[v].cur = t)
           \/ /\ wrk'[v] = wrk[v]
              /\ InAttempt(v) => wrk[v].cur # t /\ JobOf(v)'.op = JobOf(v).op
              /\ wrk[v].pc = "confirm" => wrk[v].cur \in job[wrk[v].job].targets
                                          /\ wrk[v].cur \in Targets
    BY <1>1, <1>2, <2>7
  <2>9. \A v \in Workers : Answered(v) => wrk[v].cur = t \/ wrk'[v] = wrk[v]
    BY <2>7
  <2>10. \A v \in Workers : InAttempt(v) => wrk[v].cur \in Targets
    BY <2>7
  <2> HIDE DEF confirmed
  <2> QED
    BY <2>1, <2>4, <2>5, <2>6, <2>8, <2>9, <2>10, SavingStep
<1> QED
  BY <1>3, <1>4

LEMMA WorkersKeepRows ==
  ASSUME ClaimInv, RowsInv, NEW w \in Workers, Receive(w) \/ Execute(w) \/ Crash(w)
  PROVE  RowsInv'
<1>a. TypeOK /\ wrk[w] \in Worker
  BY DEF ClaimInv, TypeOK
<1>1. CASE \E t \in Targets : StartAttempt(w, t)
  BY <1>1, StartKeepsRows
<1>2. CASE CallMarketplace(w) \/ RecordSuccess(w) \/ RecordFailure(w) \/ FinishCheck(w)
  BY <1>2, CallKeepsRows, RecordKeepsRows, CheckKeepsRows
<1>3. CASE Receive(w)
  <2>1. /\ pub' = pub /\ market' = market /\ fresh' = fresh /\ doubt' = doubt
        /\ wrk'[w].pc \notin {"call", "record", "confirm"} /\ wrk[w].pc = "idle"
    <3>1. wrk \in [Workers -> Worker]
      BY <1>a DEF TypeOK
    <3>2. ASSUME NEW j \in Jobs, Claim(w, j)
          PROVE  /\ pub' = pub /\ market' = market /\ fresh' = fresh /\ doubt' = doubt
                 /\ wrk'[w].pc \in {"look", "next"} /\ wrk[w].pc = "idle"
      BY <3>1, <3>2 DEF Claim, Idle, history
    <3>3. ASSUME NEW j \in Jobs, Discard(w, j)
          PROVE  /\ pub' = pub /\ market' = market /\ fresh' = fresh /\ doubt' = doubt
                 /\ wrk'[w] = wrk[w] /\ wrk[w].pc = "idle"
      BY <3>1, <3>3 DEF Discard, rows, history
    <3> QED
      BY <1>3, <3>2, <3>3 DEF Receive
  <2>2. ~Answered(w) /\ \A t \in Targets : ~StartAttempt(w, t)
    BY <2>1 DEF Answered, StartAttempt
  <2> QED
    BY <2>1, <2>2, RestingStep
<1>4. ASSUME RejectPayload(w) \/ FinishJob(w)
             \/ \E t \in Targets : RefuseAttempt(w, t) \/ SearchTarget(w, t),
             \A t \in Targets : ~StartAttempt(w, t)
      PROVE  RowsInv'
  <2>1. /\ pub' = pub /\ market' = market /\ fresh' = fresh /\ doubt' = doubt
        /\ wrk'[w].pc \notin {"call", "record", "confirm"} /\ wrk[w].pc = "next"
    <3>1. CASE RejectPayload(w) \/ FinishJob(w)
      BY <3>1, <1>a DEF RejectPayload, FinishJob, Return, Idle, history, TypeOK
    <3>2. CASE \E t \in Targets : RefuseAttempt(w, t)
      BY <3>2, <1>a DEF RefuseAttempt, rows, history, TypeOK, Worker
    <3>3. CASE \E t \in Targets : SearchTarget(w, t)
      BY <3>3, <1>a DEF SearchTarget, rows, history, TypeOK, Worker
    <3> QED
      BY <1>4, <3>1, <3>2, <3>3
  <2>2. ~Answered(w)
    BY <2>1 DEF Answered
  <2> QED
    BY <1>4, <2>1, <2>2, RestingStep
<1>5. CASE Crash(w) /\ \A t \in Targets : ~StartAttempt(w, t)
  <2>1. /\ pub' = pub /\ market' = market /\ fresh' = fresh
        /\ doubt' = IF wrk[w].pc = "record" THEN doubt \cup {wrk[w].cur} ELSE doubt
        /\ wrk'[w].pc \notin {"call", "record", "confirm"}
    BY <1>5, <1>a DEF Crash, Return, Idle, rows, TypeOK
  <2>2. doubt \subseteq doubt' /\ (Answered(w) => wrk[w].cur \in doubt')
    BY <2>1 DEF Answered
  <2> QED
    BY <1>5, <2>1, <2>2, RestingStep
<1>6. CASE LookAtMarketplace(w)
  <2>1. PICK t \in JobOf(w).targets, seen \in BOOLEAN :
          /\ seen => market[t] = "online"
          /\ wrk' = [wrk EXCEPT ![w].pc = "confirm", ![w].cur = t, ![w].ok = seen]
    BY <1>6 DEF LookAtMarketplace
  <2>a. wrk \in [Workers -> Worker]
    BY <1>a DEF TypeOK
  <2>2. wrk'[w].pc = "confirm" /\ wrk'[w].cur = t /\ wrk'[w].ok = seen
    BY <1>a, <2>1, <2>a DEF Worker
  <2>3. pub' = pub /\ market' = market /\ fresh' = fresh /\ doubt' = doubt /\ wrk[w].pc = "look"
    BY <1>6 DEF LookAtMarketplace, rows, history
  <2>4. WorkerTrue(w)'
    BY <2>1, <2>2, <2>3 DEF WorkerTrue, Alone, Sure, AnswerTrue, Answered, LookTrue, InAttempt
  <2>5. ~Answered(w) /\ \A u \in Targets : ~StartAttempt(w, u)
    BY <2>3 DEF Answered, StartAttempt
  <2> QED
    BY <2>2, <2>3, <2>4, <2>5, RestingStep
<1> QED
  BY <1>1, <1>2, <1>3, <1>4, <1>5, <1>6 DEF Execute

LEMMA RowsStep == ClaimInv /\ RowsInv /\ [Next]_vars => RowsInv'
<1> SUFFICES ASSUME ClaimInv, RowsInv, [Next]_vars PROVE RowsInv'
  OBVIOUS
<1>1. CASE UNCHANGED vars
  BY <1>1 DEF vars, RowsInv, WorkerTrue, Alone, Sure, AnswerTrue, LookTrue, FreshQuiet, RowTrue,
              Answered, InAttempt, JobOf
<1>2. CASE RecoverStaleJobs
  <2>1. /\ pub' = pub /\ market' = market /\ doubt' = doubt /\ fresh' = fresh /\ wrk' = wrk
        /\ \A j \in Jobs : /\ job'[j].op = job[j].op /\ job'[j].targets = job[j].targets
                           /\ job[j].status # "absent" => job'[j].status # "absent"
    BY <1>2 DEF RecoverStaleJobs, history, ClaimInv, TypeOK, Job
  <2>2. \A j \in fresh' : job'[j].status # "absent" /\ job'[j].targets = job[j].targets
    BY <2>1 DEF RowsInv, FreshQuiet, ClaimInv, TypeOK
  <2>3. \A w \in Workers : wrk'[w] = wrk[w] /\ (InAttempt(w) => JobOf(w)'.op = JobOf(w).op)
    BY <2>1, BusyWorker DEF InAttempt, JobOf
  <2> QED
    BY <2>1, <2>2, <2>3, QuietStep
<1> QED
  BY <1>1, <1>2, RequestsKeepRows, WorkersKeepRows DEF Next

LEMMA InitRows == Init => RowsInv
<1> SUFFICES ASSUME Init PROVE RowsInv
  OBVIOUS
<1>1. PICK old \in SUBSET Targets :
        /\ pub = [t \in Targets |->
                    IF t \in old THEN Succeeded(NoRow, "publish") ELSE NoRow]
        /\ market = [t \in Targets |-> IF t \in old THEN "online" ELSE "absent"]
  BY DEF Init
<1>2. \A t \in Targets : RowTrue(t)
  BY <1>1 DEF RowTrue, Shows, NoRow, Succeeded, StatusAfterSuccess
<1>3. \A w \in Workers : wrk[w].pc = "idle"
  BY DEF Init, Idle
<1>4. \A w \in Workers : WorkerTrue(w)
  BY <1>3, RestingWorkerTrue
<1> QED
  BY <1>2, <1>4 DEF Init, RowsInv, FreshQuiet

(* Rows, attempts and checks fit each other and the marketplace: the       *)
(* invariant that AttemptUndisturbed and Agreement rest on.                *)
THEOREM RowsFitMarketplace == Spec => []RowsInv
BY InitRows, RowsStep, Claims, PTL DEF Spec

(* While one worker alone works on a publication, neither requests nor     *)
(* reconciliations nor checks nor the sweep move its row.                  *)
THEOREM AttemptsUndisturbed == Spec => []AttemptUndisturbed
<1>1. RowsInv => AttemptUndisturbed
  BY DEF RowsInv, WorkerTrue, Alone, AttemptUndisturbed
<1> QED
  BY <1>1, RowsFitMarketplace, PTL

(* A row at rest claims what the marketplace shows, unless attempts        *)
(* overlapped on it, an answer was lost or a manager set it by hand.       *)
THEOREM RowsAgree == Spec => []Agreement
<1>1. RowsInv => Agreement
  BY DEF RowsInv, RowTrue, Shows, Agreement
<1> QED
  BY <1>1, RowsFitMarketplace, PTL

=============================================================================
