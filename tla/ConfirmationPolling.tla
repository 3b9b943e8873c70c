------------------------- MODULE ConfirmationPolling -------------------------
(***************************************************************************)
(* Listings that wait for OTTO or Kaufland to confirm an operation         *)
(* (apps/orchestrator/tasks.py). Jobs end with the HTTP answer now, so     *)
(* these are jobs of an earlier version, in pending_confirmation, and the  *)
(* delayed messages that poll for them. Each poll loads the publication    *)
(* and its job, asks the marketplace, writes its verdict to the            *)
(* publication, and then saves the job from the copy it loaded. The sweep  *)
(* sends a lost poll again, or gives the listing up.                       *)
(***************************************************************************)
EXTENDS Listing

CONSTANTS
  Targets,      \* the publications of one job
  Workers,      \* number of worker processes
  Ops,          \* operations the job may be about
  MaxAttempts,  \* *_MAX_POLL_ATTEMPTS
  MaxFaults     \* bound on lost messages, dying workers and the sweeps that
                \* poll again

ASSUME TargetAssumption  == Targets \subseteq {t \in AllTargets : t.market # "hood"}
ASSUME OpAssumption      == Ops \subseteq PublicationOps
ASSUME BoundsAssumption  ==
  MaxAttempts \in Nat \ {0} /\ Workers \in Nat /\ MaxFaults \in Nat

VARIABLES
  pub,       \* pub[t]: the row; reference: OTTO's process;
             \* probed: last_response tells a marketplace status
  job,       \* the job: operation, status, and the results of its targets
  spent,     \* targets whose EAN code is consumed
  real,      \* real[t]: what goes on at the marketplace
  late,      \* the job has waited for as long as all attempts take
  messages,  \* messages[t]: polls to be delivered
  polls,     \* the polls that workers run
  sweep,     \* rows the sweep loaded and has not looked at yet
  refresh,   \* rows that a refresh of active listings loaded before the job
  faults
VARIABLE
  disturbed  \* history: two of the job's polls overlapped, or one died

pollingVars == <<pub, job, spent, real, late, messages, polls, sweep, refresh,
                 faults, disturbed>>

-----------------------------------------------------------------------------
Results == {"none", "waiting", "ok", "failed"}
Copy    == [Targets -> Results]
JobRow  == [op : Ops, results : Copy,
            status : {"pending", "succeeded", "failed", "partial"}]

Row     == [row : Publication, reference : BOOLEAN, probed : BOOLEAN]
Message == [kind : {"process", "status"}, n : 1 .. MaxAttempts]

(* What a poll holds between its steps: the job's results as it loaded     *)
(* them, the answer, and what it is going to write for its target.  Polls  *)
(* that hold the same are taken for one.                                   *)
Poll  == [pc : {"mark"}, t : Targets, m : Message, copy : Copy,
          answer : {"pending", "done", "ok", "failed"}]
         \cup [pc : {"save"}, t : Targets, m : Message, copy : Copy, result : Results]

(* The operations that were confirmed by polling, and the targets whose    *)
(* row says that they wait.                                                *)
Awaits(t, op) == op \in IF t.market = "otto"
                        THEN {"publish", "update", "activate", "deactivate"}
                        ELSE {"publish", "update", "delete"}
Waiting(t)    == pub[t].row.status \in IF t.market = "otto"
                                       THEN {"publishing", "deactivating"}
                                       ELSE {"publishing", "deleting"}

(* A job only waits because one of its targets does.                       *)
ASSUME AwaitedAssumption == \A op \in Ops : \E t \in Targets : Awaits(t, op)

Polled       == {t \in Targets : Awaits(t, job.op)}
Quiet        == polls = {} /\ sweep = {}

(* The poll a row is waiting for: needs_process_poll.                      *)
FirstPoll(t) ==
  [n |-> 1, kind |-> IF t.market = "otto" /\ pub[t].reference /\ ~pub[t].probed
                     THEN "process" ELSE "status"]

(* _refresh_job_status                                                     *)
JobStatus(results) ==
  LET own == {results[t] : t \in Targets} \ {"none"} IN
  IF "waiting" \in own THEN "pending"
  ELSE IF own = {"ok"} THEN "succeeded"
  ELSE IF "ok" \notin own THEN "failed" ELSE "partial"

(* An update is about a listing that is online, so its confirmation shows  *)
(* from the start.                                                         *)
Before(op) == CASE op = "publish"  -> "pending"
                [] op = "activate" -> "deactivated"
                [] OTHER           -> "active"
AtRest(op) == [status |-> Before(op), before |-> "", published |-> op # "publish"]

PollingInit ==
  /\ job \in {[op |-> op, status |-> "pending",
               results |-> [t \in Targets |-> IF Awaits(t, op) THEN "waiting" ELSE "none"]]
                : op \in Ops}
  /\ \E with \in SUBSET {t \in Targets : t.market = "otto"} :
       pub = [t \in Targets |-> [row |-> Begun(AtRest(job.op), job.op),
                                 reference |-> t \in with, probed |-> FALSE]]
  /\ spent = IF job.op = "publish" THEN {} ELSE Targets
  /\ real = [t \in Targets |-> [process |-> "running", shown |-> job.op = "update"]]
  /\ messages = [t \in Targets |-> IF t \in Polled THEN {FirstPoll(t)} ELSE {}]
  /\ late = FALSE /\ sweep = {} /\ polls = {}
  /\ refresh \in SUBSET {t \in Targets : pub[t].row.before = "active"}
  /\ faults = 0 /\ disturbed = FALSE

Fault == faults < MaxFaults /\ faults' = faults + 1

-----------------------------------------------------------------------------
(* The marketplace: OTTO processes a request or refuses it, and shows what *)
(* was processed some time, or never; Kaufland shows or blocks it.         *)
Process(t) ==
  /\ t \in Polled /\ real[t].process = "running"
  /\ \E end \in IF t.market = "otto" THEN {"done", "refused"} ELSE {"refused"} :
       real' = [real EXCEPT ![t].process = end]
  /\ UNCHANGED <<pub, job, spent, late, messages, polls, sweep, refresh, faults, disturbed>>

Show(t) ==
  /\ t \in Polled /\ ~real[t].shown
  /\ real[t].process = IF t.market = "otto" THEN "done" ELSE "running"
  /\ real' = [real EXCEPT ![t].shown = TRUE]
  /\ UNCHANGED <<pub, job, spent, late, messages, polls, sweep, refresh, faults, disturbed>>

(* get_otto_process_result asks for the process; the others judge what is  *)
(* shown.  A request that fails tells nothing: see Load.                   *)
ProcessResult(t)   == CASE real[t].process = "running" -> "pending"
                        [] real[t].process = "refused" -> "failed"
                        [] OTHER                       -> "done"
OttoConfirmed(t)   == IF real[t].shown THEN "ok" ELSE "pending"
KauflandOutcome(t) == IF job.op # "delete" /\ real[t].process = "refused" THEN "failed"
                      ELSE IF real[t].shown THEN "ok" ELSE "pending"

Told(kind, t) ==
  CASE kind = "process"                           -> ProcessResult(t)
    [] kind = "status" /\ t.market = "otto"       -> OttoConfirmed(t)
    [] kind = "status" /\ t.market = "kaufland"   -> KauflandOutcome(t)

-----------------------------------------------------------------------------
(* check_otto_publication_process, check_otto_marketplace_status and       *)
(* check_kaufland_product_status up to their answer: a row that does not   *)
(* wait is left alone.                                                     *)
Load(t, m) == \E heard \in BOOLEAN :
  /\ Cardinality(polls) < Workers /\ m \in messages[t]
  /\ messages' = [messages EXCEPT ![t] = @ \ {m}]
  /\ IF ~Waiting(t) \/ (m.kind = "process" /\ ~pub[t].reference)
     THEN UNCHANGED <<polls, disturbed>>
     ELSE /\ polls' = polls \cup
               {[pc |-> "mark", t |-> t, m |-> m, copy |-> job.results,
                 answer |-> IF heard THEN Told(m.kind, t) ELSE "pending"]}
          /\ disturbed' = (disturbed \/ ~Quiet)
  /\ UNCHANGED <<pub, job, spent, real, late, sweep, refresh, faults>>

Marked(t, row) == pub' = [pub EXCEPT ![t].row = row, ![t].probed = pub[t].reference]
GoSave(l, r)   == polls' = (polls \ {l}) \cup
                    {[pc |-> "save", t |-> l.t, m |-> l.m, copy |-> l.copy, result |-> r]}
End(l)         == polls' = polls \ {l}
Send(t, m)     == messages' = [messages EXCEPT ![t] = @ \cup {m}]

(* Nothing is confirmed yet: the poll is sent again.  A status poll stores *)
(* what it saw, a process poll nothing.                                    *)
PollAgain(l) ==
  /\ l.pc = "mark" /\ l.answer = "pending" /\ l.m.n < MaxAttempts
  /\ Send(l.t, [l.m EXCEPT !.n = @ + 1])
  /\ IF l.m.kind = "status" THEN Marked(l.t, pub[l.t].row) ELSE UNCHANGED pub
  /\ End(l)
  /\ UNCHANGED <<job, spent, real, late, sweep, refresh, faults, disturbed>>

(* The process succeeded: the listing still has to show.                   *)
KeepWaiting(l) ==
  /\ l.pc = "mark" /\ l.answer = "done"
  /\ Marked(l.t, pub[l.t].row) /\ GoSave(l, "waiting")
  /\ UNCHANGED <<job, spent, real, late, messages, sweep, refresh, faults, disturbed>>

(* Faulty: the code is spent by every operation but the first publication. *)
ConfirmUnspent(l) ==
  /\ l.pc = "mark" /\ l.answer = "ok"
  /\ Marked(l.t, Succeeded(pub[l.t].row, job.op)) /\ GoSave(l, "ok")
  /\ spent' = IF FirstSuccess(pub[l.t].row, job.op) THEN spent ELSE spent \cup {l.t}
  /\ UNCHANGED <<job, real, late, messages, sweep, refresh, faults, disturbed>>

(* mark_publication_succeeded, with consume_ean_code in its transaction    *)
Confirm(l) ==
  /\ l.pc = "mark" /\ l.answer = "ok"
  /\ Marked(l.t, Succeeded(pub[l.t].row, job.op)) /\ GoSave(l, "ok")
  /\ spent' = IF job.op = "publish" /\ FirstSuccess(pub[l.t].row, job.op)
              THEN spent \cup {l.t} ELSE spent
  /\ UNCHANGED <<job, real, late, messages, sweep, refresh, faults, disturbed>>

(* mark_publication_failed, which does not look at the status it replaces: *)
(* refused, or asked too often.                                            *)
GiveUp(l) ==
  /\ l.pc = "mark"
  /\ l.answer = "failed" \/ (l.answer = "pending" /\ l.m.n = MaxAttempts)
  /\ Marked(l.t, Failed(pub[l.t].row, job.op)) /\ GoSave(l, "failed")
  /\ UNCHANGED <<job, spent, real, late, messages, sweep, refresh, faults, disturbed>>

(* _set_job_target_result on the copy, _refresh_job_status, and for a      *)
(* listing that still has to show, the first status poll.                  *)
Saved(copy, t, r) ==
  LET results == [copy EXCEPT ![t] = r]
  IN  job' = [job EXCEPT !.results = results, !.status = JobStatus(results)]

SaveJob(l) ==
  /\ l.pc = "save"
  /\ Saved(l.copy, l.t, l.result)
  /\ IF l.result = "waiting" THEN Send(l.t, [kind |-> "status", n |-> 1])
     ELSE UNCHANGED messages
  /\ End(l)
  /\ UNCHANGED <<pub, spent, real, late, sweep, refresh, faults, disturbed>>

-----------------------------------------------------------------------------
(* A delayed message disappears when a worker restarts.                    *)
Lose(t) ==
  /\ Fault /\ \E m \in messages[t] : messages' = [messages EXCEPT ![t] = @ \ {m}]
  /\ UNCHANGED <<pub, job, spent, real, late, polls, sweep, refresh, disturbed>>

(* A worker dies in a poll, and the message is delivered again.            *)
DieInPoll(l) ==
  /\ Fault
  /\ Send(l.t, l.m) /\ End(l)
  /\ disturbed' = (disturbed \/ l.pc = "save")
  /\ UNCHANGED <<pub, job, spent, real, late, sweep, refresh>>

(* *_MAX_POLL_ATTEMPTS poll intervals pass.                                *)
TooLate ==
  /\ ~late /\ late' = TRUE
  /\ UNCHANGED <<pub, job, spent, real, messages, polls, sweep, refresh, faults, disturbed>>

(* Faulty: only what has not been polled at all is recovered.              *)
SweepStartFresh(market) ==
  /\ sweep = {} /\ job.status = "pending"
  /\ IF late THEN UNCHANGED faults ELSE Fault
  /\ sweep' = {[t |-> t, copy |-> job.results, again |-> FirstPoll(t)] :
                  t \in {u \in Targets : u.market = market /\ Waiting(u) /\ ~pub[u].probed}}
  /\ sweep' # {}
  /\ disturbed' = (disturbed \/ polls # {} \/ Cardinality(sweep') > 1)
  /\ UNCHANGED <<pub, job, spent, real, late, messages, polls, refresh>>

(* recover_stale_orchestrator_jobs, once for OTTO and once for Kaufland:   *)
(* it loads rows of a pending job that were not saved for some time, each  *)
(* with a copy of the job.                                                 *)
SweepStart(market) ==
  /\ sweep = {} /\ job.status = "pending"
  /\ IF late THEN UNCHANGED faults ELSE Fault
  /\ sweep' = {[t |-> t, copy |-> job.results, again |-> FirstPoll(t)] :
                  t \in {u \in Targets : u.market = market /\ Waiting(u)}}
  /\ sweep' # {}
  /\ disturbed' = (disturbed \/ polls # {} \/ Cardinality(sweep') > 1)
  /\ UNCHANGED <<pub, job, spent, real, late, messages, polls, refresh>>

(* A row of a late job is failed, whatever became of it since it was       *)
(* loaded; otherwise it is polled again from the first attempt.            *)
SweepFails == \E r \in sweep :
  /\ late /\ sweep' = sweep \ {r}
  /\ Marked(r.t, Failed(pub[r.t].row, job.op))
  /\ Saved(r.copy, r.t, "failed")
  /\ UNCHANGED <<spent, real, late, messages, polls, faults, disturbed, refresh>>

SweepRequeues == \E r \in sweep :
  /\ ~late /\ sweep' = sweep \ {r} /\ Send(r.t, r.again)
  /\ UNCHANGED <<pub, job, spent, real, late, polls, faults, disturbed, refresh>>

(* refresh_otto_marketplace_statuses, refresh_kaufland_product_statuses:   *)
(* rows loaded while active get the status in their last response, which   *)
(* the sweep then takes for the answer of a poll.                          *)
Refresh(t) ==
  /\ t \in refresh /\ refresh' = refresh \ {t}
  /\ Marked(t, pub[t].row)
  /\ UNCHANGED <<job, spent, real, late, messages, polls, sweep, faults, disturbed>>

-----------------------------------------------------------------------------
Run(l) == PollAgain(l) \/ KeepWaiting(l) \/ Confirm(l) \/ GiveUp(l) \/ SaveJob(l)
Sweep  == SweepFails \/ SweepRequeues

PollingNext ==
  \/ \E t \in Targets : Process(t) \/ Show(t) \/ Lose(t) \/ Refresh(t)
  \/ \E t \in Targets, m \in Message : Load(t, m)
  \/ \E l \in polls : Run(l) \/ DieInPoll(l)
  \/ \E market \in {"otto", "kaufland"} : SweepStart(market)
  \/ Sweep \/ TooLate

(* Time passes, the beat runs the sweep and workers the polls they began;  *)
(* messages may be lost, and a marketplace owes nothing.                   *)
Fairness ==
  /\ WF_pollingVars(TooLate) /\ WF_pollingVars(Sweep)
  /\ \A market \in {"otto", "kaufland"} : WF_pollingVars(SweepStart(market))
  /\ WF_pollingVars(\E l \in polls : Run(l))

PollingSpec == PollingInit /\ [][PollingNext]_pollingVars /\ Fairness

-----------------------------------------------------------------------------
(* The rows, jobs, messages and polls are well formed, and no more polls   *)
(* run than there are workers.                                             *)
PollingTypeOK ==
  /\ pub \in [Targets -> Row] /\ job \in JobRow
  /\ spent \subseteq Targets /\ late \in BOOLEAN
  /\ real \in [Targets -> [process : {"running", "done", "refused"}, shown : BOOLEAN]]
  /\ messages \in [Targets -> SUBSET Message]
  /\ polls \subseteq Poll /\ Cardinality(polls) <= Workers
  /\ sweep \subseteq [t : Targets, copy : Copy, again : Message]
  /\ refresh \subseteq Targets /\ faults \in Nat /\ disturbed \in BOOLEAN

(* The polls of a job are honest however they overlap, die and repeat: a   *)
(* result "ok" and a success are only for what the marketplace shows, an   *)
(* open job still has a result to wait for and a closed one none, and a    *)
(* listing that was published has spent its code.                          *)
Honest ==
  /\ \A t \in Polled :
       /\ job.results[t] = "ok" => real[t].shown
       /\ job.status # "pending" => ~Waiting(t)
       /\ pub[t].row.published => t \in spent
  /\ job.status = "succeeded" => \A t \in Polled : real[t].shown
  /\ job.status = "pending" <=> \E t \in Polled : job.results[t] = "waiting"

(* When no polls of the job overlapped and none died halfway, job and      *)
(* publications tell the same once they are all done.                      *)
Agreement ==
  (Quiet /\ ~disturbed) => \A t \in Polled :
    /\ job.results[t] = "waiting" <=> Waiting(t)
    /\ job.results[t] = "ok"      => pub[t].row.status = StatusAfterSuccess(job.op)
    /\ job.results[t] = "failed"  => pub[t].row.status = IF job.op = "publish" THEN "failed"
                                                         ELSE Before(job.op)

PollingConsistent == PollingTypeOK /\ Honest /\ Agreement

(* "so status does not stick on publishing forever": a listing that waits  *)
(* is confirmed or failed in the end, whatever messages are lost, and the  *)
(* job then closes unless its polls overlapped or died.                    *)
WaitingEnds ==
  []<>((\A t \in Targets : ~Waiting(t)) /\ (job.status = "pending" => disturbed))
=============================================================================
