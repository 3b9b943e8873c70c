---------------------------- MODULE PushDelivery ----------------------------
(***************************************************************************)
(* Push notifications of one user (apps/notifications): the task           *)
(* send_notification_push walks over the user's active devices, claims one *)
(* PushDelivery row per device, calls Firebase and records the answer; the *)
(* beat task recover_stale_push_deliveries returns abandoned claims.       *)
(* Messages are acknowledged after the task, so a message is delivered     *)
(* again when its worker dies, and two tasks of one notification overlap.  *)
(***************************************************************************)
EXTENDS Naturals, FiniteSets

CONSTANTS
  Notes,        \* notifications of the user
  Devices,      \* device tokens the user has ever registered
  Workers,      \* worker processes of the notifications queue
  MaxAttempts,  \* PUSH_NOTIFICATION_MAX_ATTEMPTS
  MaxFaults,    \* bound on device (de)registrations, dying workers, aborted
                \* tasks, lost Firebase answers and broker failures together
  None

ASSUME AttemptsAssumption == MaxAttempts \in Nat \ {0}
ASSUME BoundsAssumption == MaxFaults \in Nat
ASSUME NoneAssumption == None \notin Devices /\ None \notin Notes

VARIABLES
  notes,    \* notifications created so far
  active,   \* devices that are registered to the user and active
  status,   \* status[n][d] of the PushDelivery row
  stale,    \* deliveries whose last_attempt_at is older than the lease
  queue,    \* queue[n][k]: messages of n with k retries used
  wrk       \* what each worker is doing

(* Bounded quantities and history: faults counts; accepted[n][d]  *)
(* is how often Firebase accepted n for d; doubts[n][d] how often it did   *)
(* so without the system recording it; forsaken holds the deliveries whose *)
(* device left, or whose message ended in an error with rows left to do.   *)
VARIABLES faults, accepted, doubts, forsaken

hist == <<faults, accepted, doubts, forsaken>>
vars == <<notes, active, status, stale, queue, wrk, hist>>

-----------------------------------------------------------------------------
Statuses == {"absent", "pending", "processing", "sent", "failed", "invalid"}
Final    == {"sent", "failed", "invalid"}
Retries  == 0 .. MaxAttempts - 1

(* todo: devices read and not yet visited; again: retryable_delivery_ids.  *)
Task == [pc : {"walk", "send", "record", "retire", "ack"}, note : Notes,
         retries : Retries, todo : SUBSET Devices, again : SUBSET Devices,
         dev : Devices \cup {None}, answer : {"ok", "unregistered", "error"}]
Idle == [pc |-> "idle"]

Busy(w)      == wrk[w] # Idle
Holds(w)     == IF Busy(w) /\ wrk[w].pc \in {"send", "record", "retire"}
                THEN {<<wrk[w].note, wrk[w].dev>>} ELSE {}
Put(q, n, k) == [q EXCEPT ![n][k] = @ + 1]

Init ==
  /\ notes = {} /\ active \in SUBSET Devices
  /\ status = [n \in Notes |-> [d \in Devices |-> "absent"]]
  /\ stale = {}
  /\ queue = [n \in Notes |-> [k \in Retries |-> 0]]
  /\ wrk = [w \in Workers |-> Idle]
  /\ faults = 0 /\ forsaken = {}
  /\ accepted = [n \in Notes |-> [d \in Devices |-> 0]]
  /\ doubts = [n \in Notes |-> [d \in Devices |-> 0]]

-----------------------------------------------------------------------------
(* The application.  An on_commit hook whose delay() cannot reach the      *)
(* broker leaves the committed rows without a message.                     *)

Register(d) ==
  /\ faults < MaxFaults /\ d \notin active
  /\ active' = active \cup {d} /\ faults' = faults + 1
  /\ UNCHANGED <<notes, status, stale, queue, wrk, accepted, doubts, forsaken>>

(* Logout, or another account registers the token of this device.          *)
Deactivate(d) ==
  /\ faults < MaxFaults /\ d \in active
  /\ active' = active \ {d} /\ faults' = faults + 1
  /\ forsaken' = forsaken \cup (Notes \X {d})
  /\ UNCHANGED <<notes, status, stale, queue, wrk, accepted, doubts>>

CreateNotification(n) ==
  /\ n \notin notes
  /\ notes' = notes \cup {n}
  /\ \/ queue' = Put(queue, n, 0) /\ UNCHANGED <<faults, forsaken>>
     \/ /\ faults < MaxFaults /\ faults' = faults + 1
        /\ forsaken' = forsaken \cup ({n} \X Devices)
        /\ UNCHANGED queue
  /\ UNCHANGED <<active, status, stale, wrk, accepted, doubts>>

-----------------------------------------------------------------------------
(* The task.                                                               *)

Receive(w) == \E n \in Notes, k \in Retries :
  /\ ~Busy(w) /\ queue[n][k] > 0
  /\ queue' = [queue EXCEPT ![n][k] = @ - 1]
  /\ wrk' = IF active = {} THEN wrk   \* skipped: no_active_device_tokens
            ELSE [wrk EXCEPT ![w] = [pc |-> "walk", note |-> n, retries |-> k,
                    todo |-> active, again |-> {}, dev |-> None, answer |-> "ok"]]
  /\ UNCHANGED <<notes, active, status, stale, hist>>

(* Faulty: a redelivered message takes over a fresh PROCESSING row too.     *)
RefusedFinalOnly(n, d) == status[n][d] \in Final

(* _claim_push_delivery refuses a finished row and a fresh claim.          *)
Refused(n, d) == \/ status[n][d] \in Final
                 \/ status[n][d] = "processing" /\ <<n, d>> \notin stale

Visit(w) == \E d \in Devices :
  /\ Busy(w) /\ wrk[w].pc = "walk" /\ d \in wrk[w].todo
  /\ LET n == wrk[w].note IN
     IF Refused(n, d)
     THEN /\ wrk' = [wrk EXCEPT ![w].todo = @ \ {d}]
          /\ UNCHANGED <<status, stale>>
     ELSE /\ status' = [status EXCEPT ![n][d] = "processing"]
          /\ stale' = stale \ {<<n, d>>}
          /\ wrk' = [wrk EXCEPT ![w].todo = @ \ {d}, ![w].dev = d, ![w].pc = "send"]
  /\ UNCHANGED <<notes, active, queue, hist>>

(* messaging.send: an exception does not tell whether Firebase accepted.   *)
Send(w) == \E answer \in {"ok", "unregistered", "error"}, took \in BOOLEAN :
  /\ Busy(w) /\ wrk[w].pc = "send"
  /\ answer = "ok" => took
  /\ answer = "unregistered" => ~took
  /\ (answer = "error" /\ took) => faults < MaxFaults
  /\ wrk' = [wrk EXCEPT ![w].pc = "record", ![w].answer = answer]
  /\ LET n == wrk[w].note  d == wrk[w].dev IN
     /\ accepted' = IF took THEN [accepted EXCEPT ![n][d] = @ + 1] ELSE accepted
     /\ IF answer = "error" /\ took
        THEN doubts' = [doubts EXCEPT ![n][d] = @ + 1] /\ faults' = faults + 1
        ELSE UNCHANGED <<doubts, faults>>
  /\ UNCHANGED <<notes, active, status, stale, queue, forsaken>>

(* The rows are updated by primary key, whatever their status is by then.  *)
Record(w) ==
  /\ Busy(w) /\ wrk[w].pc = "record"
  /\ LET n == wrk[w].note  d == wrk[w].dev IN
     CASE wrk[w].answer = "ok" ->
            /\ status' = [status EXCEPT ![n][d] = "sent"]
            /\ wrk' = [wrk EXCEPT ![w].pc = "walk", ![w].dev = None]
            /\ UNCHANGED <<active, forsaken>>
       [] wrk[w].answer = "error" ->
            /\ status' = [status EXCEPT ![n][d] = "pending"]
            /\ wrk' = [wrk EXCEPT ![w].pc = "walk", ![w].dev = None,
                                  ![w].answer = "ok", ![w].again = @ \cup {d}]
            /\ UNCHANGED <<active, forsaken>>
       [] wrk[w].answer = "unregistered" ->
            /\ active' = active \ {d}
            /\ forsaken' = forsaken \cup (Notes \X {d})
            /\ wrk' = [wrk EXCEPT ![w].pc = "retire"]
            /\ UNCHANGED status
  /\ UNCHANGED <<notes, stale, queue, faults, accepted, doubts>>

Retire(w) ==
  /\ Busy(w) /\ wrk[w].pc = "retire"
  /\ status' = [status EXCEPT ![wrk[w].note][wrk[w].dev] = "invalid"]
  /\ wrk' = [wrk EXCEPT ![w].pc = "walk", ![w].dev = None, ![w].answer = "ok"]
  /\ UNCHANGED <<notes, active, stale, queue, hist>>

(* Faulty: the last attempt fails its rows whatever their status is now.   *)
FinishBlind(w) ==
  /\ Busy(w) /\ wrk[w].pc = "walk" /\ wrk[w].todo = {}
  /\ LET n == wrk[w].note  k == wrk[w].retries IN
     IF wrk[w].again # {} /\ k < MaxAttempts - 1
     THEN queue' = Put(queue, n, k + 1) /\ UNCHANGED status
     ELSE /\ status' = [status EXCEPT ![n] = [d \in Devices |->
                IF d \in wrk[w].again THEN "failed" ELSE @[d]]]
          /\ UNCHANGED queue
  /\ wrk' = [wrk EXCEPT ![w].pc = "ack", ![w].again = {}]
  /\ UNCHANGED <<notes, active, stale, hist>>

(* The end of the task: a retry is published before the message is         *)
(* acknowledged; after the last retry the rows still PENDING are FAILED.   *)
Finish(w) ==
  /\ Busy(w) /\ wrk[w].pc = "walk" /\ wrk[w].todo = {}
  /\ LET n == wrk[w].note  k == wrk[w].retries IN
     IF wrk[w].again # {} /\ k < MaxAttempts - 1
     THEN queue' = Put(queue, n, k + 1) /\ UNCHANGED status
     ELSE /\ status' = [status EXCEPT ![n] = [d \in Devices |->
                IF d \in wrk[w].again /\ @[d] = "pending" THEN "failed" ELSE @[d]]]
          /\ UNCHANGED queue
  /\ wrk' = [wrk EXCEPT ![w].pc = "ack", ![w].again = {}]
  /\ UNCHANGED <<notes, active, stale, hist>>

Acknowledge(w) ==
  /\ Busy(w) /\ wrk[w].pc = "ack"
  /\ wrk' = [wrk EXCEPT ![w] = Idle]
  /\ UNCHANGED <<notes, active, status, stale, queue, hist>>

-----------------------------------------------------------------------------
(* Faults.                                                                 *)

Unrecorded(w) == wrk[w].pc = "record" /\ wrk[w].answer = "ok"
Doubted(w) == IF Unrecorded(w) THEN [doubts EXCEPT ![wrk[w].note][wrk[w].dev] = @ + 1]
              ELSE doubts

(* acks_late and reject_on_worker_lost: the message is delivered again.    *)
WorkerLost(w) ==
  /\ Busy(w) /\ faults < MaxFaults
  /\ queue' = Put(queue, wrk[w].note, wrk[w].retries)
  /\ doubts' = Doubted(w)
  /\ wrk' = [wrk EXCEPT ![w] = Idle] /\ faults' = faults + 1
  /\ UNCHANGED <<notes, active, status, stale, accepted, forsaken>>

(* A database error, the soft limit outside the Firebase call or the hard  *)
(* limit ends the task, and its message is acknowledged.  The sweep finds  *)
(* a row left PROCESSING, never those left PENDING or not yet created.     *)
Abort(w) ==
  /\ Busy(w) /\ wrk[w].pc # "ack" /\ faults < MaxFaults
  /\ doubts' = Doubted(w)
  /\ forsaken' = forsaken \cup ({wrk[w].note} \X (wrk[w].todo \cup wrk[w].again))
  /\ wrk' = [wrk EXCEPT ![w] = Idle] /\ faults' = faults + 1
  /\ UNCHANGED <<notes, active, status, stale, queue, accepted>>

(* Faulty: the lease is shorter than a task may run.                       *)
AgeUnderWorker(n, d) ==
  /\ status[n][d] = "processing" /\ <<n, d>> \notin stale
  /\ stale' = stale \cup {<<n, d>>}
  /\ UNCHANGED <<notes, active, status, queue, wrk, hist>>

(* A claim ages past the lease.  The time limit of the task (90 s) is      *)
(* below the lease (120 s): no live worker holds a claim that old.         *)
Age(n, d) ==
  /\ status[n][d] = "processing" /\ <<n, d>> \notin stale
  /\ \A w \in Workers : <<n, d>> \notin Holds(w)
  /\ stale' = stale \cup {<<n, d>>}
  /\ UNCHANGED <<notes, active, status, queue, wrk, hist>>

(* One notification of recover_stale_push_deliveries.                      *)
Abandoned(n) == {d \in Devices : status[n][d] = "processing" /\ <<n, d>> \in stale}

(* Faulty: the sweep reopens the rows and sends no message.                *)
RecoverSilently(n) ==
  /\ Abandoned(n) # {}
  /\ status' = [status EXCEPT ![n] = [d \in Devices |->
                  IF d \in Abandoned(n) THEN "pending" ELSE @[d]]]
  /\ stale' = stale \ ({n} \X Abandoned(n))
  /\ UNCHANGED <<notes, active, queue, wrk, hist>>

Recover(n) ==
  /\ Abandoned(n) # {}
  /\ status' = [status EXCEPT ![n] = [d \in Devices |->
                  IF d \in Abandoned(n) THEN "pending" ELSE @[d]]]
  /\ stale' = stale \ ({n} \X Abandoned(n))
  /\ \/ queue' = Put(queue, n, 0) /\ UNCHANGED <<faults, forsaken>>
     \/ /\ faults < MaxFaults /\ faults' = faults + 1
        /\ forsaken' = forsaken \cup ({n} \X Devices)
        /\ UNCHANGED queue
  /\ UNCHANGED <<notes, active, wrk, accepted, doubts>>

-----------------------------------------------------------------------------
Work(w) == Receive(w) \/ Visit(w) \/ Send(w) \/ Record(w) \/ Retire(w)
           \/ Finish(w) \/ Acknowledge(w)

Next ==
  \/ \E d \in Devices : Register(d) \/ Deactivate(d)
  \/ \E n \in Notes : CreateNotification(n) \/ Recover(n)
  \/ \E n \in Notes, d \in Devices : Age(n, d)
  \/ \E w \in Workers : Work(w) \/ WorkerLost(w) \/ Abort(w)

(* Workers keep taking messages and finish their steps; time passes; the   *)
(* beat keeps running the sweep.  Faults and users owe nothing.            *)
Fairness ==
  /\ \A w \in Workers : WF_vars(Work(w))
  /\ \A n \in Notes : WF_vars(Recover(n))
  /\ \A n \in Notes, d \in Devices : WF_vars(Age(n, d))

Spec == Init /\ [][Next]_vars /\ Fairness

-----------------------------------------------------------------------------
(* Every row, message and task has its shape, and a claim is only stale    *)
(* while the row says PROCESSING.                                          *)
TypeOK ==
  /\ notes \subseteq Notes /\ active \subseteq Devices
  /\ status \in [Notes -> [Devices -> Statuses]]
  /\ stale \subseteq {c \in Notes \X Devices : status[c[1]][c[2]] = "processing"}
  /\ queue \in [Notes -> [Retries -> Nat]]
  /\ wrk \in [Workers -> Task \cup {Idle}]
  /\ faults \in Nat /\ forsaken \subseteq Notes \X Devices
  /\ accepted \in [Notes -> [Devices -> Nat]] /\ doubts \in [Notes -> [Devices -> Nat]]

(* A claim of a live worker is PROCESSING, fresh, and nobody else's.       *)
ClaimsHeld == \A w \in Workers : \A c \in Holds(w) :
  /\ status[c[1]][c[2]] = "processing" /\ c \notin stale
  /\ \A v \in Workers \ {w} : c \notin Holds(v)

(* "Sends each push once per device": whatever is redelivered, retried or  *)
(* recovered, Firebase accepts a push for a device a second time only      *)
(* after an acceptance that it did not report or the worker did not live   *)
(* to record.                                                              *)
NoNeedlessRepeat == \A n \in Notes, d \in Devices :
  accepted[n][d] <= 1 + doubts[n][d]

(* A delivery that is SENT, FAILED or INVALID is never reopened, neither   *)
(* by an overlapping task's update by primary key nor by the sweep.        *)
FinalStays == [][\A n \in Notes, d \in Devices :
  status[n][d] \in Final => status'[n][d] = status[n][d]]_vars

(* Every delivery row that is created settles, unless its device left or   *)
(* its message was ended by an error that no retry follows.                *)
Settles == \A n \in Notes, d \in Devices :
  status[n][d] \in {"pending", "processing"}
    ~> (status[n][d] \in Final \/ <<n, d>> \in forsaken)

=============================================================================
