--------------------------- MODULE ImageProcessing --------------------------
(***************************************************************************)
(* The photos of one approved product and the AI images made from its      *)
(* cover (apps/products, apps/notifications/tasks.py): a manager requests  *)
(* a generation; process_product_image claims it, calls the white-image    *)
(* service or, for a set, Gemini; check_product_image_generation polls the *)
(* service, claims the finalization and downloads the files; a beat task   *)
(* recovers claims older than the lease.  Sellers and managers edit the    *)
(* gallery meanwhile.                                                      *)
(***************************************************************************)
EXTENDS Gallery

CONSTANTS
  Photos,       \* ids of ProductImage rows, each used once
  Cover,        \* the photo the product was created with
  Workers,      \* worker processes of the images queue
  Modes,        \* required_modes
  WhiteMode,    \* the one the XL cover is made from
  XlMode,       \* the XL cover's own mode
  MaxRequests,  \* bound on generation requests
  MaxPolls,     \* BULK_WHITE_IMAGE_SERVICE_MAX_POLL_ATTEMPTS
  MaxFaults,    \* bound on dying workers, aborted tasks and locked rows
  MaxWaiting,   \* bound on a photo's waiting messages when the sweep adds one
  MaxEdits      \* bound on edits of the gallery and of generated images

ASSUME CoverAssumption == Cover \in Photos
ASSUME ModesAssumption == WhiteMode \in Modes /\ XlMode \notin Modes
ASSUME BoundsAssumption == /\ MaxRequests \in Nat /\ MaxPolls \in Nat \ {0}
                           /\ MaxFaults \in Nat /\ MaxEdits \in Nat
                           /\ MaxWaiting \in Nat \ {0}

VARIABLES
  gallery,   \* the photo rows
  xl,        \* xl[p]: xl_cover_status
  proc,      \* proc[p]: processing_status, external id, provider, lease
  files,     \* files[p]: the modes whose generated image is stored
  isSet,     \* does the product have set parts?
  queue,     \* how many copies of each message wait
  wrk        \* what each worker is doing

(* Bounded quantities and history: requests made, generations the provider *)
(* was paid for, faults, edits.                                            *)
VARIABLES requests, gens, faults, edits

hist == <<requests, gens, faults, edits>>
vars == <<gallery, xl, proc, files, isSet, queue, wrk, hist>>

-----------------------------------------------------------------------------
Statuses == {"idle", "pending", "processing", "result_received", "succeeded", "failed"}
Gens     == 0 .. MaxRequests

(* ext: payload.product_id in processing_result, 0 when it has none (after *)
(* the final claim: the product_id of the received result);                *)
(* gemini: provider "gemini_set"; fresh: processing_claimed_at in lease.   *)
Processing == [status : Statuses, ext : Gens, gemini : BOOLEAN, fresh : BOOLEAN]
NewPhoto   == [status |-> "idle", ext |-> 0, gemini |-> FALSE, fresh |-> FALSE]

Attempts == 1 .. MaxPolls + 1
Messages == [task : {"process"}, photo : Photos, ext : {0}, attempt : {0}]
            \cup [task : {"xl"}, photo : Photos, ext : {0}, attempt : {0}]
            \cup [task : {"check"}, photo : Photos, ext : Gens \ {0}, attempt : Attempts]
ProcessMsg(p)     == [task |-> "process", photo |-> p, ext |-> 0, attempt |-> 0]
XlMsg(p)          == [task |-> "xl", photo |-> p, ext |-> 0, attempt |-> 0]
CheckMsg(p, g, a) == [task |-> "check", photo |-> p, ext |-> g, attempt |-> a]
Put(q, m)  == [q EXCEPT ![m] = @ + 1]
Out(q, m) == [q EXCEPT ![m] = @ - 1]

(* pc: call | gemini | save | schedule (process); poll | safety (check);   *)
(* store | finish (both); xl | xl_stored (XL cover).  gen: the generation  *)
(* whose result the task holds; todo: modes not yet stored; received:      *)
(* current_status was RESULT_RECEIVED.  The answer of a provider or a poll *)
(* and the task's reaction to it are one step.                             *)
Task == [pc : {"call", "gemini", "save", "schedule", "poll", "safety",
               "store", "finish", "xl", "xl_stored"},
         msg : Messages, gen : Gens, todo : SUBSET Modes, received : BOOLEAN]
Idle == [pc |-> "idle"]

Busy(w)     == wrk[w] # Idle
At(w, pc)   == Busy(w) /\ wrk[w].pc = pc
Photo(w)    == wrk[w].msg.photo
Exists(p)   == p \in DOMAIN gallery
Goto(w, pc) == wrk' = [wrk EXCEPT ![w].pc = pc]
Done(w)     == wrk' = [wrk EXCEPT ![w] = Idle]
Start(w, pc, m, received) == wrk' = [wrk EXCEPT ![w] =
  [pc |-> pc, msg |-> m, gen |-> 0, todo |-> Modes, received |-> received]]
SetStatus(p, s) == proc' = [proc EXCEPT ![p].status = s]

Init ==
  /\ LET first == Uploaded(EmptyGallery, Cover, TRUE) IN
     gallery \in {first} \cup {Uploaded(first, p, FALSE) : p \in Photos \ {Cover}}
  /\ proc = [p \in Photos |-> NewPhoto]
  /\ xl = [p \in Photos |-> "idle"]
  /\ files = [p \in Photos |-> {}]
  /\ isSet \in BOOLEAN
  /\ queue = [m \in Messages |-> 0]
  /\ wrk = [w \in Workers |-> Idle]
  /\ requests = 0 /\ gens = 0 /\ faults = 0 /\ edits = 0

-----------------------------------------------------------------------------
(* The gallery, edited by the seller and by managers.                      *)

Edit == edits < MaxEdits /\ edits' = edits + 1

Upload(p, asPrimary) ==
  /\ Edit /\ ~Exists(p)
  /\ gallery' = Uploaded(gallery, p, asPrimary)
  /\ UNCHANGED <<xl, proc, files, isSet, queue, wrk, requests, gens, faults>>

Delete(p) ==
  /\ Edit /\ Exists(p)
  /\ gallery' = Deleted(gallery, p)
  /\ proc' = [proc EXCEPT ![p] = NewPhoto]
  /\ files' = [files EXCEPT ![p] = {}]
  /\ xl' = [xl EXCEPT ![p] = "idle"]
  /\ UNCHANGED <<isSet, queue, wrk, requests, gens, faults>>

MakePrimary(p) ==
  /\ Edit /\ Exists(p)
  /\ gallery' = MadePrimary(gallery, p)
  /\ UNCHANGED <<xl, proc, files, isSet, queue, wrk, requests, gens, faults>>

Reorder ==
  /\ Edit
  /\ \E order \in Orders(gallery) : order # <<>> /\ gallery' = Reordered(gallery, order)
  /\ UNCHANGED <<xl, proc, files, isSet, queue, wrk, requests, gens, faults>>

(* A manager approves a change of the set parts.                           *)
ChangeSetParts ==
  /\ Edit /\ isSet' = ~isSet
  /\ UNCHANGED <<gallery, xl, proc, files, queue, wrk, requests, gens, faults>>

(* upload_generated_product_image: the slot is empty, and the last of the  *)
(* required slots completes the processing whatever state it is in.        *)
UploadGenerated(p, m) ==
  /\ Edit /\ Exists(p) /\ gallery[p].primary /\ m \notin files[p]
  /\ files' = [files EXCEPT ![p] = @ \cup {m}]
  /\ xl' = [xl EXCEPT ![p] = IF m = XlMode THEN "succeeded" ELSE @]
  /\ IF Modes \subseteq files'[p] THEN SetStatus(p, "succeeded") ELSE UNCHANGED proc
  /\ UNCHANGED <<gallery, isSet, queue, wrk, requests, gens, faults>>

DeleteGenerated(p, m) ==
  /\ Edit /\ Exists(p) /\ m \in files[p]
  /\ files' = [files EXCEPT ![p] = @ \ {m}]
  /\ xl' = [xl EXCEPT ![p] = IF m = XlMode THEN "idle" ELSE @]
  /\ UNCHANGED <<gallery, proc, isSet, queue, wrk, requests, gens, faults>>

(* ProductXLCoverGenerateView.                                             *)
RequestXl(p) ==
  /\ Edit /\ Exists(p) /\ gallery[p].primary /\ WhiteMode \in files[p]
  /\ xl[p] \notin {"pending", "processing"}
  /\ xl' = [xl EXCEPT ![p] = "pending"]
  /\ queue' = Put(queue, XlMsg(p))
  /\ UNCHANGED <<gallery, proc, files, isSet, wrk, requests, gens, faults>>

(* request_product_image_processing refuses only PROCESSING.               *)
Request(p) ==
  /\ requests < MaxRequests /\ requests' = requests + 1
  /\ Exists(p) /\ gallery[p].primary /\ proc[p].status # "processing"
  /\ proc' = [proc EXCEPT ![p].status = "pending", ![p].ext = 0, ![p].gemini = FALSE]
  /\ queue' = Put(queue, ProcessMsg(p))
  /\ UNCHANGED <<gallery, xl, files, isSet, wrk, gens, faults, edits>>

-----------------------------------------------------------------------------
(* process_product_image.                                                  *)

(* Faulty: a redelivered message also takes over a photo in PROCESSING.    *)
TakeProcessAgain(w, p) ==
  /\ ~Busy(w) /\ queue[ProcessMsg(p)] > 0
  /\ queue' = Out(queue, ProcessMsg(p))
  /\ IF Exists(p) /\ proc[p].status \in {"pending", "processing"}
     THEN /\ proc' = [proc EXCEPT ![p].status = "processing", ![p].fresh = TRUE,
                                  ![p].gemini = isSet]
          /\ Start(w, IF isSet THEN "gemini" ELSE "call", ProcessMsg(p), FALSE)
     ELSE UNCHANGED <<proc, wrk>>
  /\ UNCHANGED <<gallery, xl, files, isSet, hist>>

TakeProcess(w, p) ==
  /\ ~Busy(w) /\ queue[ProcessMsg(p)] > 0
  /\ queue' = Out(queue, ProcessMsg(p))
  /\ IF Exists(p) /\ proc[p].status = "pending"
     THEN /\ proc' = [proc EXCEPT ![p].status = "processing", ![p].fresh = TRUE,
                                  ![p].gemini = isSet]
          /\ Start(w, IF isSet THEN "gemini" ELSE "call", ProcessMsg(p), FALSE)
     ELSE UNCHANGED <<proc, wrk>>
  /\ UNCHANGED <<gallery, xl, files, isSet, hist>>

(* Both providers, when the call succeeds.                                 *)
CallProvider(w) ==
  /\ At(w, "call") \/ At(w, "gemini")
  /\ gens' = gens + 1
  /\ wrk' = [wrk EXCEPT ![w].gen = gens + 1,
               ![w].pc = IF wrk[w].pc = "call" THEN "save" ELSE "store"]
  /\ UNCHANGED <<gallery, xl, proc, files, isSet, queue, requests, faults, edits>>

SaveExternalId(w) ==
  /\ At(w, "save")
  /\ IF Exists(Photo(w)) /\ proc[Photo(w)].status = "processing"
     THEN proc' = [proc EXCEPT ![Photo(w)].ext = wrk[w].gen] /\ Goto(w, "schedule")
     ELSE Done(w) /\ UNCHANGED proc
  /\ UNCHANGED <<gallery, xl, files, isSet, queue, hist>>

ScheduleCheck(w) ==
  /\ At(w, "schedule")
  /\ queue' = Put(queue, CheckMsg(Photo(w), wrk[w].gen, 1))
  /\ Done(w)
  /\ UNCHANGED <<gallery, xl, proc, files, isSet, hist>>

-----------------------------------------------------------------------------
(* check_product_image_generation.                                         *)

Takeable(p) == /\ Exists(p)
               /\ \/ proc[p].status \in {"pending", "processing"}
                  \/ proc[p].status = "result_received" /\ ~proc[p].fresh

TakeCheck(w, p) == \E m \in Messages :
  /\ ~Busy(w) /\ m.task = "check" /\ m.photo = p /\ queue[m] > 0
  /\ queue' = Out(queue, m)
  /\ IF ~Takeable(p) THEN UNCHANGED <<proc, wrk>>
     ELSE IF isSet \/ proc[p].gemini
     THEN SetStatus(p, "failed") /\ UNCHANGED wrk
     ELSE /\ proc' = [proc EXCEPT ![p].fresh = TRUE]
          /\ wrk' = [wrk EXCEPT ![w] = [pc |-> "poll", msg |-> m, todo |-> Modes,
                gen |-> IF proc[p].ext = 0 \/ proc[p].status = "result_received"
                        THEN m.ext ELSE proc[p].ext,
                received |-> proc[p].status = "result_received"]]
  /\ UNCHANGED <<gallery, xl, files, isSet, hist>>

(* The service answers for the generation that status_url names, or, when  *)
(* the row has none, for the external id of the message: not completed.    *)
TimedOut(w) == wrk[w].msg.attempt > MaxPolls /\ ~wrk[w].received

PollAgain(w) ==
  /\ At(w, "poll") /\ ~TimedOut(w)
  /\ LET m == wrk[w].msg IN
     queue' = Put(queue, CheckMsg(m.photo, m.ext,
                IF m.attempt > MaxPolls THEN m.attempt ELSE m.attempt + 1))
  /\ Done(w)
  /\ UNCHANGED <<gallery, xl, proc, files, isSet, hist>>

(* The final claim looks at the row again and refuses a lease in force,    *)
(* also the one this very task renewed when it started.                    *)
FinalRefused(p) == \/ ~Exists(p)
                   \/ proc[p].status = "succeeded"
                   \/ proc[p].status = "result_received" /\ proc[p].fresh

ClaimFinal(w) ==
  /\ At(w, "poll") /\ ~TimedOut(w)
  /\ LET p == Photo(w) IN
     IF FinalRefused(p) THEN Done(w) /\ UNCHANGED proc
     ELSE /\ proc' = [proc EXCEPT ![p].status = "result_received", ![p].fresh = TRUE,
                                  ![p].ext = wrk[w].gen, ![p].gemini = FALSE]
          /\ Goto(w, "safety")
  /\ UNCHANGED <<gallery, xl, files, isSet, queue, hist>>

SafetyRetry(w) ==
  /\ At(w, "safety")
  /\ queue' = Put(queue, wrk[w].msg)
  /\ Goto(w, "store")
  /\ UNCHANGED <<gallery, xl, proc, files, isSet, hist>>

-----------------------------------------------------------------------------
(* Both tasks: store the files mode by mode, then finish, unless the       *)
(* status changed meanwhile.                                               *)

Claimed(w) == IF wrk[w].msg.task = "process" THEN "processing" ELSE "result_received"

StoreFile(w) == \E m \in Modes :
  /\ At(w, "store") /\ m \in wrk[w].todo /\ Exists(Photo(w))
  /\ files' = [files EXCEPT ![Photo(w)] = @ \cup {m}]
  /\ wrk' = [wrk EXCEPT ![w].todo = @ \ {m},
               ![w].pc = IF wrk[w].todo = {m} THEN "finish" ELSE "store"]
  /\ UNCHANGED <<gallery, xl, proc, isSet, queue, hist>>

Finish(w) ==
  /\ At(w, "finish")
  /\ IF Exists(Photo(w)) /\ proc[Photo(w)].status = Claimed(w)
     THEN SetStatus(Photo(w), "succeeded") ELSE UNCHANGED proc
  /\ Done(w)
  /\ UNCHANGED <<gallery, xl, files, isSet, queue, hist>>

(* Faulty: the check's mark_failed does not look at the status.            *)
MayFailAlways(w) == wrk[w].msg.task = "check" \/ proc[Photo(w)].status = "processing"

(* mark_failed of each task, after the provider, the poll or a download    *)
(* failed.                                                                 *)
MayFail(w) == IF wrk[w].msg.task = "process"
              THEN proc[Photo(w)].status = "processing"
              ELSE proc[Photo(w)].status # "succeeded"

Fail(w) ==
  /\ \/ At(w, "call") \/ At(w, "gemini") \/ At(w, "poll")
     \/ At(w, "store") /\ wrk[w].msg.task = "check"
  /\ IF Exists(Photo(w)) /\ MayFail(w)
     THEN SetStatus(Photo(w), "failed") ELSE UNCHANGED proc
  /\ Done(w)
  /\ UNCHANGED <<gallery, xl, files, isSet, queue, hist>>

-----------------------------------------------------------------------------
(* generate_product_xl_cover: it claims nothing and updates xl_cover_status *)
(* by primary key, so a redelivered message generates once more.           *)

TakeXl(w, p) ==
  /\ ~Busy(w) /\ queue[XlMsg(p)] > 0
  /\ queue' = Out(queue, XlMsg(p))
  /\ IF ~Exists(p) THEN UNCHANGED <<xl, wrk>>
     ELSE IF ~gallery[p].primary \/ WhiteMode \notin files[p]
     THEN xl' = [xl EXCEPT ![p] = "failed"] /\ UNCHANGED wrk
     ELSE xl' = [xl EXCEPT ![p] = "processing"] /\ Start(w, "xl", XlMsg(p), FALSE)
  /\ UNCHANGED <<gallery, proc, files, isSet, hist>>

StoreXl(w) ==
  /\ At(w, "xl") /\ Exists(Photo(w))
  /\ files' = [files EXCEPT ![Photo(w)] = @ \cup {XlMode}]
  /\ Goto(w, "xl_stored")
  /\ UNCHANGED <<gallery, xl, proc, isSet, queue, hist>>

FinishXl(w) == \E ok \in BOOLEAN :
  /\ At(w, "xl_stored") \/ (At(w, "xl") /\ ~ok)
  /\ xl' = [xl EXCEPT ![Photo(w)] =
               IF ~Exists(Photo(w)) THEN @ ELSE IF ok THEN "succeeded" ELSE "failed"]
  /\ Done(w)
  /\ UNCHANGED <<gallery, proc, files, isSet, queue, hist>>

-----------------------------------------------------------------------------
(* Faults, time and recovery.                                              *)

Fault == faults < MaxFaults /\ faults' = faults + 1

(* The photo was deleted under the task: DoesNotExist ends it.             *)
PhotoGone(w) ==
  /\ At(w, "store") /\ ~Exists(Photo(w))
  /\ Done(w)
  /\ UNCHANGED <<gallery, xl, proc, files, isSet, queue, hist>>

WorkerLost(w) ==
  /\ Fault /\ Busy(w)
  /\ queue' = Put(queue, wrk[w].msg)
  /\ Done(w)
  /\ UNCHANGED <<gallery, xl, proc, files, isSet, requests, gens, edits>>

(* A time limit or a database error ends the task; its message is gone.    *)
Abort(w) ==
  /\ Fault /\ Busy(w)
  /\ Done(w)
  /\ UNCHANGED <<gallery, xl, proc, files, isSet, queue, requests, gens, edits>>

(* select_for_update(skip_locked=True) finds the row locked: the task ends *)
(* and its message is gone.                                                *)
RowLocked == \E m \in Messages :
  /\ Fault /\ queue[m] > 0
  /\ queue' = Out(queue, m)
  /\ UNCHANGED <<gallery, xl, proc, files, isSet, wrk, requests, gens, edits>>

(* The lease (600 s) outlives every task that holds it (570 s at most).    *)
Age(p) ==
  /\ proc[p].fresh
  /\ \A w \in Workers : Busy(w) => Photo(w) # p
  /\ proc' = [proc EXCEPT ![p].fresh = FALSE]
  /\ UNCHANGED <<gallery, xl, files, isSet, queue, wrk, hist>>

Waiting(p) == MapThenSumSet(LAMBDA m : queue[m], {m \in Messages : m.photo = p})

Abandoned(p) == /\ Exists(p) /\ ~proc[p].fresh
                /\ proc[p].status \in {"processing", "result_received"}

(* Faulty: the sweep leaves alone what it cannot resume.                   *)
RecoverKnown(p) ==
  /\ Abandoned(p) /\ proc[p].ext # 0 /\ Waiting(p) < MaxWaiting
  /\ proc' = [proc EXCEPT ![p].fresh = TRUE]
  /\ queue' = Put(queue, CheckMsg(p, proc[p].ext, 1))
  /\ UNCHANGED <<gallery, xl, files, isSet, wrk, hist>>

(* recover_stale_product_image_processing, one photo: resume the check if  *)
(* the external id is known, give up otherwise.                            *)
Recover(p) ==
  /\ Abandoned(p)
  /\ IF proc[p].ext = 0
     THEN SetStatus(p, "failed") /\ UNCHANGED queue
     ELSE /\ Waiting(p) < MaxWaiting
          /\ proc' = [proc EXCEPT ![p].fresh = TRUE]
          /\ queue' = Put(queue, CheckMsg(p, proc[p].ext, 1))
  /\ UNCHANGED <<gallery, xl, files, isSet, wrk, hist>>

-----------------------------------------------------------------------------
Take(w, p) == TakeProcess(w, p) \/ TakeCheck(w, p) \/ TakeXl(w, p)

Work(w) == \/ CallProvider(w) \/ SaveExternalId(w) \/ ScheduleCheck(w)
           \/ PollAgain(w) \/ ClaimFinal(w) \/ SafetyRetry(w)
           \/ StoreFile(w) \/ Finish(w) \/ Fail(w) \/ PhotoGone(w)
           \/ StoreXl(w) \/ FinishXl(w)

EditGallery == \/ \E p \in Photos, b \in BOOLEAN : Upload(p, b)
               \/ \E p \in Photos : Delete(p) \/ MakePrimary(p)
               \/ \E p \in Photos, m \in Modes \cup {XlMode} :
                    UploadGenerated(p, m) \/ DeleteGenerated(p, m)
               \/ \E p \in Photos : RequestXl(p)
               \/ Reorder \/ ChangeSetParts

Next == \/ EditGallery
        \/ \E p \in Photos : Request(p) \/ Age(p) \/ Recover(p)
        \/ \E w \in Workers, p \in Photos : Take(w, p)
        \/ \E w \in Workers : Work(w) \/ WorkerLost(w) \/ Abort(w)
        \/ RowLocked

(* The queue is first in, first out, so no photo's messages wait for ever; *)
(* workers finish their steps, leases expire and the beat runs the sweep.  *)
(* Users and faults owe nothing.                                           *)
Fairness == /\ \A w \in Workers : WF_vars(Work(w))
            /\ \A p \in Photos : /\ WF_vars(Age(p) \/ Recover(p))
                                 /\ SF_vars(\E w \in Workers : Take(w, p))

Spec == Init /\ [][Next]_vars /\ Fairness

-----------------------------------------------------------------------------
(* Every row, message and task has its shape.                              *)
TypeOK ==
  /\ DOMAIN gallery \subseteq Photos /\ \A p \in DOMAIN gallery : gallery[p] \in Row
  /\ proc \in [Photos -> Processing]
  /\ xl \in [Photos -> Statuses \ {"result_received"}]
  /\ files \in [Photos -> SUBSET (Modes \cup {XlMode})]
  /\ isSet \in BOOLEAN
  /\ queue \in [Messages -> Nat]
  /\ wrk \in [Workers -> Task \cup {Idle}]
  /\ requests \in Nat /\ gens \in Nat /\ faults \in Nat /\ edits \in Nat

(* Whoever uploads, deletes, promotes and reorders photos in whatever      *)
(* order: a product with photos has exactly one cover and a strict order.  *)
OneCover == WellFormed(gallery)

Consistent == TypeOK /\ OneCover

(* recover_stale_product_image_processing refuses to pay for a generation  *)
(* twice: redelivered, lost and recovered tasks together start at most one *)
(* paid generation for each request of a manager.                          *)
PaidOnce == gens <= requests

(* A processing that succeeded is only undone by a new request (or by the  *)
(* removal of the photo): no late, duplicate or timed-out task of an       *)
(* earlier round fails it or takes it back.                                *)
SuccessStays == [][\A p \in Photos :
  (proc[p].status = "succeeded" /\ p \in DOMAIN gallery') =>
     \/ proc'[p].status = "succeeded"
     \/ proc'[p].status = "pending" /\ requests' > requests]_vars

(* PROCESSING never blocks a photo for good (a request is refused while it *)
(* lasts): the poll ends, or the sweep resumes or fails it.                *)
ProcessingEnds == \A p \in Photos :
  proc[p].status = "processing" ~> proc[p].status # "processing"

(* "If this worker dies while downloading, after lease timeout another     *)
(* task will reclaim the finalization": a received result is finished.     *)
FinalizationReclaimed == \A p \in Photos :
  proc[p].status = "result_received" ~> proc[p].status # "result_received"
=============================================================================
