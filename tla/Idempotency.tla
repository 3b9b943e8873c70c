---------------------------- MODULE Idempotency -----------------------------
(***************************************************************************)
(* Duplicate-write protection (apps/idempotency) as the job views use it:  *)
(* claim the key, do the work in a transaction whose on_commit hook calls  *)
(* the broker, then complete the claim with the response, or abandon it.   *)
(* One (user, endpoint, key) triple; other triples share nothing with it.  *)
(* Requests are HTTP requests carrying that key, run by web workers that   *)
(* interleave and may die; the record expires and is purged meanwhile.     *)
(***************************************************************************)
EXTENDS Naturals, FiniteSets

CONSTANTS
  Requests,        \* HTTP requests with this Idempotency-Key
  Payload,         \* Payload[r]: what request r asks for (its request_hash)
  MayOutliveTtl,   \* can a request still run when its claim expired?
  None

ASSUME FlagAssumption == MayOutliveTtl \in BOOLEAN
ASSUME PayloadAssumption == DOMAIN Payload = Requests
ASSUME NoneAssumption == None \notin Requests

VARIABLES
  record,   \* the IdempotencyRecord row, or NoRecord
  req,      \* what each request is doing and what it was answered
  done      \* requests whose effect (a job) is committed

(* History: the requests whose effect was committed while the key's        *)
(* current protection window lasts, from its first claim to its expiry,    *)
(* except for jobs that the broker did not take.                           *)
VARIABLE window

vars == <<record, req, done, window>>

-----------------------------------------------------------------------------
Hashes == {Payload[r] : r \in Requests}

(* pk is the request that created the row; response names the request      *)
(* whose response body is stored.                                          *)
Record == [pk : Requests, hash : Hashes, status : {"processing", "completed"},
           response : Requests \cup {None}, expired : BOOLEAN]
NoRecord == [pk |-> None]

(* pc:  select | insert (the two halves of claim_idempotency_key) |        *)
(*      work | enqueue | complete | abandon | answered | dead              *)
(* tries counts collisions; claim is the pk claimed; answer is the request *)
(* whose response is returned, None for an error.                          *)
MaxTries == 2
Request == [pc : {"select", "insert", "work", "enqueue", "complete", "abandon",
                  "answered", "dead"},
            tries : 0..MaxTries, claim : Requests \cup {None},
            answer : Requests \cup {None}]

Arriving == [pc |-> "select", tries |-> 0, claim |-> None, answer |-> None]

Exists == record # NoRecord

Init ==
  /\ record = NoRecord
  /\ req = [r \in Requests |-> Arriving]
  /\ done = {}
  /\ window = {}

NewRecord(r, pk) == [pk |-> pk, hash |-> Payload[r], status |-> "processing",
                     response |-> None, expired |-> FALSE]

Go(r, pc) == req' = [req EXCEPT ![r].pc = pc]
Answer(r, a) == req' = [req EXCEPT ![r].pc = "answered", ![r].answer = a]

-----------------------------------------------------------------------------
(* claim_idempotency_key *)

(* Nothing to lock: the row will be inserted. *)
SelectMissing(r) ==
  /\ req[r].pc = "select"
  /\ ~Exists
  /\ Go(r, "insert")
  /\ UNCHANGED <<record, done, window>>

(* An expired row is taken over in place. *)
Reclaim(r) ==
  /\ req[r].pc = "select"
  /\ Exists /\ record.expired
  /\ record' = NewRecord(r, record.pk)
  /\ req' = [req EXCEPT ![r].pc = "work", ![r].claim = record.pk]
  /\ window' = {}
  /\ UNCHANGED done

(* Faulty: the payload is not compared. *)
FindLiveAny(r) ==
  /\ req[r].pc = "select"
  /\ Exists /\ ~record.expired
  /\ Answer(r, record.response)
  /\ UNCHANGED <<record, done, window>>

(* A live row: another payload is refused (422), a completed one replayed, *)
(* one still in progress reported (409).                                   *)
FindLive(r) ==
  /\ req[r].pc = "select"
  /\ Exists /\ ~record.expired
  /\ Answer(r, IF record.hash = Payload[r] /\ record.status = "completed"
               THEN record.response ELSE None)
  /\ UNCHANGED <<record, done, window>>

(* Faulty: no unique constraint, the later row wins. *)
InsertOver(r) ==
  /\ req[r].pc = "insert"
  /\ record' = NewRecord(r, r)
  /\ req' = [req EXCEPT ![r].pc = "work", ![r].claim = r]
  /\ UNCHANGED <<done, window>>

Insert(r) ==
  /\ req[r].pc = "insert"
  /\ ~Exists
  /\ record' = NewRecord(r, r)
  /\ req' = [req EXCEPT ![r].pc = "work", ![r].claim = r]
  /\ UNCHANGED <<done, window>>

(* The unique constraint: a simultaneous request was faster.  The second   *)
(* collision is reported as "in progress".                                 *)
Collide(r) ==
  /\ req[r].pc = "insert"
  /\ Exists
  /\ req' = [req EXCEPT ![r].tries = @ + 1,
                        ![r].pc = IF req[r].tries + 1 < MaxTries
                                  THEN "select" ELSE "answered"]
  /\ UNCHANGED <<record, done, window>>

-----------------------------------------------------------------------------
(* The view *)

(* The transaction: the effect is committed, or it fails and is undone. *)
Commit(r) ==
  /\ req[r].pc = "work"
  /\ done' = done \cup {r}
  /\ window' = window \cup {r}
  /\ Go(r, "enqueue")
  /\ UNCHANGED record

FailWork(r) ==
  /\ req[r].pc = "work"
  /\ Go(r, "abandon")
  /\ UNCHANGED <<record, done, window>>

(* on_commit: execute_marketplace_job.delay.                               *)
Enqueue(r) ==
  /\ req[r].pc = "enqueue"
  /\ Go(r, "complete")
  /\ UNCHANGED <<record, done, window>>

(* When the broker fails its exception reaches the handler that abandons   *)
(* the claim.  The job is committed, and no worker will ever be told of it.*)
FailEnqueue(r) ==
  /\ req[r].pc = "enqueue"
  /\ Go(r, "abandon")
  /\ window' = window \ {r}
  /\ UNCHANGED <<record, done>>

OwnRow(r) == Exists /\ record.pk = req[r].claim /\ record.status = "processing"

Complete(r) ==
  /\ req[r].pc = "complete"
  /\ record' = IF OwnRow(r)
               THEN [record EXCEPT !.status = "completed", !.response = r]
               ELSE record
  /\ Answer(r, r)
  /\ UNCHANGED <<done, window>>

Abandon(r) ==
  /\ req[r].pc = "abandon"
  /\ record' = IF OwnRow(r) THEN NoRecord ELSE record
  /\ Answer(r, None)
  /\ UNCHANGED <<done, window>>

-----------------------------------------------------------------------------
(* A web worker dies with its request; a claim it held stays. *)
Die(r) ==
  /\ req[r].pc \notin {"answered", "dead"}
  /\ Go(r, "dead")
  /\ UNCHANGED <<record, done, window>>

Running(r) == req[r].pc \in {"work", "enqueue", "complete", "abandon"}

(* IDEMPOTENCY_TTL_HOURS pass; unless MayOutliveTtl, a request is served   *)
(* or dead long before.                                                    *)
Expire ==
  /\ Exists /\ ~record.expired
  /\ MayOutliveTtl \/ \A r \in Requests : ~Running(r)
  /\ record' = [record EXCEPT !.expired = TRUE]
  /\ UNCHANGED <<req, done, window>>

(* Faulty: only completed rows are purged. *)
PurgeCompleted ==
  /\ Exists /\ record.expired /\ record.status = "completed"
  /\ record' = NoRecord
  /\ window' = {}
  /\ UNCHANGED <<req, done>>

(* purge_expired_idempotency_records *)
Purge ==
  /\ Exists /\ record.expired
  /\ record' = NoRecord
  /\ window' = {}
  /\ UNCHANGED <<req, done>>

-----------------------------------------------------------------------------
Serve(r) ==
  \/ SelectMissing(r) \/ Reclaim(r) \/ FindLive(r) \/ Insert(r) \/ Collide(r)
  \/ Commit(r) \/ FailWork(r) \/ Enqueue(r) \/ FailEnqueue(r)
  \/ Complete(r) \/ Abandon(r)

Next ==
  \/ \E r \in Requests : Serve(r) \/ Die(r)
  \/ Expire \/ Purge

Spec == Init /\ [][Next]_vars

(* A request that does not die is served; time passes; the hourly purge    *)
(* runs.                                                                   *)
FairSpec ==
  /\ Spec
  /\ \A r \in Requests : WF_vars(Serve(r))
  /\ WF_vars(Expire) /\ WF_vars(Purge)

-----------------------------------------------------------------------------
(* Properties *)

(* The row, the requests and the ghost have the shape of the model. *)
TypeOK ==
  /\ record \in Record \cup {NoRecord}
  /\ req \in [Requests -> Request]
  /\ done \subseteq Requests
  /\ window \subseteq done

(* A key does not repeat its work: between the first claim and the expiry  *)
(* at most one request with this key commits a job that a worker may be    *)
(* told of, whatever arrives at the same time, fails or dies               *)
(* (views.py:121), and no two requests work on the same claim.             *)
OneEffectPerWindow ==
  /\ Cardinality(window) <= 1
  /\ \A r, s \in Requests : Running(r) /\ Running(s) /\ Exists
       /\ req[r].claim = record.pk /\ req[s].claim = record.pk => r = s

Consistent == TypeOK /\ OneEffectPerWindow

(* A replayed response is the response of a request with the same payload, *)
(* and its effect was committed.                                           *)
ReplayFaithful ==
  \A r \in Requests : req[r].answer # None =>
    /\ Payload[req[r].answer] = Payload[r]
    /\ req[r].answer \in done

(* A claim whose request died does not block the key for ever. *)
KeyComesFree ==
  Exists /\ record.status = "processing"
    ~> ~Exists \/ record.status = "completed"
=============================================================================
