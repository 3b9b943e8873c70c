-------------------------- MODULE RepetitionProofs --------------------------
(***************************************************************************)
(* Proofs about what is done again: HTTP requests repeated with one key    *)
(* (Idempotency), and polls repeated until a marketplace confirms          *)
(* (ConfirmationPolling).  The two share no state and no name.             *)
(***************************************************************************)
EXTENDS Idempotency, ConfirmationPolling, FiniteSetTheorems, TLAPS

-----------------------------------------------------------------------------
(* Duplicate-write protection, for any number of requests and payloads,    *)
(* while no request outlives its claim (MayOutliveTtl = FALSE): whoever    *)
(* works has the live row to itself, so a key has one effect per window    *)
(* and a replay tells the truth.                                           *)

(* A request that works holds the live row, and nobody else works.         *)
Sole == \A r \in Requests : Running(r) =>
  /\ Exists /\ record.status = "processing" /\ ~record.expired
  /\ record.pk = req[r].claim /\ record.hash = Payload[r]
  /\ \A s \in Requests : Running(s) => s = r

(* What the window holds at each step of the request that works.           *)
WindowKnown ==
  /\ ~Exists => window = {}
  /\ \A r \in Requests : req[r].pc \in {"work", "abandon"} => window = {}
  /\ \A r \in Requests : req[r].pc \in {"enqueue", "complete"} => window = {r}
  /\ \A r, s \in window : r = s

(* A response is only stored, and only given, by a request that committed. *)
AnswersTrue ==
  /\ Exists /\ record.status = "completed" =>
       record.response \in done /\ Payload[record.response] = record.hash
  /\ \A r \in Requests : req[r].answer # None =>
       req[r].answer \in done /\ Payload[req[r].answer] = Payload[r]

(* Whoever may still collide has collided at most once.                    *)
TriesLeft == \A r \in Requests :
  req[r].pc \in {"select", "insert"} => req[r].tries < MaxTries

KeyInv == TypeOK /\ TriesLeft /\ Sole /\ WindowKnown /\ AnswersTrue

-----------------------------------------------------------------------------
LEMMA InitKey == Init => KeyInv
<1> SUFFICES ASSUME Init PROVE KeyInv
  OBVIOUS
<1>1. TypeOK
  BY DEF Init, TypeOK, Request, Arriving, MaxTries
<1>2. \A r \in Requests : req[r].pc = "select" /\ req[r].answer = None
  BY DEF Init, Arriving
<1>3. ~Exists /\ window = {}
  BY DEF Init, Exists
<1>4. TriesLeft
  BY DEF Init, Arriving, TriesLeft, MaxTries
<1> QED
  BY <1>1, <1>2, <1>3, <1>4 DEF KeyInv, Sole, WindowKnown, AnswersTrue, Running

(* A record is a row exactly when it exists.                               *)
LEMMA RowShape ==
  ASSUME TypeOK, Exists
  PROVE  /\ record \in Record /\ record.pk \in Requests
         /\ record.response \in Requests \cup {None} /\ record.hash \in Hashes
BY DEF TypeOK, Exists, Record

LEMMA NewRow ==
  ASSUME NEW r \in Requests, NEW pk \in Requests
  PROVE  /\ NewRecord(r, pk) \in Record /\ NewRecord(r, pk) # NoRecord
         /\ NewRecord(r, pk).pk = pk /\ NewRecord(r, pk).hash = Payload[r]
         /\ NewRecord(r, pk).status = "processing" /\ ~NewRecord(r, pk).expired
<1>1. NewRecord(r, pk) \in Record
  BY DEF NewRecord, Record, Hashes
<1>2. NewRecord(r, pk).pk # NoRecord.pk
  BY NoneAssumption DEF NewRecord, NoRecord
<1> QED
  BY <1>1, <1>2 DEF NewRecord

(* The step of one request leaves the others where they are.               *)
Others(r) == \A s \in Requests \ {r} : req'[s] = req[s]

(* A request that ends, or waits before its claim, takes no part in the    *)
(* invariant: what the record and the window say is unchanged.             *)
LEMMA QuietStep ==
  ASSUME KeyInv, NEW r \in Requests, NEW q \in Request,
         req' = [req EXCEPT ![r] = q],
         q.pc \in {"select", "insert", "answered", "dead"},
         q.pc \in {"select", "insert"} => q.tries < MaxTries,
         q.answer # None => q.answer \in done /\ Payload[q.answer] = Payload[r],
         UNCHANGED <<record, done, window>>
  PROVE  KeyInv'
<1>1. req \in [Requests -> Request] /\ TypeOK
  BY DEF KeyInv, TypeOK
<1>2. req'[r] = q /\ Others(r)
  BY <1>1 DEF Others
<1>3. TypeOK'
  BY <1>1 DEF TypeOK
<1>4. Exists' <=> Exists
  BY DEF Exists
<1>5. Sole'
  BY <1>2, <1>4 DEF KeyInv, Sole, Running, Others
<1>6. WindowKnown'
  BY <1>2, <1>4 DEF KeyInv, WindowKnown, Others
<1>7. AnswersTrue'
  BY <1>2, <1>4 DEF KeyInv, AnswersTrue, Others
<1>8. TriesLeft'
  BY <1>2 DEF KeyInv, TriesLeft, Others
<1> QED
  BY <1>3, <1>5, <1>6, <1>7, <1>8 DEF KeyInv

(* A claim of a row that nobody else works on opens an empty window.       *)
LEMMA ClaimStep ==
  ASSUME KeyInv, NEW r \in Requests, NEW pk \in Requests,
         ~Running(r), req[r].answer = None \/ req[r].answer \in Requests,
         \A s \in Requests : ~Running(s),
         record' = NewRecord(r, pk),
         req' = [req EXCEPT ![r].pc = "work", ![r].claim = pk],
         window' = {}, done' = done
  PROVE  KeyInv'
<1>1. req \in [Requests -> Request] /\ TypeOK /\ req[r] \in Request
  BY DEF KeyInv, TypeOK
<1>2. /\ req'[r].pc = "work" /\ req'[r].claim = pk /\ req'[r].answer = req[r].answer
      /\ Others(r) /\ req' \in [Requests -> Request]
  <2>1. [req[r] EXCEPT !.pc = "work", !.claim = pk] \in Request
    BY <1>1 DEF Request
  <2> QED
    BY <1>1, <2>1 DEF Others, Request
<1>3. Exists' /\ record' \in Record
  BY NewRow DEF Exists
<1>4. TypeOK'
  BY <1>1, <1>2, <1>3 DEF TypeOK
<1>5. \A s \in Requests : Running(s)' => s = r
  BY <1>2 DEF Running, Others
<1>6. Sole'
  BY <1>2, <1>3, <1>5, NewRow DEF Sole
<1>7. WindowKnown'
  BY <1>2, <1>3, <1>5 DEF WindowKnown, Running
<1>8. AnswersTrue'
  BY <1>2, NewRow DEF KeyInv, AnswersTrue, Others
<1>9. TriesLeft'
  BY <1>2 DEF KeyInv, TriesLeft, Others
<1> QED
  BY <1>4, <1>6, <1>7, <1>8, <1>9 DEF KeyInv

(* The request that works goes on working, and the window says how far.    *)
LEMMA WorkStep ==
  ASSUME KeyInv, NEW r \in Requests, Running(r),
         NEW pc \in {"enqueue", "complete", "abandon"},
         req' = [req EXCEPT ![r].pc = pc], record' = record,
         done \subseteq done', done' \subseteq Requests, window' \subseteq done',
         pc = "abandon" => window' = {}, pc # "abandon" => window' = {r}
  PROVE  KeyInv'
<1>1. req \in [Requests -> Request] /\ TypeOK /\ req[r] \in Request
  BY DEF KeyInv, TypeOK
<1>2. /\ req'[r].pc = pc /\ req'[r].claim = req[r].claim /\ req'[r].answer = req[r].answer
      /\ Others(r) /\ req' \in [Requests -> Request]
  <2>1. [req[r] EXCEPT !.pc = pc] \in Request
    BY <1>1 DEF Request
  <2> QED
    BY <1>1, <2>1 DEF Others, Request
<1>3. TypeOK'
  BY <1>1, <1>2 DEF TypeOK
<1>4. /\ Exists /\ record.status = "processing" /\ ~record.expired
      /\ record.pk = req[r].claim /\ record.hash = Payload[r]
      /\ \A s \in Requests : Running(s) => s = r
  BY DEF KeyInv, Sole
<1>5. Exists'
  BY <1>4 DEF Exists
<1>6. \A s \in Requests : Running(s)' => s = r
  BY <1>2, <1>4 DEF Running, Others
<1>7. Sole'
  BY <1>2, <1>4, <1>5, <1>6 DEF Sole
<1>8. WindowKnown'
  BY <1>2, <1>5, <1>6 DEF WindowKnown, Running
<1>9. AnswersTrue'
  BY <1>2, <1>4 DEF KeyInv, AnswersTrue, Others
<1>10. TriesLeft'
  BY <1>2 DEF KeyInv, TriesLeft, Others
<1> QED
  BY <1>3, <1>7, <1>8, <1>9, <1>10 DEF KeyInv

(* The request that works ends: its row is completed or gone.              *)
LEMMA EndStep ==
  ASSUME KeyInv, NEW r \in Requests, Running(r), NEW a \in {r, None},
         req' = [req EXCEPT ![r].pc = "answered", ![r].answer = a],
         a = r => /\ r \in done
                  /\ record' = [record EXCEPT !.status = "completed", !.response = r],
         a = None => record' = NoRecord /\ window = {},
         done' = done, window' = window
  PROVE  KeyInv'
<1>1. req \in [Requests -> Request] /\ TypeOK /\ req[r] \in Request
  BY DEF KeyInv, TypeOK
<1>2. /\ req'[r].pc = "answered" /\ req'[r].answer = a
      /\ Others(r) /\ req' \in [Requests -> Request]
  <2>1. [req[r] EXCEPT !.pc = "answered", !.answer = a] \in Request
    BY <1>1 DEF Request
  <2> QED
    BY <1>1, <2>1 DEF Others, Request
<1>3. /\ Exists /\ record \in Record /\ record.pk \in Requests /\ record.hash = Payload[r]
      /\ \A s \in Requests : Running(s) => s = r
  <2>1. Exists /\ record.hash = Payload[r] /\ \A s \in Requests : Running(s) => s = r
    BY DEF KeyInv, Sole
  <2> QED
    BY <1>1, <2>1, RowShape
<1>4. \A s \in Requests : ~Running(s)'
  BY <1>2, <1>3 DEF Running, Others
<1>5. a # None => /\ a = r /\ record' \in Record /\ Exists' /\ record'.hash = Payload[r]
                  /\ record'.status = "completed" /\ record'.response = r
  <2> SUFFICES ASSUME a # None
               PROVE  /\ a = r /\ record' \in Record /\ Exists' /\ record'.hash = Payload[r]
                      /\ record'.status = "completed" /\ record'.response = r
    OBVIOUS
  <2>1. a = r /\ record' = [record EXCEPT !.status = "completed", !.response = r]
    OBVIOUS
  <2>2. record' \in Record /\ record'.pk = record.pk /\ record'.hash = Payload[r]
        /\ record'.status = "completed" /\ record'.response = r
    BY <1>3, <2>1 DEF Record
  <2>3. Exists'
    BY <1>3, <2>2, NoneAssumption DEF Exists, NoRecord
  <2> QED
    BY <2>1, <2>2, <2>3
<1>6. a = None => ~Exists' /\ window' = {}
  BY DEF Exists
<1>7. TypeOK'
  BY <1>1, <1>2, <1>5 DEF TypeOK
<1>8. Sole'
  BY <1>4 DEF Sole
<1>9. WindowKnown'
  <2>1. \A s \in Requests : req'[s].pc \notin {"work", "abandon", "enqueue", "complete"}
    BY <1>4 DEF Running
  <2>2. Exists' \/ window' = {}
    BY <1>5, <1>6
  <2> QED
    BY <2>1, <2>2 DEF KeyInv, WindowKnown
<1>10. AnswersTrue'
  <2>1. Exists' /\ record'.status = "completed" =>
          record'.response \in done' /\ Payload[record'.response] = record'.hash
    BY <1>5, <1>6
  <2>2. \A s \in Requests : req'[s].answer # None =>
          req'[s].answer \in done' /\ Payload[req'[s].answer] = Payload[s]
    BY <1>2 DEF KeyInv, AnswersTrue, Others
  <2> QED
    BY <2>1, <2>2 DEF AnswersTrue
<1>11. TriesLeft'
  BY <1>2 DEF KeyInv, TriesLeft, Others
<1> QED
  BY <1>7, <1>8, <1>9, <1>10, <1>11 DEF KeyInv

-----------------------------------------------------------------------------
(* One case per step of a request                                          *)

LEMMA ServeInv ==
  ASSUME KeyInv, NEW r \in Requests, Serve(r) \/ Die(r)
  PROVE  KeyInv'
<1>1. TypeOK /\ req \in [Requests -> Request] /\ req[r] \in Request /\ done \subseteq Requests
  BY DEF KeyInv, TypeOK
<1>2. req[r].answer # None =>
        req[r].answer \in done /\ Payload[req[r].answer] = Payload[r]
  BY DEF KeyInv, AnswersTrue
<1>3. req[r].tries \in 0..2 /\ (req[r].pc \in {"select", "insert"} => req[r].tries < 2)
  BY <1>1 DEF Request, MaxTries, KeyInv, TriesLeft
<1>4. CASE SelectMissing(r)
  <2> DEFINE q == [req[r] EXCEPT !.pc = "insert"]
  <2>1. /\ q \in Request /\ q.pc = "insert" /\ q.tries = req[r].tries
        /\ q.answer = req[r].answer /\ req' = [req EXCEPT ![r] = q]
    BY <1>1, <1>4 DEF SelectMissing, Go, Request
  <2>2. UNCHANGED <<record, done, window>> /\ q.tries < MaxTries
    BY <1>3, <1>4, <2>1 DEF SelectMissing, MaxTries
  <2> HIDE DEF q
  <2> QED
    BY <1>2, <2>1, <2>2, QuietStep
<1>5. CASE Die(r)
  <2> DEFINE q == [req[r] EXCEPT !.pc = "dead"]
  <2>1. /\ q \in Request /\ q.pc = "dead"
        /\ q.answer = req[r].answer /\ req' = [req EXCEPT ![r] = q]
    BY <1>1, <1>5 DEF Die, Go, Request
  <2>2. UNCHANGED <<record, done, window>>
    BY <1>5 DEF Die
  <2> HIDE DEF q
  <2> QED
    BY <1>2, <2>1, <2>2, QuietStep
<1>6. CASE Collide(r)
  <2> DEFINE pc == IF req[r].tries + 1 < MaxTries THEN "select" ELSE "answered"
             q == [req[r] EXCEPT !.tries = @ + 1, !.pc = pc]
  <2>1. req[r].tries + 1 \in 0..2
    BY <1>3, <1>6 DEF Collide
  <2>2. /\ q \in Request /\ q.pc = pc /\ q.tries = req[r].tries + 1
        /\ q.answer = req[r].answer /\ req' = [req EXCEPT ![r] = q]
    BY <1>1, <1>6, <2>1 DEF Collide, Request, MaxTries
  <2>3. /\ q.pc \in {"select", "answered"} /\ (q.pc = "select" => q.tries < MaxTries)
        /\ UNCHANGED <<record, done, window>>
    BY <1>6, <2>2 DEF Collide
  <2> HIDE DEF q, pc
  <2> QED
    BY <1>2, <2>2, <2>3, QuietStep
<1>7. CASE FindLive(r)
  <2> DEFINE a == IF record.hash = Payload[r] /\ record.status = "completed"
                  THEN record.response ELSE None
             q == [req[r] EXCEPT !.pc = "answered", !.answer = a]
  <2>1. Exists /\ UNCHANGED <<record, done, window>>
    BY <1>7 DEF FindLive
  <2>2. a \in Requests \cup {None}
    BY <1>1, <2>1, RowShape
  <2>3. a # None => a \in done /\ Payload[a] = Payload[r]
    BY <2>1 DEF KeyInv, AnswersTrue
  <2>4. /\ q \in Request /\ q.pc = "answered" /\ q.answer = a
        /\ req' = [req EXCEPT ![r] = q]
    BY <1>1, <1>7, <2>2 DEF FindLive, Answer, Request
  <2> HIDE DEF q, a
  <2> QED
    BY <2>1, <2>3, <2>4, QuietStep
<1>8. CASE Reclaim(r)
  <2>1. Exists /\ record.expired /\ ~Running(r) /\ record.pk \in Requests
    BY <1>1, <1>8, RowShape DEF Reclaim, Running
  <2>2. \A s \in Requests : ~Running(s)
    BY <2>1 DEF KeyInv, Sole
  <2>3. req[r].answer = None \/ req[r].answer \in Requests
    BY <1>1, <1>2
  <2> QED
    BY <1>8, <2>1, <2>2, <2>3, ClaimStep DEF Reclaim
<1>9. CASE Insert(r)
  <2>1. ~Exists
    BY <1>9 DEF Insert
  <2>2. window = {} /\ \A s \in Requests : ~Running(s)
    BY <2>1 DEF KeyInv, Sole, WindowKnown
  <2>3. req[r].answer = None \/ req[r].answer \in Requests
    BY <1>1, <1>2
  <2> QED
    BY <1>9, <2>2, <2>3, ClaimStep DEF Insert
<1>10. CASE Commit(r)
  <2>1. Running(r) /\ window = {}
    BY <1>10 DEF Commit, Running, KeyInv, WindowKnown
  <2> QED
    BY <1>1, <1>10, <2>1, WorkStep DEF Commit, Go
<1>11. CASE FailWork(r)
  <2>1. Running(r) /\ window = {}
    BY <1>11 DEF FailWork, Running, KeyInv, WindowKnown
  <2> QED
    BY <1>1, <1>11, <2>1, WorkStep DEF FailWork, Go
<1>12. CASE Enqueue(r)
  <2>1. Running(r) /\ window = {r} /\ window \subseteq done
    BY <1>1, <1>12 DEF Enqueue, Running, KeyInv, WindowKnown, TypeOK
  <2> QED
    BY <1>1, <1>12, <2>1, WorkStep DEF Enqueue, Go
<1>13. CASE FailEnqueue(r)
  <2>1. Running(r) /\ window = {r}
    BY <1>13 DEF FailEnqueue, Running, KeyInv, WindowKnown
  <2>2. window' = {} /\ done' = done
    BY <1>13, <2>1 DEF FailEnqueue
  <2> QED
    BY <1>1, <1>13, <2>1, <2>2, WorkStep DEF FailEnqueue, Go
<1>14. CASE Complete(r)
  <2>1. Running(r) /\ window = {r} /\ r \in done
    BY <1>1, <1>14 DEF Complete, Running, KeyInv, WindowKnown, TypeOK
  <2>2. OwnRow(r)
    BY <2>1 DEF OwnRow, KeyInv, Sole
  <2> QED
    BY <1>14, <2>1, <2>2, NoneAssumption, EndStep DEF Complete, Answer
<1>15. CASE Abandon(r)
  <2>1. Running(r) /\ window = {}
    BY <1>15 DEF Abandon, Running, KeyInv, WindowKnown
  <2>2. OwnRow(r)
    BY <2>1 DEF OwnRow, KeyInv, Sole
  <2> QED
    BY <1>15, <2>1, <2>2, NoneAssumption, EndStep DEF Abandon, Answer
<1> QED
  BY <1>4, <1>5, <1>6, <1>7, <1>8, <1>9, <1>10, <1>11, <1>12, <1>13, <1>14, <1>15 DEF Serve

(* Time only expires the claim of a request that is over.                  *)
LEMMA TimeInv ==
  ASSUME KeyInv, MayOutliveTtl = FALSE, Expire \/ Purge
  PROVE  KeyInv'
<1>1. TypeOK /\ Exists /\ req' = req /\ done' = done
  BY DEF KeyInv, Expire, Purge
<1>2. record \in Record /\ record.pk \in Requests
  BY <1>1, RowShape
<1>3. \A r \in Requests : ~Running(r)
  BY DEF Expire, Purge, KeyInv, Sole
<1>4. \A r \in Requests : ~Running(r)'
  BY <1>1, <1>3 DEF Running
<1>5. \A r \in Requests : req'[r].pc \notin {"work", "abandon", "enqueue", "complete"}
  BY <1>4 DEF Running
<1>6. Sole' /\ TriesLeft'
  BY <1>1, <1>4 DEF Sole, KeyInv, TriesLeft
<1>7. CASE Expire
  <2>1. record' = [record EXCEPT !.expired = TRUE] /\ window' = window
    BY <1>7 DEF Expire
  <2>2. /\ record' \in Record /\ record'.pk = record.pk /\ record'.status = record.status
        /\ record'.hash = record.hash /\ record'.response = record.response
    BY <1>2, <2>1 DEF Record
  <2>3. Exists'
    BY <1>2, <2>2, NoneAssumption DEF Exists, NoRecord
  <2>4. TypeOK'
    BY <1>1, <2>1, <2>2 DEF TypeOK
  <2>5. WindowKnown'
    BY <1>5, <2>1, <2>3 DEF KeyInv, WindowKnown
  <2>6. AnswersTrue'
    BY <1>1, <2>2 DEF KeyInv, AnswersTrue
  <2> QED
    BY <1>6, <2>4, <2>5, <2>6 DEF KeyInv
<1>8. CASE Purge
  <2>1. record' = NoRecord /\ window' = {} /\ ~Exists'
    BY <1>8 DEF Purge, Exists
  <2>2. TypeOK'
    BY <1>1, <2>1 DEF TypeOK
  <2>3. WindowKnown' /\ AnswersTrue'
    BY <1>1, <1>5, <2>1 DEF KeyInv, WindowKnown, AnswersTrue
  <2> QED
    BY <1>6, <2>2, <2>3 DEF KeyInv
<1> QED
  BY <1>7, <1>8

LEMMA KeyStep ==
  ASSUME KeyInv, MayOutliveTtl = FALSE, [Next]_vars
  PROVE  KeyInv'
<1>1. CASE UNCHANGED vars
  BY <1>1 DEF KeyInv, TypeOK, TriesLeft, Sole, WindowKnown, AnswersTrue, Running,
              Exists, vars
<1> QED
  BY <1>1, ServeInv, TimeInv DEF Next

LEMMA KeyHolds ==
  ASSUME MayOutliveTtl = FALSE
  PROVE  Spec => []KeyInv
<1>1. KeyInv /\ [Next]_vars => KeyInv'
  BY KeyStep
<1> QED
  BY <1>1, InitKey, PTL DEF Spec

-----------------------------------------------------------------------------
(* While no request outlives its claim, the row and the requests keep      *)
(* their shapes, at most one request of a window commits a job that a      *)
(* worker may be told of, and no two requests work on one claim.           *)
THEOREM OneEffect ==
  ASSUME MayOutliveTtl = FALSE
  PROVE  Spec => []Consistent
<1>1. KeyInv => Consistent
  <2> SUFFICES ASSUME KeyInv PROVE Consistent
    OBVIOUS
  <2>1. Cardinality(window) <= 1
    <3>1. CASE window = {}
      BY <3>1, FS_EmptySet
    <3>2. CASE window # {}
      <4>1. PICK r \in window : window = {r}
        BY <3>2 DEF KeyInv, WindowKnown
      <4> QED
        BY <4>1, FS_Singleton
    <3> QED
      BY <3>1, <3>2
  <2>2. \A r, s \in Requests : Running(r) /\ Running(s) => r = s
    BY DEF KeyInv, Sole
  <2> QED
    BY <2>1, <2>2 DEF Consistent, OneEffectPerWindow, KeyInv
<1> QED
  BY <1>1, KeyHolds, PTL

(* A stored response is only ever given to a request with the same payload *)
(* as the one that committed its effect.                                   *)
THEOREM ReplaysAreTrue ==
  ASSUME MayOutliveTtl = FALSE
  PROVE  Spec => []ReplayFaithful
<1>1. KeyInv => ReplayFaithful
  BY DEF KeyInv, AnswersTrue, ReplayFaithful
<1> QED
  BY <1>1, KeyHolds, PTL

-----------------------------------------------------------------------------
(* Confirmation polling, for any targets of OTTO and Kaufland, any number  *)
(* of workers, attempts and faults.  A poll saves the results of the whole *)
(* job from the copy it loaded, so what has to be kept true is said of     *)
(* every copy as well: it says "ok" only of what the marketplace shows,    *)
(* and that a target waits as long as its row does.                        *)
GoodResult(r, t) ==
  /\ r = "ok" => real[t].shown
  /\ r = "waiting" => t \in Polled
  /\ t \in Polled => r # "none" /\ (r # "waiting" => ~Waiting(t))
GoodCopy(c) == \A t \in Targets : GoodResult(c[t], t)

(* A row that waits knows the status to go back to, and only what OTTO was *)
(* asked for is processed.                                                 *)
RowKnown(t) ==
  /\ pub[t].row.before \in {"", Before(job.op)}
  /\ Waiting(t) => pub[t].row.before = Before(job.op)
  /\ pub[t].row.published => t \in spent
  /\ real[t].process = "done" => t \in Polled
RowsKnown ==
  /\ job.op # "publish" => spent = Targets
  /\ \A t \in Targets : RowKnown(t)

JobKnown == GoodCopy(job.results) /\ job.status = JobStatus(job.results)

PollKnown(l) ==
  /\ GoodCopy(l.copy)
  /\ l.pc = "mark" => /\ l.answer = "ok" => real[l.t].shown
                      /\ l.answer = "done" => l.t \in Polled
  /\ l.pc = "save" => l.result # "none" /\ GoodResult(l.result, l.t)
PollsKnown == (\A l \in polls : PollKnown(l)) /\ (\A r \in sweep : GoodCopy(r.copy))

(* What a result says of the row, once the poll that wrote it is done.     *)
Fits(r, t) ==
  /\ r = "waiting" <=> Waiting(t)
  /\ r = "ok"      => pub[t].row.status = StatusAfterSuccess(job.op)
  /\ r = "failed"  => pub[t].row.status = IF job.op = "publish" THEN "failed"
                                          ELSE Before(job.op)

(* While nothing overlapped or died halfway, one poll or one look of the   *)
(* sweep is going on at a time, with a copy that is still what is stored.  *)
Alone ==
  /\ \A l \in polls :
       /\ sweep = {} /\ polls = {l} /\ l.copy = job.results
       /\ l.pc = "mark" => Waiting(l.t)
       /\ l.pc = "save" /\ l.t \in Polled => Fits(l.result, l.t)
  /\ \A r \in sweep :
       polls = {} /\ sweep = {r} /\ r.copy = job.results /\ Waiting(r.t)
  /\ \A t \in Polled :
       (\A l \in polls : l.pc = "save" => l.t # t) => Fits(job.results[t], t)

PollingInv ==
  /\ PollingTypeOK /\ IsFiniteSet(polls)
  /\ RowsKnown /\ JobKnown /\ PollsKnown
  /\ disturbed \/ Alone

-----------------------------------------------------------------------------
LEMMA TargetMarkets ==
  /\ \A t \in Targets : t.market \in {"otto", "kaufland"}
  /\ IsFiniteSet(Targets)
<1> DEFINE At(m, a) == [market |-> m, account |-> a]
           Four == (({At("otto", "jv")} \cup {At("otto", "xl")})
                     \cup {At("kaufland", "jv")}) \cup {At("kaufland", "xl")}
<1>1. Targets \subseteq Four
  BY TargetAssumption DEF AllTargets, Markets, Accounts
<1>2. IsFiniteSet(Four)
  <2> HIDE DEF At
  <2>1. IsFiniteSet({At("otto", "jv")} \cup {At("otto", "xl")})
    BY FS_Singleton, FS_AddElement
  <2>2. IsFiniteSet(({At("otto", "jv")} \cup {At("otto", "xl")}) \cup {At("kaufland", "jv")})
    BY <2>1, FS_AddElement
  <2> QED
    BY <2>2, FS_AddElement
<1>3. IsFiniteSet(Targets)
  <2> HIDE DEF Four
  <2> QED
    BY <1>1, <1>2, FS_Subset
<1> QED
  BY <1>3, TargetAssumption DEF AllTargets, Markets

(* What an operation writes, and what it goes back to.                     *)
LEMMA OperationStatuses ==
  ASSUME NEW op \in PublicationOps
  PROVE  /\ Before(op) \in StableStatuses
         /\ StatusAfterSuccess(op) \in {"active", "deactivated", "deleted"}
         /\ StatusDuring(op) \in RunningStatuses
         /\ op = "publish" => StatusAfterSuccess(op) = "active"
<1>1. CASE op = "publish"
  BY <1>1 DEF Before, StatusAfterSuccess, StatusDuring, StableStatuses, RunningStatuses
<1>2. CASE op = "update"
  BY <1>2 DEF Before, StatusAfterSuccess, StatusDuring, StableStatuses, RunningStatuses
<1>3. CASE op = "activate"
  BY <1>3 DEF Before, StatusAfterSuccess, StatusDuring, StableStatuses, RunningStatuses
<1>4. CASE op = "deactivate"
  BY <1>4 DEF Before, StatusAfterSuccess, StatusDuring, StableStatuses, RunningStatuses
<1>5. CASE op = "delete"
  BY <1>5 DEF Before, StatusAfterSuccess, StatusDuring, StableStatuses, RunningStatuses
<1> QED
  BY <1>1, <1>2, <1>3, <1>4, <1>5 DEF PublicationOps

LEMMA JobOp ==
  ASSUME PollingTypeOK
  PROVE  job.op \in PublicationOps /\ job.op \in Ops
BY OpAssumption DEF PollingTypeOK, JobRow

(* Only a status in progress is waited for.                                *)
LEMMA WaitingIsRunning ==
  ASSUME NEW t \in Targets, Waiting(t)
  PROVE  pub[t].row.status \in RunningStatuses
BY DEF Waiting, RunningStatuses

(* mark_publication_failed ends the wait and goes back to the status       *)
(* before the operation; on a row that does not wait it may only clear it. *)
LEMMA FailedRow ==
  ASSUME PollingTypeOK, RowsKnown, NEW t \in Targets
  PROVE  LET f == Failed(pub[t].row, job.op) IN
         /\ f \in Publication /\ f.before = "" /\ f.published = pub[t].row.published
         /\ Waiting(t) => f.status = IF job.op = "publish" THEN "failed" ELSE Before(job.op)
         /\ f.status \notin RunningStatuses \/ (~Waiting(t) /\ f.status = pub[t].row.status)
<1> DEFINE p == pub[t].row
           f == Failed(p, job.op)
<1>1. p \in Publication /\ p.before \in {"", Before(job.op)}
      /\ (Waiting(t) => p.before = Before(job.op))
  BY DEF PollingTypeOK, Row, RowsKnown, RowKnown
<1>2. Before(job.op) \in StableStatuses
  BY JobOp, OperationStatuses
<1>3. Before(job.op) # "" /\ Before(job.op) \notin RunningStatuses /\ Before(job.op) \in PubStatuses
      /\ "failed" \notin RunningStatuses /\ "failed" \in PubStatuses
  BY <1>2 DEF StableStatuses, RunningStatuses, PubStatuses
<1> HIDE DEF p
<1>4. CASE job.op = "publish"
  <2>1. f = [p EXCEPT !.status = "failed", !.before = ""]
    BY <1>4 DEF Failed
  <2> QED
    BY <1>1, <1>3, <1>4, <2>1 DEF Publication, p
<1>5. CASE job.op # "publish" /\ p.before # ""
  <2>1. f = [p EXCEPT !.status = Before(job.op), !.before = ""]
    BY <1>1, <1>5 DEF Failed
  <2> QED
    BY <1>1, <1>3, <1>5, <2>1 DEF Publication, p
<1>6. CASE job.op # "publish" /\ p.before = ""
  <2>1. f = [p EXCEPT !.before = ""]
    BY <1>1, <1>6 DEF Failed, Publication
  <2>2. ~Waiting(t)
    BY <1>1, <1>3, <1>6
  <2> QED
    BY <1>1, <2>1, <2>2 DEF Publication, p
<1> QED
  BY <1>4, <1>5, <1>6 DEF p

LEMMA SucceededRow ==
  ASSUME PollingTypeOK, NEW t \in Targets
  PROVE  LET s == Succeeded(pub[t].row, job.op) IN
         /\ s \in Publication /\ s.before = ""
         /\ s.status = StatusAfterSuccess(job.op) /\ s.status \notin RunningStatuses
         /\ s.published = (pub[t].row.published \/ StatusAfterSuccess(job.op) = "active")
<1>1. pub[t].row \in Publication
  BY DEF PollingTypeOK, Row
<1>2. StatusAfterSuccess(job.op) \in {"active", "deactivated", "deleted"}
  BY JobOp, OperationStatuses
<1> QED
  BY <1>1, <1>2 DEF Succeeded, Publication, PubStatuses, StableStatuses, RunningStatuses

-----------------------------------------------------------------------------
LEMMA FirstPollType ==
  ASSUME NEW t \in Targets
  PROVE  FirstPoll(t) \in Message
BY BoundsAssumption DEF FirstPoll, Message

(* An operation that awaits confirmation puts its rows into a status that  *)
(* waits.                                                                  *)
LEMMA AwaitedStatus ==
  ASSUME NEW t \in Targets, NEW op, Awaits(t, op)
  PROVE  StatusDuring(op) \in IF t.market = "otto" THEN {"publishing", "deactivating"}
                              ELSE {"publishing", "deleting"}
BY DEF Awaits, StatusDuring

LEMMA BegunRow ==
  ASSUME NEW op \in PublicationOps
  PROVE  LET b == Begun(AtRest(op), op) IN
         /\ b \in Publication /\ b.status = StatusDuring(op) /\ b.before = Before(op)
         /\ b.published = (op # "publish")
<1>1. Before(op) \in StableStatuses /\ StatusDuring(op) \in RunningStatuses
  BY OperationStatuses
<1>2. Before(op) # "none" /\ Before(op) # StatusDuring(op)
      /\ Before(op) \in PubStatuses /\ StatusDuring(op) \in PubStatuses
  BY <1>1 DEF StableStatuses, RunningStatuses, PubStatuses
<1> QED
  BY <1>2 DEF Begun, AtRest, Publication

LEMMA InitPolling == PollingInit => PollingInv
<1> SUFFICES ASSUME PollingInit PROVE PollingInv
  OBVIOUS
<1>1. PICK op \in Ops :
        job = [op |-> op, status |-> "pending",
               results |-> [t \in Targets |-> IF Awaits(t, op) THEN "waiting" ELSE "none"]]
  BY DEF PollingInit
<1>2. PICK with \in SUBSET {t \in Targets : t.market = "otto"} :
        pub = [t \in Targets |-> [row |-> Begun(AtRest(op), op),
                                  reference |-> t \in with, probed |-> FALSE]]
  BY <1>1 DEF PollingInit
<1>3. op \in PublicationOps /\ job.op = op /\ job.status = "pending"
  BY <1>1, OpAssumption
<1>4. \A t \in Targets : job.results[t] = IF t \in Polled THEN "waiting" ELSE "none"
  BY <1>1 DEF Polled
<1>5. \A t \in Targets : pub[t].row = Begun(AtRest(op), op)
  BY <1>2
<1>6. \A t \in Polled : Waiting(t)
  BY <1>3, <1>5, BegunRow, AwaitedStatus DEF Polled, Waiting
<1>7. polls = {} /\ sweep = {}
  BY DEF PollingInit
<1>8. PollingTypeOK
  <2>1. pub \in [Targets -> Row]
    BY <1>2, <1>3, BegunRow DEF Row
  <2>2. job \in JobRow
    BY <1>1 DEF JobRow, Copy, Results
  <2>3. spent \subseteq Targets
    BY DEF PollingInit
  <2>4. messages \in [Targets -> SUBSET Message]
    BY FirstPollType DEF PollingInit
  <2>5. Cardinality(polls) <= Workers
    BY <1>7, FS_EmptySet, BoundsAssumption
  <2>6. real \in [Targets -> [process : {"running", "done", "refused"}, shown : BOOLEAN]]
    BY DEF PollingInit
  <2>7. refresh \subseteq Targets
    BY DEF PollingInit
  <2>8. late \in BOOLEAN /\ disturbed \in BOOLEAN /\ faults \in Nat
    BY DEF PollingInit
  <2> QED
    BY <1>7, <2>1, <2>2, <2>3, <2>4, <2>5, <2>6, <2>7, <2>8 DEF PollingTypeOK
<1>9. RowsKnown
  <2>1. op # "publish" => spent = Targets
    BY <1>3 DEF PollingInit
  <2>2. \A t \in Targets : pub[t].row.before = Before(op)
                           /\ pub[t].row.published = (op # "publish")
    BY <1>3, <1>5, BegunRow
  <2>3. \A t \in Targets : real[t].process = "running"
    BY DEF PollingInit
  <2> QED
    BY <1>3, <2>1, <2>2, <2>3 DEF RowsKnown, RowKnown
<1>10. JobKnown
  <2>1. GoodCopy(job.results)
    BY <1>4 DEF GoodCopy, GoodResult
  <2>2. \E t \in Targets : job.results[t] = "waiting"
    BY <1>3, <1>4, AwaitedAssumption DEF Polled
  <2> QED
    BY <1>3, <2>1, <2>2 DEF JobKnown, JobStatus
<1>11. Alone
  BY <1>4, <1>6, <1>7 DEF Alone, Fits, Polled
<1> QED
  BY <1>7, <1>8, <1>9, <1>10, <1>11, FS_EmptySet DEF PollingInv, PollsKnown

-----------------------------------------------------------------------------
(* What the invariant says of the properties that are run.                 *)
LEMMA PollingImplies == PollingInv => PollingConsistent
<1> SUFFICES ASSUME PollingInv PROVE PollingConsistent
  OBVIOUS
<1>1. PollingTypeOK /\ RowsKnown /\ JobKnown /\ (disturbed \/ Alone)
  BY DEF PollingInv
<1>2. \A t \in Targets : GoodResult(job.results[t], t)
  BY <1>1 DEF JobKnown, GoodCopy
<1>3. job.status = "pending" <=> \E t \in Polled : job.results[t] = "waiting"
  <2>1. job.status = "pending" <=> \E t \in Targets : job.results[t] = "waiting"
    BY <1>1 DEF JobKnown, JobStatus
  <2> QED
    BY <1>2, <2>1 DEF GoodResult, Polled
<1>4. job.status = "succeeded" => \A t \in Polled : real[t].shown
  <2>1. SUFFICES ASSUME job.status = "succeeded", NEW t \in Polled
                 PROVE  real[t].shown
    OBVIOUS
  <2>2. {job.results[u] : u \in Targets} \ {"none"} = {"ok"}
    BY <1>1, <2>1 DEF JobKnown, JobStatus
  <2>3. t \in Targets /\ job.results[t] # "none"
    BY <1>2 DEF GoodResult, Polled
  <2> QED
    BY <1>2, <2>2, <2>3 DEF GoodResult
<1>5. Honest
  <2>1. \A t \in Polled : /\ job.results[t] = "ok" => real[t].shown
                          /\ job.results[t] # "waiting" => ~Waiting(t)
                          /\ pub[t].row.published => t \in spent
    BY <1>1, <1>2 DEF GoodResult, Polled, RowsKnown, RowKnown
  <2> QED
    BY <1>3, <1>4, <2>1 DEF Honest
<1>6. Agreement
  BY <1>1 DEF Alone, Fits, Agreement, Quiet
<1> QED
  BY <1>1, <1>5, <1>6 DEF PollingConsistent

-----------------------------------------------------------------------------
(* A step is calm when the marketplaces take nothing back and no row       *)
(* starts to wait.  What copies say stays true in calm steps.              *)
Calm ==
  /\ job'.op = job.op
  /\ \A t \in Targets : real[t].shown => real'[t].shown
  /\ \A t \in Polled : Waiting(t)' => Waiting(t)

LEMMA GoodStays ==
  ASSUME Calm
  PROVE  /\ Polled' = Polled
         /\ \A t \in Targets : \A r : GoodResult(r, t) => GoodResult(r, t)'
         /\ \A c : GoodCopy(c) => GoodCopy(c)'
<1>1. Polled' = Polled
  BY DEF Calm, Polled
<1>2. \A t \in Targets : \A r : GoodResult(r, t) => GoodResult(r, t)'
  BY <1>1 DEF Calm, GoodResult
<1>3. \A c : GoodCopy(c) => GoodCopy(c)'
  BY <1>2 DEF GoodCopy
<1> QED
  BY <1>1, <1>2, <1>3

LEMMA PollFields ==
  ASSUME PollingTypeOK, NEW l \in polls
  PROVE  /\ l.t \in Targets /\ l.m \in Message /\ l.copy \in Copy
         /\ l.pc \in {"mark", "save"}
         /\ l.pc = "mark" => l.answer \in {"pending", "done", "ok", "failed"}
         /\ l.pc = "save" => l.result \in Results
BY DEF PollingTypeOK, Poll

LEMMA PollStays ==
  ASSUME PollingTypeOK, PollsKnown, Calm
  PROVE  /\ \A l \in polls : PollKnown(l)'
         /\ \A r \in sweep : GoodCopy(r.copy)'
<1>1. ASSUME NEW l \in polls PROVE PollKnown(l)'
  <2>1. PollKnown(l) /\ l.t \in Targets
    BY PollFields DEF PollsKnown
  <2>2. GoodCopy(l.copy)'
    BY <2>1, GoodStays DEF PollKnown
  <2>3. l.pc = "mark" => /\ l.answer = "ok" => real'[l.t].shown
                         /\ l.answer = "done" => l.t \in Polled'
    BY <2>1, GoodStays DEF PollKnown, Calm
  <2>4. l.pc = "save" => l.result # "none" /\ GoodResult(l.result, l.t)'
    BY <2>1, GoodStays DEF PollKnown
  <2> QED
    BY <2>2, <2>3, <2>4 DEF PollKnown
<1>2. \A r \in sweep : GoodCopy(r.copy)'
  BY GoodStays DEF PollsKnown
<1> QED
  BY <1>1, <1>2

LEMMA JobStays ==
  ASSUME JobKnown, Calm, job' = job
  PROVE  JobKnown'
BY GoodStays DEF JobKnown, JobStatus

(* Most steps leave the job and the status of the rows alone.              *)
SameRows ==
  /\ job' = job /\ spent' = spent
  /\ \A t \in Targets : /\ pub'[t].row = pub[t].row
                        /\ real[t].shown => real'[t].shown
                        /\ real'[t].process = "done" => t \in Polled

LEMMA SameRowsKeep ==
  ASSUME PollingInv, SameRows
  PROVE  /\ Calm /\ RowsKnown' /\ JobKnown' /\ Polled' = Polled
         /\ \A t \in Targets : Waiting(t)' <=> Waiting(t)
         /\ \A t \in Targets : \A r : Fits(r, t)' <=> Fits(r, t)
<1>1. \A t \in Targets : Waiting(t)' <=> Waiting(t)
  BY DEF SameRows, Waiting
<1>2. Calm /\ Polled' = Polled
  BY <1>1 DEF SameRows, Calm, Polled
<1>3. JobKnown'
  BY <1>2, JobStays DEF SameRows, PollingInv
<1>4. RowsKnown'
  BY <1>1, <1>2 DEF SameRows, PollingInv, RowsKnown, RowKnown
<1>5. \A t \in Targets : \A r : Fits(r, t)' <=> Fits(r, t)
  BY <1>1 DEF SameRows, Fits
<1> QED
  BY <1>1, <1>2, <1>3, <1>4, <1>5

(* Storing a marketplace's answer writes no status by itself.              *)
LEMMA MarkedRow ==
  ASSUME PollingTypeOK, NEW t \in Targets, NEW row \in Publication, Marked(t, row)
  PROVE  /\ pub' \in [Targets -> Row] /\ pub'[t].row = row
         /\ \A u \in Targets \ {t} : pub'[u] = pub[u]
<1>1. pub[t] \in Row /\ pub \in [Targets -> Row]
  BY DEF PollingTypeOK
<1>2. pub' = [pub EXCEPT ![t].row = row, ![t].probed = pub[t].reference]
  BY DEF Marked
<1> DEFINE told == [pub EXCEPT ![t].row = row]
<1>3. told \in [Targets -> Row] /\ told[t].row = row
      /\ \A u \in Targets \ {t} : told[u] = pub[u]
  BY <1>1 DEF Row
<1>4. pub' = [told EXCEPT ![t].probed = pub[t].reference]
  BY <1>2
<1> HIDE DEF told
<1>5. pub[t].reference \in BOOLEAN
  BY <1>1 DEF Row
<1> QED
  BY <1>3, <1>4, <1>5 DEF Row

(* Steps that leave the rows and the polls of the job alone keep what is   *)
(* said of them.                                                           *)
LEMMA AloneStays ==
  ASSUME PollingInv, SameRows, polls' = polls, sweep' = sweep, disturbed' = disturbed
  PROVE  disturbed' \/ Alone'
<1>1. SUFFICES ASSUME Alone PROVE Alone'
  BY DEF PollingInv
<1>2. \A l \in polls : l.t \in Targets
  BY PollFields DEF PollingInv
<1>3. \A r \in sweep : r.t \in Targets
  BY DEF PollingInv, PollingTypeOK
<1> QED
  BY <1>1, <1>2, <1>3, SameRowsKeep DEF Alone, Polled, SameRows

(* Nothing of the job's takes part: neither its polls nor the sweep.       *)
Outside(t) == Process(t) \/ Show(t) \/ Lose(t) \/ Refresh(t)

LEMMA OutsideKeeps ==
  ASSUME PollingInv, NEW t \in Targets, Outside(t) \/ TooLate
  PROVE  PollingInv'
<1>1. PollingTypeOK
  BY DEF PollingInv
<1>2. pub[t].row \in Publication /\ pub \in [Targets -> Row] /\ MaxFaults \in Nat
  BY <1>1, BoundsAssumption DEF PollingTypeOK, Row
<1>3. /\ UNCHANGED <<job, spent, polls, sweep, disturbed>>
      /\ SameRows /\ PollingTypeOK'
  <2>1. CASE Process(t)
    <3>1. PICK end \in {"done", "refused"} : real' = [real EXCEPT ![t].process = end]
      BY <2>1 DEF Process
    <3>2. real' \in [Targets -> [process : {"running", "done", "refused"}, shown : BOOLEAN]]
      BY <1>1, <3>1 DEF PollingTypeOK
    <3>3. \A u \in Targets : /\ real'[u].shown = real[u].shown
                             /\ real'[u].process = "done" => u \in Polled
      BY <1>1, <2>1, <3>1 DEF PollingTypeOK, Process, PollingInv, RowsKnown, RowKnown
    <3> QED
      BY <1>1, <2>1, <3>2, <3>3 DEF PollingTypeOK, Process, SameRows
  <2>2. CASE Show(t)
    <3>1. real' = [real EXCEPT ![t].shown = TRUE]
      BY <2>2 DEF Show
    <3>2. real' \in [Targets -> [process : {"running", "done", "refused"}, shown : BOOLEAN]]
      BY <1>1, <3>1 DEF PollingTypeOK
    <3>3. \A u \in Targets : /\ real[u].shown => real'[u].shown
                             /\ real'[u].process = real[u].process
      BY <1>1, <3>1 DEF PollingTypeOK
    <3> QED
      BY <1>1, <2>2, <3>2, <3>3 DEF PollingTypeOK, Show, SameRows, PollingInv, RowsKnown, RowKnown
  <2>3. CASE Lose(t)
    <3>1. messages' \in [Targets -> SUBSET Message]
      BY <1>1, <2>3 DEF PollingTypeOK, Lose
    <3>2. faults' \in Nat
      BY <1>1, <2>3 DEF PollingTypeOK, Lose, Fault
    <3> QED
      BY <1>1, <2>3, <3>1, <3>2 DEF PollingTypeOK, Lose, SameRows, PollingInv, RowsKnown, RowKnown
  <2>4. CASE Refresh(t)
    <3>1. pub' \in [Targets -> Row] /\ \A u \in Targets : pub'[u].row = pub[u].row
      BY <1>1, <1>2, <2>4, MarkedRow DEF Refresh
    <3> QED
      BY <1>1, <2>4, <3>1 DEF PollingTypeOK, Refresh, SameRows, PollingInv, RowsKnown, RowKnown
  <2>5. CASE TooLate
    BY <1>1, <2>5 DEF PollingTypeOK, TooLate, SameRows, PollingInv, RowsKnown, RowKnown
  <2> QED
    BY <2>1, <2>2, <2>3, <2>4, <2>5 DEF Outside
<1>4. PollsKnown'
  BY <1>1, <1>3, PollStays, SameRowsKeep DEF PollsKnown, PollingInv
<1>5. disturbed' \/ Alone'
  BY <1>3, AloneStays
<1> QED
  BY <1>3, <1>4, <1>5, SameRowsKeep DEF PollingInv

-----------------------------------------------------------------------------
(* What a marketplace tells is so.                                         *)
LEMMA ToldTruly ==
  ASSUME PollingTypeOK, RowsKnown, NEW t \in Targets, NEW kind \in {"process", "status"}
  PROVE  /\ Told(kind, t) \in {"pending", "done", "ok", "failed"}
         /\ Told(kind, t) = "ok" => real[t].shown
         /\ Told(kind, t) = "done" => t \in Polled
<1>1. real[t].process \in {"running", "done", "refused"}
      /\ (real[t].process = "done" => t \in Polled)
  BY DEF PollingTypeOK, RowsKnown, RowKnown
<1>2. CASE kind = "process"
  BY <1>1, <1>2 DEF Told, ProcessResult
<1>3. CASE kind = "status" /\ t.market = "otto"
  BY <1>3 DEF Told, OttoConfirmed
<1>4. CASE kind = "status" /\ t.market = "kaufland"
  BY <1>4 DEF Told, KauflandOutcome
<1> QED
  BY <1>2, <1>3, <1>4, TargetMarkets

LEMMA LoadKeeps ==
  ASSUME PollingInv, NEW t \in Targets, NEW m \in Message, Load(t, m)
  PROVE  PollingInv'
<1>1. PollingTypeOK /\ IsFiniteSet(polls) /\ RowsKnown
  BY DEF PollingInv
<1>2. /\ UNCHANGED <<pub, job, spent, real, late, sweep, refresh, faults>>
      /\ messages' \in [Targets -> SUBSET Message]
  BY <1>1 DEF Load, PollingTypeOK
<1>3. SameRows
  BY <1>1, <1>2 DEF SameRows, RowsKnown, RowKnown
<1>4. CASE UNCHANGED <<polls, disturbed>>
  <2>1. PollingTypeOK'
    BY <1>1, <1>2, <1>4 DEF PollingTypeOK
  <2>2. PollsKnown'
    BY <1>1, <1>2, <1>3, <1>4, PollStays, SameRowsKeep DEF PollsKnown, PollingInv
  <2>3. disturbed' \/ Alone'
    BY <1>2, <1>3, <1>4, AloneStays
  <2> QED
    BY <1>1, <1>3, <1>4, <2>1, <2>2, <2>3, SameRowsKeep DEF PollingInv
<1>5. CASE ~UNCHANGED <<polls, disturbed>>
  <2>1. PICK n \in Poll :
          /\ polls' = polls \cup {n} /\ n.pc = "mark" /\ n.t = t /\ n.copy = job.results
          /\ n.answer = "ok" => real[t].shown
          /\ n.answer = "done" => t \in Polled
    <3>1. PICK heard \in BOOLEAN :
            polls' = polls \cup {[pc |-> "mark", t |-> t, m |-> m, copy |-> job.results,
                           answer |-> IF heard THEN Told(m.kind, t) ELSE "pending"]}
      BY <1>5 DEF Load
    <3>2. PICK a \in {"pending", "done", "ok", "failed"} :
            /\ a = IF heard THEN Told(m.kind, t) ELSE "pending"
            /\ a = "ok" => real[t].shown
            /\ a = "done" => t \in Polled
      BY <1>1, ToldTruly DEF Message
    <3>3. [pc |-> "mark", t |-> t, m |-> m, copy |-> job.results, answer |-> a] \in Poll
      BY <1>1 DEF Poll, PollingTypeOK, JobRow
    <3> QED
      BY <3>1, <3>2, <3>3
  <2>2. Waiting(t) /\ disturbed' = (disturbed \/ ~Quiet)
    BY <1>5 DEF Load
  <2>3. IsFiniteSet(polls') /\ Cardinality(polls') <= Workers
    <3>1. Cardinality(polls) < Workers
      BY DEF Load
    <3>2. Cardinality(polls) \in Nat
      BY <1>1, FS_CardinalityType
    <3>3. /\ IsFiniteSet(polls \cup {n})
          /\ Cardinality(polls \cup {n}) \in {Cardinality(polls), Cardinality(polls) + 1}
      BY <1>1, FS_AddElement
    <3>4. Workers \in Nat /\ polls' = polls \cup {n}
      BY <2>1, BoundsAssumption
    <3> QED
      BY <3>1, <3>2, <3>3, <3>4
  <2>4. PollingTypeOK'
    <3>1. polls' \subseteq Poll
      BY <1>1, <2>1 DEF PollingTypeOK
    <3>2. disturbed' \in BOOLEAN
      BY <1>1, <2>2 DEF PollingTypeOK
    <3> QED
      BY <1>1, <1>2, <2>3, <3>1, <3>2 DEF PollingTypeOK
  <2>5. PollsKnown'
    <3>1. GoodCopy(n.copy)'
      <4>1. GoodCopy(n.copy)
        BY <2>1 DEF PollingInv, JobKnown
      <4> QED
        BY <1>3, <4>1, SameRowsKeep, GoodStays
    <3>2. /\ n.answer = "ok" => real'[n.t].shown
          /\ n.answer = "done" => n.t \in Polled'
      BY <1>2, <1>3, <2>1, SameRowsKeep
    <3>3. PollKnown(n)'
      BY <2>1, <3>1, <3>2 DEF PollKnown
    <3>4. Calm /\ PollsKnown
      BY <1>3, SameRowsKeep DEF PollingInv
    <3> QED
      BY <1>1, <1>2, <2>1, <3>3, <3>4, PollStays DEF PollsKnown
  <2>6. disturbed' \/ Alone'
    <3>1. SUFFICES ASSUME ~disturbed' PROVE Alone'
      OBVIOUS
    <3>2. polls = {} /\ sweep = {} /\ Alone
      BY <2>2, <3>1 DEF Quiet, PollingInv
    <3>3. polls' = {n} /\ sweep' = {}
      BY <1>2, <2>1, <3>2
    <3>4. Waiting(n.t)' /\ n.copy = job'.results
      BY <1>2, <1>3, <2>1, <2>2, SameRowsKeep
    <3>5. \A u \in Polled : Fits(job.results[u], u)
      BY <3>2 DEF Alone
    <3>6. \A u \in Polled' : Fits(job.results[u], u)'
      BY <1>2, <1>3, <3>5, SameRowsKeep DEF Polled
    <3> QED
      BY <2>1, <3>3, <3>4, <3>6 DEF Alone
  <2> QED
    BY <1>3, <2>3, <2>4, <2>5, <2>6, SameRowsKeep DEF PollingInv
<1> QED
  BY <1>4, <1>5

-----------------------------------------------------------------------------
(* A poll ends, or goes on to save the job: still no more of them than     *)
(* there are workers.                                                      *)
LEMMA PollsTyped ==
  ASSUME PollingTypeOK, IsFiniteSet(polls), NEW l \in polls
  PROVE  /\ End(l) =>
              polls' \subseteq Poll /\ IsFiniteSet(polls') /\ Cardinality(polls') <= Workers
         /\ \A n \in Poll : polls' = (polls \ {l}) \cup {n} =>
              polls' \subseteq Poll /\ IsFiniteSet(polls') /\ Cardinality(polls') <= Workers
<1>1. /\ polls \subseteq Poll /\ Cardinality(polls) <= Workers
      /\ Workers \in Nat /\ Cardinality(polls) \in Nat
  BY FS_CardinalityType, BoundsAssumption DEF PollingTypeOK
<1>2. IsFiniteSet(polls \ {l}) /\ Cardinality(polls \ {l}) = Cardinality(polls) - 1
  BY FS_RemoveElement
<1>3. ASSUME End(l)
      PROVE  polls' \subseteq Poll /\ IsFiniteSet(polls') /\ Cardinality(polls') <= Workers
  <2>1. polls' = polls \ {l}
    BY <1>3 DEF End
  <2>2. Cardinality(polls) - 1 <= Workers
    BY <1>1
  <2> QED
    BY <1>1, <1>2, <2>1, <2>2
<1>4. ASSUME NEW n \in Poll, polls' = (polls \ {l}) \cup {n}
      PROVE  polls' \subseteq Poll /\ IsFiniteSet(polls') /\ Cardinality(polls') <= Workers
  <2>1. IsFiniteSet((polls \ {l}) \cup {n})
        /\ Cardinality((polls \ {l}) \cup {n})
             \in {Cardinality(polls \ {l}), Cardinality(polls \ {l}) + 1}
    BY <1>2, FS_AddElement
  <2> DEFINE k == Cardinality((polls \ {l}) \cup {n})
  <2>2. k \in {Cardinality(polls) - 1, Cardinality(polls)}
    BY <1>1, <1>2, <2>1
  <2>3. k <= Workers
    <3> HIDE DEF k
    <3> QED
      BY <1>1, <2>2
  <2> QED
    BY <1>1, <1>4, <2>1, <2>3
<1> QED
  BY <1>3, <1>4

(* A poll that ends before it wrote anything leaves what was so.           *)
LEMMA EndingKeeps ==
  ASSUME PollingInv, NEW l \in polls, End(l), SameRows, sweep' = sweep,
         ~disturbed' => ~disturbed /\ l.pc = "mark"
  PROVE  PollsKnown' /\ (disturbed' \/ Alone')
<1>1. PollsKnown'
  <2>1. polls' \subseteq polls
    BY DEF End
  <2> QED
    BY <2>1, PollStays, SameRowsKeep DEF PollsKnown, PollingInv
<1>2. disturbed' \/ Alone'
  <2>1. SUFFICES ASSUME ~disturbed' PROVE Alone'
    OBVIOUS
  <2>2. Alone /\ l.pc = "mark"
    BY <2>1 DEF PollingInv
  <2>3. polls' = {} /\ sweep' = {}
    BY <2>2 DEF Alone, End
  <2>4. \A u \in Polled : Fits(job.results[u], u)
    BY <2>2 DEF Alone
  <2>5. \A u \in Polled' : Fits(job.results[u], u)'
    BY <2>4, SameRowsKeep DEF Polled, SameRows
  <2> QED
    BY <2>3, <2>5 DEF Alone
<1> QED
  BY <1>1, <1>2

(* A poll that wrote its verdict to the row holds what it will save.       *)
LEMMA SavingKeeps ==
  ASSUME PollingInv, Calm, NEW l \in polls, l.pc = "mark",
         NEW r \in Results \ {"none"}, GoSave(l, r), GoodResult(r, l.t)',
         l.t \in Polled /\ Waiting(l.t) => Fits(r, l.t)',
         job' = job, sweep' = sweep, disturbed' = disturbed,
         \A u \in Targets \ {l.t} : pub'[u] = pub[u]
  PROVE  /\ polls' \subseteq Poll /\ IsFiniteSet(polls') /\ Cardinality(polls') <= Workers
         /\ PollsKnown' /\ (disturbed' \/ Alone')
<1>1. PollingTypeOK /\ IsFiniteSet(polls) /\ PollsKnown
  BY DEF PollingInv
<1>2. l.t \in Targets /\ l.m \in Message /\ l.copy \in Copy
  BY <1>1, PollFields
<1>3. PICK n \in Poll :
        /\ polls' = (polls \ {l}) \cup {n} /\ n.pc = "save" /\ n.t = l.t
        /\ n.copy = l.copy /\ n.result = r
  <2>1. [pc |-> "save", t |-> l.t, m |-> l.m, copy |-> l.copy, result |-> r] \in Poll
    BY <1>2 DEF Poll
  <2> QED
    BY <2>1 DEF GoSave
<1>4. PollsKnown'
  <2>1. GoodCopy(n.copy)'
    <3>1. GoodCopy(n.copy)
      BY <1>1, <1>3 DEF PollsKnown, PollKnown
    <3> QED
      BY <3>1, GoodStays
  <2>2. PollKnown(n)'
    BY <1>3, <2>1 DEF PollKnown
  <2> QED
    BY <1>1, <1>3, <2>2, PollStays DEF PollsKnown
<1>5. disturbed' \/ Alone'
  <2>1. SUFFICES ASSUME ~disturbed' PROVE Alone'
    OBVIOUS
  <2>2. Alone
    BY <2>1 DEF PollingInv
  <2>3. polls' = {n} /\ sweep' = {} /\ n.copy = job'.results /\ Waiting(l.t)
    BY <1>3, <2>2 DEF Alone
  <2>4. l.t \in Polled' => Fits(n.result, n.t)'
    BY <1>3, <2>3, GoodStays
  <2>5. \A u \in Polled : Fits(job.results[u], u)
    BY <2>2 DEF Alone
  <2>6. \A u \in Polled' \ {l.t} : Fits(job.results[u], u)'
    BY <2>5 DEF Fits, Waiting, Polled, Calm
  <2> QED
    BY <1>3, <2>3, <2>4, <2>6 DEF Alone
<1> QED
  BY <1>1, <1>3, <1>4, <1>5, PollsTyped

(* The copy a poll or the sweep saves makes the job's results.             *)
LEMMA SavedKnown ==
  ASSUME PollingTypeOK, Calm, NEW c \in Copy, GoodCopy(c), NEW t \in Targets,
         NEW r \in Results, GoodResult(r, t)', Saved(c, t, r)
  PROVE  /\ JobKnown' /\ job' \in JobRow /\ job'.results[t] = r
         /\ \A u \in Targets \ {t} : job'.results[u] = c[u]
<1> DEFINE results == [c EXCEPT ![t] = r]
<1>1. results \in Copy /\ results[t] = r /\ \A u \in Targets \ {t} : results[u] = c[u]
  BY DEF Copy
<1>2. job' = [job EXCEPT !.results = results, !.status = JobStatus(results)]
  BY DEF Saved
<1>3. JobStatus(results) \in {"pending", "succeeded", "failed", "partial"}
  BY DEF JobStatus
<1> HIDE DEF results
<1>4. job' \in JobRow /\ job'.results = results /\ job'.status = JobStatus(results)
  BY <1>1, <1>2, <1>3 DEF PollingTypeOK, JobRow
<1>5. GoodCopy(job.results)'
  <2>1. GoodCopy(c)'
    BY GoodStays
  <2>2. \A u \in Targets : GoodResult(results[u], u)'
    <3>1. ASSUME NEW u \in Targets, u # t PROVE GoodResult(results[u], u)'
      BY <1>1, <2>1, <3>1, <1>4 DEF GoodCopy, GoodResult
    <3>2. GoodResult(results[t], t)'
      BY <1>1, <1>4 DEF GoodResult
    <3> QED
      BY <3>1, <3>2
  <2> QED
    BY <1>4, <2>2 DEF GoodCopy
<1>6. JobKnown'
  BY <1>4, <1>5 DEF JobKnown, JobStatus
<1> QED
  BY <1>1, <1>4, <1>6

-----------------------------------------------------------------------------
LEMMA SendType ==
  ASSUME PollingTypeOK, NEW t \in Targets, NEW m \in Message, Send(t, m)
  PROVE  messages' \in [Targets -> SUBSET Message]
BY DEF PollingTypeOK, Send

LEMMA PollAgainKeeps ==
  ASSUME PollingInv, NEW l \in polls, PollAgain(l)
  PROVE  PollingInv'
<1>1. PollingTypeOK /\ IsFiniteSet(polls)
  BY DEF PollingInv
<1>2. l.t \in Targets /\ l.m \in Message /\ l.pc = "mark"
  BY <1>1, PollFields DEF PollAgain
<1>3. pub' \in [Targets -> Row] /\ \A u \in Targets : pub'[u].row = pub[u].row
  <2>1. CASE l.m.kind = "status"
    <3>1. pub[l.t].row \in Publication /\ Marked(l.t, pub[l.t].row)
      BY <1>1, <1>2, <2>1 DEF PollAgain, PollingTypeOK, Row
    <3> QED
      BY <1>1, <1>2, <3>1, MarkedRow
  <2>2. CASE l.m.kind # "status"
    BY <1>1, <2>2 DEF PollAgain, PollingTypeOK
  <2> QED
    BY <2>1, <2>2
<1>4. SameRows
  BY <1>3 DEF PollAgain, SameRows, PollingInv, RowsKnown, RowKnown
<1>5. PollsKnown' /\ (disturbed' \/ Alone')
  BY <1>2, <1>4, EndingKeeps DEF PollAgain
<1>6. PollingTypeOK' /\ IsFiniteSet(polls')
  <2>1. polls' \subseteq Poll /\ IsFiniteSet(polls') /\ Cardinality(polls') <= Workers
    BY <1>1, PollsTyped DEF PollAgain
  <2>2. [l.m EXCEPT !.n = @ + 1] \in Message
    BY <1>2, BoundsAssumption DEF PollAgain, Message
  <2>3. messages' \in [Targets -> SUBSET Message]
    BY <1>1, <1>2, <2>2, SendType DEF PollAgain
  <2> QED
    BY <1>1, <1>3, <2>1, <2>3 DEF PollAgain, PollingTypeOK
<1> QED
  BY <1>4, <1>5, <1>6, SameRowsKeep DEF PollingInv

LEMMA DieInPollKeeps ==
  ASSUME PollingInv, NEW l \in polls, DieInPoll(l)
  PROVE  PollingInv'
<1>1. PollingTypeOK /\ IsFiniteSet(polls)
  BY DEF PollingInv
<1>2. l.t \in Targets /\ l.m \in Message /\ l.pc \in {"mark", "save"}
  BY <1>1, PollFields
<1>3. SameRows
  BY DEF DieInPoll, SameRows, PollingInv, RowsKnown, RowKnown
<1>4. ~disturbed' => ~disturbed /\ l.pc = "mark"
  BY <1>2 DEF DieInPoll
<1>5. PollsKnown' /\ (disturbed' \/ Alone')
  BY <1>3, <1>4, EndingKeeps DEF DieInPoll
<1>6. PollingTypeOK' /\ IsFiniteSet(polls')
  <2>1. polls' \subseteq Poll /\ IsFiniteSet(polls') /\ Cardinality(polls') <= Workers
    BY <1>1, PollsTyped DEF DieInPoll
  <2>2. messages' \in [Targets -> SUBSET Message]
    BY <1>1, <1>2, SendType DEF DieInPoll
  <2>3. faults' \in Nat /\ disturbed' \in BOOLEAN
    BY <1>1 DEF DieInPoll, Fault, PollingTypeOK
  <2> QED
    BY <1>1, <2>1, <2>2, <2>3 DEF DieInPoll, PollingTypeOK
<1> QED
  BY <1>3, <1>5, <1>6, SameRowsKeep DEF PollingInv

LEMMA KeepWaitingKeeps ==
  ASSUME PollingInv, NEW l \in polls, KeepWaiting(l)
  PROVE  PollingInv'
<1>1. PollingTypeOK /\ IsFiniteSet(polls) /\ PollKnown(l)
  BY DEF PollingInv, PollsKnown
<1>2. l.t \in Targets /\ l.pc = "mark" /\ l.t \in Polled
  BY <1>1, PollFields DEF KeepWaiting, PollKnown
<1>3. /\ pub' \in [Targets -> Row] /\ \A u \in Targets : pub'[u].row = pub[u].row
      /\ \A u \in Targets \ {l.t} : pub'[u] = pub[u]
  <2>1. pub[l.t].row \in Publication
    BY <1>1, <1>2 DEF PollingTypeOK, Row
  <2> QED
    BY <1>1, <1>2, <2>1, MarkedRow DEF KeepWaiting
<1>4. SameRows
  BY <1>3 DEF KeepWaiting, SameRows, PollingInv, RowsKnown, RowKnown
<1>5. GoodResult("waiting", l.t)'
  BY <1>2, <1>4, SameRowsKeep DEF GoodResult
<1>6. Waiting(l.t) => Fits("waiting", l.t)'
  BY <1>2, <1>4, SameRowsKeep DEF Fits
<1>7. /\ polls' \subseteq Poll /\ IsFiniteSet(polls') /\ Cardinality(polls') <= Workers
      /\ PollsKnown' /\ (disturbed' \/ Alone')
  <2>1. Calm /\ "waiting" \in Results \ {"none"}
    BY <1>4, SameRowsKeep DEF Results
  <2> QED
    BY <1>2, <1>3, <1>5, <1>6, <2>1, SavingKeeps DEF KeepWaiting
<1>8. PollingTypeOK'
  BY <1>1, <1>3, <1>7 DEF KeepWaiting, PollingTypeOK
<1> QED
  BY <1>4, <1>7, <1>8, SameRowsKeep DEF PollingInv

(* The verdict of a poll, good or bad, is written to one row and ends its  *)
(* wait.                                                                   *)
LEMMA VerdictRow ==
  ASSUME PollingInv, NEW t \in Targets, NEW row \in Publication, Marked(t, row),
         job'.op = job.op, real' = real, spent \subseteq spent', spent' \subseteq Targets,
         row.before = "", row.published => t \in spent',
         row.status \notin RunningStatuses \/ (~Waiting(t) /\ row.status = pub[t].row.status)
  PROVE  /\ pub' \in [Targets -> Row] /\ pub'[t].row = row
         /\ \A u \in Targets \ {t} : pub'[u] = pub[u]
         /\ Calm /\ ~Waiting(t)' /\ RowsKnown'
<1>1. PollingTypeOK /\ RowsKnown
  BY DEF PollingInv
<1>2. /\ pub' \in [Targets -> Row] /\ pub'[t].row = row
      /\ \A u \in Targets \ {t} : pub'[u] = pub[u]
  BY <1>1, MarkedRow
<1>3. ~Waiting(t)'
  BY <1>2 DEF Waiting, RunningStatuses
<1>4. Calm
  BY <1>2, <1>3 DEF Calm, Waiting, Polled
<1>5. Polled' = Polled
  BY DEF Polled
<1>6. RowsKnown'
  <2>1. job'.op # "publish" => spent' = Targets
    BY <1>1 DEF RowsKnown
  <2>2. RowKnown(t)'
    BY <1>1, <1>2, <1>3, <1>5 DEF RowsKnown, RowKnown
  <2>3. \A u \in Targets \ {t} : RowKnown(u)'
    BY <1>1, <1>2, <1>5 DEF RowsKnown, RowKnown, Waiting
  <2> QED
    BY <2>1, <2>2, <2>3 DEF RowsKnown
<1> QED
  BY <1>2, <1>3, <1>4, <1>6

LEMMA ConfirmKeeps ==
  ASSUME PollingInv, NEW l \in polls, Confirm(l)
  PROVE  PollingInv'
<1>1. PollingTypeOK /\ RowsKnown /\ JobKnown /\ PollKnown(l)
  BY DEF PollingInv, PollsKnown
<1>2. l.t \in Targets /\ l.pc = "mark" /\ real[l.t].shown
  BY <1>1, PollFields DEF Confirm, PollKnown
<1> DEFINE s == Succeeded(pub[l.t].row, job.op)
<1>3. /\ s \in Publication /\ s.before = ""
      /\ s.status = StatusAfterSuccess(job.op) /\ s.status \notin RunningStatuses
      /\ s.published = (pub[l.t].row.published \/ StatusAfterSuccess(job.op) = "active")
  BY <1>1, <1>2, SucceededRow
<1>4. spent \subseteq spent' /\ spent' \subseteq Targets
  BY <1>1, <1>2 DEF Confirm, PollingTypeOK
<1>5. s.published => l.t \in spent'
  <2>1. CASE pub[l.t].row.published
    BY <1>1, <1>2, <1>4, <2>1 DEF RowsKnown, RowKnown
  <2>2. CASE job.op # "publish"
    BY <1>1, <1>2, <1>4, <2>2 DEF RowsKnown
  <2>3. CASE job.op = "publish" /\ ~pub[l.t].row.published
    <3>1. FirstSuccess(pub[l.t].row, job.op)
      BY <1>1, <2>3, JobOp, OperationStatuses DEF FirstSuccess
    <3> QED
      BY <2>3, <3>1 DEF Confirm
  <2> QED
    BY <2>1, <2>2, <2>3
<1> HIDE DEF s
<1>6. Marked(l.t, s) /\ UNCHANGED <<job, real, late, messages, sweep, refresh, faults, disturbed>>
      /\ GoSave(l, "ok")
  BY DEF Confirm, s
<1>7. /\ pub' \in [Targets -> Row] /\ pub'[l.t].row = s
      /\ \A u \in Targets \ {l.t} : pub'[u] = pub[u]
      /\ Calm /\ ~Waiting(l.t)' /\ RowsKnown'
  BY <1>2, <1>3, <1>4, <1>5, <1>6, VerdictRow
<1>8. GoodResult("ok", l.t)' /\ Fits("ok", l.t)'
  BY <1>2, <1>3, <1>6, <1>7 DEF GoodResult, Fits
<1>9. /\ polls' \subseteq Poll /\ IsFiniteSet(polls') /\ Cardinality(polls') <= Workers
      /\ PollsKnown' /\ (disturbed' \/ Alone')
  <2>1. "ok" \in Results \ {"none"}
    BY DEF Results
  <2> QED
    BY <1>2, <1>6, <1>7, <1>8, <2>1, SavingKeeps
<1>10. PollingTypeOK'
  BY <1>1, <1>4, <1>6, <1>7, <1>9 DEF PollingTypeOK
<1> QED
  BY <1>1, <1>6, <1>7, <1>9, <1>10, JobStays DEF PollingInv

LEMMA GiveUpKeeps ==
  ASSUME PollingInv, NEW l \in polls, GiveUp(l)
  PROVE  PollingInv'
<1>1. PollingTypeOK /\ RowsKnown /\ JobKnown
  BY DEF PollingInv
<1>2. l.t \in Targets /\ l.pc = "mark"
  BY <1>1, PollFields DEF GiveUp
<1> DEFINE f == Failed(pub[l.t].row, job.op)
<1>3. /\ f \in Publication /\ f.before = "" /\ f.published = pub[l.t].row.published
      /\ Waiting(l.t) => f.status = IF job.op = "publish" THEN "failed" ELSE Before(job.op)
      /\ f.status \notin RunningStatuses \/ (~Waiting(l.t) /\ f.status = pub[l.t].row.status)
  BY <1>1, <1>2, FailedRow
<1>4. f.published => l.t \in spent
  BY <1>1, <1>2, <1>3 DEF RowsKnown, RowKnown
<1> HIDE DEF f
<1>5. /\ Marked(l.t, f) /\ GoSave(l, "failed")
      /\ UNCHANGED <<job, spent, real, late, messages, sweep, refresh, faults, disturbed>>
  BY DEF GiveUp, f
<1>6. spent' \subseteq Targets
  BY <1>1, <1>5 DEF PollingTypeOK
<1>7. /\ pub' \in [Targets -> Row] /\ pub'[l.t].row = f
      /\ \A u \in Targets \ {l.t} : pub'[u] = pub[u]
      /\ Calm /\ ~Waiting(l.t)' /\ RowsKnown'
  BY <1>2, <1>3, <1>4, <1>5, <1>6, VerdictRow
<1>8. GoodResult("failed", l.t)' /\ (Waiting(l.t) => Fits("failed", l.t)')
  BY <1>2, <1>3, <1>5, <1>7 DEF GoodResult, Fits
<1>9. /\ polls' \subseteq Poll /\ IsFiniteSet(polls') /\ Cardinality(polls') <= Workers
      /\ PollsKnown' /\ (disturbed' \/ Alone')
  <2>1. "failed" \in Results \ {"none"}
    BY DEF Results
  <2> QED
    BY <1>2, <1>5, <1>7, <1>8, <2>1, SavingKeeps
<1>10. PollingTypeOK'
  BY <1>1, <1>5, <1>7, <1>9 DEF PollingTypeOK
<1> QED
  BY <1>1, <1>5, <1>7, <1>9, <1>10, JobStays DEF PollingInv

LEMMA SaveJobKeeps ==
  ASSUME PollingInv, NEW l \in polls, SaveJob(l)
  PROVE  PollingInv'
<1>1. PollingTypeOK /\ RowsKnown /\ PollsKnown /\ PollKnown(l) /\ IsFiniteSet(polls)
  BY DEF PollingInv, PollsKnown
<1>2. /\ l.t \in Targets /\ l.copy \in Copy /\ l.pc = "save"
      /\ l.result \in Results \ {"none"}
  BY <1>1, PollFields DEF SaveJob, PollKnown
<1>3. /\ UNCHANGED <<pub, spent, real, late, sweep, refresh, faults, disturbed>>
      /\ Saved(l.copy, l.t, l.result) /\ End(l) /\ job'.op = job.op
  BY <1>1 DEF SaveJob, Saved, PollingTypeOK, JobRow
<1>4. Calm /\ Polled' = Polled
  BY <1>3 DEF Calm, Waiting, Polled
<1>5. GoodCopy(l.copy) /\ GoodResult(l.result, l.t)'
  BY <1>1, <1>2, <1>4, GoodStays DEF PollKnown
<1>6. /\ JobKnown' /\ job' \in JobRow /\ job'.results[l.t] = l.result
      /\ \A u \in Targets \ {l.t} : job'.results[u] = l.copy[u]
  BY <1>1, <1>2, <1>3, <1>4, <1>5, SavedKnown
<1>7. RowsKnown'
  BY <1>1, <1>3, <1>4 DEF RowsKnown, RowKnown, Waiting
<1>8. PollsKnown'
  BY <1>1, <1>3, <1>4, PollStays DEF PollsKnown, End
<1>9. disturbed' \/ Alone'
  <2>1. SUFFICES ASSUME ~disturbed' PROVE Alone'
    OBVIOUS
  <2>2. Alone
    BY <1>3, <2>1 DEF PollingInv
  <2>3. polls' = {} /\ sweep' = {} /\ l.copy = job.results
    BY <1>3, <2>2 DEF Alone, End
  <2>4. \A u \in Polled \ {l.t} : Fits(job.results[u], u)
    BY <2>2 DEF Alone
  <2>5. l.t \in Polled => Fits(l.result, l.t)
    BY <1>2, <2>2 DEF Alone
  <2>6. \A u \in Polled' : Fits(job.results[u], u)'
    BY <1>3, <1>4, <1>6, <2>3, <2>4, <2>5 DEF Fits, Waiting, Polled
  <2> QED
    BY <2>3, <2>6 DEF Alone
<1>10. PollingTypeOK' /\ IsFiniteSet(polls')
  <2>1. polls' \subseteq Poll /\ IsFiniteSet(polls') /\ Cardinality(polls') <= Workers
    BY <1>1, <1>3, PollsTyped
  <2>2. messages' \in [Targets -> SUBSET Message]
    <3>1. CASE l.result = "waiting"
      <4>1. [kind |-> "status", n |-> 1] \in Message
        BY BoundsAssumption DEF Message
      <4>2. Send(l.t, [kind |-> "status", n |-> 1])
        BY <3>1 DEF SaveJob
      <4> QED
        BY <1>1, <1>2, <4>1, <4>2, SendType
    <3>2. CASE l.result # "waiting"
      BY <1>1, <3>2 DEF SaveJob, PollingTypeOK
    <3> QED
      BY <3>1, <3>2
  <2> QED
    BY <1>1, <1>3, <1>6, <2>1, <2>2 DEF PollingTypeOK
<1> QED
  BY <1>6, <1>7, <1>8, <1>9, <1>10 DEF PollingInv

-----------------------------------------------------------------------------
LEMMA SweepFields ==
  ASSUME PollingTypeOK, NEW r \in sweep
  PROVE  r.t \in Targets /\ r.copy \in Copy /\ r.again \in Message
BY DEF PollingTypeOK

LEMMA SweepStartKeeps ==
  ASSUME PollingInv, NEW market \in {"otto", "kaufland"}, SweepStart(market)
  PROVE  PollingInv'
<1>1. PollingTypeOK /\ JobKnown
  BY DEF PollingInv
<1>2. /\ UNCHANGED <<pub, job, spent, real, late, messages, polls, refresh>>
      /\ disturbed' = (disturbed \/ polls # {} \/ Cardinality(sweep') > 1)
  BY DEF SweepStart
<1>3. SameRows
  BY <1>2 DEF SameRows, PollingInv, RowsKnown, RowKnown
<1> DEFINE Rows == {u \in Targets : u.market = market /\ Waiting(u)}
           Loaded(t) == [t |-> t, copy |-> job.results, again |-> FirstPoll(t)]
<1>4. sweep' = {Loaded(t) : t \in Rows}
  BY DEF SweepStart
<1>5. IsFiniteSet(sweep')
  <2>1. [t \in Rows |-> Loaded(t)] \in Surjection(Rows, sweep')
    BY <1>4 DEF Surjection
  <2>2. IsFiniteSet(Rows)
    BY TargetMarkets, FS_Subset
  <2> QED
    BY <2>1, <2>2, FS_Surjection
<1>6. \A r \in sweep' : /\ r \in [t : Targets, copy : Copy, again : Message]
                        /\ r.copy = job.results /\ Waiting(r.t)
  BY <1>1, <1>4, FirstPollType DEF PollingTypeOK, JobRow
<1>7. PollingTypeOK'
  <2>1. faults' \in Nat
    BY <1>1 DEF SweepStart, Fault, PollingTypeOK
  <2>2. sweep' \subseteq [t : Targets, copy : Copy, again : Message]
    BY <1>6
  <2>3. disturbed' \in BOOLEAN
    BY <1>1, <1>2 DEF PollingTypeOK
  <2> QED
    BY <1>1, <1>2, <2>1, <2>2, <2>3 DEF PollingTypeOK
<1>8. PollsKnown'
  <2>1. GoodCopy(job.results)'
    BY <1>3, SameRowsKeep DEF JobKnown
  <2>2. \A r \in sweep' : GoodCopy(r.copy)'
    BY <1>2, <1>6, <2>1
  <2>3. \A l \in polls : PollKnown(l)'
    BY <1>1, <1>3, PollStays, SameRowsKeep DEF PollingInv
  <2> QED
    BY <1>2, <2>2, <2>3 DEF PollsKnown
<1>9. disturbed' \/ Alone'
  <2>1. SUFFICES ASSUME ~disturbed' PROVE Alone'
    OBVIOUS
  <2>2. Alone /\ polls' = {}
    BY <1>2, <2>1 DEF PollingInv
  <2>3. \A r \in sweep' : sweep' = {r}
    <3>1. SUFFICES ASSUME NEW r \in sweep' PROVE sweep' = {r}
      OBVIOUS
    <3>2. Cardinality(sweep') \in Nat /\ Cardinality(sweep') # 0
      BY <1>5, <3>1, FS_CardinalityType, FS_EmptySet
    <3>3. ~(Cardinality(sweep') > 1)
      BY <1>2, <2>1
    <3>4. Cardinality(sweep') = 1
      BY <3>2, <3>3
    <3> QED
      BY <1>5, <3>1, <3>4, FS_Singleton
  <2>4. \A r \in sweep' : r.copy = job'.results /\ Waiting(r.t)'
    BY <1>2, <1>3, <1>6, SameRowsKeep
  <2>5. \A u \in Polled : Fits(job.results[u], u)
    BY <1>2, <2>2 DEF Alone
  <2>6. \A u \in Polled' : Fits(job.results[u], u)'
    BY <1>2, <1>3, <2>5, SameRowsKeep DEF Polled
  <2> QED
    BY <2>2, <2>3, <2>4, <2>6 DEF Alone
<1> QED
  BY <1>2, <1>3, <1>7, <1>8, <1>9, SameRowsKeep DEF PollingInv

LEMMA SweepRequeuesKeeps ==
  ASSUME PollingInv, SweepRequeues
  PROVE  PollingInv'
<1>1. PollingTypeOK
  BY DEF PollingInv
<1>2. PICK r \in sweep :
        /\ sweep' = sweep \ {r} /\ Send(r.t, r.again)
        /\ UNCHANGED <<pub, job, spent, real, late, polls, faults, disturbed, refresh>>
  BY DEF SweepRequeues
<1>3. SameRows
  BY <1>2 DEF SameRows, PollingInv, RowsKnown, RowKnown
<1>4. PollingTypeOK'
  <2>1. messages' \in [Targets -> SUBSET Message]
    BY <1>1, <1>2, SweepFields, SendType
  <2>2. sweep' \subseteq sweep
    BY <1>2
  <2> QED
    BY <1>1, <1>2, <2>1, <2>2 DEF PollingTypeOK
<1>5. PollsKnown'
  BY <1>1, <1>2, <1>3, PollStays, SameRowsKeep DEF PollsKnown, PollingInv
<1>6. disturbed' \/ Alone'
  <2>1. SUFFICES ASSUME ~disturbed' PROVE Alone'
    OBVIOUS
  <2>2. Alone
    BY <1>2, <2>1 DEF PollingInv
  <2>3. polls' = {} /\ sweep' = {}
    BY <1>2, <2>2 DEF Alone
  <2>4. \A u \in Polled : Fits(job.results[u], u)
    BY <1>2, <2>2, <2>3 DEF Alone
  <2>5. \A u \in Polled' : Fits(job.results[u], u)'
    BY <1>2, <1>3, <2>4, SameRowsKeep DEF Polled
  <2> QED
    BY <2>3, <2>5 DEF Alone
<1> QED
  BY <1>2, <1>3, <1>4, <1>5, <1>6, SameRowsKeep DEF PollingInv

LEMMA SweepFailsKeeps ==
  ASSUME PollingInv, SweepFails
  PROVE  PollingInv'
<1>1. PollingTypeOK /\ RowsKnown /\ PollsKnown
  BY DEF PollingInv
<1>2. PICK r \in sweep :
        /\ sweep' = sweep \ {r} /\ Marked(r.t, Failed(pub[r.t].row, job.op))
        /\ Saved(r.copy, r.t, "failed")
        /\ UNCHANGED <<spent, real, late, messages, polls, faults, disturbed, refresh>>
  BY DEF SweepFails
<1>3. r.t \in Targets /\ r.copy \in Copy /\ GoodCopy(r.copy)
  BY <1>1, SweepFields DEF PollsKnown
<1> DEFINE f == Failed(pub[r.t].row, job.op)
<1>4. /\ f \in Publication /\ f.before = "" /\ f.published = pub[r.t].row.published
      /\ Waiting(r.t) => f.status = IF job.op = "publish" THEN "failed" ELSE Before(job.op)
      /\ f.status \notin RunningStatuses \/ (~Waiting(r.t) /\ f.status = pub[r.t].row.status)
  BY <1>1, <1>3, FailedRow
<1>5. Marked(r.t, f)
  BY <1>2
<1> HIDE DEF f
<1>6. f.published => r.t \in spent
  BY <1>1, <1>3, <1>4 DEF RowsKnown, RowKnown
<1>7. job'.op = job.op /\ Polled' = Polled
  BY <1>1, <1>2 DEF Saved, PollingTypeOK, JobRow, Polled
<1>8. spent' \subseteq Targets
  BY <1>1, <1>2 DEF PollingTypeOK
<1>9. /\ pub' \in [Targets -> Row] /\ pub'[r.t].row = f
      /\ \A u \in Targets \ {r.t} : pub'[u] = pub[u]
      /\ Calm /\ ~Waiting(r.t)' /\ RowsKnown'
  BY <1>2, <1>3, <1>4, <1>5, <1>6, <1>7, <1>8, VerdictRow
<1>10. GoodResult("failed", r.t)' /\ (Waiting(r.t) => Fits("failed", r.t)')
  BY <1>3, <1>4, <1>7, <1>9 DEF GoodResult, Fits
<1>11. /\ JobKnown' /\ job' \in JobRow /\ job'.results[r.t] = "failed"
       /\ \A u \in Targets \ {r.t} : job'.results[u] = r.copy[u]
  <2>1. "failed" \in Results
    BY DEF Results
  <2> QED
    BY <1>1, <1>2, <1>3, <1>9, <1>10, <2>1, SavedKnown
<1>12. PollsKnown'
  BY <1>1, <1>2, <1>9, PollStays DEF PollsKnown
<1>13. disturbed' \/ Alone'
  <2>1. SUFFICES ASSUME ~disturbed' PROVE Alone'
    OBVIOUS
  <2>2. Alone
    BY <1>2, <2>1 DEF PollingInv
  <2>3. polls' = {} /\ sweep' = {} /\ r.copy = job.results /\ Waiting(r.t) /\ polls = {}
    BY <1>2, <2>2 DEF Alone
  <2>4. \A u \in Polled : Fits(job.results[u], u)
    BY <2>2, <2>3 DEF Alone
  <2>5. \A u \in Polled' \ {r.t} : Fits(job.results[u], u)'
    BY <1>7, <1>9, <1>11, <2>3, <2>4 DEF Fits, Waiting, Polled
  <2>6. r.t \in Polled' => Fits(job.results[r.t], r.t)'
    BY <1>10, <1>11, <2>3 DEF Fits
  <2>7. \A u \in Polled' : Fits(job.results[u], u)'
    BY <2>5, <2>6
  <2> QED
    BY <2>3, <2>7 DEF Alone
<1>14. PollingTypeOK'
  <2>1. sweep' \subseteq sweep
    BY <1>2
  <2> QED
    BY <1>1, <1>2, <1>9, <1>11, <2>1 DEF PollingTypeOK
<1> QED
  BY <1>2, <1>9, <1>11, <1>12, <1>13, <1>14 DEF PollingInv

LEMMA PollingStep ==
  ASSUME PollingInv, [PollingNext]_pollingVars
  PROVE  PollingInv'
<1>1. CASE UNCHANGED pollingVars
  <2>1. SameRows
    BY <1>1 DEF pollingVars, SameRows, PollingInv, RowsKnown, RowKnown
  <2>2. PollsKnown'
    BY <1>1, <2>1, PollStays, SameRowsKeep DEF pollingVars, PollsKnown, PollingInv
  <2>3. disturbed' \/ Alone'
    BY <1>1, <2>1, AloneStays DEF pollingVars
  <2>4. PollingTypeOK' /\ IsFiniteSet(polls')
    BY <1>1 DEF pollingVars, PollingInv, PollingTypeOK
  <2> QED
    BY <2>1, <2>2, <2>3, <2>4, SameRowsKeep DEF PollingInv
<1>2. ASSUME NEW t \in Targets, Process(t) \/ Show(t) \/ Lose(t) \/ Refresh(t)
      PROVE  PollingInv'
  BY <1>2, OutsideKeeps DEF Outside
<1>3. ASSUME NEW t \in Targets, NEW m \in Message, Load(t, m) PROVE PollingInv'
  BY <1>3, LoadKeeps
<1>4. ASSUME NEW l \in polls, Run(l) \/ DieInPoll(l) PROVE PollingInv'
  BY <1>4, PollAgainKeeps, KeepWaitingKeeps, ConfirmKeeps, GiveUpKeeps, SaveJobKeeps,
     DieInPollKeeps DEF Run
<1>5. ASSUME NEW market \in {"otto", "kaufland"}, SweepStart(market) PROVE PollingInv'
  BY <1>5, SweepStartKeeps
<1>6. CASE Sweep
  BY <1>6, SweepFailsKeeps, SweepRequeuesKeeps DEF Sweep
<1>7. CASE TooLate
  <2>1. \E t \in Targets : TRUE
    BY JobOp, AwaitedAssumption DEF PollingInv
  <2> QED
    BY <1>7, <2>1, OutsideKeeps
<1> QED
  BY <1>1, <1>2, <1>3, <1>4, <1>5, <1>6, <1>7 DEF PollingNext

(* However the polls of a job overlap, die and are repeated, its results   *)
(* and its verdict claim only what a marketplace shows, it stays open      *)
(* exactly as long as a target waits, and a published listing has spent    *)
(* its code; and unless polls overlapped or died halfway, job and          *)
(* publications tell the same when they are all done.                      *)
THEOREM PollingIsHonest == PollingSpec => []PollingConsistent
<1>1. PollingInv /\ [PollingNext]_pollingVars => PollingInv'
  BY PollingStep
<1> QED
  BY <1>1, InitPolling, PollingImplies, PTL DEF PollingSpec
=============================================================================
