------------------------- MODULE PushDeliveryProofs -------------------------
(***************************************************************************)
(* Proofs about push deliveries, for any number of notifications, devices, *)
(* workers, attempts and faults.  No claim of a live worker is shared or   *)
(* stale, and every acceptance is either recorded, about to be recorded,   *)
(* or in doubt: so a device is not notified twice without a doubt, and a   *)
(* delivery that is done is not reopened.                                  *)
(***************************************************************************)
EXTENDS PushDelivery, TLAPS

(* A worker that has claimed a delivery knows its device.                  *)
Aimed == \A w \in Workers :
  wrk[w].pc \in {"send", "record", "retire"} => wrk[w].dev \in Devices

(* A worker is about to record that Firebase accepted n for d.             *)
Accepting(n, d) == \E w \in Workers :
  Unrecorded(w) /\ wrk[w].note = n /\ wrk[w].dev = d

(* Every acceptance is recorded, about to be, or in doubt.                 *)
Counted == \A n \in Notes, d \in Devices :
  \/ accepted[n][d] <= doubts[n][d]
  \/ /\ accepted[n][d] = doubts[n][d] + 1
     /\ status[n][d] = "sent" \/ Accepting(n, d)

PushInv == TypeOK /\ Aimed /\ ClaimsHeld /\ Counted

-----------------------------------------------------------------------------
(* What a worker holds.                                                    *)
LEMMA HoldsWhat ==
  ASSUME NEW w \in Workers
  PROVE  /\ Holds(w) = IF wrk[w] # Idle /\ wrk[w].pc \in {"send", "record", "retire"}
                       THEN {<<wrk[w].note, wrk[w].dev>>} ELSE {}
         /\ Holds(w)' = IF wrk'[w] # Idle /\ wrk'[w].pc \in {"send", "record", "retire"}
                        THEN {<<wrk'[w].note, wrk'[w].dev>>} ELSE {}
BY DEF Holds, Busy

(* A busy worker runs a task.                                              *)
LEMMA BusyTask ==
  ASSUME TypeOK, NEW w \in Workers, Busy(w)
  PROVE  wrk[w] \in Task
BY DEF TypeOK, Busy

LEMMA IdleNotTask == Idle \notin Task /\ Idle.pc = "idle"
BY DEF Idle, Task

(* A message more or less keeps the queue a table of numbers.              *)
LEMMA PutQueue ==
  ASSUME TypeOK, NEW n \in Notes, NEW k \in Retries
  PROVE  Put(queue, n, k) \in [Notes -> [Retries -> Nat]]
<1>1. queue[n] \in [Retries -> Nat] /\ queue[n][k] + 1 \in Nat
  BY DEF TypeOK
<1> QED
  BY <1>1 DEF Put, TypeOK

LEMMA InitInv == Init => PushInv
<1> SUFFICES ASSUME Init PROVE PushInv
  OBVIOUS
<1>1. TypeOK
  BY DEF Init, TypeOK, Statuses
<1>2. \A w \in Workers : wrk[w].pc = "idle" /\ Holds(w) = {}
  BY DEF Init, Idle, Holds, Busy
<1>3. Aimed /\ ClaimsHeld
  BY <1>2 DEF Aimed, ClaimsHeld
<1>4. Counted
  BY DEF Init, Counted
<1> QED
  BY <1>1, <1>3, <1>4 DEF PushInv

-----------------------------------------------------------------------------
(* Type correctness                                                        *)

(* The steps of users, of the sweep and of time keep the type.             *)
LEMMA UserSteps ==
  ASSUME PushInv,
         \/ \E d \in Devices : Register(d) \/ Deactivate(d)
         \/ \E n \in Notes : CreateNotification(n) \/ Recover(n)
         \/ \E n \in Notes, d \in Devices : Age(n, d)
  PROVE  TypeOK'
<1>1. TypeOK
  BY DEF PushInv
<1>2. ASSUME NEW d \in Devices, Register(d) \/ Deactivate(d)
      PROVE  TypeOK'
  BY <1>1, <1>2 DEF TypeOK, Register, Deactivate
<1>3. ASSUME NEW n \in Notes, CreateNotification(n)
      PROVE  TypeOK'
  <2>1. queue' \in [Notes -> [Retries -> Nat]]
    <3>1. 0 \in Retries
      BY AttemptsAssumption DEF Retries
    <3> QED
      BY <1>1, <1>3, <3>1, PutQueue DEF CreateNotification, TypeOK
  <2>2. forsaken' \subseteq Notes \X Devices /\ faults' \in Nat
    BY <1>1, <1>3 DEF CreateNotification, TypeOK
  <2> QED
    BY <1>1, <1>3, <2>1, <2>2 DEF CreateNotification, TypeOK
<1>4. ASSUME NEW n \in Notes, Recover(n)
      PROVE  TypeOK'
  <2>1. queue' \in [Notes -> [Retries -> Nat]]
    <3>1. 0 \in Retries
      BY AttemptsAssumption DEF Retries
    <3> QED
      BY <1>1, <1>4, <3>1, PutQueue DEF Recover, TypeOK
  <2>2. forsaken' \subseteq Notes \X Devices /\ faults' \in Nat
    BY <1>1, <1>4 DEF Recover, TypeOK
  <2>3. status' \in [Notes -> [Devices -> Statuses]]
    BY <1>1, <1>4 DEF Recover, TypeOK, Statuses
  <2>4. stale' \subseteq {c \in Notes \X Devices : status'[c[1]][c[2]] = "processing"}
    <3> SUFFICES ASSUME NEW c \in stale'
                 PROVE  c \in Notes \X Devices /\ status'[c[1]][c[2]] = "processing"
      OBVIOUS
    <3>1. c \in stale /\ c \in Notes \X Devices /\ status[c[1]][c[2]] = "processing"
      BY <1>1, <1>4 DEF Recover, TypeOK
    <3>2. c = <<c[1], c[2]>> /\ c[1] \in Notes /\ c[2] \in Devices
      BY <3>1
    <3>3. c \notin {n} \X Abandoned(n)
      BY <1>4 DEF Recover
    <3>4. c[1] = n => c[2] \notin Abandoned(n)
      BY <3>2, <3>3
    <3> QED
      BY <1>1, <1>4, <3>1, <3>2, <3>4 DEF Recover, TypeOK
  <2> QED
    BY <1>1, <1>4, <2>1, <2>2, <2>3, <2>4 DEF Recover, TypeOK
<1>5. ASSUME NEW n \in Notes, NEW d \in Devices, Age(n, d)
      PROVE  TypeOK'
  BY <1>1, <1>5 DEF TypeOK, Age, hist
<1> QED
  BY <1>2, <1>3, <1>4, <1>5

(* Writing one cell of a table keeps its type and every other cell.        *)
LEMMA CellSet ==
  ASSUME NEW S, NEW f \in [Notes -> [Devices -> S]],
         NEW n \in Notes, NEW d \in Devices, NEW v \in S
  PROVE  /\ [f EXCEPT ![n][d] = v] \in [Notes -> [Devices -> S]]
         /\ \A m \in Notes, e \in Devices :
              [f EXCEPT ![n][d] = v][m][e] = IF m = n /\ e = d THEN v ELSE f[m][e]
<1>1. f[n] \in [Devices -> S]
  OBVIOUS
<1>2. [f[n] EXCEPT ![d] = v] \in [Devices -> S]
  BY <1>1
<1> QED
  BY <1>1, <1>2

LEMMA StatusSet ==
  ASSUME TypeOK, NEW n \in Notes, NEW d \in Devices, NEW v \in Statuses,
         status' = [status EXCEPT ![n][d] = v]
  PROVE  /\ status' \in [Notes -> [Devices -> Statuses]]
         /\ \A m \in Notes, e \in Devices :
              status'[m][e] = IF m = n /\ e = d THEN v ELSE status[m][e]
<1>1. status \in [Notes -> [Devices -> Statuses]]
  BY DEF TypeOK
<1> QED
  BY <1>1, CellSet

LEMMA StaleIs ==
  ASSUME TypeOK, NEW n \in Notes, NEW d \in Devices, <<n, d>> \in stale
  PROVE  status[n][d] = "processing"
BY DEF TypeOK

(* Stale claims stay claims when no stale row leaves PROCESSING.           *)
LEMMA StaleType ==
  ASSUME TypeOK, stale' \subseteq stale,
         \A n \in Notes, d \in Devices :
           <<n, d>> \in stale' => status'[n][d] = "processing"
  PROVE  stale' \subseteq {c \in Notes \X Devices : status'[c[1]][c[2]] = "processing"}
<1> SUFFICES ASSUME NEW c \in stale'
             PROVE  c \in Notes \X Devices /\ status'[c[1]][c[2]] = "processing"
  OBVIOUS
<1>1. c \in Notes \X Devices
  BY DEF TypeOK
<1>2. c = <<c[1], c[2]>> /\ c[1] \in Notes /\ c[2] \in Devices
  BY <1>1
<1> QED
  BY <1>1, <1>2

(* What a worker knows of the delivery it has claimed.                     *)
LEMMA Own ==
  ASSUME PushInv, NEW w \in Workers, wrk[w].pc \in {"send", "record", "retire"}
  PROVE  /\ Busy(w) /\ wrk[w] \in Task
         /\ wrk[w].note \in Notes /\ wrk[w].dev \in Devices
         /\ Holds(w) = {<<wrk[w].note, wrk[w].dev>>}
         /\ status[wrk[w].note][wrk[w].dev] = "processing"
         /\ <<wrk[w].note, wrk[w].dev>> \notin stale
         /\ \A v \in Workers \ {w} : <<wrk[w].note, wrk[w].dev>> \notin Holds(v)
<1>1. Busy(w)
  BY DEF Busy, Idle
<1>2. wrk[w] \in Task
  BY <1>1, BusyTask DEF PushInv
<1>3. wrk[w].note \in Notes /\ wrk[w].dev \in Devices
  BY <1>2 DEF Task, PushInv, Aimed
<1>4. Holds(w) = {<<wrk[w].note, wrk[w].dev>>}
  BY <1>1 DEF Holds
<1>5. <<wrk[w].note, wrk[w].dev>> \in Holds(w)
  BY <1>4
<1>6. /\ status[<<wrk[w].note, wrk[w].dev>>[1]][<<wrk[w].note, wrk[w].dev>>[2]] = "processing"
      /\ <<wrk[w].note, wrk[w].dev>> \notin stale
      /\ \A v \in Workers \ {w} : <<wrk[w].note, wrk[w].dev>> \notin Holds(v)
  BY <1>5 DEF PushInv, ClaimsHeld
<1> QED
  BY <1>1, <1>2, <1>3, <1>4, <1>6

(* A delivery somebody holds is PROCESSING and its claim is fresh.         *)
LEMMA Held ==
  ASSUME PushInv, NEW v \in Workers, NEW n \in Notes, NEW d \in Devices,
         <<n, d>> \in Holds(v)
  PROVE  /\ status[n][d] = "processing" /\ <<n, d>> \notin stale
         /\ wrk[v].pc \in {"send", "record", "retire"}
         /\ wrk[v].note = n /\ wrk[v].dev = d
<1>1. wrk[v].pc \in {"send", "record", "retire"} /\ <<n, d>> = <<wrk[v].note, wrk[v].dev>>
  BY HoldsWhat
<1>2. wrk[v].note = n /\ wrk[v].dev = d
  BY <1>1
<1> QED
  BY <1>1, <1>2, Own

-----------------------------------------------------------------------------
(* What keeps the claims and the count when worker w alone moves           *)

Alone(w) == \A v \in Workers \ {w} : wrk'[v] = wrk[v]

(* Nobody's row is touched but the one w holds, if w lets go of it.        *)
RowsKept(w) == \A n \in Notes, d \in Devices :
  (\E v \in Workers \ {w} : <<n, d>> \in Holds(v))
    => status'[n][d] = status[n][d] /\ (<<n, d>> \in stale' => <<n, d>> \in stale)

(* A row that is done keeps its status.                                    *)
DoneKept == \A n \in Notes, d \in Devices :
  status[n][d] \in Final => status'[n][d] = status[n][d]

LEMMA ClaimsKept ==
  ASSUME PushInv, TypeOK', NEW w \in Workers, Alone(w), RowsKept(w),
         wrk'[w].pc \in {"send", "record", "retire"} =>
           /\ wrk'[w].dev \in Devices
           /\ status'[wrk'[w].note][wrk'[w].dev] = "processing"
           /\ <<wrk'[w].note, wrk'[w].dev>> \notin stale'
           /\ \A v \in Workers \ {w} : <<wrk'[w].note, wrk'[w].dev>> \notin Holds(v)
  PROVE  Aimed' /\ ClaimsHeld'
<1>1. Aimed'
  BY DEF Aimed, PushInv, Alone
<1>2. \A v \in Workers \ {w} : Holds(v)' = Holds(v)
  BY HoldsWhat DEF Alone
<1>3. ASSUME NEW c \in Holds(w)'
      PROVE  /\ c = <<wrk'[w].note, wrk'[w].dev>>
             /\ wrk'[w].pc \in {"send", "record", "retire"}
  BY <1>3, HoldsWhat
<1>4. ASSUME NEW c \in Holds(w)'
      PROVE  /\ status'[c[1]][c[2]] = "processing" /\ c \notin stale'
             /\ \A v \in Workers \ {w} : c \notin Holds(v)
  BY <1>3, <1>4
<1>5. ASSUME NEW v \in Workers \ {w}, NEW c \in Holds(v)
      PROVE  /\ status'[c[1]][c[2]] = "processing" /\ c \notin stale'
             /\ \A u \in Workers \ {v} : c \notin Holds(u)
  <2>1. /\ status[c[1]][c[2]] = "processing" /\ c \notin stale
        /\ \A u \in Workers \ {v} : c \notin Holds(u)
    BY <1>5 DEF PushInv, ClaimsHeld
  <2>2. c = <<wrk[v].note, wrk[v].dev>> /\ wrk[v].note \in Notes /\ wrk[v].dev \in Devices
    BY <1>5, HoldsWhat, Own
  <2> QED
    BY <1>5, <2>1, <2>2 DEF RowsKept
<1>6. ASSUME NEW v \in Workers, NEW c \in Holds(v)'
      PROVE  /\ status'[c[1]][c[2]] = "processing" /\ c \notin stale'
             /\ \A u \in Workers \ {v} : c \notin Holds(u)'
  BY <1>2, <1>4, <1>5, <1>6
<1> QED
  BY <1>1, <1>6 DEF ClaimsHeld

(* Whoever was about to record an acceptance still is, unless it has been  *)
(* recorded or is in doubt now.                                            *)
LEMMA CountKept ==
  ASSUME PushInv, TypeOK', DoneKept, accepted' = accepted,
         \A n \in Notes, d \in Devices :
           /\ doubts'[n][d] = doubts[n][d] \/ doubts'[n][d] = doubts[n][d] + 1
           /\ Accepting(n, d) =>
                \/ Accepting(n, d)' \/ status'[n][d] = "sent"
                \/ doubts'[n][d] = doubts[n][d] + 1
  PROVE  Counted'
<1> SUFFICES ASSUME NEW n \in Notes, NEW d \in Devices
             PROVE  \/ accepted'[n][d] <= doubts'[n][d]
                    \/ /\ accepted'[n][d] = doubts'[n][d] + 1
                       /\ status'[n][d] = "sent" \/ Accepting(n, d)'
  BY DEF Counted
<1>1. accepted[n][d] \in Nat /\ doubts[n][d] \in Nat
  BY DEF PushInv, TypeOK
<1>2. status[n][d] = "sent" => status'[n][d] = "sent"
  BY DEF DoneKept, Final
<1>3. \/ accepted[n][d] <= doubts[n][d]
      \/ /\ accepted[n][d] = doubts[n][d] + 1
         /\ status[n][d] = "sent" \/ Accepting(n, d)
  BY DEF PushInv, Counted
<1>4. CASE doubts'[n][d] = doubts[n][d]
  BY <1>1, <1>2, <1>3, <1>4
<1>5. CASE doubts'[n][d] = doubts[n][d] + 1
  BY <1>1, <1>3, <1>5
<1> QED
  BY <1>4, <1>5

(* When no worker moves, held rows must keep PROCESSING and their lease.   *)
LEMMA StandStill ==
  ASSUME PushInv, TypeOK', DoneKept, wrk' = wrk,
         accepted' = accepted, doubts' = doubts,
         \A v \in Workers, n \in Notes, d \in Devices : <<n, d>> \in Holds(v)
           => status'[n][d] = status[n][d] /\ <<n, d>> \notin stale'
  PROVE  PushInv'
<1>1. Aimed'
  BY DEF Aimed, PushInv
<1>2. \A v \in Workers : Holds(v)' = Holds(v)
  BY HoldsWhat
<1>3. ASSUME NEW v \in Workers, NEW c \in Holds(v)
      PROVE  /\ status'[c[1]][c[2]] = "processing" /\ c \notin stale'
             /\ \A u \in Workers \ {v} : c \notin Holds(u)
  <2>1. /\ status[c[1]][c[2]] = "processing"
        /\ \A u \in Workers \ {v} : c \notin Holds(u)
    BY <1>3 DEF PushInv, ClaimsHeld
  <2>2. c = <<wrk[v].note, wrk[v].dev>> /\ wrk[v].note \in Notes /\ wrk[v].dev \in Devices
    BY <1>3, HoldsWhat, Own
  <2> QED
    BY <1>3, <2>1, <2>2
<1>4. ClaimsHeld'
  BY <1>2, <1>3 DEF ClaimsHeld
<1>5. \A n \in Notes, d \in Devices : Accepting(n, d)' <=> Accepting(n, d)
  BY DEF Accepting, Unrecorded
<1>6. Counted'
  BY <1>5, CountKept
<1> QED
  BY <1>1, <1>4, <1>6 DEF PushInv

-----------------------------------------------------------------------------
(* The steps of users, of time and of the sweep                            *)

LEMMA UserInv ==
  ASSUME PushInv,
         \/ \E d \in Devices : Register(d) \/ Deactivate(d)
         \/ \E n \in Notes : CreateNotification(n) \/ Recover(n)
         \/ \E n \in Notes, d \in Devices : Age(n, d)
  PROVE  PushInv' /\ DoneKept
<1>1. TypeOK /\ TypeOK'
  BY UserSteps DEF PushInv
<1>2. wrk' = wrk /\ accepted' = accepted /\ doubts' = doubts
  BY DEF Register, Deactivate, CreateNotification, Recover, Age, hist
<1>3. /\ \A n \in Notes, d \in Devices :
           status'[n][d] = status[n][d] \/ <<n, d>> \in stale
      /\ \A n \in Notes, d \in Devices :
           <<n, d>> \in stale' => <<n, d>> \in stale \/ \A v \in Workers : <<n, d>> \notin Holds(v)
  <2>1. ASSUME NEW m \in Notes, Recover(m)
        PROVE  /\ \A n \in Notes, d \in Devices :
                    status'[n][d] = status[n][d] \/ <<n, d>> \in stale
               /\ stale' \subseteq stale
    <3>1. status \in [Notes -> [Devices -> Statuses]]
      BY <1>1 DEF TypeOK
    <3>2. status' = [status EXCEPT ![m] = [d \in Devices |->
                       IF d \in Abandoned(m) THEN "pending" ELSE @[d]]]
      BY <2>1 DEF Recover
    <3>3. \A d \in Devices : d \notin Abandoned(m) => status'[m][d] = status[m][d]
      BY <3>1, <3>2
    <3>4. \A n \in Notes : n # m => status'[n] = status[n]
      BY <3>1, <3>2
    <3>5. \A d \in Abandoned(m) : <<m, d>> \in stale
      BY DEF Abandoned
    <3> QED
      BY <2>1, <3>3, <3>4, <3>5 DEF Recover
  <2>2. ASSUME NEW m \in Notes, NEW e \in Devices, Age(m, e)
        PROVE  /\ status' = status
               /\ \A n \in Notes, d \in Devices : <<n, d>> \in stale' =>
                    <<n, d>> \in stale \/ \A v \in Workers : <<n, d>> \notin Holds(v)
    BY <2>2 DEF Age
  <2>3. ASSUME \/ \E d \in Devices : Register(d) \/ Deactivate(d)
               \/ \E n \in Notes : CreateNotification(n)
        PROVE  status' = status /\ stale' = stale
    BY <2>3 DEF Register, Deactivate, CreateNotification
  <2> QED
    BY <2>1, <2>2, <2>3
<1>4. DoneKept
  BY <1>1, <1>3, StaleIs DEF DoneKept, Final
<1>5. ASSUME NEW v \in Workers, NEW n \in Notes, NEW d \in Devices, <<n, d>> \in Holds(v)
      PROVE  status'[n][d] = status[n][d] /\ <<n, d>> \notin stale'
  BY <1>3, <1>5, Held
<1> QED
  BY <1>1, <1>2, <1>4, <1>5, StandStill

-----------------------------------------------------------------------------
(* The steps of a worker, one lemma each                                   *)

LEMMA ReceiveInv ==
  ASSUME PushInv, NEW w \in Workers, Receive(w)
  PROVE  PushInv' /\ DoneKept
<1>1. TypeOK
  BY DEF PushInv
<1>2. PICK n \in Notes, k \in Retries :
        /\ ~Busy(w) /\ queue[n][k] > 0
        /\ queue' = [queue EXCEPT ![n][k] = @ - 1]
        /\ wrk' = IF active = {} THEN wrk
                  ELSE [wrk EXCEPT ![w] = [pc |-> "walk", note |-> n, retries |-> k,
                          todo |-> active, again |-> {}, dev |-> None, answer |-> "ok"]]
        /\ UNCHANGED <<notes, active, status, stale, hist>>
  BY DEF Receive
<1>3. TypeOK'
  <2>1. queue' \in [Notes -> [Retries -> Nat]]
    <3>1. queue[n] \in [Retries -> Nat] /\ queue[n][k] - 1 \in Nat
      BY <1>1, <1>2 DEF TypeOK
    <3> QED
      BY <1>1, <1>2, <3>1 DEF TypeOK
  <2>2. [pc |-> "walk", note |-> n, retries |-> k, todo |-> active, again |-> {},
         dev |-> None, answer |-> "ok"] \in Task
    BY <1>1 DEF TypeOK, Task
  <2> QED
    BY <1>1, <1>2, <2>1, <2>2 DEF TypeOK, hist
<1>4. /\ Alone(w) /\ wrk[w].pc = "idle"
      /\ wrk'[w].pc \notin {"send", "record", "retire"}
  BY <1>1, <1>2 DEF Alone, TypeOK, Busy, Idle
<1>5. RowsKept(w) /\ DoneKept
  BY <1>2 DEF RowsKept, DoneKept
<1>6. Aimed' /\ ClaimsHeld'
  BY <1>3, <1>4, <1>5, ClaimsKept
<1>7. accepted' = accepted /\ doubts' = doubts
  BY <1>2 DEF hist
<1>8. \A m \in Notes, d \in Devices : Accepting(m, d) => Accepting(m, d)'
  BY <1>4 DEF Accepting, Unrecorded, Alone
<1>9. Counted'
  BY <1>3, <1>5, <1>7, <1>8, CountKept
<1> QED
  BY <1>3, <1>5, <1>6, <1>9 DEF PushInv

LEMMA VisitInv ==
  ASSUME PushInv, NEW w \in Workers, Visit(w)
  PROVE  PushInv' /\ DoneKept
<1> DEFINE n == wrk[w].note
<1>1. TypeOK /\ ClaimsHeld
  BY DEF PushInv
<1>2. PICK d \in Devices :
        /\ Busy(w) /\ wrk[w].pc = "walk" /\ d \in wrk[w].todo
        /\ IF Refused(n, d)
           THEN /\ wrk' = [wrk EXCEPT ![w].todo = @ \ {d}]
                /\ UNCHANGED <<status, stale>>
           ELSE /\ status' = [status EXCEPT ![n][d] = "processing"]
                /\ stale' = stale \ {<<n, d>>}
                /\ wrk' = [wrk EXCEPT ![w].todo = @ \ {d}, ![w].dev = d, ![w].pc = "send"]
        /\ UNCHANGED <<notes, active, queue, hist>>
  BY DEF Visit
<1>3. /\ wrk[w] \in Task /\ n \in Notes
      /\ wrk \in [Workers -> Task \cup {Idle}]
      /\ status \in [Notes -> [Devices -> Statuses]]
  BY <1>1, <1>2, BusyTask DEF Task, TypeOK
<1>4. wrk' \in [Workers -> Task \cup {Idle}]
  <2>1. /\ [wrk[w] EXCEPT !.todo = @ \ {d}] \in Task
        /\ [wrk[w] EXCEPT !.todo = @ \ {d}, !.dev = d, !.pc = "send"] \in Task
    BY <1>3 DEF Task
  <2> QED
    BY <1>2, <1>3, <2>1
<1>5. \/ /\ status' = status /\ stale' = stale /\ wrk'[w].pc = "walk"
      \/ /\ ~Refused(n, d) /\ wrk'[w].pc = "send"
         /\ wrk'[w].note = n /\ wrk'[w].dev = d
         /\ status' = [status EXCEPT ![n][d] = "processing"]
         /\ stale' = stale \ {<<n, d>>}
  BY <1>2, <1>3 DEF Task
<1>6. /\ status' \in [Notes -> [Devices -> Statuses]]
      /\ \A m \in Notes, e \in Devices :
           status'[m][e] = status[m][e] \/ (m = n /\ e = d /\ ~Refused(n, d)
             /\ status'[m][e] = "processing")
  <2>1. "processing" \in Statuses
    BY DEF Statuses
  <2> QED
    BY <1>1, <1>3, <1>5, <2>1, StatusSet
<1>7. stale' \subseteq {c \in Notes \X Devices : status'[c[1]][c[2]] = "processing"}
  BY <1>1, <1>5, <1>6, StaleIs, StaleType
<1>8. TypeOK'
  BY <1>1, <1>2, <1>4, <1>6, <1>7 DEF TypeOK, hist
<1>9. ~Refused(n, d) => \A v \in Workers : <<n, d>> \notin Holds(v)
  BY <1>3, Held DEF Refused
<1>10. Alone(w)
  BY <1>2, <1>3 DEF Alone
<1>11. RowsKept(w)
  BY <1>5, <1>6, <1>9 DEF RowsKept
<1>12. DoneKept
  BY <1>6 DEF DoneKept, Refused
<1>13. Aimed' /\ ClaimsHeld'
  <2>1. wrk'[w].pc \in {"send", "record", "retire"} =>
           /\ wrk'[w].dev \in Devices
           /\ status'[wrk'[w].note][wrk'[w].dev] = "processing"
           /\ <<wrk'[w].note, wrk'[w].dev>> \notin stale'
           /\ \A v \in Workers \ {w} : <<wrk'[w].note, wrk'[w].dev>> \notin Holds(v)
    <3>1. status[n] \in [Devices -> Statuses]
      BY <1>3
    <3>2. status' = [status EXCEPT ![n][d] = "processing"] => status'[n][d] = "processing"
      BY <1>3, <3>1
    <3>3. CASE wrk'[w].pc = "walk"
      BY <3>3
    <3>4. CASE wrk'[w].pc # "walk"
      <4>1. /\ ~Refused(n, d) /\ wrk'[w].note = n /\ wrk'[w].dev = d
            /\ status'[n][d] = "processing" /\ stale' = stale \ {<<n, d>>}
        BY <1>5, <3>2, <3>4
      <4> QED
        BY <1>9, <4>1
    <3> QED
      BY <3>3, <3>4
  <2> QED
    BY <1>8, <1>10, <1>11, <2>1, ClaimsKept
<1>14. accepted' = accepted /\ doubts' = doubts
  BY <1>2 DEF hist
<1>15. \A m \in Notes, e \in Devices : Accepting(m, e) => Accepting(m, e)'
  BY <1>2, <1>10 DEF Accepting, Unrecorded, Alone
<1>16. Counted'
  BY <1>8, <1>12, <1>14, <1>15, CountKept
<1> QED
  BY <1>8, <1>12, <1>13, <1>16 DEF PushInv

(* A table of numbers in which one cell is one more.                       *)
LEMMA CellMore ==
  ASSUME NEW f \in [Notes -> [Devices -> Nat]], NEW n \in Notes, NEW d \in Devices
  PROVE  /\ [f EXCEPT ![n][d] = @ + 1] \in [Notes -> [Devices -> Nat]]
         /\ \A m \in Notes, e \in Devices :
              [f EXCEPT ![n][d] = @ + 1][m][e]
                = IF m = n /\ e = d THEN f[m][e] + 1 ELSE f[m][e]
<1>1. f[n] \in [Devices -> Nat] /\ f[n][d] + 1 \in Nat
  OBVIOUS
<1>2. [f[n] EXCEPT ![d] = f[n][d] + 1] \in [Devices -> Nat]
  BY <1>1
<1> QED
  BY <1>1, <1>2

LEMMA SendInv ==
  ASSUME PushInv, NEW w \in Workers, Send(w)
  PROVE  PushInv' /\ DoneKept
<1> DEFINE n == wrk[w].note
           d == wrk[w].dev
<1>1. TypeOK /\ wrk[w].pc = "send"
  BY DEF PushInv, Send
<1>2. PICK answer \in {"ok", "unregistered", "error"}, took \in BOOLEAN :
        /\ answer = "ok" => took
        /\ wrk' = [wrk EXCEPT ![w].pc = "record", ![w].answer = answer]
        /\ accepted' = IF took THEN [accepted EXCEPT ![n][d] = @ + 1] ELSE accepted
        /\ answer = "unregistered" => ~took
        /\ IF answer = "error" /\ took
           THEN doubts' = [doubts EXCEPT ![n][d] = @ + 1] /\ faults' = faults + 1
           ELSE UNCHANGED <<doubts, faults>>
        /\ UNCHANGED <<notes, active, status, stale, queue, forsaken>>
  BY DEF Send
<1>3. /\ wrk[w] \in Task /\ n \in Notes /\ d \in Devices
      /\ status[n][d] = "processing" /\ <<n, d>> \notin stale
      /\ \A v \in Workers \ {w} : <<n, d>> \notin Holds(v)
  BY <1>1, Own
<1>4. /\ Alone(w) /\ wrk'[w].pc = "record" /\ wrk'[w].answer = answer
      /\ wrk'[w].note = n /\ wrk'[w].dev = d
      /\ wrk' \in [Workers -> Task \cup {Idle}]
  <2>1. wrk \in [Workers -> Task \cup {Idle}]
    BY <1>1 DEF TypeOK
  <2>2. [wrk[w] EXCEPT !.pc = "record", !.answer = answer] \in Task
    BY <1>3 DEF Task
  <2> QED
    BY <1>2, <1>3, <2>1, <2>2 DEF Alone, Task
<1>5. accepted \in [Notes -> [Devices -> Nat]] /\ doubts \in [Notes -> [Devices -> Nat]]
  BY <1>1 DEF TypeOK
<1>6. /\ accepted' \in [Notes -> [Devices -> Nat]]
      /\ \A m \in Notes, e \in Devices : accepted'[m][e] =
           IF took /\ m = n /\ e = d THEN accepted[m][e] + 1 ELSE accepted[m][e]
  BY <1>2, <1>3, <1>5, CellMore
<1>7. /\ doubts' \in [Notes -> [Devices -> Nat]] /\ faults' \in Nat
      /\ \A m \in Notes, e \in Devices : doubts'[m][e] =
           IF answer = "error" /\ took /\ m = n /\ e = d
           THEN doubts[m][e] + 1 ELSE doubts[m][e]
  <2>1. faults \in Nat
    BY <1>1 DEF TypeOK
  <2>2. CASE answer = "error" /\ took
    <3>1. doubts' = [doubts EXCEPT ![n][d] = @ + 1] /\ faults' = faults + 1
      BY <1>2, <2>2
    <3>2. /\ doubts' \in [Notes -> [Devices -> Nat]]
          /\ \A m \in Notes, e \in Devices : doubts'[m][e] =
               IF m = n /\ e = d THEN doubts[m][e] + 1 ELSE doubts[m][e]
      BY <1>3, <1>5, <3>1, CellMore
    <3> QED
      BY <2>1, <2>2, <3>1, <3>2
  <2>3. CASE ~(answer = "error" /\ took)
    BY <1>2, <1>5, <2>1, <2>3
  <2> QED
    BY <2>2, <2>3
<1>8. TypeOK'
  BY <1>1, <1>2, <1>4, <1>6, <1>7 DEF TypeOK
<1>9. RowsKept(w) /\ DoneKept
  BY <1>2 DEF RowsKept, DoneKept
<1>10. Aimed' /\ ClaimsHeld'
  <2>1. status' = status /\ stale' = stale
    BY <1>2
  <2>2. /\ wrk'[w].dev \in Devices
        /\ status'[wrk'[w].note][wrk'[w].dev] = "processing"
        /\ <<wrk'[w].note, wrk'[w].dev>> \notin stale'
        /\ \A v \in Workers \ {w} : <<wrk'[w].note, wrk'[w].dev>> \notin Holds(v)
    BY <1>3, <1>4, <2>1
  <2> QED
    BY <1>4, <1>8, <1>9, <2>2, ClaimsKept
<1>11. ~Accepting(n, d)
  <2> SUFFICES ASSUME NEW v \in Workers, Unrecorded(v), wrk[v].note = n, wrk[v].dev = d
               PROVE  FALSE
    BY DEF Accepting
  <2>1. v # w /\ wrk[v].pc = "record"
    BY <1>1 DEF Unrecorded
  <2>2. <<n, d>> \in Holds(v)
    BY <2>1, Own
  <2> QED
    BY <1>3, <2>1, <2>2
<1>12. Counted'
  <2> SUFFICES ASSUME NEW m \in Notes, NEW e \in Devices
               PROVE  \/ accepted'[m][e] <= doubts'[m][e]
                      \/ /\ accepted'[m][e] = doubts'[m][e] + 1
                         /\ status'[m][e] = "sent" \/ Accepting(m, e)'
    BY DEF Counted
  <2>1. /\ accepted[m][e] \in Nat /\ doubts[m][e] \in Nat
        /\ \/ accepted[m][e] <= doubts[m][e]
           \/ /\ accepted[m][e] = doubts[m][e] + 1
              /\ status[m][e] = "sent" \/ Accepting(m, e)
    <3>1. accepted[m][e] \in Nat /\ doubts[m][e] \in Nat
      BY <1>5
    <3> QED
      BY <3>1 DEF PushInv, Counted
  <2>2. CASE m = n /\ e = d
    <3>1. accepted[m][e] <= doubts[m][e]
      BY <1>3, <1>11, <2>1, <2>2
    <3>2. answer = "ok" => Accepting(m, e)'
      BY <1>4, <2>2 DEF Accepting, Unrecorded
    <3>3. CASE answer = "ok"
      <4>1. took
        BY <1>2, <3>3
      <4>2. accepted'[m][e] = accepted[m][e] + 1 /\ doubts'[m][e] = doubts[m][e]
        BY <1>6, <1>7, <2>2, <3>3, <4>1
      <4> QED
        BY <2>1, <3>1, <3>2, <3>3, <4>2
    <3>4. CASE answer # "ok"
      BY <1>2, <1>6, <1>7, <2>1, <2>2, <3>1, <3>4
    <3> QED
      BY <3>3, <3>4
  <2>3. CASE ~(m = n /\ e = d)
    <3>1. Accepting(m, e) => Accepting(m, e)'
      BY <1>1, <1>4 DEF Accepting, Unrecorded, Alone
    <3>2. status' = status
      BY <1>2
    <3>3. accepted'[m][e] = accepted[m][e] /\ doubts'[m][e] = doubts[m][e]
      BY <1>6, <1>7, <2>3
    <3> QED
      BY <2>1, <3>1, <3>2, <3>3
  <2> QED
    BY <2>2, <2>3
<1> QED
  BY <1>8, <1>9, <1>10, <1>12 DEF PushInv

(* Writing the row one holds and moving on keeps everything.               *)
LEMMA WriteOwn ==
  ASSUME PushInv, NEW w \in Workers, wrk[w].pc \in {"record", "retire"},
         NEW v \in Statuses, status' = [status EXCEPT ![wrk[w].note][wrk[w].dev] = v],
         wrk[w].pc = "record" /\ wrk[w].answer = "ok" => v = "sent",
         NEW t \in Task, wrk' = [wrk EXCEPT ![w] = t], t.pc = "walk",
         UNCHANGED <<notes, active, stale, queue, hist>>
  PROVE  PushInv' /\ DoneKept
<1> DEFINE n == wrk[w].note
           d == wrk[w].dev
<1>1. TypeOK
  BY DEF PushInv
<1>2. /\ n \in Notes /\ d \in Devices
      /\ status[n][d] = "processing" /\ <<n, d>> \notin stale
      /\ \A u \in Workers \ {w} : <<n, d>> \notin Holds(u)
  BY Own
<1>3. /\ status' \in [Notes -> [Devices -> Statuses]]
      /\ \A m \in Notes, e \in Devices :
           status'[m][e] = IF m = n /\ e = d THEN v ELSE status[m][e]
  BY <1>1, <1>2, StatusSet
<1>4. /\ Alone(w) /\ wrk'[w].pc = "walk"
      /\ wrk' \in [Workers -> Task \cup {Idle}]
  BY <1>1 DEF Alone, TypeOK
<1>5. stale' \subseteq {c \in Notes \X Devices : status'[c[1]][c[2]] = "processing"}
  <2>1. stale' = stale
    OBVIOUS
  <2>2. \A m \in Notes, e \in Devices :
          <<m, e>> \in stale' => status'[m][e] = "processing"
    BY <1>1, <1>2, <1>3, <2>1, StaleIs
  <2> QED
    BY <1>1, <2>1, <2>2, StaleType
<1>6. TypeOK'
  BY <1>1, <1>3, <1>4, <1>5 DEF TypeOK, hist
<1>7. RowsKept(w) /\ DoneKept
  BY <1>2, <1>3 DEF RowsKept, DoneKept, Final
<1>8. Aimed' /\ ClaimsHeld'
  BY <1>4, <1>6, <1>7, ClaimsKept
<1>9. accepted' = accepted /\ doubts' = doubts
  BY DEF hist
<1>10. \A m \in Notes, e \in Devices :
         Accepting(m, e) => Accepting(m, e)' \/ status'[m][e] = "sent"
  BY <1>2, <1>3, <1>4 DEF Accepting, Unrecorded, Alone
<1>11. Counted'
  BY <1>6, <1>7, <1>9, <1>10, CountKept
<1> QED
  BY <1>6, <1>7, <1>8, <1>11 DEF PushInv

LEMMA RecordInv ==
  ASSUME PushInv, NEW w \in Workers, Record(w)
  PROVE  PushInv' /\ DoneKept
<1> DEFINE n == wrk[w].note
           d == wrk[w].dev
<1>1. TypeOK /\ wrk[w].pc = "record"
  BY DEF PushInv, Record
<1>2. /\ wrk[w] \in Task /\ n \in Notes /\ d \in Devices
      /\ status[n][d] = "processing" /\ <<n, d>> \notin stale
      /\ \A v \in Workers \ {w} : <<n, d>> \notin Holds(v)
  BY <1>1, Own
<1>3. wrk[w].answer \in {"ok", "unregistered", "error"} /\ wrk[w].again \subseteq Devices
  BY <1>2 DEF Task
<1>4. CASE wrk[w].answer = "ok"
  <2>1. /\ status' = [status EXCEPT ![n][d] = "sent"]
        /\ wrk' = [wrk EXCEPT ![w].pc = "walk", ![w].dev = None]
        /\ UNCHANGED <<notes, active, stale, queue, hist>>
    BY <1>4 DEF Record, hist
  <2> DEFINE t == [wrk[w] EXCEPT !.pc = "walk", !.dev = None]
  <2>2. t \in Task /\ t.pc = "walk"
    BY <1>2 DEF Task
  <2>3. wrk' = [wrk EXCEPT ![w] = t]
    BY <1>1, <2>1 DEF TypeOK
  <2>4. "sent" \in Statuses
    BY DEF Statuses
  <2> HIDE DEF t
  <2> QED
    BY <1>1, <2>1, <2>2, <2>3, <2>4, WriteOwn
<1>5. CASE wrk[w].answer = "error"
  <2>1. /\ status' = [status EXCEPT ![n][d] = "pending"]
        /\ wrk' = [wrk EXCEPT ![w].pc = "walk", ![w].dev = None,
                              ![w].answer = "ok", ![w].again = @ \cup {d}]
        /\ UNCHANGED <<notes, active, stale, queue, hist>>
    BY <1>5 DEF Record, hist
  <2> DEFINE t == [wrk[w] EXCEPT !.pc = "walk", !.dev = None, !.answer = "ok",
                                 !.again = @ \cup {d}]
  <2>2. t \in Task /\ t.pc = "walk"
    BY <1>2, <1>3 DEF Task
  <2>3. wrk' = [wrk EXCEPT ![w] = t]
    BY <1>1, <2>1 DEF TypeOK
  <2>4. "pending" \in Statuses
    BY DEF Statuses
  <2> HIDE DEF t
  <2> QED
    BY <1>1, <1>5, <2>1, <2>2, <2>3, <2>4, WriteOwn
<1>6. CASE wrk[w].answer = "unregistered"
  <2>1. /\ active' = active \ {d}
        /\ forsaken' = forsaken \cup (Notes \X {d})
        /\ wrk' = [wrk EXCEPT ![w].pc = "retire"]
        /\ UNCHANGED <<status, notes, stale, queue, faults, accepted, doubts>>
    BY <1>6 DEF Record
  <2>2. /\ wrk' \in [Workers -> Task \cup {Idle}] /\ Alone(w)
        /\ wrk'[w].pc = "retire" /\ wrk'[w].note = n /\ wrk'[w].dev = d
    <3>1. [wrk[w] EXCEPT !.pc = "retire"] \in Task
      BY <1>2 DEF Task
    <3>2. wrk \in [Workers -> Task \cup {Idle}]
      BY <1>1 DEF TypeOK
    <3> QED
      BY <1>2, <2>1, <3>1, <3>2 DEF Alone, Task
  <2>3. TypeOK'
    <3>1. forsaken' \subseteq Notes \X Devices /\ active' \subseteq Devices
      BY <1>1, <1>2, <2>1 DEF TypeOK
    <3> QED
      BY <1>1, <2>1, <2>2, <3>1 DEF TypeOK
  <2>4. RowsKept(w) /\ DoneKept
    BY <2>1 DEF RowsKept, DoneKept
  <2>5. Aimed' /\ ClaimsHeld'
    BY <1>2, <2>1, <2>2, <2>3, <2>4, ClaimsKept
  <2>6. \A m \in Notes, e \in Devices : Accepting(m, e) => Accepting(m, e)'
    BY <1>6, <2>2 DEF Accepting, Unrecorded, Alone
  <2>7. Counted'
    BY <2>1, <2>3, <2>4, <2>6, CountKept
  <2> QED
    BY <2>3, <2>4, <2>5, <2>7 DEF PushInv
<1> QED
  BY <1>3, <1>4, <1>5, <1>6

LEMMA RetireInv ==
  ASSUME PushInv, NEW w \in Workers, Retire(w)
  PROVE  PushInv' /\ DoneKept
<1>1. TypeOK /\ wrk[w].pc = "retire"
  BY DEF PushInv, Retire
<1>2. wrk[w] \in Task
  BY <1>1, Own
<1> DEFINE t == [wrk[w] EXCEPT !.pc = "walk", !.dev = None, !.answer = "ok"]
<1>3. t \in Task /\ t.pc = "walk"
  BY <1>2 DEF Task
<1>4. wrk' = [wrk EXCEPT ![w] = t]
  BY <1>1 DEF TypeOK, Retire
<1>5. /\ "invalid" \in Statuses
      /\ status' = [status EXCEPT ![wrk[w].note][wrk[w].dev] = "invalid"]
      /\ UNCHANGED <<notes, active, stale, queue, hist>>
  BY DEF Statuses, Retire
<1> HIDE DEF t
<1> QED
  BY <1>1, <1>3, <1>4, <1>5, WriteOwn

LEMMA FinishInv ==
  ASSUME PushInv, NEW w \in Workers, Finish(w)
  PROVE  PushInv' /\ DoneKept
<1> DEFINE n == wrk[w].note
           k == wrk[w].retries
<1>1. TypeOK /\ Busy(w) /\ wrk[w].pc = "walk"
  BY DEF PushInv, Finish
<1>2. wrk[w] \in Task /\ n \in Notes /\ k \in Retries
  BY <1>1, BusyTask DEF Task
<1>3. queue' \in [Notes -> [Retries -> Nat]]
  <2>1. k < MaxAttempts - 1 => k + 1 \in Retries
    BY <1>2, AttemptsAssumption DEF Retries
  <2>2. queue' = queue \/ (k < MaxAttempts - 1 /\ queue' = Put(queue, n, k + 1))
    BY DEF Finish
  <2>3. queue \in [Notes -> [Retries -> Nat]]
    BY <1>1 DEF TypeOK
  <2> QED
    BY <1>1, <1>2, <2>1, <2>2, <2>3, PutQueue
<1>4. /\ status' \in [Notes -> [Devices -> Statuses]]
      /\ \A m \in Notes, e \in Devices :
           status'[m][e] = status[m][e] \/ status[m][e] = "pending"
  <2>1. status \in [Notes -> [Devices -> Statuses]]
    BY <1>1 DEF TypeOK
  <2> DEFINE row == [d \in Devices |->
               IF d \in wrk[w].again /\ status[n][d] = "pending" THEN "failed"
               ELSE status[n][d]]
  <2>2. status' = status \/ status' = [status EXCEPT ![n] = row]
    BY DEF Finish
  <2>3. row \in [Devices -> Statuses]
    BY <1>2, <2>1 DEF Statuses
  <2>4. \A e \in Devices : row[e] = status[n][e] \/ status[n][e] = "pending"
    OBVIOUS
  <2> HIDE DEF row
  <2> QED
    BY <1>2, <2>1, <2>2, <2>3, <2>4
<1>5. wrk' \in [Workers -> Task \cup {Idle}] /\ Alone(w) /\ wrk'[w].pc = "ack"
  <2>1. [wrk[w] EXCEPT !.pc = "ack", !.again = {}] \in Task
    BY <1>2 DEF Task
  <2>2. wrk \in [Workers -> Task \cup {Idle}]
    BY <1>1 DEF TypeOK
  <2>3. wrk' = [wrk EXCEPT ![w].pc = "ack", ![w].again = {}]
    BY DEF Finish
  <2> QED
    BY <1>2, <2>1, <2>2, <2>3 DEF Alone, Task
<1>6. UNCHANGED <<notes, active, stale, hist>>
  BY DEF Finish
<1>7. stale' \subseteq {c \in Notes \X Devices : status'[c[1]][c[2]] = "processing"}
  <2>1. \A m \in Notes, e \in Devices :
          <<m, e>> \in stale => status'[m][e] = "processing"
    BY <1>1, <1>4, StaleIs
  <2> QED
    BY <1>1, <1>6, <2>1, StaleType
<1>8. TypeOK'
  BY <1>1, <1>3, <1>4, <1>5, <1>6, <1>7 DEF TypeOK, hist
<1>9. RowsKept(w)
  BY <1>4, <1>6, Held DEF RowsKept
<1>10. DoneKept
  BY <1>4 DEF DoneKept, Final
<1>11. Aimed' /\ ClaimsHeld'
  BY <1>5, <1>8, <1>9, ClaimsKept
<1>12. accepted' = accepted /\ doubts' = doubts
  BY <1>6 DEF hist
<1>13. \A m \in Notes, e \in Devices : Accepting(m, e) => Accepting(m, e)'
  BY <1>1, <1>5 DEF Accepting, Unrecorded, Alone
<1>14. Counted'
  BY <1>8, <1>10, <1>12, <1>13, CountKept
<1> QED
  BY <1>8, <1>10, <1>11, <1>14 DEF PushInv

LEMMA AcknowledgeInv ==
  ASSUME PushInv, NEW w \in Workers, Acknowledge(w)
  PROVE  PushInv' /\ DoneKept
<1>1. TypeOK /\ wrk[w].pc = "ack" /\ wrk' = [wrk EXCEPT ![w] = Idle]
  BY DEF PushInv, Acknowledge
<1>2. UNCHANGED <<notes, active, status, stale, queue, hist>>
  BY DEF Acknowledge
<1>3. wrk' \in [Workers -> Task \cup {Idle}] /\ Alone(w) /\ wrk'[w].pc = "idle"
  BY <1>1 DEF TypeOK, Alone, Idle
<1>4. TypeOK'
  BY <1>1, <1>2, <1>3 DEF TypeOK, hist
<1>5. RowsKept(w) /\ DoneKept
  BY <1>2 DEF RowsKept, DoneKept
<1>6. Aimed' /\ ClaimsHeld'
  BY <1>3, <1>4, <1>5, ClaimsKept
<1>7. accepted' = accepted /\ doubts' = doubts
  BY <1>2 DEF hist
<1>8. \A m \in Notes, e \in Devices : Accepting(m, e) => Accepting(m, e)'
  BY <1>1, <1>3 DEF Accepting, Unrecorded, Alone
<1>9. Counted'
  BY <1>4, <1>5, <1>7, <1>8, CountKept
<1> QED
  BY <1>4, <1>5, <1>6, <1>9 DEF PushInv

(* A worker that dies or is aborted between the answer of Firebase and its *)
(* record leaves a doubt.                                                  *)
LEMMA StopInv ==
  ASSUME PushInv, NEW w \in Workers, WorkerLost(w) \/ Abort(w)
  PROVE  PushInv' /\ DoneKept
<1>1. TypeOK /\ Busy(w) /\ wrk' = [wrk EXCEPT ![w] = Idle]
  BY DEF PushInv, WorkerLost, Abort
<1>2. /\ doubts' = Doubted(w) /\ faults' = faults + 1
      /\ UNCHANGED <<notes, active, status, stale, accepted>>
  BY DEF WorkerLost, Abort
<1>3. /\ wrk[w] \in Task /\ wrk[w].note \in Notes /\ wrk[w].retries \in Retries
      /\ wrk[w].todo \subseteq Devices /\ wrk[w].again \subseteq Devices
  BY <1>1, BusyTask DEF Task
<1>4. wrk' \in [Workers -> Task \cup {Idle}] /\ Alone(w) /\ wrk'[w].pc = "idle"
  BY <1>1 DEF TypeOK, Alone, Idle
<1>5. /\ doubts' \in [Notes -> [Devices -> Nat]]
      /\ \A m \in Notes, e \in Devices : doubts'[m][e] =
           IF Unrecorded(w) /\ m = wrk[w].note /\ e = wrk[w].dev
           THEN doubts[m][e] + 1 ELSE doubts[m][e]
  <2>1. doubts \in [Notes -> [Devices -> Nat]]
    BY <1>1 DEF TypeOK
  <2>2. CASE Unrecorded(w)
    <3>1. wrk[w].note \in Notes /\ wrk[w].dev \in Devices
      BY <2>2, Own DEF Unrecorded
    <3>2. doubts' = [doubts EXCEPT ![wrk[w].note][wrk[w].dev] = @ + 1]
      BY <1>2, <2>2 DEF Doubted
    <3> QED
      BY <2>1, <2>2, <3>1, <3>2, CellMore
  <2>3. CASE ~Unrecorded(w)
    BY <1>2, <2>1, <2>3 DEF Doubted
  <2> QED
    BY <2>2, <2>3
<1>6. queue' \in [Notes -> [Retries -> Nat]] /\ forsaken' \subseteq Notes \X Devices
  <2>1. CASE WorkerLost(w)
    BY <1>1, <1>3, <2>1, PutQueue DEF WorkerLost, TypeOK
  <2>2. CASE Abort(w)
    BY <1>1, <1>3, <2>2 DEF Abort, TypeOK
  <2> QED
    BY <2>1, <2>2
<1>7. TypeOK'
  BY <1>1, <1>2, <1>4, <1>5, <1>6 DEF TypeOK
<1>8. RowsKept(w) /\ DoneKept
  BY <1>2 DEF RowsKept, DoneKept
<1>9. Aimed' /\ ClaimsHeld'
  BY <1>4, <1>7, <1>8, ClaimsKept
<1>10. ASSUME NEW m \in Notes, NEW e \in Devices, Accepting(m, e)
       PROVE  Accepting(m, e)' \/ doubts'[m][e] = doubts[m][e] + 1
  <2>1. PICK v \in Workers : Unrecorded(v) /\ wrk[v].note = m /\ wrk[v].dev = e
    BY <1>10 DEF Accepting
  <2>2. CASE v = w
    BY <1>5, <2>1, <2>2
  <2>3. CASE v # w
    BY <1>4, <2>1, <2>3 DEF Accepting, Unrecorded, Alone
  <2> QED
    BY <2>2, <2>3
<1>11. \A m \in Notes, e \in Devices :
         doubts'[m][e] = doubts[m][e] \/ doubts'[m][e] = doubts[m][e] + 1
  BY <1>5
<1>12. Counted'
  BY <1>2, <1>7, <1>8, <1>10, <1>11, CountKept
<1> QED
  BY <1>7, <1>8, <1>9, <1>12 DEF PushInv

-----------------------------------------------------------------------------
(* The inductive invariant and the theorems                                *)

LEMMA NextInv ==
  ASSUME PushInv, [Next]_vars
  PROVE  PushInv' /\ DoneKept
<1>1. ASSUME NEW w \in Workers, Work(w) \/ WorkerLost(w) \/ Abort(w)
      PROVE  PushInv' /\ DoneKept
  BY <1>1, ReceiveInv, VisitInv, SendInv, RecordInv, RetireInv, FinishInv,
     AcknowledgeInv, StopInv DEF Work
<1>2. CASE UNCHANGED vars
  <2>1. TypeOK'
    BY <1>2 DEF PushInv, TypeOK, vars, hist
  <2>2. DoneKept
    BY <1>2 DEF DoneKept, vars
  <2>3. /\ wrk' = wrk /\ accepted' = accepted /\ doubts' = doubts
        /\ status' = status /\ stale' = stale
    BY <1>2 DEF vars, hist
  <2> QED
    BY <2>1, <2>2, <2>3, Held, StandStill
<1> QED
  BY <1>1, <1>2, UserInv DEF Next

LEMMA AlwaysInv == Spec => []PushInv
<1>1. PushInv /\ [Next]_vars => PushInv'
  BY NextInv
<1> QED
  BY <1>1, InitInv, PTL DEF Spec

(* Rows, messages and tasks of the push delivery keep their shapes, and    *)
(* only rows that say PROCESSING are ever taken for abandoned.             *)
THEOREM PushTypeCorrect == Spec => []TypeOK
<1>1. PushInv => TypeOK
  BY DEF PushInv
<1> QED
  BY <1>1, AlwaysInv, PTL

(* The claim of a live worker in send_notification_push is its own.        *)
THEOREM ClaimsAreHeld == Spec => []ClaimsHeld
<1>1. PushInv => ClaimsHeld
  BY DEF PushInv
<1> QED
  BY <1>1, AlwaysInv, PTL

(* However often the message is delivered, retried or recovered, Firebase  *)
(* accepts a push for a device again only after an unrecorded acceptance.  *)
THEOREM PushedOnce == Spec => []NoNeedlessRepeat
<1>1. PushInv => NoNeedlessRepeat
  <2> SUFFICES ASSUME PushInv, NEW n \in Notes, NEW d \in Devices
               PROVE  accepted[n][d] <= 1 + doubts[n][d]
    BY DEF NoNeedlessRepeat
  <2>1. accepted[n][d] \in Nat /\ doubts[n][d] \in Nat
    BY DEF PushInv, TypeOK
  <2>2. accepted[n][d] <= doubts[n][d] \/ accepted[n][d] = doubts[n][d] + 1
    BY DEF PushInv, Counted
  <2> QED
    BY <2>1, <2>2
<1> QED
  BY <1>1, AlwaysInv, PTL

(* The updates by primary key of overlapping tasks, the last attempt and   *)
(* the sweep never reopen a delivery that is SENT, FAILED or INVALID.      *)
THEOREM DoneIsFinal == Spec => FinalStays
<1>1. PushInv /\ [Next]_vars =>
        [\A n \in Notes, d \in Devices :
           status[n][d] \in Final => status'[n][d] = status[n][d]]_vars
  BY NextInv DEF DoneKept
<1> QED
  BY <1>1, AlwaysInv, PTL DEF Spec, FinalStays
=============================================================================
