-------------------------- MODULE AfterbuySalesProofs --------------------------
(***************************************************************************)
(* Proofs about the sales of a product, for any number of lines, channels, *)
(* imports, managers, clicks and faults.  The managers hear of a line once *)
(* and the seller once more only with an excuse, the price is that of the  *)
(* first match, and an undisturbed sync leaves one quantity everywhere.    *)
(***************************************************************************)
EXTENDS AfterbuySales, FiniteSetTheorems, TLAPS

(* What is imported has been sold.                                         *)
Imported ==
  /\ \A l \in window : sold[l] # None
  /\ \A i \in Importers : \A l \in importer[i] : sold[l] # None

(* A request that loaded l untold and has not told the seller yet, and one *)
(* that Telling counts.                                                    *)
Loaded(q, l) == q.pc = "open" /\ q.line = l /\ ~q.seen
Tells(q, l)  == q.pc \in {"open", "created"} /\ q.line = l

Untold(l) == {m \in Managers : Loaded(click[m], l)}

(* The notice that was sent is the one counted, and so is the price.  Each *)
(* message to the seller, and each one still to come, is the first or has  *)
(* its excuse; when nobody is telling and no notice is marked, even the    *)
(* first is still to come.                                                 *)
LineOk(l) ==
  /\ told[l] = IF row[l].sent THEN 1 ELSE 0
  /\ row[l].settled = first[l]
  /\ row[l].seller => notes[l] > 0
  /\ told[l] > 0 => sold[l] # None
  /\ IsFiniteSet(Untold(l)) /\ notes[l] + Cardinality(Untold(l)) <= 1 + excused[l]
  /\ ~row[l].seller /\ Telling(l) = {} => notes[l] <= excused[l]

(* What a request in progress has seen or done.                            *)
ClickOk(m) ==
  /\ click[m].pc = "open" /\ click[m].seen => row[click[m].line].seller
  /\ click[m].pc = "created" => notes[click[m].line] > 0
  /\ click[m].pc = "read" => sold[click[m].line] # None
  /\ click[m].pc # "none" => clicks > 0

(* A job that is not over has targets left, the one in progress among them. *)
JobOk(j) ==
  /\ jobs[j].todo = {} => jobs[j] = NoJob
  /\ jobs[j].at # None => jobs[j].at \in jobs[j].todo

Reading(m) == click[m].pc = "read"

(* Since a clean read: the reader is alone and what it read is still so;   *)
(* after it, each job carries the card's quantity, and each active channel *)
(* has it or is a target of a job.                                         *)
Synced == clean =>
  /\ \A m, k \in Managers : Reading(m) /\ Reading(k) => m = k
  /\ \A m \in Managers : Reading(m) =>
       /\ \A j \in JobIds : ~Outstanding(j)
       /\ click[m].live = live[sold[click[m].line]]
  /\ (\A m \in Managers : ~Reading(m)) =>
       /\ \A j \in JobIds : Outstanding(j) => jobs[j].qty = card.stock
       /\ \A c \in active : live[c] = card.stock \/ \E j \in JobIds : c \in jobs[j].todo

SalesInv ==
  /\ TypeOK /\ Imported /\ clicks <= MaxClicks
  /\ \A l \in Lines : LineOk(l)
  /\ \A m \in Managers : ClickOk(m)
  /\ \A j \in JobIds : JobOk(j)
  /\ Synced

-----------------------------------------------------------------------------
LEMMA InitSales == Init => SalesInv
<1> SUFFICES ASSUME Init PROVE SalesInv
  OBVIOUS
<1>1. /\ NoClick.pc = "none" /\ NoRow \in Row /\ NoJob \in Job
      /\ ~NoRow.sent /\ NoRow.settled = None /\ ~NoRow.seller
      /\ NoJob.todo = {} /\ NoJob.at = None
  BY BoundsAssumption DEF NoClick, NoRow, Row, NoJob, Job
<1>2. TypeOK
  <2>1. card \in Card
    BY PriceAssumption, BoundsAssumption DEF Init, Card
  <2>2. live \in [Channels -> 0 .. FirstStock]
    BY BoundsAssumption DEF Init
  <2> QED
    BY <1>1, <2>1, <2>2 DEF Init, TypeOK
<1>3. \A l \in Lines : LineOk(l)
  <2> SUFFICES ASSUME NEW l \in Lines PROVE LineOk(l)
    OBVIOUS
  <2>1. Untold(l) = {}
    BY <1>1 DEF Init, Untold, Loaded
  <2>2. IsFiniteSet(Untold(l)) /\ Cardinality(Untold(l)) = 0
    BY <2>1, FS_EmptySet
  <2> QED
    BY <1>1, <2>2 DEF Init, LineOk
<1>4. (\A m \in Managers : ClickOk(m)) /\ \A j \in JobIds : JobOk(j)
  BY <1>1 DEF Init, ClickOk, JobOk
<1> QED
  BY <1>2, <1>3, <1>4, BoundsAssumption DEF Init, SalesInv, Imported, Synced

(* A step that leaves rows, notices and requests alone.                    *)
LEMMA LinesFrame ==
  ASSUME SalesInv, UNCHANGED <<row, told, first, notes, excused, click, clicks>>,
         \A l \in Lines : sold[l] # None => sold'[l] # None
  PROVE  /\ \A l \in Lines : LineOk(l)'
         /\ \A m \in Managers : ClickOk(m)'
<1>1. \A l \in Lines : Untold(l)' = Untold(l) /\ Telling(l)' = Telling(l)
  BY DEF Untold, Telling
<1>2. \A l \in Lines : LineOk(l)'
  BY <1>1 DEF SalesInv, LineOk
<1>3. \A m \in Managers : click[m].pc = "read" => click[m].line \in Lines
  BY DEF SalesInv, TypeOK, Click, NoClick
<1>4. \A m \in Managers : ClickOk(m)'
  BY <1>3 DEF SalesInv, ClickOk
<1> QED
  BY <1>2, <1>4

(* A step that leaves quantities, channels, jobs and readers alone.        *)
LEMMA SyncedFrame ==
  ASSUME SalesInv, UNCHANGED <<sold, live, active, jobs, clean>>, card'.stock = card.stock,
         \A m \in Managers : (Reading(m)' <=> Reading(m)) /\ (Reading(m) => click'[m] = click[m])
  PROVE  Synced' /\ \A j \in JobIds : JobOk(j)'
<1>1. \A j \in JobIds : (Outstanding(j)' <=> Outstanding(j)) /\ JobOk(j)'
  BY DEF Outstanding, SalesInv, JobOk
<1>2. ASSUME clean PROVE Synced'
  <2>1. \A m, k \in Managers : Reading(m)' /\ Reading(k)' => m = k
    BY <1>2 DEF SalesInv, Synced
  <2>2. \A m \in Managers : Reading(m)' =>
          /\ \A j \in JobIds : ~Outstanding(j)'
          /\ click'[m].live = live'[sold'[click'[m].line]]
    BY <1>1, <1>2 DEF SalesInv, Synced
  <2>3. (\A m \in Managers : ~Reading(m)') =>
          /\ \A j \in JobIds : Outstanding(j)' => jobs'[j].qty = card'.stock
          /\ \A c \in active' : live'[c] = card'.stock \/ \E j \in JobIds : c \in jobs'[j].todo
    BY <1>1, <1>2 DEF SalesInv, Synced
  <2> QED
    BY <2>1, <2>2, <2>3 DEF Synced
<1> QED
  BY <1>1, <1>2 DEF Synced

-----------------------------------------------------------------------------
LEMMA SaleStep ==
  ASSUME SalesInv, NEW l \in Lines, NEW c \in Channels, Sale(l, c)
  PROVE  SalesInv'
<1>1. /\ sold[l] = None /\ live[c] > 0
      /\ sold' = [sold EXCEPT ![l] = c] /\ window' = window \cup {l}
      /\ live' = [live EXCEPT ![c] = @ - 1] /\ clean' = FALSE
      /\ UNCHANGED <<row, card, active, click, jobs, import, hist>>
  BY DEF Sale
<1>2. TypeOK
  BY DEF SalesInv
<1>3. live[c] \in 0 .. FirstStock /\ live[c] - 1 \in 0 .. FirstStock
  <2>1. live[c] \in 0 .. FirstStock
    BY <1>2 DEF TypeOK
  <2> QED
    BY <1>1, <2>1, BoundsAssumption
<1>4. TypeOK'
  BY <1>1, <1>2, <1>3 DEF TypeOK, import, hist
<1>5. sold'[l] # None /\ \A k \in Lines : sold[k] # None => sold'[k] # None
  BY <1>1, <1>2, NoneAssumption DEF TypeOK
<1>6. Imported'
  <2>1. \A i \in Importers : importer[i] \subseteq Lines
    BY <1>2 DEF TypeOK
  <2>2. window \subseteq Lines
    BY <1>2 DEF TypeOK
  <2> QED
    BY <1>1, <1>5, <2>1, <2>2 DEF SalesInv, Imported, import
<1>7. (\A k \in Lines : LineOk(k)') /\ \A m \in Managers : ClickOk(m)'
  BY <1>1, <1>5, LinesFrame DEF import, hist
<1>8. Synced' /\ (\A j \in JobIds : JobOk(j)') /\ clicks' <= MaxClicks
  BY <1>1 DEF Synced, SalesInv, JobOk, hist
<1> QED
  BY <1>4, <1>6, <1>7, <1>8 DEF SalesInv

LEMMA LeaveWindowStep ==
  ASSUME SalesInv, NEW l \in Lines, LeaveWindow(l)
  PROVE  SalesInv'
<1>1. /\ window' = window \ {l}
      /\ UNCHANGED <<sold, row, card, live, active, click, jobs, clean, import, hist>>
  BY DEF LeaveWindow
<1>2. TypeOK' /\ Imported' /\ clicks' <= MaxClicks
  BY <1>1 DEF SalesInv, TypeOK, Imported, import, hist
<1>3. (\A k \in Lines : LineOk(k)') /\ \A m \in Managers : ClickOk(m)'
  BY <1>1, LinesFrame DEF import, hist
<1>4. Synced' /\ \A j \in JobIds : JobOk(j)'
  BY <1>1, SyncedFrame DEF Reading
<1> QED
  BY <1>2, <1>3, <1>4 DEF SalesInv

LEMMA ChangeCardStep ==
  ASSUME SalesInv, NEW new \in Card, ChangeCard(new)
  PROVE  SalesInv'
<1>1. /\ new.stock = card.stock /\ card' = new /\ faults' = faults + 1
      /\ UNCHANGED <<sold, window, row, live, active, click, jobs, clean, import,
                     clicks, notes, excused>>
  BY DEF ChangeCard, Fault
<1>2. TypeOK' /\ Imported' /\ clicks' <= MaxClicks
  BY <1>1 DEF SalesInv, TypeOK, Imported, import
<1>3. (\A k \in Lines : LineOk(k)') /\ \A m \in Managers : ClickOk(m)'
  BY <1>1, LinesFrame DEF import
<1>4. Synced' /\ \A j \in JobIds : JobOk(j)'
  BY <1>1, SyncedFrame DEF Reading
<1> QED
  BY <1>2, <1>3, <1>4 DEF SalesInv

LEMMA FetchStep ==
  ASSUME SalesInv, NEW i \in Importers, Fetch(i)
  PROVE  SalesInv'
<1>1. /\ importer' = [importer EXCEPT ![i] = window]
      /\ UNCHANGED <<sold, window, row, card, live, active, click, jobs, clean,
                     told, first, hist>>
  BY DEF Fetch
<1>2. TypeOK' /\ clicks' <= MaxClicks
  BY <1>1 DEF SalesInv, TypeOK, hist
<1>3. Imported'
  BY <1>1 DEF SalesInv, TypeOK, Imported
<1>4. (\A k \in Lines : LineOk(k)') /\ \A m \in Managers : ClickOk(m)'
  BY <1>1, LinesFrame DEF hist
<1>5. Synced' /\ \A j \in JobIds : JobOk(j)'
  BY <1>1, SyncedFrame DEF Reading
<1> QED
  BY <1>2, <1>3, <1>4, <1>5 DEF SalesInv

LEMMA ImportAbortsStep ==
  ASSUME SalesInv, NEW i \in Importers, ImportAborts(i)
  PROVE  SalesInv'
<1>1. /\ importer' = [importer EXCEPT ![i] = {}] /\ faults' = faults + 1
      /\ UNCHANGED <<sold, window, row, card, live, active, click, jobs, clean,
                     told, first, clicks, notes, excused>>
  BY DEF ImportAborts, Fault
<1>2. TypeOK' /\ Imported' /\ clicks' <= MaxClicks
  BY <1>1 DEF SalesInv, TypeOK, Imported
<1>3. (\A k \in Lines : LineOk(k)') /\ \A m \in Managers : ClickOk(m)'
  BY <1>1, LinesFrame
<1>4. Synced' /\ \A j \in JobIds : JobOk(j)'
  BY <1>1, SyncedFrame DEF Reading
<1> QED
  BY <1>2, <1>3, <1>4 DEF SalesInv

(* An imported line stays one line: its notice is sent and its price taken *)
(* once.                                                                   *)
LEMMA UpsertStep ==
  ASSUME SalesInv, NEW i \in Importers, Upsert(i)
  PROVE  SalesInv'
<1>1. PICK l \in importer[i] :
        /\ row' = [row EXCEPT ![l] = Upserted(@)]
        /\ told' = [told EXCEPT ![l] = IF card.matches /\ ~row[l].sent THEN @ + 1 ELSE @]
        /\ first' = [first EXCEPT ![l] = IF card.matches /\ @ = None THEN card.price ELSE @]
        /\ importer' = [importer EXCEPT ![i] = @ \ {l}]
        /\ UNCHANGED <<sold, window, card, live, active, click, jobs, clean, hist>>
  BY DEF Upsert
<1>2. TypeOK
  BY DEF SalesInv
<1>3. l \in Lines /\ sold[l] # None /\ row[l] \in Row /\ card \in Card /\ told[l] \in Nat
      /\ first[l] \in Prices \cup {None}
  BY <1>1, <1>2 DEF SalesInv, TypeOK, Imported
<1> DEFINE new == Upserted(row[l])
<1>4. /\ new \in Row /\ new.seller = row[l].seller
      /\ new.sent = (row[l].sent \/ card.matches)
      /\ new.settled = IF card.matches /\ row[l].settled = None THEN card.price ELSE row[l].settled
  BY <1>3 DEF Upserted, Row, Card
<1> HIDE DEF new
<1>5. row' = [row EXCEPT ![l] = new]
  BY <1>1 DEF new
<1>6. /\ row' \in [Lines -> Row] /\ row'[l] = new /\ \A k \in Lines \ {l} : row'[k] = row[k]
      /\ \A k \in Lines : row'[k].seller = row[k].seller
  BY <1>2, <1>3, <1>4, <1>5 DEF TypeOK
<1>7. /\ told' \in [Lines -> Nat] /\ \A k \in Lines \ {l} : told'[k] = told[k]
      /\ told'[l] = IF card.matches /\ ~row[l].sent THEN told[l] + 1 ELSE told[l]
  BY <1>1, <1>2, <1>3 DEF TypeOK
<1>8. /\ first' \in [Lines -> Prices \cup {None}] /\ \A k \in Lines \ {l} : first'[k] = first[k]
      /\ first'[l] = IF card.matches /\ first[l] = None THEN card.price ELSE first[l]
  BY <1>1, <1>2, <1>3 DEF TypeOK, Card
<1>9. TypeOK' /\ Imported' /\ clicks' <= MaxClicks
  <2>1. importer' \in [Importers -> SUBSET Lines] /\ \A k \in Importers : importer'[k] \subseteq importer[k]
    BY <1>1, <1>2 DEF TypeOK
  <2>2. TypeOK'
    BY <1>1, <1>2, <1>6, <1>7, <1>8, <2>1 DEF TypeOK, hist
  <2> QED
    BY <1>1, <2>1, <2>2 DEF SalesInv, Imported, hist
<1>10. \A k \in Lines : LineOk(k)'
  <2> SUFFICES ASSUME NEW k \in Lines PROVE LineOk(k)'
    OBVIOUS
  <2>1. Untold(k)' = Untold(k) /\ Telling(k)' = Telling(k)
    BY <1>1 DEF Untold, Telling
  <2>2. LineOk(k)
    BY DEF SalesInv
  <2>3. CASE k = l
    <3>1. told'[l] = (IF row'[l].sent THEN 1 ELSE 0) /\ row'[l].settled = first'[l]
      <4>1. row'[l].settled = first'[l]
        BY <1>4, <1>6, <1>8, <2>2, <2>3 DEF LineOk
      <4>2. told[l] = (IF row[l].sent THEN 1 ELSE 0)
        BY <2>2, <2>3 DEF LineOk
      <4>3. CASE row[l].sent
        BY <1>4, <1>6, <1>7, <4>1, <4>2, <4>3
      <4>4. CASE ~row[l].sent /\ card.matches
        <5>1. new.sent /\ told'[l] = told[l] + 1 /\ told[l] = 0
          BY <1>4, <1>7, <4>2, <4>4
        <5> QED
          BY <1>6, <4>1, <5>1
      <4>5. CASE ~row[l].sent /\ ~card.matches
        <5>1. ~new.sent /\ told'[l] = told[l] /\ told[l] = 0
          BY <1>4, <1>7, <4>2, <4>5
        <5> QED
          BY <1>6, <4>1, <5>1
      <4> QED
        BY <4>3, <4>4, <4>5
    <3> QED
      BY <1>1, <1>3, <1>6, <2>1, <2>2, <2>3, <3>1 DEF LineOk, hist
  <2>4. CASE k # l
    BY <1>1, <1>6, <1>7, <1>8, <2>1, <2>2, <2>4 DEF LineOk, hist
  <2> QED
    BY <2>3, <2>4
<1>11. \A m \in Managers : ClickOk(m)'
  <2>1. \A m \in Managers : click[m].pc = "open" => click[m].line \in Lines
    BY <1>2 DEF TypeOK, Click, NoClick
  <2> QED
    BY <1>1, <1>6, <2>1 DEF SalesInv, ClickOk, hist
<1>12. Synced' /\ \A j \in JobIds : JobOk(j)'
  BY <1>1, SyncedFrame DEF Reading
<1> QED
  BY <1>9, <1>10, <1>11, <1>12 DEF SalesInv

-----------------------------------------------------------------------------
(* A request in progress is about a line.                                  *)
LEMMA ClickOf ==
  ASSUME SalesInv, NEW m \in Managers
  PROVE  /\ click[m] = NoClick <=> click[m].pc = "none"
         /\ click[m].pc \in {"open", "created"} =>
              click[m] \in [pc : {"open", "created"}, line : Lines, seen : BOOLEAN]
         /\ click[m].pc = "read" => click[m] \in [pc : {"read"}, line : Lines, live : 0 .. FirstStock]
         /\ click[m].pc \in {"none", "open", "created", "read"}
         /\ click[m].pc # "none" => click[m].line \in Lines
<1>1. click[m] \in Click \cup {NoClick}
  BY DEF SalesInv, TypeOK
<1> QED
  BY <1>1 DEF Click, NoClick

(* One request changes: who is telling about a line then.                  *)
LEMMA TellingChange ==
  ASSUME SalesInv, NEW m \in Managers, NEW q, click' = [click EXCEPT ![m] = q], NEW l
  PROVE  /\ ~Loaded(q, l) => Untold(l)' = Untold(l) \ {m}
         /\ Loaded(q, l) => Untold(l)' = Untold(l) \cup {m}
         /\ ~Tells(q, l) => Telling(l)' = Telling(l) \ {m}
         /\ Tells(q, l) => Telling(l)' = Telling(l) \cup {m}
         /\ click'[m] = q /\ \A k \in Managers \ {m} : click'[k] = click[k]
<1>1. click'[m] = q /\ \A k \in Managers \ {m} : click'[k] = click[k]
  BY DEF SalesInv, TypeOK
<1>2. ~Loaded(q, l) => Untold(l)' = Untold(l) \ {m}
  BY <1>1 DEF Untold
<1>3. Loaded(q, l) => Untold(l)' = Untold(l) \cup {m}
  BY <1>1 DEF Untold
<1>4. ~Tells(q, l) => Telling(l)' = Telling(l) \ {m}
  BY <1>1 DEF Telling, Tells
<1>5. Tells(q, l) => Telling(l)' = Telling(l) \cup {m}
  BY <1>1 DEF Telling, Tells
<1> QED
  BY <1>1, <1>2, <1>3, <1>4, <1>5

(* Their number, when the request was among them and when it joins them.   *)
LEMMA UntoldCount ==
  ASSUME SalesInv, NEW m \in Managers, NEW q, click' = [click EXCEPT ![m] = q], NEW l \in Lines
  PROVE  /\ IsFiniteSet(Untold(l)) /\ IsFiniteSet(Untold(l)')
         /\ Cardinality(Untold(l)) \in Nat /\ Cardinality(Untold(l)') \in Nat
         /\ Cardinality(Untold(l)') <= Cardinality(Untold(l)) + 1
         /\ ~Loaded(q, l) =>
              Cardinality(Untold(l)') = IF m \in Untold(l) THEN Cardinality(Untold(l)) - 1
                                        ELSE Cardinality(Untold(l))
<1> DEFINE U == Untold(l)
<1>1. IsFiniteSet(U)
  BY DEF SalesInv, LineOk
<1>2. /\ ~Loaded(q, l) => Untold(l)' = U \ {m}
      /\ Loaded(q, l) => Untold(l)' = U \cup {m}
  BY TellingChange
<1> HIDE DEF U
<1>3. /\ IsFiniteSet(U \ {m})
      /\ Cardinality(U \ {m}) = IF m \in U THEN Cardinality(U) - 1 ELSE Cardinality(U)
      /\ Cardinality(U) \in Nat /\ Cardinality(U \ {m}) \in Nat
  BY <1>1, FS_RemoveElement, FS_CardinalityType
<1>4. /\ IsFiniteSet((U \ {m}) \cup {m})
      /\ Cardinality((U \ {m}) \cup {m}) = Cardinality(U \ {m}) + 1
  BY <1>3, FS_AddElement
<1>5. (U \ {m}) \cup {m} = U \cup {m}
  OBVIOUS
<1>6. CASE Loaded(q, l)
  <2>1. Untold(l)' = (U \ {m}) \cup {m}
    BY <1>2, <1>5, <1>6
  <2> QED
    BY <1>1, <1>3, <1>4, <1>6, <2>1 DEF U
<1>7. CASE ~Loaded(q, l)
  <2>1. Untold(l)' = U \ {m}
    BY <1>2, <1>7
  <2> QED
    BY <1>1, <1>3, <1>7, <2>1 DEF U
<1> QED
  BY <1>6, <1>7

-----------------------------------------------------------------------------
LEMMA OpenNotifyStep ==
  ASSUME SalesInv, NEW m \in Managers, NEW l \in Lines, OpenNotify(m, l)
  PROVE  SalesInv'
<1> DEFINE q == [pc |-> "open", line |-> l, seen |-> row[l].seller]
<1>1. /\ clicks < MaxClicks /\ clicks' = clicks + 1 /\ click[m].pc = "none" /\ told[l] > 0
      /\ click' = [click EXCEPT ![m] = q]
      /\ excused' = IF Telling(l) # {} THEN [excused EXCEPT ![l] = @ + 1] ELSE excused
      /\ UNCHANGED <<sold, window, row, card, live, active, jobs, clean, import, faults, notes>>
  BY DEF OpenNotify, Clicked, May, Idle, NoClick, Excuse
<1>2. TypeOK
  BY DEF SalesInv
<1>3. row[l].seller \in BOOLEAN /\ excused[l] \in Nat /\ clicks \in Nat /\ notes[l] \in Nat
  BY <1>2 DEF TypeOK, Row
<1>4. q \in Click /\ q.pc = "open" /\ q.line = l /\ q.seen = row[l].seller
  BY <1>3 DEF Click
<1> HIDE DEF q
<1>5. /\ excused' \in [Lines -> Nat] /\ \A k \in Lines \ {l} : excused'[k] = excused[k]
      /\ excused'[l] = IF Telling(l) # {} THEN excused[l] + 1 ELSE excused[l]
  BY <1>1, <1>2, <1>3 DEF TypeOK
<1>6. TypeOK' /\ Imported' /\ clicks' <= MaxClicks
  <2>1. TypeOK'
    BY <1>1, <1>2, <1>4, <1>5 DEF TypeOK, import
  <2> QED
    BY <1>1, <1>3, <2>1, BoundsAssumption DEF SalesInv, Imported, import
<1>7. \A k \in Lines : LineOk(k)'
  <2> SUFFICES ASSUME NEW k \in Lines PROVE LineOk(k)'
    OBVIOUS
  <2>1. LineOk(k)
    BY DEF SalesInv
  <2>2. /\ IsFiniteSet(Untold(k)) /\ IsFiniteSet(Untold(k)')
        /\ Cardinality(Untold(k)) \in Nat /\ Cardinality(Untold(k)') \in Nat
        /\ Cardinality(Untold(k)') <= Cardinality(Untold(k)) + 1
        /\ ~Loaded(q, k) =>
             Cardinality(Untold(k)') = IF m \in Untold(k) THEN Cardinality(Untold(k)) - 1
                                       ELSE Cardinality(Untold(k))
    BY <1>1, UntoldCount
  <2>3. /\ ~Tells(q, k) => Telling(k)' = Telling(k) \ {m}
        /\ Tells(q, k) => Telling(k)' = Telling(k) \cup {m}
    BY <1>1, TellingChange
  <2>4. notes[k] \in Nat /\ excused[k] \in Nat /\ excused'[k] \in Nat
    BY <1>2, <1>5 DEF TypeOK
  <2>5. m \notin Telling(k)
    BY <1>1 DEF Telling
  <2>6. CASE k # l
    <3>1. Cardinality(Untold(k)') <= Cardinality(Untold(k)) /\ Telling(k)' = Telling(k)
      <4>1. ~Loaded(q, k) /\ ~Tells(q, k)
        BY <1>4, <2>6 DEF Loaded, Tells
      <4>2. m \notin Untold(k)
        BY <1>1 DEF Untold, Loaded
      <4> QED
        BY <2>2, <2>3, <2>5, <4>1, <4>2
    <3>2. notes'[k] + Cardinality(Untold(k)') <= 1 + excused'[k]
      BY <1>1, <1>5, <2>1, <2>2, <2>4, <2>6, <3>1 DEF LineOk
    <3> QED
      BY <1>1, <1>5, <2>1, <2>2, <2>6, <3>1, <3>2 DEF LineOk, import
  <2>7. CASE k = l
    <3>1. m \in Telling(k)'
      BY <1>4, <2>3, <2>7 DEF Tells
    <3>2. notes'[k] + Cardinality(Untold(k)') <= 1 + excused'[k]
      <4>1. notes[k] + Cardinality(Untold(k)) <= 1 + excused[k]
        BY <2>1 DEF LineOk
      <4>2. CASE Telling(l) # {}
        <5>1. excused'[k] = excused[k] + 1
          BY <1>5, <2>7, <4>2
        <5> QED
          BY <1>1, <2>2, <2>4, <4>1, <5>1
      <4>3. CASE Telling(l) = {} /\ row[l].seller
        <5>1. Cardinality(Untold(k)') <= Cardinality(Untold(k)) /\ excused'[k] = excused[k]
          BY <1>4, <1>5, <2>2, <2>7, <4>3 DEF Loaded
        <5> QED
          BY <1>1, <2>2, <2>4, <4>1, <5>1
      <4>4. CASE Telling(l) = {} /\ ~row[l].seller
        <5>1. Untold(k) = {}
          BY <2>7, <4>4 DEF Untold, Loaded, Telling
        <5>2. Cardinality(Untold(k)) = 0
          BY <5>1, FS_EmptySet
        <5>3. notes[k] <= excused[k] /\ excused'[k] = excused[k]
          BY <1>5, <2>1, <2>7, <4>4 DEF LineOk
        <5> QED
          BY <1>1, <2>2, <2>4, <5>2, <5>3
      <4> QED
        BY <4>2, <4>3, <4>4
    <3> QED
      BY <1>1, <2>1, <2>2, <3>1, <3>2 DEF LineOk, import
  <2> QED
    BY <2>6, <2>7
<1>8. \A k \in Managers : ClickOk(k)'
  <2> SUFFICES ASSUME NEW k \in Managers PROVE ClickOk(k)'
    OBVIOUS
  <2>1. clicks' > 0
    BY <1>1, <1>3
  <2>2. click'[m] = q /\ \A j \in Managers \ {m} : click'[j] = click[j]
    BY <1>1, TellingChange
  <2>3. CASE k = m
    BY <1>1, <1>4, <2>1, <2>2, <2>3 DEF ClickOk
  <2>4. CASE k # m
    BY <1>1, <2>1, <2>2, <2>4 DEF ClickOk, SalesInv
  <2> QED
    BY <2>3, <2>4
<1>9. Synced' /\ \A j \in JobIds : JobOk(j)'
  <2>1. click'[m] = q /\ \A j \in Managers \ {m} : click'[j] = click[j]
    BY <1>1, TellingChange
  <2>2. \A k \in Managers : (Reading(k)' <=> Reading(k)) /\ (Reading(k) => click'[k] = click[k])
    BY <1>1, <1>4, <2>1 DEF Reading
  <2> QED
    BY <1>1, <2>2, SyncedFrame
<1> QED
  BY <1>6, <1>7, <1>8, <1>9 DEF SalesInv

(* A request that tells nothing about l, before and after.                 *)
LEMMA OtherLine ==
  ASSUME SalesInv, NEW m \in Managers, NEW q, click' = [click EXCEPT ![m] = q], NEW l,
         ~Loaded(click[m], l), ~Tells(click[m], l), ~Loaded(q, l), ~Tells(q, l)
  PROVE  Untold(l)' = Untold(l) /\ Telling(l)' = Telling(l)
<1>1. m \notin Untold(l) /\ m \notin Telling(l)
  BY DEF Untold, Telling, Tells
<1>2. /\ ~Loaded(q, l) => Untold(l)' = Untold(l) \ {m}
      /\ ~Tells(q, l) => Telling(l)' = Telling(l) \ {m}
  BY TellingChange
<1> QED
  BY <1>1, <1>2

(* A request that ends or goes on, without an excuse and without a notice: *)
(* what has to hold of the lines for it.                                   *)
LEMMA ClickLines ==
  ASSUME SalesInv, NEW m \in Managers, NEW q, click' = [click EXCEPT ![m] = q],
         UNCHANGED <<sold, told, first>>, NEW at \in Lines, click[m].line = at,
         q.pc \in {"none", "created"}, q.pc = "created" => q.line = at,
         notes' \in [Lines -> Nat], excused' \in [Lines -> Nat],
         \A l \in Lines : row'[l].sent = row[l].sent /\ row'[l].settled = row[l].settled,
         \A l \in Lines \ {at} :
           row'[l].seller = row[l].seller /\ notes'[l] = notes[l] /\ excused'[l] = excused[l],
         LineOk(at)'
  PROVE  \A l \in Lines : LineOk(l)'
<1> SUFFICES ASSUME NEW l \in Lines, l # at PROVE LineOk(l)'
  OBVIOUS
<1>1. LineOk(l) /\ l \in Lines
  BY DEF SalesInv
<1>2. ~Loaded(click[m], l) /\ ~Tells(click[m], l) /\ ~Loaded(q, l) /\ ~Tells(q, l)
  BY DEF Loaded, Tells
<1>3. Untold(l)' = Untold(l) /\ Telling(l)' = Telling(l)
  BY <1>2, OtherLine
<1> QED
  BY <1>1, <1>3 DEF LineOk

(* Telling the seller spends what the request had still to come.           *)
LEMMA TellSellerStep ==
  ASSUME SalesInv, NEW m \in Managers, TellSeller(m)
  PROVE  SalesInv'
<1> PICK l : l = click[m].line
  OBVIOUS
<1>1. /\ click[m].pc = "open"
      /\ UNCHANGED <<sold, window, row, card, live, active, jobs, clean, import,
                     clicks, faults, excused>>
  BY DEF TellSeller
<1>2. TypeOK
  BY DEF SalesInv
<1>3. /\ click[m] \in [pc : {"open", "created"}, line : Lines, seen : BOOLEAN] /\ l \in Lines
      /\ notes[l] \in Nat /\ excused[l] \in Nat
  BY <1>1, <1>2, ClickOf DEF TypeOK
<1>4. LineOk(l) /\ ClickOk(m)
  BY <1>3 DEF SalesInv
<1>5. (click[m].seen /\ notes[l] > 0) <=> m \notin Untold(l)
  BY <1>1, <1>3, <1>4 DEF Untold, Loaded, ClickOk, LineOk
<1>6. l = click[m].line
  OBVIOUS
<1>7. CASE m \notin Untold(l)
  <2>1. click' = [click EXCEPT ![m] = NoClick] /\ UNCHANGED notes
    BY <1>5, <1>6, <1>7 DEF TellSeller, Close
  <2>2. NoClick.pc = "none"
    BY DEF NoClick
  <2>3. TypeOK' /\ Imported' /\ clicks' <= MaxClicks
    <3>1. TypeOK'
      BY <1>1, <1>2, <2>1 DEF TypeOK, import
    <3> QED
      BY <1>1, <3>1 DEF SalesInv, Imported, import
  <2>4. LineOk(l)'
    <3>1. Cardinality(Untold(l)') = Cardinality(Untold(l)) /\ IsFiniteSet(Untold(l)')
      BY <1>3, <1>7, <2>1, <2>2, UntoldCount DEF Loaded
    <3>2. row[l].seller
      BY <1>1, <1>3, <1>4, <1>6, <1>7 DEF Untold, Loaded, ClickOk
    <3> QED
      BY <1>1, <1>4, <2>1, <3>1, <3>2 DEF LineOk, import
  <2>5. \A k \in Lines : LineOk(k)'
    <3>1. notes' \in [Lines -> Nat] /\ excused' \in [Lines -> Nat] /\ UNCHANGED <<sold, told, first>>
      BY <1>1, <1>2, <2>1 DEF TypeOK, import
    <3>2. \A k \in Lines : row'[k] = row[k] /\ notes'[k] = notes[k] /\ excused'[k] = excused[k]
      BY <1>1, <2>1
    <3> QED
      BY <1>3, <1>6, <2>1, <2>2, <2>4, <3>1, <3>2, ClickLines
  <2>6. click'[m] = NoClick /\ \A k \in Managers \ {m} : click'[k] = click[k]
    BY <2>1, TellingChange
  <2>7. \A k \in Managers : ClickOk(k)'
    BY <1>1, <2>1, <2>2, <2>6 DEF SalesInv, ClickOk
  <2>8. Synced' /\ \A j \in JobIds : JobOk(j)'
    <3>1. \A k \in Managers : (Reading(k)' <=> Reading(k)) /\ (Reading(k) => click'[k] = click[k])
      BY <1>1, <2>2, <2>6 DEF Reading
    <3> QED
      BY <1>1, <3>1, SyncedFrame
  <2> QED
    BY <2>3, <2>5, <2>7, <2>8 DEF SalesInv
<1>8. CASE m \in Untold(l)
  <2> DEFINE q == [click[m] EXCEPT !.pc = "created"]
  <2>1. notes' = [notes EXCEPT ![l] = @ + 1] /\ click' = [click EXCEPT ![m] = q]
    BY <1>2, <1>3, <1>5, <1>6, <1>8 DEF TellSeller, TypeOK
  <2>2. q \in Click /\ q.pc = "created" /\ q.line = l
    BY <1>3, <1>6 DEF Click
  <2> HIDE DEF q
  <2>3. notes' \in [Lines -> Nat] /\ notes'[l] = notes[l] + 1
        /\ \A k \in Lines \ {l} : notes'[k] = notes[k]
    BY <1>2, <1>3, <2>1 DEF TypeOK
  <2>4. TypeOK' /\ Imported' /\ clicks' <= MaxClicks
    <3>1. TypeOK'
      BY <1>1, <1>2, <2>1, <2>2, <2>3 DEF TypeOK, import
    <3> QED
      BY <1>1, <3>1 DEF SalesInv, Imported, import
  <2>5. LineOk(l)'
    <3>1. /\ Cardinality(Untold(l)') = Cardinality(Untold(l)) - 1 /\ IsFiniteSet(Untold(l)')
          /\ Cardinality(Untold(l)) \in Nat
      BY <1>3, <1>8, <2>1, <2>2, UntoldCount DEF Loaded
    <3>2. m \in Telling(l)'
      <4>1. Tells(q, l) => Telling(l)' = Telling(l) \cup {m}
        BY <2>1, TellingChange
      <4> QED
        BY <2>2, <4>1 DEF Tells
    <3>3. notes'[l] + Cardinality(Untold(l)') <= 1 + excused'[l] /\ notes'[l] > 0
      BY <1>1, <1>3, <1>4, <2>3, <3>1 DEF LineOk
    <3> QED
      BY <1>1, <1>4, <3>1, <3>2, <3>3 DEF LineOk, import
  <2>6. \A k \in Lines : LineOk(k)'
    <3>1. excused' \in [Lines -> Nat] /\ UNCHANGED <<sold, told, first>>
      BY <1>1, <1>2 DEF TypeOK, import
    <3>2. \A k \in Lines : row'[k] = row[k] /\ excused'[k] = excused[k]
      BY <1>1
    <3> QED
      BY <1>3, <1>6, <2>1, <2>2, <2>3, <2>5, <3>1, <3>2, ClickLines
  <2>7. click'[m] = q /\ \A k \in Managers \ {m} : click'[k] = click[k]
    BY <2>1, TellingChange
  <2>8. \A k \in Managers : ClickOk(k)'
    <3> SUFFICES ASSUME NEW k \in Managers PROVE ClickOk(k)'
      OBVIOUS
    <3>1. CASE k = m
      BY <1>1, <1>3, <1>4, <2>2, <2>3, <2>7, <3>1 DEF ClickOk
    <3>2. CASE k # m
      <4>1. ClickOk(k) /\ (click[k].pc # "none" => click[k].line \in Lines)
        BY ClickOf DEF SalesInv
      <4>2. \A n \in Lines : notes[n] > 0 => notes'[n] > 0
        BY <1>3, <2>3
      <4> QED
        BY <1>1, <2>7, <3>2, <4>1, <4>2 DEF ClickOk
    <3> QED
      BY <3>1, <3>2
  <2>9. Synced' /\ \A j \in JobIds : JobOk(j)'
    <3>1. \A k \in Managers : (Reading(k)' <=> Reading(k)) /\ (Reading(k) => click'[k] = click[k])
      BY <1>1, <2>2, <2>7 DEF Reading
    <3> QED
      BY <1>1, <3>1, SyncedFrame
  <2> QED
    BY <2>4, <2>6, <2>8, <2>9 DEF SalesInv
<1> QED
  BY <1>7, <1>8

(* A request that tells nothing, before and after, leaves the lines alone. *)
LEMMA SilentClick ==
  ASSUME SalesInv, NEW m \in Managers, NEW q, click' = [click EXCEPT ![m] = q],
         click[m].pc \in {"none", "read"}, q.pc \in {"none", "read"},
         UNCHANGED <<sold, row, told, first, notes, excused>>
  PROVE  \A l \in Lines : LineOk(l)'
<1> SUFFICES ASSUME NEW l \in Lines PROVE LineOk(l)'
  OBVIOUS
<1>1. LineOk(l)
  BY DEF SalesInv
<1>2. ~Loaded(click[m], l) /\ ~Tells(click[m], l) /\ ~Loaded(q, l) /\ ~Tells(q, l)
  BY DEF Loaded, Tells
<1>3. Untold(l)' = Untold(l) /\ Telling(l)' = Telling(l)
  BY <1>2, OtherLine
<1> QED
  BY <1>1, <1>3 DEF LineOk

(* The other requests are still about what they were about.                *)
LEMMA ClicksFrame ==
  ASSUME SalesInv, NEW m \in Managers, NEW q, click' = [click EXCEPT ![m] = q],
         sold' = sold, clicks' \in Nat, clicks <= clicks',
         \A l \in Lines : row[l].seller => row'[l].seller,
         \A l \in Lines : notes[l] > 0 => notes'[l] > 0,
         ClickOk(m)'
  PROVE  \A k \in Managers : ClickOk(k)'
<1> SUFFICES ASSUME NEW k \in Managers, k # m PROVE ClickOk(k)'
  OBVIOUS
<1>1. click'[k] = click[k]
  BY TellingChange
<1>2. ClickOk(k) /\ (click[k].pc # "none" => click[k].line \in Lines)
  BY ClickOf DEF SalesInv
<1>3. clicks > 0 => clicks' > 0
  BY DEF SalesInv, TypeOK
<1> QED
  BY <1>1, <1>2, <1>3 DEF ClickOk

-----------------------------------------------------------------------------
LEMMA MarkToldStep ==
  ASSUME SalesInv, NEW m \in Managers, MarkTold(m)
  PROVE  SalesInv'
<1> PICK l : l = click[m].line
  OBVIOUS
<1>1. /\ click[m].pc = "created"
      /\ row' = [row EXCEPT ![l].seller = TRUE] /\ click' = [click EXCEPT ![m] = NoClick]
      /\ UNCHANGED <<sold, window, card, live, active, jobs, clean, import, hist>>
  BY DEF MarkTold, Close
<1>2. TypeOK
  BY DEF SalesInv
<1>3. l = click[m].line /\ l \in Lines /\ row[l] \in Row /\ NoClick.pc = "none"
  BY <1>1, <1>2, ClickOf DEF TypeOK, NoClick
<1>4. LineOk(l) /\ ClickOk(m)
  BY <1>3 DEF SalesInv
<1> DEFINE new == [row[l] EXCEPT !.seller = TRUE]
<1>5. /\ new \in Row /\ new.seller /\ new.sent = row[l].sent /\ new.settled = row[l].settled
  BY <1>3 DEF Row
<1>6. row' = [row EXCEPT ![l] = new]
  BY <1>1
<1> HIDE DEF new
<1>7. row' \in [Lines -> Row] /\ row'[l] = new /\ \A k \in Lines \ {l} : row'[k] = row[k]
  BY <1>2, <1>3, <1>5, <1>6 DEF TypeOK
<1>8. TypeOK' /\ Imported' /\ clicks' <= MaxClicks
  <2>1. TypeOK'
    BY <1>1, <1>2, <1>7 DEF TypeOK, import, hist
  <2> QED
    BY <1>1, <2>1 DEF SalesInv, Imported, import, hist
<1>9. LineOk(l)'
  <2>1. /\ Cardinality(Untold(l)') = Cardinality(Untold(l)) /\ IsFiniteSet(Untold(l)')
    <3>1. m \notin Untold(l)
      BY <1>1 DEF Untold, Loaded
    <3> QED
      BY <1>1, <1>3, <3>1, UntoldCount DEF Loaded
  <2>2. notes[l] > 0
    BY <1>1, <1>3, <1>4 DEF ClickOk
  <2> QED
    BY <1>1, <1>4, <1>5, <1>7, <2>1, <2>2 DEF LineOk, import, hist
<1>10. \A k \in Lines : LineOk(k)'
  <2>1. /\ notes' \in [Lines -> Nat] /\ excused' \in [Lines -> Nat]
        /\ UNCHANGED <<sold, told, first>>
    BY <1>1, <1>2 DEF TypeOK, import, hist
  <2>2. /\ \A k \in Lines : row'[k].sent = row[k].sent /\ row'[k].settled = row[k].settled
        /\ \A k \in Lines \ {l} : row'[k].seller = row[k].seller
        /\ \A k \in Lines : notes'[k] = notes[k] /\ excused'[k] = excused[k]
    BY <1>1, <1>5, <1>7 DEF hist
  <2> QED
    BY <1>1, <1>3, <1>9, <2>1, <2>2, ClickLines
<1>11. click'[m] = NoClick /\ \A k \in Managers \ {m} : click'[k] = click[k]
  BY <1>1, TellingChange
<1>12. \A k \in Managers : ClickOk(k)'
  <2>1. ClickOk(m)'
    BY <1>3, <1>11 DEF ClickOk
  <2>2. /\ sold' = sold /\ clicks' \in Nat /\ clicks <= clicks'
        /\ \A k \in Lines : notes[k] > 0 => notes'[k] > 0
    BY <1>1, <1>2 DEF hist, TypeOK
  <2>3. \A k \in Lines : row[k].seller => row'[k].seller
    BY <1>5, <1>7
  <2>4. click' = [click EXCEPT ![m] = NoClick]
    BY <1>1
  <2> QED
    BY <2>1, <2>2, <2>3, <2>4, ClicksFrame
<1>13. Synced' /\ \A j \in JobIds : JobOk(j)'
  <2>1. \A k \in Managers : (Reading(k)' <=> Reading(k)) /\ (Reading(k) => click'[k] = click[k])
    BY <1>1, <1>3, <1>11 DEF Reading
  <2> QED
    BY <1>1, <2>1, SyncedFrame
<1> QED
  BY <1>8, <1>10, <1>12, <1>13 DEF SalesInv

LEMMA ClickFailsStep ==
  ASSUME SalesInv, NEW m \in Managers, ClickFails(m)
  PROVE  SalesInv'
<1> PICK l : l = click[m].line
  OBVIOUS
<1>1. /\ click[m] # NoClick /\ click' = [click EXCEPT ![m] = NoClick] /\ clean' = FALSE
      /\ excused' = IF click[m].pc = "created" THEN [excused EXCEPT ![l] = @ + 1] ELSE excused
      /\ faults' = faults + 1
      /\ UNCHANGED <<sold, window, row, card, live, active, jobs, import, clicks, notes>>
  BY DEF ClickFails, Fault, Idle, Close, Excuse
<1>2. TypeOK
  BY DEF SalesInv
<1>3. /\ l = click[m].line /\ l \in Lines /\ excused[l] \in Nat /\ notes[l] \in Nat
      /\ NoClick.pc = "none" /\ click[m].pc \in {"open", "created", "read"}
  BY <1>1, <1>2, ClickOf DEF TypeOK, NoClick
<1>4. LineOk(l) /\ ClickOk(m)
  BY <1>3 DEF SalesInv
<1>5. /\ excused' \in [Lines -> Nat] /\ \A k \in Lines \ {l} : excused'[k] = excused[k]
      /\ excused'[l] = IF click[m].pc = "created" THEN excused[l] + 1 ELSE excused[l]
  BY <1>1, <1>2, <1>3 DEF TypeOK
<1>6. TypeOK' /\ Imported' /\ clicks' <= MaxClicks
  <2>1. TypeOK'
    <3>1. click' \in [Managers -> Click \cup {NoClick}] /\ faults' \in Nat
      BY <1>1, <1>2 DEF TypeOK
    <3> QED
      BY <1>1, <1>2, <1>5, <3>1 DEF TypeOK, import
  <2> QED
    BY <1>1, <2>1 DEF SalesInv, Imported, import
<1>7. LineOk(l)'
  <2>1. /\ IsFiniteSet(Untold(l)) /\ IsFiniteSet(Untold(l)')
        /\ Cardinality(Untold(l)) \in Nat /\ Cardinality(Untold(l)') \in Nat
        /\ Cardinality(Untold(l)') = IF m \in Untold(l) THEN Cardinality(Untold(l)) - 1
                                     ELSE Cardinality(Untold(l))
    BY <1>1, <1>3, UntoldCount DEF Loaded
  <2>2. notes'[l] + Cardinality(Untold(l)') <= 1 + excused'[l]
    <3>1. notes[l] + Cardinality(Untold(l)) <= 1 + excused[l]
      BY <1>4 DEF LineOk
    <3>2. Cardinality(Untold(l)') <= Cardinality(Untold(l)) /\ excused[l] <= excused'[l]
      BY <1>3, <1>5, <2>1
    <3> QED
      BY <1>1, <1>3, <1>5, <2>1, <3>1, <3>2
  <2>3. ~row'[l].seller /\ Telling(l)' = {} => notes'[l] <= excused'[l]
    <3> SUFFICES ASSUME ~row'[l].seller, Telling(l)' = {} PROVE notes'[l] <= excused'[l]
      OBVIOUS
    <3>1. CASE click[m].pc = "created"
      <4>1. excused'[l] = excused[l] + 1 /\ notes[l] + Cardinality(Untold(l)) <= 1 + excused[l]
        BY <1>4, <1>5, <3>1 DEF LineOk
      <4> QED
        BY <1>1, <1>3, <2>1, <4>1
    <3>2. CASE click[m].pc = "open"
      <4>1. ~row[l].seller /\ click[m].line = l
        BY <1>1, <1>3
      <4>2. m \in Untold(l)
        BY <1>3, <1>4, <3>2, <4>1 DEF ClickOk, Untold, Loaded
      <4>3. Cardinality(Untold(l)) >= 1
        BY <2>1, <4>2
      <4>4. notes[l] + Cardinality(Untold(l)) <= 1 + excused[l] /\ excused'[l] = excused[l]
        BY <1>4, <1>5, <3>2 DEF LineOk
      <4> QED
        BY <1>1, <1>3, <2>1, <4>3, <4>4
    <3>3. CASE click[m].pc = "read"
      <4>1. ~Tells(NoClick, l) => Telling(l)' = Telling(l) \ {m}
        BY <1>1, TellingChange
      <4>2. m \notin Telling(l)
        BY <3>3 DEF Telling
      <4>3. Telling(l) = {}
        BY <1>3, <4>1, <4>2 DEF Tells
      <4> QED
        BY <1>1, <1>4, <1>5, <3>3, <4>3 DEF LineOk
    <3> QED
      BY <1>3, <3>1, <3>2, <3>3
  <2> QED
    BY <1>1, <1>4, <2>1, <2>2, <2>3 DEF LineOk, import
<1>8. \A k \in Lines : LineOk(k)'
  <2>1. notes' \in [Lines -> Nat] /\ UNCHANGED <<sold, told, first>>
    BY <1>1, <1>2 DEF TypeOK, import
  <2>2. \A k \in Lines : row'[k] = row[k] /\ notes'[k] = notes[k]
    BY <1>1
  <2> QED
    BY <1>1, <1>3, <1>5, <1>7, <2>1, <2>2, ClickLines
<1>9. click'[m] = NoClick /\ \A k \in Managers \ {m} : click'[k] = click[k]
  BY <1>1, TellingChange
<1>10. \A k \in Managers : ClickOk(k)'
  <2>1. ClickOk(m)'
    BY <1>3, <1>9 DEF ClickOk
  <2>2. /\ sold' = sold /\ clicks' \in Nat /\ clicks <= clicks'
        /\ \A k \in Lines : notes[k] > 0 => notes'[k] > 0
        /\ \A k \in Lines : row[k].seller => row'[k].seller
    BY <1>1, <1>2 DEF TypeOK
  <2>3. click' = [click EXCEPT ![m] = NoClick]
    BY <1>1
  <2> QED
    BY <2>1, <2>2, <2>3, ClicksFrame
<1>11. Synced' /\ \A j \in JobIds : JobOk(j)'
  BY <1>1 DEF Synced, SalesInv, JobOk
<1> QED
  BY <1>6, <1>8, <1>10, <1>11 DEF SalesInv
-----------------------------------------------------------------------------
(* The reader is alone from a clean read on, so what it read is so.        *)
LEMMA ReadLiveStep ==
  ASSUME SalesInv, NEW m \in Managers, NEW l \in Lines, ReadLive(m, l)
  PROVE  SalesInv'
<1> DEFINE q == [pc |-> "read", line |-> l, live |-> live[sold[l]]]
<1>1. /\ clicks < MaxClicks /\ clicks' = clicks + 1 /\ click[m].pc = "none" /\ told[l] > 0
      /\ click' = [click EXCEPT ![m] = q] /\ clean' = Undisturbed(m)
      /\ UNCHANGED <<sold, window, row, card, live, active, jobs, import, faults, notes, excused>>
  BY DEF ReadLive, Clicked, May, Idle, NoClick
<1>2. TypeOK
  BY DEF SalesInv
<1>3. sold[l] \in Channels /\ clicks \in Nat
  BY <1>1, <1>2 DEF SalesInv, LineOk, TypeOK
<1>4. q \in Click /\ q.pc = "read" /\ q.line = l /\ q.live = live[sold[l]]
  BY <1>2, <1>3 DEF TypeOK, Click
<1> HIDE DEF q
<1>5. click'[m] = q /\ \A k \in Managers \ {m} : click'[k] = click[k]
  BY <1>1, TellingChange
<1>6. TypeOK' /\ Imported' /\ clicks' <= MaxClicks
  <2>1. clean' \in BOOLEAN
    BY <1>1 DEF Undisturbed
  <2>2. click' \in [Managers -> Click \cup {NoClick}]
    BY <1>1, <1>2, <1>4 DEF TypeOK
  <2>3. TypeOK'
    BY <1>1, <1>2, <1>3, <2>1, <2>2 DEF TypeOK, import
  <2> QED
    BY <1>1, <1>3, <2>3, BoundsAssumption DEF SalesInv, Imported, import
<1>7. \A k \in Lines : LineOk(k)'
  <2>1. UNCHANGED <<sold, row, told, first, notes, excused>>
    BY <1>1 DEF import
  <2> QED
    BY <1>1, <1>4, <2>1, SilentClick
<1>8. \A k \in Managers : ClickOk(k)'
  <2>1. ClickOk(m)'
    BY <1>1, <1>3, <1>4, <1>5, NoneAssumption DEF ClickOk
  <2>2. /\ sold' = sold /\ clicks' \in Nat /\ clicks <= clicks'
        /\ \A k \in Lines : notes[k] > 0 => notes'[k] > 0
        /\ \A k \in Lines : row[k].seller => row'[k].seller
    BY <1>1, <1>3
  <2>3. click' = [click EXCEPT ![m] = q]
    BY <1>1
  <2> QED
    BY <2>1, <2>2, <2>3, ClicksFrame
<1>9. \A j \in JobIds : JobOk(j)' /\ (Outstanding(j)' <=> Outstanding(j))
  BY <1>1 DEF SalesInv, JobOk, Outstanding
<1>10. Synced'
  <2> SUFFICES ASSUME clean' PROVE Synced'
    BY DEF Synced
  <2>1. \A k \in Managers \ {m} : ~Reading(k)'
    BY <1>1, <1>5 DEF Undisturbed, Reading
  <2>2. \A j \in JobIds : ~Outstanding(j)'
    BY <1>1, <1>9 DEF Undisturbed
  <2>3. Reading(m)' /\ click'[m].live = live'[sold'[click'[m].line]]
    BY <1>1, <1>4, <1>5 DEF Reading
  <2> QED
    BY <2>1, <2>2, <2>3 DEF Synced
<1> QED
  BY <1>6, <1>7, <1>8, <1>9, <1>10 DEF SalesInv

(* The card takes what was read, and a job takes it to the other channels. *)
LEMMA SyncStockStep ==
  ASSUME SalesInv, NEW m \in Managers, SyncStock(m)
  PROVE  SalesInv'
<1> PICK l : l = click[m].line
  OBVIOUS
<1> PICK c : c = sold[l]
  OBVIOUS
<1> PICK qty : qty = click[m].live
  OBVIOUS
<1> DEFINE id == CHOOSE j \in JobIds : jobs[j] = NoJob
           new == IF active \subseteq {c} THEN NoJob
                  ELSE [qty |-> qty, todo |-> active \ {c}, at |-> None]
<1>1. /\ click[m].pc = "read"
      /\ card' = [card EXCEPT !.stock = qty]
      /\ jobs' = [jobs EXCEPT ![id] = new]
      /\ click' = [click EXCEPT ![m] = NoClick]
      /\ UNCHANGED <<sold, window, row, live, active, clean, import, hist>>
  BY DEF SyncStock, Close
<1>2. TypeOK
  BY DEF SalesInv
<1>3. /\ l = click[m].line /\ l \in Lines /\ c = sold[l] /\ qty = click[m].live
      /\ qty \in 0 .. FirstStock /\ NoClick.pc = "none"
  BY <1>1, ClickOf DEF NoClick
<1>4. c \in Channels
  BY <1>1, <1>2, <1>3 DEF SalesInv, ClickOk, TypeOK
<1>5. /\ new \in Job /\ new.at = None /\ new.todo = active \ {c}
      /\ new.todo = {} => new = NoJob
      /\ new.todo # {} => new.qty = qty
  <2>1. CASE active \subseteq {c}
    <3>1. NoJob \in Job /\ NoJob.at = None /\ NoJob.todo = {}
      BY BoundsAssumption DEF NoJob, Job
    <3>2. new = NoJob /\ active \ {c} = {}
      BY <2>1
    <3> QED
      BY <3>1, <3>2
  <2>2. CASE ~(active \subseteq {c})
    <3>1. new = [qty |-> qty, todo |-> active \ {c}, at |-> None] /\ active \ {c} # {}
      BY <2>2
    <3> HIDE DEF new
    <3>2. new \in Job
      BY <1>2, <1>3, <3>1 DEF TypeOK, Job
    <3> QED
      BY <3>1, <3>2
  <2> QED
    BY <2>1, <2>2
<1>6. (\A j \in JobIds : jobs[j] = NoJob) => id \in JobIds /\ jobs[id] = NoJob
  <2>1. \E j \in JobIds : TRUE
    <3>1. clicks \in Nat /\ clicks > 0 /\ clicks <= MaxClicks /\ MaxClicks \in Nat
      BY <1>1, <1>2, BoundsAssumption DEF SalesInv, ClickOk, TypeOK
    <3>2. 1 \in JobIds
      BY <3>1 DEF JobIds
    <3> QED
      BY <3>2
  <2> QED
    BY <2>1
<1> HIDE DEF new, id
<1>7. click'[m] = NoClick /\ \A k \in Managers \ {m} : click'[k] = click[k]
  BY <1>1, TellingChange
<1>8. card' \in Card /\ card'.stock = qty
  <2>1. card \in [matches : BOOLEAN, price : Prices, stock : 0 .. FirstStock]
    BY <1>2 DEF TypeOK, Card
  <2> QED
    BY <1>1, <1>3, <2>1 DEF Card
<1>9. jobs' \in [JobIds -> Job] /\ \A j \in JobIds : jobs'[j] = IF j = id THEN new ELSE jobs[j]
  BY <1>1, <1>2, <1>5 DEF TypeOK
<1>10. TypeOK' /\ Imported' /\ clicks' <= MaxClicks
  <2>1. click' \in [Managers -> Click \cup {NoClick}]
    BY <1>1, <1>2 DEF TypeOK
  <2>2. TypeOK'
    BY <1>1, <1>2, <1>8, <1>9, <2>1 DEF TypeOK, import, hist
  <2> QED
    BY <1>1, <2>2 DEF SalesInv, Imported, import, hist
<1>11. \A k \in Lines : LineOk(k)'
  <2>1. UNCHANGED <<sold, row, told, first, notes, excused>>
    BY <1>1 DEF import, hist
  <2>2. click' = [click EXCEPT ![m] = NoClick]
    BY <1>1
  <2> QED
    BY <1>1, <1>3, <2>1, <2>2, SilentClick
<1>12. \A k \in Managers : ClickOk(k)'
  <2>1. ClickOk(m)'
    BY <1>3, <1>7 DEF ClickOk
  <2>2. /\ sold' = sold /\ clicks' \in Nat /\ clicks <= clicks'
        /\ \A k \in Lines : notes[k] > 0 => notes'[k] > 0
        /\ \A k \in Lines : row[k].seller => row'[k].seller
    BY <1>1, <1>2 DEF TypeOK, hist
  <2>3. click' = [click EXCEPT ![m] = NoClick]
    BY <1>1
  <2> QED
    BY <2>1, <2>2, <2>3, ClicksFrame
<1>13. \A j \in JobIds : JobOk(j)'
  BY <1>5, <1>9 DEF SalesInv, JobOk
<1>14. Synced'
  <2> SUFFICES ASSUME clean' PROVE Synced'
    BY DEF Synced
  <2>1. /\ clean /\ Reading(m) /\ (\A k \in Managers \ {m} : ~Reading(k))
        /\ (\A j \in JobIds : ~Outstanding(j)) /\ qty = live[c]
    <3>1. clean /\ Reading(m)
      BY <1>1 DEF Reading
    <3> QED
      BY <1>3, <3>1 DEF SalesInv, Synced
  <2>2. \A k \in Managers : ~Reading(k)'
    BY <1>3, <1>7, <2>1 DEF Reading
  <2>3. \A j \in JobIds : jobs[j] = NoJob /\ jobs[j].todo = {}
    BY <2>1 DEF SalesInv, JobOk, Outstanding
  <2>4. id \in JobIds /\ jobs'[id] = new
    BY <1>6, <1>9, <2>3
  <2>5. \A j \in JobIds : Outstanding(j)' => jobs'[j].qty = card'.stock
    BY <1>5, <1>8, <1>9, <2>3 DEF Outstanding
  <2>6. \A d \in active' : live'[d] = card'.stock \/ \E j \in JobIds : d \in jobs'[j].todo
    <3> SUFFICES ASSUME NEW d \in active', live'[d] # card'.stock
                 PROVE  \E j \in JobIds : d \in jobs'[j].todo
      OBVIOUS
    <3>1. d \in active \ {c}
      BY <1>1, <1>8, <2>1
    <3> QED
      BY <1>5, <2>4, <3>1
  <2> QED
    BY <2>2, <2>5, <2>6 DEF Synced
<1> QED
  BY <1>10, <1>11, <1>12, <1>13, <1>14 DEF SalesInv
-----------------------------------------------------------------------------
(* A job that is done with a channel keeps its quantity for the others.    *)
LEMMA WithoutTarget ==
  ASSUME NEW job \in Job, NEW c \in job.todo
  PROVE  /\ Without(job, c) \in Job /\ Without(job, c).todo = job.todo \ {c}
         /\ Without(job, c).at = None
         /\ Without(job, c).todo = {} => Without(job, c) = NoJob
         /\ Without(job, c).todo # {} => Without(job, c).qty = job.qty
<1>1. CASE job.todo = {c}
  <2>1. NoJob \in Job /\ NoJob.at = None /\ NoJob.todo = {}
    BY BoundsAssumption DEF NoJob, Job
  <2>2. Without(job, c) = NoJob /\ job.todo \ {c} = {}
    BY <1>1 DEF Without
  <2> QED
    BY <2>1, <2>2
<1>2. CASE job.todo # {c}
  <2>1. Without(job, c) = [job EXCEPT !.at = None, !.todo = job.todo \ {c}]
    BY <1>2 DEF Without
  <2>2. job.todo \ {c} # {}
    BY <1>2
  <2>3. job.todo \ {c} \in SUBSET Channels
    BY DEF Job
  <2>4. /\ Without(job, c) \in Job /\ Without(job, c).todo = job.todo \ {c}
        /\ Without(job, c).at = None /\ Without(job, c).qty = job.qty
    BY <2>1, <2>3 DEF Job
  <2> QED
    BY <2>2, <2>4
<1> QED
  BY <1>1, <1>2

(* A job takes a channel in, or finds it is not ACTIVE and gives it up: a  *)
(* channel that stays active keeps its quantity or its job.                *)
LEMMA StartTargetStep ==
  ASSUME SalesInv, NEW j \in JobIds, StartTarget(j)
  PROVE  SalesInv'
<1>1. PICK c \in jobs[j].todo :
        /\ jobs[j].at = None
        /\ IF c \in active
           THEN active' = active \ {c} /\ jobs' = [jobs EXCEPT ![j].at = c]
           ELSE jobs' = [jobs EXCEPT ![j] = Without(@, c)] /\ UNCHANGED active
        /\ UNCHANGED <<sold, window, row, card, live, click, clean, import, hist>>
  BY DEF StartTarget
<1>2. TypeOK
  BY DEF SalesInv
<1>3. jobs[j] \in Job /\ c \in Channels
  BY <1>1, <1>2 DEF TypeOK, Job
<1>4. PICK new : /\ jobs' = [jobs EXCEPT ![j] = new] /\ new \in Job
                 /\ new.todo = {} => new = NoJob
                 /\ new.at # None => new.at \in new.todo
                 /\ new.todo # {} => new.qty = jobs[j].qty
                 /\ jobs[j].todo \ {c} \subseteq new.todo
  <2>1. CASE c \in active
    <3> DEFINE up == [jobs[j] EXCEPT !.at = c]
    <3>1. up \in Job /\ up.at = c /\ up.todo = jobs[j].todo /\ up.qty = jobs[j].qty
      BY <1>3 DEF Job
    <3>2. jobs' = [jobs EXCEPT ![j] = up]
      BY <1>1, <2>1
    <3> HIDE DEF up
    <3> QED
      BY <1>1, <3>1, <3>2
  <2>2. CASE c \notin active
    <3>1. jobs' = [jobs EXCEPT ![j] = Without(jobs[j], c)]
      BY <1>1, <2>2
    <3> QED
      <4> DEFINE off == Without(jobs[j], c)
      <4>1. /\ off \in Job /\ off.todo = jobs[j].todo \ {c} /\ off.at = None
            /\ off.todo = {} => off = NoJob
            /\ off.todo # {} => off.qty = jobs[j].qty
        BY <1>1, <1>3, WithoutTarget
      <4>2. jobs' = [jobs EXCEPT ![j] = off]
        BY <3>1
      <4> HIDE DEF off
      <4> QED
        BY <4>1, <4>2
  <2> QED
    BY <2>1, <2>2
<1>5. active' = active \ {c}
  BY <1>1
<1>6. jobs' \in [JobIds -> Job] /\ \A k \in JobIds : jobs'[k] = IF k = j THEN new ELSE jobs[k]
  BY <1>2, <1>4 DEF TypeOK
<1>7. TypeOK' /\ Imported' /\ clicks' <= MaxClicks
  <2>1. TypeOK'
    BY <1>1, <1>2, <1>5, <1>6 DEF TypeOK, import, hist
  <2> QED
    BY <1>1, <2>1 DEF SalesInv, Imported, import, hist
<1>8. (\A k \in Lines : LineOk(k)') /\ \A m \in Managers : ClickOk(m)'
  <2>1. UNCHANGED <<row, told, first, notes, excused, click, clicks, sold>>
    BY <1>1 DEF import, hist
  <2> QED
    BY <2>1, LinesFrame
<1>9. \A k \in JobIds : JobOk(k)'
  BY <1>4, <1>6 DEF SalesInv, JobOk
<1>10. Synced'
  <2> SUFFICES ASSUME clean' PROVE Synced'
    BY DEF Synced
  <2>1. clean /\ Outstanding(j)
    BY <1>1 DEF Outstanding
  <2>2. /\ \A m \in Managers : ~Reading(m)
        /\ \A k \in JobIds : Outstanding(k) => jobs[k].qty = card.stock
        /\ \A d \in active : live[d] = card.stock \/ \E k \in JobIds : d \in jobs[k].todo
    BY <2>1 DEF SalesInv, Synced
  <2>3. \A m \in Managers : ~Reading(m)'
    BY <1>1, <2>2 DEF Reading
  <2>4. \A k \in JobIds : Outstanding(k)' => jobs'[k].qty = card'.stock
    BY <1>1, <1>4, <1>6, <2>1, <2>2 DEF Outstanding
  <2>5. \A d \in active' : live'[d] = card'.stock \/ \E k \in JobIds : d \in jobs'[k].todo
    <3> SUFFICES ASSUME NEW d \in active', live'[d] # card'.stock
                 PROVE  \E k \in JobIds : d \in jobs'[k].todo
      OBVIOUS
    <3>1. d \in active /\ d # c /\ live[d] # card.stock
      BY <1>1, <1>5
    <3>2. PICK k \in JobIds : d \in jobs[k].todo
      BY <2>2, <3>1
    <3>3. d \in jobs'[k].todo
      BY <1>4, <1>6, <3>1, <3>2
    <3> QED
      BY <3>3
  <2> QED
    BY <2>3, <2>4, <2>5 DEF Synced
<1> QED
  BY <1>7, <1>8, <1>9, <1>10 DEF SalesInv

(* A channel that is updated has the quantity of the job, the card's.      *)
LEMMA UpdateTargetStep ==
  ASSUME SalesInv, NEW j \in JobIds, UpdateTarget(j)
  PROVE  SalesInv'
<1> PICK c : c = jobs[j].at
  OBVIOUS
<1>1. /\ c = jobs[j].at /\ c # None
      /\ live' = [live EXCEPT ![c] = jobs[j].qty] /\ active' = active \cup {c}
      /\ jobs' = [jobs EXCEPT ![j] = Without(jobs[j], c)]
      /\ UNCHANGED <<sold, window, row, card, click, clean, import, hist>>
  BY DEF UpdateTarget
<1>2. TypeOK
  BY DEF SalesInv
<1>3. /\ jobs[j] \in Job /\ c \in jobs[j].todo /\ c \in Channels
      /\ jobs[j].qty \in 0 .. FirstStock
  BY <1>1, <1>2 DEF SalesInv, JobOk, TypeOK, Job
<1> DEFINE new == Without(jobs[j], c)
<1>4. /\ new \in Job /\ new.todo = jobs[j].todo \ {c} /\ new.at = None
      /\ new.todo = {} => new = NoJob
      /\ new.todo # {} => new.qty = jobs[j].qty
  BY <1>3, WithoutTarget
<1>5. jobs' = [jobs EXCEPT ![j] = new]
  BY <1>1
<1> HIDE DEF new
<1>6. jobs' \in [JobIds -> Job] /\ \A k \in JobIds : jobs'[k] = IF k = j THEN new ELSE jobs[k]
  BY <1>2, <1>4, <1>5 DEF TypeOK
<1>7. live' \in [Channels -> 0 .. FirstStock] /\ live'[c] = jobs[j].qty
      /\ \A d \in Channels \ {c} : live'[d] = live[d]
  BY <1>1, <1>2, <1>3 DEF TypeOK
<1>8. TypeOK' /\ Imported' /\ clicks' <= MaxClicks
  <2>1. TypeOK'
    BY <1>1, <1>2, <1>3, <1>6, <1>7 DEF TypeOK, import, hist
  <2> QED
    BY <1>1, <2>1 DEF SalesInv, Imported, import, hist
<1>9. (\A k \in Lines : LineOk(k)') /\ \A m \in Managers : ClickOk(m)'
  <2>1. UNCHANGED <<row, told, first, notes, excused, click, clicks, sold>>
    BY <1>1 DEF import, hist
  <2> QED
    BY <2>1, LinesFrame
<1>10. \A k \in JobIds : JobOk(k)'
  BY <1>4, <1>6 DEF SalesInv, JobOk
<1>11. Synced'
  <2> SUFFICES ASSUME clean' PROVE Synced'
    BY DEF Synced
  <2>1. clean /\ Outstanding(j)
    BY <1>1, <1>3 DEF Outstanding
  <2>2. /\ \A m \in Managers : ~Reading(m)
        /\ \A k \in JobIds : Outstanding(k) => jobs[k].qty = card.stock
        /\ \A d \in active : live[d] = card.stock \/ \E k \in JobIds : d \in jobs[k].todo
    BY <2>1 DEF SalesInv, Synced
  <2>3. \A m \in Managers : ~Reading(m)'
    BY <1>1, <2>2 DEF Reading
  <2>4. \A k \in JobIds : Outstanding(k)' => jobs'[k].qty = card'.stock
    BY <1>1, <1>4, <1>6, <2>1, <2>2 DEF Outstanding
  <2>5. \A d \in active' : live'[d] = card'.stock \/ \E k \in JobIds : d \in jobs'[k].todo
    <3> SUFFICES ASSUME NEW d \in active', live'[d] # card'.stock
                 PROVE  \E k \in JobIds : d \in jobs'[k].todo
      OBVIOUS
    <3>1. d # c
      BY <1>1, <1>7, <2>1, <2>2
    <3>2. d \in active /\ d \in Channels
      BY <1>1, <1>2, <3>1 DEF TypeOK
    <3>3. live[d] # card.stock
      BY <1>1, <1>7, <3>1, <3>2
    <3>4. PICK k \in JobIds : d \in jobs[k].todo
      BY <2>2, <3>2, <3>3
    <3>5. d \in jobs'[k].todo
      BY <1>4, <1>6, <3>1, <3>4
    <3> QED
      BY <3>5
  <2> QED
    BY <2>3, <2>4, <2>5 DEF Synced
<1> QED
  BY <1>8, <1>9, <1>10, <1>11 DEF SalesInv

LEMMA JobFailsStep ==
  ASSUME SalesInv, NEW j \in JobIds, JobFails(j)
  PROVE  SalesInv'
<1>1. PICK done \in BOOLEAN :
        /\ faults' = faults + 1 /\ clean' = FALSE
        /\ done => jobs[j].at # None
        /\ live' = IF done THEN [live EXCEPT ![jobs[j].at] = jobs[j].qty] ELSE live
        /\ jobs' = [jobs EXCEPT ![j] = NoJob]
        /\ UNCHANGED <<sold, window, row, card, active, click, import, clicks, notes, excused>>
  BY DEF JobFails, Fault
<1>2. TypeOK
  BY DEF SalesInv
<1>3. /\ NoJob \in Job /\ NoJob.at = None /\ NoJob.todo = {}
      /\ jobs[j].qty \in 0 .. FirstStock
  BY <1>2, BoundsAssumption DEF TypeOK, NoJob, Job
<1>4. live' \in [Channels -> 0 .. FirstStock]
  BY <1>1, <1>2, <1>3 DEF TypeOK
<1>5. jobs' \in [JobIds -> Job] /\ \A k \in JobIds : jobs'[k] = IF k = j THEN NoJob ELSE jobs[k]
  BY <1>1, <1>2, <1>3 DEF TypeOK
<1>6. TypeOK' /\ Imported' /\ clicks' <= MaxClicks
  <2>1. TypeOK'
    <3>1. faults' \in Nat /\ clean' \in BOOLEAN
      <4>1. faults' = faults + 1
        BY <1>1
      <4>2. faults \in Nat
        BY <1>2 DEF TypeOK
      <4>3. clean' = FALSE
        BY <1>1
      <4>4. faults' \in Nat
        BY <4>1, <4>2
      <4> QED
        BY <4>3, <4>4
    <3> QED
      BY <1>1, <1>2, <1>4, <1>5, <3>1 DEF TypeOK, import
  <2> QED
    BY <1>1, <2>1 DEF SalesInv, Imported, import
<1>7. (\A k \in Lines : LineOk(k)') /\ \A m \in Managers : ClickOk(m)'
  <2>1. UNCHANGED <<row, told, first, notes, excused, click, clicks, sold>>
    BY <1>1 DEF import
  <2> QED
    BY <2>1, LinesFrame
<1>8. \A k \in JobIds : JobOk(k)'
  BY <1>3, <1>5 DEF SalesInv, JobOk
<1> QED
  BY <1>1, <1>6, <1>7, <1>8 DEF SalesInv, Synced

-----------------------------------------------------------------------------
LEMMA NextSales == SalesInv /\ [Next]_vars => SalesInv'
<1> SUFFICES ASSUME SalesInv, [Next]_vars PROVE SalesInv'
  OBVIOUS
<1>1. CASE \E l \in Lines, c \in Channels : Sale(l, c)
  BY <1>1, SaleStep
<1>2. CASE \E l \in Lines : LeaveWindow(l)
  BY <1>2, LeaveWindowStep
<1>3. CASE \E new \in Card : ChangeCard(new)
  BY <1>3, ChangeCardStep
<1>4. CASE \E i \in Importers : Import(i) \/ ImportAborts(i)
  BY <1>4, FetchStep, UpsertStep, ImportAbortsStep DEF Import
<1>5. CASE \E m \in Managers : Manage(m)
  BY <1>5, OpenNotifyStep, ReadLiveStep, TellSellerStep, MarkToldStep, SyncStockStep,
     ClickFailsStep DEF Manage
<1>6. CASE \E j \in JobIds : StartTarget(j) \/ UpdateTarget(j) \/ JobFails(j)
  BY <1>6, StartTargetStep, UpdateTargetStep, JobFailsStep
<1>7. CASE UNCHANGED vars
  <2>1. UNCHANGED <<sold, window, row, card, live, active, importer, click, jobs, clicks,
                    faults, told, notes, excused, first, clean>>
    BY <1>7 DEF vars, import, hist
  <2>2. TypeOK' /\ Imported' /\ clicks' <= MaxClicks
    BY <2>1 DEF SalesInv, TypeOK, Imported
  <2>3. (\A k \in Lines : LineOk(k)') /\ \A m \in Managers : ClickOk(m)'
    BY <2>1, LinesFrame
  <2>4. Synced' /\ \A j \in JobIds : JobOk(j)'
    BY <2>1, SyncedFrame DEF Reading
  <2> QED
    BY <2>2, <2>3, <2>4 DEF SalesInv
<1> QED
  BY <1>1, <1>2, <1>3, <1>4, <1>5, <1>6, <1>7 DEF Next

(* Every reachable state has what the proofs below need of it.             *)
LEMMA SalesAlways == Spec => []SalesInv
  BY InitSales, NextSales, PTL DEF Spec

(* Rows, requests and jobs keep their shape, and however often imports     *)
(* repeat, overlap and match a line anew, the managers hear of it once,    *)
(* the seller once more only for requests that overlapped or died halfway, *)
(* and its price is that of the first match.                               *)
THEOREM SalesConsistent == Spec => []Consistent
<1>1. SalesInv => Consistent
  <2> SUFFICES ASSUME SalesInv, NEW l \in Lines
               PROVE  told[l] <= 1 /\ notes[l] <= 1 + excused[l] /\ row[l].settled = first[l]
    BY DEF Consistent, OncePerLine, SalesInv
  <2>1. LineOk(l) /\ notes[l] \in Nat /\ excused[l] \in Nat
    BY DEF SalesInv, TypeOK
  <2>2. Cardinality(Untold(l)) \in Nat
    BY <2>1, FS_CardinalityType DEF LineOk
  <2>3. told[l] <= 1 /\ row[l].settled = first[l]
    BY <2>1 DEF LineOk
  <2>4. notes[l] + Cardinality(Untold(l)) <= 1 + excused[l]
    BY <2>1 DEF LineOk
  <2> QED
    BY <2>1, <2>2, <2>3, <2>4
<1> QED
  BY <1>1, SalesAlways, PTL

(* A stock sync that no sale, no failure and no other sync disturbed       *)
(* leaves, once its job is done, the card and every listed channel with    *)
(* the quantity of the channel that sold: the targets of the job shrink    *)
(* only when one is updated or is not listed any more.                     *)
THEOREM StockSyncAgrees == Spec => []StockAgrees
<1>1. SalesInv => StockAgrees
  BY DEF SalesInv, Synced, StockAgrees, Reading, Outstanding
<1> QED
  BY <1>1, SalesAlways, PTL

=============================================================================
