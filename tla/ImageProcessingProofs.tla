-------------------------- MODULE ImageProcessingProofs --------------------------
(***************************************************************************)
(* Proofs about the photos of a product and their processing, for any      *)
(* photos, workers, requests, polls and faults.  However the gallery is    *)
(* edited it has one cover and a strict order; tasks start at most one     *)
(* paid generation for each request; and a success is only undone by a new *)
(* request.                                                                *)
(***************************************************************************)
EXTENDS ImageProcessing, FiniteSetTheorems, TLAPS

(* What every edit of a gallery keeps: its rows are finitely many and have *)
(* their shape, one of them is the cover, and no two share a position.     *)
Rows(g) == /\ IsFiniteSet(DOMAIN g) /\ \A p \in DOMAIN g : g[p] \in Row
           /\ \A p, q \in DOMAIN g : p # q => g[p].position # g[q].position

GalleryOk(g) == Rows(g) /\ (DOMAIN g # {} => \E c \in DOMAIN g : Covers(g) = {c})

-----------------------------------------------------------------------------
(* A set of numbers has a least one; a gallery has a last position.        *)
Less == {ss \in Nat \X Nat : ss[1] < ss[2]}

LEMMA LeastNat ==
  ASSUME NEW T \in SUBSET Nat, T # {}
  PROVE  \E x \in T : \A y \in T : x <= y
<1>1. IsWellFoundedOn(Less, Nat)
  BY NatLessThanWellFounded DEF OpToRel, Less
<1>2. PICK x \in T : \A y \in T : ~ (<<y, x>> \in Less)
  BY <1>1, WFMin
<1>3. ASSUME NEW y \in T, ~(x <= y) PROVE FALSE
  <2>1. x \in Nat /\ y \in Nat /\ y < x
    BY <1>3
  <2>2. <<y, x>> \in Less
    BY <2>1 DEF Less
  <2> QED
    BY <1>2, <2>2
<1> QED
  BY <1>3

(* Of the sets of photos above a photo, a minimal one is empty.            *)
LEMMA LastPhoto ==
  ASSUME NEW g, Rows(g), DOMAIN g # {}
  PROVE  \E p \in DOMAIN g : \A q \in DOMAIN g : g[q].position <= g[p].position
<1> DEFINE D == DOMAIN g
           Above(p) == {q \in D : g[q].position > g[p].position}
           T == {Above(p) : p \in D}
<1>1. \A p \in D : g[p].position \in Nat
  BY DEF Rows, Row
<1>2. IsWellFoundedOn(StrictSubsetOrdering(D), SUBSET D)
  BY FS_StrictSubsetOrderingWellFounded, FS_FiniteSubsetsOfFinite DEF Rows
<1>3. T \subseteq SUBSET D /\ T # {}
  OBVIOUS
<1> HIDE DEF T
<1>4. PICK a \in T : \A b \in T : ~ (<<b, a>> \in StrictSubsetOrdering(D))
  BY <1>2, <1>3, WFMin
<1>5. PICK p \in D : a = Above(p)
  BY DEF T
<1>6. ASSUME NEW q \in D, ~(g[q].position <= g[p].position) PROVE FALSE
  <2>1. q \in Above(p) /\ q \notin Above(q)
    BY <1>1, <1>6
  <2>2. Above(q) \subseteq Above(p)
    BY <1>1, <1>6
  <2>3. Above(q) \in T
    BY DEF T
  <2>4. <<Above(q), a>> \in StrictSubsetOrdering(D)
    BY <1>5, <2>1, <2>2 DEF StrictSubsetOrdering
  <2> QED
    BY <1>4, <2>3, <2>4
<1> QED
  BY <1>6

(* The position after the last one is free.                                *)
LEMMA FreePosition ==
  ASSUME NEW g, Rows(g)
  PROVE  /\ NextPosition(g) \in Nat
         /\ \A p \in DOMAIN g : g[p].position # NextPosition(g)
<1>1. CASE DOMAIN g = {}
  BY <1>1 DEF NextPosition
<1>2. CASE DOMAIN g # {}
  <2>1. PICK p \in DOMAIN g : \A q \in DOMAIN g : g[q].position <= g[p].position
    BY <1>2, LastPhoto
  <2>2. \A q \in DOMAIN g : g[q].position \in Nat
    BY DEF Rows, Row
  <2> DEFINE S == Positions(g)
  <2>3. S \subseteq Nat /\ \A q \in DOMAIN g : g[q].position \in S
    BY <2>2 DEF Positions
  <2>4. \E x \in S : \A y \in S : x >= y
    BY <2>1, <2>2 DEF Positions
  <2> HIDE DEF S
  <2>5. Max(S) \in S /\ \A y \in S : Max(S) >= y
    BY <2>4 DEF Max
  <2>6. NextPosition(g) = Max(S) + 1
    BY <1>2 DEF NextPosition, S
  <2>7. Max(S) \in Nat /\ NextPosition(g) \in Nat
    <3>1. Max(S) \in Nat
      BY <2>3, <2>5
    <3>2. \A m \in Nat : m + 1 \in Nat
      OBVIOUS
    <3> QED
      BY <2>6, <3>1, <3>2
  <2>8. ASSUME NEW q \in DOMAIN g PROVE g[q].position # NextPosition(g)
    <3>1. g[q].position \in Nat /\ g[q].position <= Max(S)
      BY <2>2, <2>3, <2>5
    <3> QED
      BY <2>6, <2>7, <3>1
  <2> QED
    BY <2>7, <2>8
<1> QED
  BY <1>1, <1>2

-----------------------------------------------------------------------------
(* A photo of the gallery that is made the cover is the only one.          *)
LEMMA MadePrimaryOk ==
  ASSUME NEW g, Rows(g), NEW p \in DOMAIN g
  PROVE  GalleryOk(MadePrimary(g, p)) /\ DOMAIN MadePrimary(g, p) = DOMAIN g
<1> DEFINE h == MadePrimary(g, p)
<1>1. DOMAIN h = DOMAIN g /\ \A q \in DOMAIN g : h[q] = [g[q] EXCEPT !.primary = q = p]
  BY DEF MadePrimary
<1>2. \A q \in DOMAIN g : /\ h[q] \in Row /\ h[q].position = g[q].position
                          /\ h[q].primary = (q = p)
  <2> SUFFICES ASSUME NEW q \in DOMAIN g
               PROVE  /\ h[q] \in Row /\ h[q].position = g[q].position
                      /\ h[q].primary = (q = p)
    OBVIOUS
  <2>1. g[q] \in Row /\ (q = p) \in BOOLEAN
    BY DEF Rows
  <2> DEFINE flag == (q = p)
  <2>2. h[q] = [g[q] EXCEPT !.primary = flag]
    BY <1>1
  <2> HIDE DEF flag, h
  <2>3. flag \in BOOLEAN
    BY <2>1 DEF flag
  <2>4. h[q] \in Row /\ h[q].position = g[q].position /\ h[q].primary = flag
    BY <2>1, <2>2, <2>3 DEF Row
  <2> QED
    BY <2>4 DEF flag
<1> HIDE DEF h
<1>3. Rows(h)
  BY <1>1, <1>2 DEF Rows
<1>4. Covers(h) = {p}
  BY <1>1, <1>2 DEF Covers
<1> QED
  BY <1>1, <1>3, <1>4 DEF GalleryOk, h

LEMMA UploadedOk ==
  ASSUME NEW g, GalleryOk(g), NEW p, p \notin DOMAIN g, NEW asPrimary \in BOOLEAN
  PROVE  GalleryOk(Uploaded(g, p, asPrimary)) /\ DOMAIN Uploaded(g, p, asPrimary) = DOMAIN g \cup {p}
<1> DEFINE new   == [position |-> NextPosition(g), primary |-> FALSE]
           added == [q \in DOMAIN g \cup {p} |-> IF q = p THEN new ELSE g[q]]
<1>1. new \in Row /\ new.position = NextPosition(g) /\ ~new.primary
  BY FreePosition DEF GalleryOk, Row
<1>2. Uploaded(g, p, asPrimary) = IF asPrimary \/ Covers(g) = {} THEN MadePrimary(added, p) ELSE added
  BY DEF Uploaded
<1> HIDE DEF new
<1>3. /\ DOMAIN added = DOMAIN g \cup {p} /\ added[p] = new
      /\ \A q \in DOMAIN g : added[q] = g[q]
  OBVIOUS
<1> HIDE DEF added
<1>4. Rows(added)
  <2>1. IsFiniteSet(DOMAIN g \cup {p})
    BY FS_AddElement DEF GalleryOk, Rows
  <2>2. \A q \in DOMAIN g : g[q].position # new.position
    BY <1>1, FreePosition DEF GalleryOk
  <2> QED
    BY <1>1, <1>3, <2>1, <2>2 DEF GalleryOk, Rows
<1>5. CASE asPrimary \/ Covers(g) = {}
  BY <1>2, <1>3, <1>4, <1>5, MadePrimaryOk
<1>6. CASE ~(asPrimary \/ Covers(g) = {})
  <2>1. Uploaded(g, p, asPrimary) = added
    BY <1>2, <1>6
  <2>2. PICK c \in DOMAIN g : Covers(g) = {c}
    BY <1>6 DEF GalleryOk, Covers
  <2>3. Covers(added) = Covers(g)
    BY <1>1, <1>3 DEF Covers
  <2> QED
    BY <1>3, <1>4, <2>1, <2>2, <2>3 DEF GalleryOk
<1> QED
  BY <1>5, <1>6

(* The next photo in order inherits the cover: there is one, or no photo.  *)
LEMMA DeletedOk ==
  ASSUME NEW g, GalleryOk(g), NEW p \in DOMAIN g
  PROVE  GalleryOk(Deleted(g, p)) /\ DOMAIN Deleted(g, p) = DOMAIN g \ {p}
<1> DEFINE left == [q \in DOMAIN g \ {p} |-> g[q]]
           heir == CHOOSE q \in DOMAIN left : left[q].position = Min(Positions(left))
<1>1. Deleted(g, p) = IF ~g[p].primary \/ DOMAIN left = {} THEN left ELSE MadePrimary(left, heir)
  BY DEF Deleted
<1> HIDE DEF heir
<1>2. DOMAIN left = DOMAIN g \ {p} /\ \A q \in DOMAIN left : left[q] = g[q]
  OBVIOUS
<1>3. heir = CHOOSE q \in DOMAIN left : left[q].position = Min(Positions(left))
  BY DEF heir
<1> HIDE DEF left
<1>4. Rows(left)
  <2>1. IsFiniteSet(DOMAIN g \ {p})
    BY FS_RemoveElement DEF GalleryOk, Rows
  <2> QED
    BY <1>2, <2>1 DEF GalleryOk, Rows
<1>5. CASE DOMAIN left = {}
  BY <1>1, <1>2, <1>4, <1>5 DEF GalleryOk
<1>6. CASE ~g[p].primary /\ DOMAIN left # {}
  <2>1. PICK c \in DOMAIN g : Covers(g) = {c}
    BY DEF GalleryOk
  <2>2. c # p /\ Covers(left) = Covers(g)
    BY <1>2, <1>6, <2>1 DEF Covers
  <2> QED
    BY <1>1, <1>2, <1>4, <1>6, <2>1, <2>2 DEF GalleryOk
<1>7. CASE g[p].primary /\ DOMAIN left # {}
  <2> DEFINE S == Positions(left)
  <2>1. S \subseteq Nat /\ S # {}
    BY <1>4, <1>7 DEF Rows, Row, Positions
  <2>2. PICK x \in S : \A y \in S : x <= y
    BY <2>1, LeastNat
  <2>3. Min(S) \in S
    BY <2>2 DEF Min
  <2>4. heir \in DOMAIN left
    BY <1>3, <2>3 DEF Positions
  <2> QED
    BY <1>1, <1>2, <1>4, <1>7, <2>4, MadePrimaryOk
<1> QED
  BY <1>5, <1>6, <1>7

(* Positions are taken from the order, which lists every photo.            *)
LEMMA ReorderedOk ==
  ASSUME NEW g, GalleryOk(g), NEW order \in Orders(g)
  PROVE  GalleryOk(Reordered(g, order)) /\ DOMAIN Reordered(g, order) = DOMAIN g
<1> DEFINE n == Cardinality(DOMAIN g)
           at(p) == CHOOSE i \in DOMAIN order : order[i] = p
           placed == [p \in DOMAIN g |-> [g[p] EXCEPT !.position = at(p) - 1]]
<1>1. /\ order \in [1 .. n -> DOMAIN g] /\ n \in Nat
      /\ \A p \in DOMAIN g : \E i \in DOMAIN order : order[i] = p
  BY FS_CardinalityType DEF Orders, GalleryOk, Rows
<1>2. Reordered(g, order) = MadePrimary(placed, order[1])
  BY DEF Reordered
<1> HIDE DEF n
<1>3. \A p \in DOMAIN g : at(p) \in 1 .. n /\ order[at(p)] = p
  BY <1>1
<1> HIDE DEF at
<1>4. DOMAIN placed = DOMAIN g
      /\ \A p \in DOMAIN g : placed[p] = [g[p] EXCEPT !.position = at(p) - 1]
  OBVIOUS
<1> HIDE DEF placed
<1>5. \A p \in DOMAIN g : placed[p] \in Row /\ placed[p].position = at(p) - 1
  <2> SUFFICES ASSUME NEW p \in DOMAIN g
               PROVE  placed[p] \in Row /\ placed[p].position = at(p) - 1
    OBVIOUS
  <2>1. g[p] \in Row /\ at(p) - 1 \in Nat
    BY <1>1, <1>3 DEF GalleryOk, Rows
  <2> QED
    BY <1>4, <2>1 DEF Row
<1>6. Rows(placed)
  <2>1. ASSUME NEW p \in DOMAIN g, NEW q \in DOMAIN g, p # q
        PROVE  placed[p].position # placed[q].position
    <3>1. at(p) # at(q) /\ at(p) \in Int /\ at(q) \in Int
      BY <1>1, <1>3, <2>1
    <3> QED
      BY <1>5, <3>1
  <2> QED
    BY <1>4, <1>5, <2>1 DEF GalleryOk, Rows
<1>7. CASE DOMAIN g = {}
  BY <1>2, <1>4, <1>6, <1>7 DEF MadePrimary, GalleryOk, Rows
<1>8. CASE DOMAIN g # {}
  <2>1. 1 \in 1 .. n
    BY <1>1, <1>3, <1>8
  <2>2. order[1] \in DOMAIN placed
    BY <1>1, <1>4, <2>1
  <2> QED
    BY <1>2, <1>4, <1>6, <2>2, MadePrimaryOk
<1> QED
  BY <1>7, <1>8

-----------------------------------------------------------------------------
(* A right to a paid generation is a pending photo, or a task that took    *)
(* one and has not called the provider yet.                                *)
Calls(t) == t.pc \in {"call", "gemini"}
Pending  == {p \in Photos : proc[p].status = "pending"}
Calling  == {w \in Workers : Calls(wrk[w])}

Budget == /\ IsFiniteSet(Pending) /\ IsFiniteSet(Calling)
          /\ gens + Cardinality(Pending) + Cardinality(Calling) <= requests
          /\ requests <= MaxRequests

(* What a task holds where it is: an external id it is going to store and  *)
(* to poll, a message that told it what to poll.                           *)
TaskOk(t) == /\ t.pc \in {"save", "schedule"} => t.gen # 0
             /\ t.pc \in {"poll", "safety"} => t.msg.task = "check"

ImagesInv == TypeOK /\ GalleryOk(gallery) /\ Budget /\ \A w \in Workers : TaskOk(wrk[w])

(* The step that SuccessStays allows.                                      *)
SuccessKept == \A p \in Photos :
  (proc[p].status = "succeeded" /\ p \in DOMAIN gallery') =>
     \/ proc'[p].status = "succeeded"
     \/ proc'[p].status = "pending" /\ requests' > requests

LEMMA InitImages == Init => ImagesInv
<1> SUFFICES ASSUME Init PROVE ImagesInv
  OBVIOUS
<1> DEFINE g == Uploaded(EmptyGallery, Cover, TRUE)
<1>1. GalleryOk(EmptyGallery) /\ DOMAIN EmptyGallery = {}
  BY FS_EmptySet DEF EmptyGallery, GalleryOk, Rows
<1>2. GalleryOk(g) /\ DOMAIN g = {Cover}
  <2>1. Cover \notin DOMAIN EmptyGallery /\ TRUE \in BOOLEAN
    BY <1>1
  <2>2. GalleryOk(g) /\ DOMAIN g = DOMAIN EmptyGallery \cup {Cover}
    BY <1>1, <2>1, UploadedOk
  <2> QED
    BY <1>1, <2>2
<1> HIDE DEF g
<1>3. \A p \in Photos \ {Cover} :
        GalleryOk(Uploaded(g, p, FALSE)) /\ DOMAIN Uploaded(g, p, FALSE) = {Cover, p}
  <2> SUFFICES ASSUME NEW p \in Photos \ {Cover}
               PROVE  /\ GalleryOk(Uploaded(g, p, FALSE))
                      /\ DOMAIN Uploaded(g, p, FALSE) = {Cover, p}
    OBVIOUS
  <2>1. p \notin DOMAIN g /\ FALSE \in BOOLEAN
    BY <1>2
  <2>2. /\ GalleryOk(Uploaded(g, p, FALSE))
        /\ DOMAIN Uploaded(g, p, FALSE) = DOMAIN g \cup {p}
    BY <1>2, <2>1, UploadedOk
  <2> QED
    BY <1>2, <2>2
<1>4. gallery = g \/ \E p \in Photos \ {Cover} : gallery = Uploaded(g, p, FALSE)
  BY DEF Init, g
<1>5. GalleryOk(gallery) /\ DOMAIN gallery \subseteq Photos
  BY <1>2, <1>3, <1>4, CoverAssumption
<1>6. NewPhoto \in Processing /\ NewPhoto.status = "idle" /\ Idle.pc = "idle"
  BY BoundsAssumption DEF NewPhoto, Processing, Statuses, Gens, Idle
<1>7. TypeOK
  BY <1>5, <1>6 DEF Init, TypeOK, GalleryOk, Rows, Statuses
<1>8. Pending = {} /\ Calling = {}
  BY <1>6 DEF Init, Pending, Calling, Calls
<1>9. Budget
  BY <1>8, FS_EmptySet, BoundsAssumption DEF Init, Budget
<1> QED
  BY <1>5, <1>6, <1>7, <1>9 DEF Init, ImagesInv, TaskOk

(* What a step may do to each variable without a new right to a call.      *)
GalleryMove == gallery' = gallery \/ (GalleryOk(gallery') /\ DOMAIN gallery' \subseteq Photos)
ProcMove == proc' = proc \/
  /\ proc' \in [Photos -> Processing]
  /\ \A p \in Photos : proc'[p].status = "pending" => proc[p].status = "pending"
TaskMove == wrk' = wrk \/
  /\ wrk' \in [Workers -> Task \cup {Idle}]
  /\ \A w \in Workers : TaskOk(wrk'[w]) /\ (Calls(wrk'[w]) => Calls(wrk[w]))
XlMove    == xl' = xl \/ xl' \in [Photos -> Statuses \ {"result_received"}]
FilesMove == files' = files \/ files' \in [Photos -> SUBSET (Modes \cup {XlMode})]
QueueMove == queue' = queue \/ queue' \in [Messages -> Nat]
Ticks     == /\ faults' = faults \/ faults' = faults + 1
             /\ edits' = edits \/ edits' = edits + 1
             /\ isSet' = isSet \/ isSet' = ~isSet

(* Types are kept by such moves, whatever becomes of the budget.           *)
LEMMA TypesKept ==
  ASSUME ImagesInv, GalleryMove, XlMove, FilesMove, QueueMove, Ticks,
         proc' \in [Photos -> Processing], wrk' \in [Workers -> Task \cup {Idle}],
         requests' \in Nat, gens' \in Nat
  PROVE  TypeOK' /\ GalleryOk(gallery)'
<1>1. TypeOK /\ GalleryOk(gallery)
  BY DEF ImagesInv
<1>2. GalleryOk(gallery') /\ DOMAIN gallery' \subseteq Photos
  BY <1>1 DEF GalleryMove, TypeOK
<1>3. \A p \in DOMAIN gallery' : gallery'[p] \in Row
  BY <1>2 DEF GalleryOk, Rows
<1>4. faults' \in Nat /\ edits' \in Nat /\ isSet' \in BOOLEAN
  <2>1. faults \in Nat /\ edits \in Nat /\ isSet \in BOOLEAN
    BY <1>1 DEF TypeOK
  <2>2. faults' = faults \/ faults' = faults + 1
    BY DEF Ticks
  <2>3. edits' = edits \/ edits' = edits + 1
    BY DEF Ticks
  <2>4. isSet' = isSet \/ isSet' = ~isSet
    BY DEF Ticks
  <2>5. faults' \in Nat /\ edits' \in Nat
    BY <2>1, <2>2, <2>3
  <2>6. isSet' \in BOOLEAN
    BY <2>1, <2>4
  <2> QED
    BY <2>5, <2>6
<1>5. xl' \in [Photos -> Statuses \ {"result_received"}]
  BY <1>1 DEF XlMove, TypeOK
<1>6. files' \in [Photos -> SUBSET (Modes \cup {XlMode})]
  BY <1>1 DEF FilesMove, TypeOK
<1>7. queue' \in [Messages -> Nat]
  BY <1>1 DEF QueueMove, TypeOK
<1>8. GalleryOk(gallery)'
  BY <1>2
<1> QED
  BY <1>2, <1>3, <1>4, <1>5, <1>6, <1>7, <1>8 DEF TypeOK

LEMMA Quiet ==
  ASSUME ImagesInv, GalleryMove, ProcMove, TaskMove, XlMove, FilesMove, QueueMove, Ticks,
         UNCHANGED <<requests, gens>>
  PROVE  ImagesInv'
<1>1. TypeOK /\ Budget /\ \A w \in Workers : TaskOk(wrk[w])
  BY DEF ImagesInv
<1>2. proc' \in [Photos -> Processing] /\ Pending' \subseteq Pending
  BY <1>1 DEF ProcMove, TypeOK, Pending
<1>3. /\ wrk' \in [Workers -> Task \cup {Idle}] /\ Calling' \subseteq Calling
      /\ \A w \in Workers : TaskOk(wrk'[w])
  BY <1>1 DEF TaskMove, TypeOK, Calling
<1>4. TypeOK' /\ GalleryOk(gallery)'
  BY <1>1, <1>2, <1>3, TypesKept DEF TypeOK
<1>5. /\ IsFiniteSet(Pending') /\ IsFiniteSet(Calling')
      /\ Cardinality(Pending') <= Cardinality(Pending)
      /\ Cardinality(Calling') <= Cardinality(Calling)
  BY <1>1, <1>2, <1>3, FS_Subset DEF Budget
<1>6. Budget'
  <2>1. /\ Cardinality(Pending) \in Nat /\ Cardinality(Calling) \in Nat
        /\ Cardinality(Pending') \in Nat /\ Cardinality(Calling') \in Nat
    BY <1>1, <1>5, FS_CardinalityType DEF Budget
  <2>2. gens \in Nat /\ requests \in Nat /\ MaxRequests \in Nat
    BY <1>1, BoundsAssumption DEF TypeOK
  <2>3. gens + Cardinality(Pending) + Cardinality(Calling) <= requests /\ requests <= MaxRequests
    BY <1>1 DEF Budget
  <2>4. gens' = gens /\ requests' = requests
    OBVIOUS
  <2>5. gens' + Cardinality(Pending') + Cardinality(Calling') <= requests' /\ requests' <= MaxRequests
    BY <1>5, <2>1, <2>2, <2>3, <2>4
  <2> QED
    BY <1>5, <2>5 DEF Budget
<1> QED
  BY <1>3, <1>4, <1>6 DEF ImagesInv

-----------------------------------------------------------------------------
(* A worker that is busy has a task about a photo.                         *)
LEMMA TaskOf ==
  ASSUME ImagesInv, NEW w \in Workers
  PROVE  /\ Idle.pc = "idle"
         /\ Busy(w) => /\ wrk[w] \in Task /\ wrk[w].msg \in Messages /\ Photo(w) \in Photos
                       /\ wrk[w].msg.photo = Photo(w) /\ proc[Photo(w)] \in Processing
<1>1. wrk[w] \in Task \cup {Idle} /\ proc \in [Photos -> Processing]
  BY DEF ImagesInv, TypeOK
<1>2. \A m \in Messages : m.photo \in Photos
  BY DEF Messages
<1>3. Busy(w) => wrk[w] \in Task /\ wrk[w].msg \in Messages
  BY <1>1 DEF Busy, Task
<1> QED
  BY <1>1, <1>2, <1>3 DEF Idle, Photo

(* One photo's processing changes, and nothing becomes pending.            *)
LEMMA ProcStep ==
  ASSUME ImagesInv, NEW p \in Photos, NEW r \in Processing, proc' = [proc EXCEPT ![p] = r],
         r.status = "pending" => proc[p].status = "pending"
  PROVE  /\ ProcMove
         /\ (proc[p].status = "succeeded" => r.status = "succeeded") => SuccessKept
<1>1. /\ proc' \in [Photos -> Processing] /\ proc'[p] = r
      /\ \A q \in Photos \ {p} : proc'[q] = proc[q]
  BY DEF ImagesInv, TypeOK
<1> QED
  BY <1>1 DEF ProcMove, SuccessKept

LEMMA StatusStep ==
  ASSUME ImagesInv, NEW p \in Photos, NEW s \in Statuses \ {"pending"}, SetStatus(p, s),
         proc[p].status = "succeeded" => s = "succeeded"
  PROVE  ProcMove /\ SuccessKept
<1> DEFINE r == [proc[p] EXCEPT !.status = s]
<1>1. proc[p] \in Processing
  BY DEF ImagesInv, TypeOK
<1>2. r \in Processing /\ r.status = s
  BY <1>1 DEF Processing
<1>3. proc' = [proc EXCEPT ![p] = r]
  BY DEF SetStatus
<1> HIDE DEF r
<1> QED
  BY <1>2, <1>3, ProcStep

(* One worker's task changes, and it is not about to call.                 *)
LEMMA TaskStep ==
  ASSUME ImagesInv, NEW w \in Workers, NEW t \in Task \cup {Idle}, wrk' = [wrk EXCEPT ![w] = t],
         TaskOk(t), ~Calls(t)
  PROVE  TaskMove
<1>1. /\ wrk' \in [Workers -> Task \cup {Idle}] /\ wrk'[w] = t
      /\ \A v \in Workers \ {w} : wrk'[v] = wrk[v]
  BY DEF ImagesInv, TypeOK
<1> QED
  BY <1>1 DEF TaskMove, ImagesInv

LEMMA DoneStep ==
  ASSUME ImagesInv, NEW w \in Workers, Done(w)
  PROVE  TaskMove
<1>1. TaskOk(Idle) /\ ~Calls(Idle) /\ Idle \in Task \cup {Idle}
  BY DEF TaskOk, Calls, Idle
<1> QED
  BY <1>1, TaskStep DEF Done

LEMMA GotoStep ==
  ASSUME ImagesInv, NEW w \in Workers, Busy(w),
         NEW pc \in {"schedule", "safety", "store", "xl_stored"}, Goto(w, pc),
         pc = "schedule" => wrk[w].gen # 0, pc = "safety" => wrk[w].msg.task = "check"
  PROVE  TaskMove
<1> DEFINE t == [wrk[w] EXCEPT !.pc = pc]
<1>1. wrk[w] \in Task
  BY TaskOf
<1>2. t \in Task /\ t.pc = pc /\ t.gen = wrk[w].gen /\ t.msg = wrk[w].msg
  BY <1>1 DEF Task
<1>3. wrk' = [wrk EXCEPT ![w] = t]
  BY DEF Goto
<1> HIDE DEF t
<1>4. TaskOk(t) /\ ~Calls(t)
  BY <1>2 DEF TaskOk, Calls
<1> QED
  BY <1>2, <1>3, <1>4, TaskStep

(* Messages wait and are taken.                                            *)
LEMMA PutStep ==
  ASSUME ImagesInv, NEW m \in Messages, queue' = Put(queue, m)
  PROVE  QueueMove
  BY DEF ImagesInv, TypeOK, Put, QueueMove

LEMMA OutStep ==
  ASSUME ImagesInv, NEW m \in Messages, queue[m] > 0, queue' = Out(queue, m)
  PROVE  QueueMove
<1>1. queue[m] \in Nat /\ queue[m] - 1 \in Nat
  BY DEF ImagesInv, TypeOK
<1> QED
  BY <1>1 DEF ImagesInv, TypeOK, Out, QueueMove

LEMMA MessageShapes ==
  ASSUME NEW p \in Photos
  PROVE  /\ ProcessMsg(p) \in Messages /\ XlMsg(p) \in Messages
         /\ ProcessMsg(p).task = "process" /\ XlMsg(p).task = "xl"
         /\ \A g \in Gens \ {0}, a \in Attempts : CheckMsg(p, g, a) \in Messages
  BY DEF ProcessMsg, XlMsg, CheckMsg, Messages

LEMMA CheckMessage ==
  ASSUME NEW m \in Messages, m.task = "check"
  PROVE  m.photo \in Photos /\ m.ext \in Gens \ {0} /\ m.attempt \in Attempts
  BY DEF Messages

-----------------------------------------------------------------------------
(* Edits of the gallery.                                                   *)
LEMMA GalleryStep ==
  ASSUME ImagesInv, GalleryOk(gallery'), DOMAIN gallery' \subseteq Photos,
         edits' = edits + 1,
         UNCHANGED <<xl, proc, files, isSet, queue, wrk, requests, gens, faults>>
  PROVE  ImagesInv' /\ SuccessKept
<1>1. GalleryMove /\ ProcMove /\ TaskMove /\ XlMove /\ FilesMove /\ QueueMove /\ Ticks
  BY DEF GalleryMove, ProcMove, TaskMove, XlMove, FilesMove, QueueMove, Ticks
<1> QED
  BY <1>1, Quiet DEF SuccessKept

LEMMA GalleryEdits ==
  ASSUME ImagesInv,
         \/ \E p \in Photos, b \in BOOLEAN : Upload(p, b)
         \/ \E p \in Photos : MakePrimary(p)
         \/ Reorder
  PROVE  ImagesInv' /\ SuccessKept
<1>1. GalleryOk(gallery) /\ DOMAIN gallery \subseteq Photos
  BY DEF ImagesInv, TypeOK
<1>2. ASSUME NEW p \in Photos, NEW b \in BOOLEAN, Upload(p, b)
      PROVE  ImagesInv' /\ SuccessKept
  <2>1. GalleryOk(gallery') /\ DOMAIN gallery' = DOMAIN gallery \cup {p}
    BY <1>1, <1>2, UploadedOk DEF Upload, Exists
  <2>2. /\ edits' = edits + 1
        /\ UNCHANGED <<xl, proc, files, isSet, queue, wrk, requests, gens, faults>>
    BY <1>2 DEF Upload, Edit
  <2> QED
    BY <1>1, <2>1, <2>2, GalleryStep
<1>3. ASSUME NEW p \in Photos, MakePrimary(p) PROVE ImagesInv' /\ SuccessKept
  <2>1. GalleryOk(gallery') /\ DOMAIN gallery' = DOMAIN gallery
    <3>1. Rows(gallery) /\ p \in DOMAIN gallery /\ gallery' = MadePrimary(gallery, p)
      BY <1>1, <1>3 DEF MakePrimary, Exists, GalleryOk
    <3> QED
      BY <3>1, MadePrimaryOk
  <2>2. /\ edits' = edits + 1
        /\ UNCHANGED <<xl, proc, files, isSet, queue, wrk, requests, gens, faults>>
    BY <1>3 DEF MakePrimary, Edit
  <2> QED
    BY <1>1, <2>1, <2>2, GalleryStep
<1>4. ASSUME Reorder PROVE ImagesInv' /\ SuccessKept
  <2>1. PICK order \in Orders(gallery) : gallery' = Reordered(gallery, order)
    BY <1>4 DEF Reorder
  <2>2. GalleryOk(gallery') /\ DOMAIN gallery' = DOMAIN gallery
    BY <1>1, <2>1, ReorderedOk
  <2> QED
    BY <1>1, <1>4, <2>2, GalleryStep DEF Reorder, Edit
<1> QED
  BY <1>2, <1>3, <1>4

(* The photo that goes takes its processing and its files with it.         *)
LEMMA DeleteStep ==
  ASSUME ImagesInv, NEW p \in Photos, Delete(p)
  PROVE  ImagesInv' /\ SuccessKept
<1>1. /\ p \in DOMAIN gallery /\ gallery' = Deleted(gallery, p)
      /\ proc' = [proc EXCEPT ![p] = NewPhoto] /\ files' = [files EXCEPT ![p] = {}]
      /\ xl' = [xl EXCEPT ![p] = "idle"] /\ edits' = edits + 1
      /\ UNCHANGED <<isSet, queue, wrk, requests, gens, faults>>
  BY DEF Delete, Edit, Exists
<1>2. TypeOK /\ GalleryOk(gallery)
  BY DEF ImagesInv
<1>3. GalleryOk(gallery') /\ DOMAIN gallery' = DOMAIN gallery \ {p}
  BY <1>1, <1>2, DeletedOk
<1>4. GalleryMove /\ TaskMove /\ QueueMove /\ Ticks
  BY <1>1, <1>2, <1>3 DEF GalleryMove, TaskMove, QueueMove, Ticks, TypeOK
<1>5. XlMove /\ FilesMove
  BY <1>1, <1>2 DEF XlMove, FilesMove, TypeOK, Statuses
<1>6. NewPhoto \in Processing /\ NewPhoto.status # "pending"
  BY BoundsAssumption DEF NewPhoto, Processing, Statuses, Gens
<1>7. ProcMove /\ \A q \in Photos \ {p} : proc'[q] = proc[q]
  BY <1>1, <1>2, <1>6, ProcStep DEF TypeOK
<1>8. SuccessKept
  BY <1>3, <1>7 DEF SuccessKept
<1> QED
  BY <1>1, <1>4, <1>5, <1>7, <1>8, Quiet

(* A manager uploads or deletes an image, or the set parts change.         *)
LEMMA GeneratedEdits ==
  ASSUME ImagesInv,
         \/ \E p \in Photos, m \in Modes \cup {XlMode} :
              UploadGenerated(p, m) \/ DeleteGenerated(p, m)
         \/ \E p \in Photos : RequestXl(p)
         \/ ChangeSetParts
  PROVE  ImagesInv' /\ SuccessKept
<1>1. TypeOK
  BY DEF ImagesInv
<1>2. ASSUME NEW p \in Photos, NEW m \in Modes \cup {XlMode}, UploadGenerated(p, m)
      PROVE  ImagesInv' /\ SuccessKept
  <2>1. FilesMove
    BY <1>1, <1>2 DEF UploadGenerated, FilesMove, TypeOK
  <2>2. XlMove
    BY <1>1, <1>2 DEF UploadGenerated, XlMove, TypeOK, Statuses
  <2>3. ProcMove /\ SuccessKept
    <3>1. CASE SetStatus(p, "succeeded")
      BY <3>1, StatusStep DEF Statuses
    <3>2. CASE proc' = proc
      BY <3>2 DEF ProcMove, SuccessKept
    <3> QED
      BY <1>2, <3>1, <3>2 DEF UploadGenerated
  <2>4. GalleryMove /\ TaskMove /\ QueueMove /\ Ticks /\ UNCHANGED <<requests, gens>>
    BY <1>2 DEF UploadGenerated, Edit, GalleryMove, TaskMove, QueueMove, Ticks
  <2> QED
    BY <2>1, <2>2, <2>3, <2>4, Quiet
<1>3. ASSUME NEW p \in Photos, NEW m \in Modes \cup {XlMode}, DeleteGenerated(p, m)
      PROVE  ImagesInv' /\ SuccessKept
  <2>1. FilesMove
    BY <1>1, <1>3 DEF DeleteGenerated, FilesMove, TypeOK
  <2>2. XlMove
    BY <1>1, <1>3 DEF DeleteGenerated, XlMove, TypeOK, Statuses
  <2>3. /\ GalleryMove /\ ProcMove /\ TaskMove /\ QueueMove /\ Ticks /\ SuccessKept
        /\ UNCHANGED <<requests, gens>>
    BY <1>3 DEF DeleteGenerated, Edit, GalleryMove, ProcMove, TaskMove, QueueMove, Ticks, SuccessKept
  <2> QED
    BY <2>1, <2>2, <2>3, Quiet
<1>4. ASSUME NEW p \in Photos, RequestXl(p) PROVE ImagesInv' /\ SuccessKept
  <2>1. XlMove
    BY <1>1, <1>4 DEF RequestXl, XlMove, TypeOK, Statuses
  <2>2. QueueMove
    BY <1>4, MessageShapes, PutStep DEF RequestXl
  <2>3. /\ GalleryMove /\ ProcMove /\ TaskMove /\ FilesMove /\ Ticks /\ SuccessKept
        /\ UNCHANGED <<requests, gens>>
    BY <1>4 DEF RequestXl, Edit, GalleryMove, ProcMove, TaskMove, FilesMove, Ticks, SuccessKept
  <2> QED
    BY <2>1, <2>2, <2>3, Quiet
<1>5. ASSUME ChangeSetParts PROVE ImagesInv' /\ SuccessKept
  <2>1. /\ GalleryMove /\ ProcMove /\ TaskMove /\ XlMove /\ FilesMove /\ QueueMove /\ Ticks
        /\ SuccessKept /\ UNCHANGED <<requests, gens>>
    BY <1>5 DEF ChangeSetParts, Edit, GalleryMove, ProcMove, TaskMove, XlMove, FilesMove,
                QueueMove, Ticks, SuccessKept
  <2> QED
    BY <2>1, Quiet
<1> QED
  BY <1>2, <1>3, <1>4, <1>5

-----------------------------------------------------------------------------
(* The three steps that move the budget: a request adds to it, a task      *)
(* takes it over from the photo, and the call spends it.                   *)
LEMMA RequestStep ==
  ASSUME ImagesInv, NEW p \in Photos, Request(p)
  PROVE  ImagesInv' /\ SuccessKept
<1> DEFINE r == [proc[p] EXCEPT !.status = "pending", !.ext = 0, !.gemini = FALSE]
<1>1. /\ requests < MaxRequests /\ requests' = requests + 1
      /\ queue' = Put(queue, ProcessMsg(p))
      /\ UNCHANGED <<gallery, xl, files, isSet, wrk, gens, faults, edits>>
  BY DEF Request
<1>2. TypeOK /\ Budget /\ proc[p] \in Processing
  BY DEF ImagesInv, TypeOK
<1>3. r \in Processing /\ r.status = "pending"
  <2>1. 0 \in Gens /\ "pending" \in Statuses
    BY BoundsAssumption DEF Statuses, Gens
  <2> QED
    BY <1>2, <2>1 DEF Processing
<1>4. proc' = [proc EXCEPT ![p] = r]
  BY <1>2 DEF Request, TypeOK
<1> HIDE DEF r
<1>5. /\ proc' \in [Photos -> Processing] /\ proc'[p] = r
      /\ \A q \in Photos \ {p} : proc'[q] = proc[q]
  BY <1>2, <1>3, <1>4 DEF TypeOK
<1>6. Pending' = Pending \cup {p} /\ Calling' = Calling
  BY <1>1, <1>3, <1>5 DEF Pending, Calling
<1>7. requests \in Nat /\ gens \in Nat /\ MaxRequests \in Nat
  BY <1>2, BoundsAssumption DEF TypeOK
<1>8. TypeOK' /\ GalleryOk(gallery)'
  <2>1. QueueMove
    BY <1>1, MessageShapes, PutStep
  <2>2. GalleryMove /\ XlMove /\ FilesMove /\ Ticks
    BY <1>1 DEF GalleryMove, XlMove, FilesMove, Ticks
  <2>3. wrk' \in [Workers -> Task \cup {Idle}] /\ requests' \in Nat /\ gens' \in Nat
    BY <1>1, <1>2, <1>7 DEF TypeOK
  <2> QED
    BY <1>5, <2>1, <2>2, <2>3, TypesKept
<1>9. Budget'
  <2>1. /\ IsFiniteSet(Pending \cup {p}) /\ Cardinality(Pending \cup {p}) \in Nat
        /\ Cardinality(Pending \cup {p}) <= Cardinality(Pending) + 1
        /\ Cardinality(Pending) \in Nat /\ Cardinality(Calling) \in Nat
    <3>1. IsFiniteSet(Pending) /\ IsFiniteSet(Calling)
      BY <1>2 DEF Budget
    <3>2. /\ IsFiniteSet(Pending \cup {p})
          /\ p \in Pending => Cardinality(Pending \cup {p}) = Cardinality(Pending)
          /\ p \notin Pending => Cardinality(Pending \cup {p}) = Cardinality(Pending) + 1
      BY <3>1, FS_AddElement
    <3>3. Cardinality(Pending) \in Nat /\ Cardinality(Calling) \in Nat
      BY <3>1, FS_CardinalityType
    <3> QED
      BY <3>2, <3>3
  <2>2. gens + Cardinality(Pending) + Cardinality(Calling) <= requests
    BY <1>2 DEF Budget
  <2>3. gens' + Cardinality(Pending') + Cardinality(Calling') <= requests'
    BY <1>1, <1>6, <1>7, <2>1, <2>2
  <2>4. requests' <= MaxRequests
    BY <1>1, <1>7
  <2> QED
    BY <1>2, <1>6, <2>1, <2>3, <2>4 DEF Budget
<1>10. SuccessKept
  BY <1>1, <1>3, <1>5, <1>7 DEF SuccessKept
<1> QED
  BY <1>1, <1>8, <1>9, <1>10 DEF ImagesInv

LEMMA TakeProcessStep ==
  ASSUME ImagesInv, NEW w \in Workers, NEW p \in Photos, TakeProcess(w, p)
  PROVE  ImagesInv' /\ SuccessKept
<1>1. /\ ~Busy(w) /\ queue[ProcessMsg(p)] > 0 /\ queue' = Out(queue, ProcessMsg(p))
      /\ UNCHANGED <<gallery, xl, files, isSet, hist>>
  BY DEF TakeProcess
<1>2. TypeOK /\ Budget /\ proc[p] \in Processing
  BY DEF ImagesInv, TypeOK
<1>3. QueueMove /\ GalleryMove /\ XlMove /\ FilesMove /\ Ticks
  <2>1. QueueMove
    BY <1>1, MessageShapes, OutStep
  <2> QED
    BY <1>1, <2>1 DEF GalleryMove, XlMove, FilesMove, Ticks, hist
<1>4. CASE UNCHANGED <<proc, wrk>>
  <2>1. ProcMove /\ TaskMove /\ SuccessKept /\ UNCHANGED <<requests, gens>>
    BY <1>1, <1>4 DEF ProcMove, TaskMove, SuccessKept, hist
  <2> QED
    BY <1>3, <2>1, Quiet
<1>5. CASE Exists(p) /\ proc[p].status = "pending"
  <2> DEFINE r == [proc[p] EXCEPT !.status = "processing", !.fresh = TRUE, !.gemini = isSet]
             pc == IF isSet THEN "gemini" ELSE "call"
             t == [pc |-> pc, msg |-> ProcessMsg(p), gen |-> 0, todo |-> Modes, received |-> FALSE]
  <2>1. r \in Processing /\ r.status = "processing"
    BY <1>2 DEF Processing, Statuses, TypeOK
  <2>2. proc' = [proc EXCEPT ![p] = r]
    BY <1>2, <1>5 DEF TakeProcess, TypeOK
  <2> HIDE DEF r
  <2>3. /\ proc' \in [Photos -> Processing] /\ proc'[p] = r
        /\ \A q \in Photos \ {p} : proc'[q] = proc[q]
    BY <1>2, <2>1, <2>2 DEF TypeOK
  <2>4. t \in Task /\ Calls(t) /\ TaskOk(t)
    <3>1. pc \in {"gemini", "call"}
      OBVIOUS
    <3> HIDE DEF pc
    <3> QED
      BY <3>1, MessageShapes, BoundsAssumption DEF Task, Calls, TaskOk, Gens
  <2>5. wrk' = [wrk EXCEPT ![w] = t]
    BY <1>5 DEF TakeProcess, Start
  <2> HIDE DEF t
  <2>6. /\ wrk' \in [Workers -> Task \cup {Idle}] /\ wrk'[w] = t
        /\ \A v \in Workers \ {w} : wrk'[v] = wrk[v]
    BY <1>2, <2>4, <2>5 DEF TypeOK
  <2>7. Pending' = Pending \ {p} /\ p \in Pending
    BY <1>5, <2>1, <2>3 DEF Pending
  <2>8. Calling' = Calling \cup {w} /\ w \notin Calling
    BY <1>1, <2>4, <2>6 DEF Calling, Calls, Busy, Idle
  <2>9. TypeOK' /\ GalleryOk(gallery)'
    <3>1. requests' \in Nat /\ gens' \in Nat
      BY <1>1, <1>2 DEF TypeOK, hist
    <3> QED
      BY <1>3, <2>3, <2>6, <3>1, TypesKept
  <2>10. Budget'
    <3>1. /\ IsFiniteSet(Pending \ {p}) /\ Cardinality(Pending) \in Nat
          /\ Cardinality(Pending \ {p}) = Cardinality(Pending) - 1
      BY <1>2, <2>7, FS_RemoveElement, FS_CardinalityType DEF Budget
    <3>2. /\ IsFiniteSet(Calling \cup {w}) /\ Cardinality(Calling) \in Nat
          /\ Cardinality(Calling \cup {w}) = Cardinality(Calling) + 1
      BY <1>2, <2>8, FS_AddElement, FS_CardinalityType DEF Budget
    <3>3. gens + Cardinality(Pending) + Cardinality(Calling) <= requests /\ requests <= MaxRequests
      BY <1>2 DEF Budget
    <3>4. gens \in Nat /\ requests \in Nat /\ gens' = gens /\ requests' = requests
      BY <1>1, <1>2 DEF TypeOK, hist
    <3>5. gens' + Cardinality(Pending') + Cardinality(Calling') <= requests'
      BY <2>7, <2>8, <3>1, <3>2, <3>3, <3>4
    <3> QED
      BY <2>7, <2>8, <3>1, <3>2, <3>3, <3>4, <3>5 DEF Budget
  <2>11. SuccessKept
    BY <1>5, <2>3 DEF SuccessKept
  <2>12. \A v \in Workers : TaskOk(wrk'[v])
    BY <2>4, <2>6 DEF ImagesInv
  <2> QED
    BY <2>9, <2>10, <2>11, <2>12 DEF ImagesInv
<1> QED
  BY <1>4, <1>5 DEF TakeProcess

LEMMA CallProviderStep ==
  ASSUME ImagesInv, NEW w \in Workers, CallProvider(w)
  PROVE  ImagesInv' /\ SuccessKept
<1> DEFINE pc == IF wrk[w].pc = "call" THEN "save" ELSE "store"
           t == [wrk[w] EXCEPT !.gen = gens + 1, !.pc = pc]
<1>1. /\ Busy(w) /\ Calls(wrk[w]) /\ gens' = gens + 1
      /\ UNCHANGED <<gallery, xl, proc, files, isSet, queue, requests, faults, edits>>
  BY DEF CallProvider, At, Calls
<1>2. TypeOK /\ Budget /\ wrk[w] \in Task
  BY <1>1, TaskOf DEF ImagesInv
<1>3. w \in Calling
  BY <1>1 DEF Calling
<1>4. gens \in Nat /\ requests \in Nat /\ MaxRequests \in Nat
  BY <1>2, BoundsAssumption DEF TypeOK
<1>5. /\ IsFiniteSet(Calling \ {w}) /\ Cardinality(Calling) \in Nat
      /\ Cardinality(Calling \ {w}) = Cardinality(Calling) - 1
      /\ Cardinality(Calling \ {w}) \in Nat /\ Cardinality(Pending) \in Nat
  BY <1>2, <1>3, FS_RemoveElement, FS_CardinalityType DEF Budget
<1>6. gens + Cardinality(Pending) + Cardinality(Calling) <= requests /\ requests <= MaxRequests
  BY <1>2 DEF Budget
<1>7. gens + 1 \in Gens /\ gens + 1 # 0
  <2>1. gens + 1 <= MaxRequests
    BY <1>4, <1>5, <1>6
  <2> QED
    BY <1>4, <2>1 DEF Gens
<1>8. wrk' = [wrk EXCEPT ![w] = t]
  BY <1>2 DEF CallProvider, TypeOK
<1>9. t \in Task /\ TaskOk(t) /\ ~Calls(t)
  <2>1. pc \in {"save", "store"}
    OBVIOUS
  <2> HIDE DEF pc
  <2>2. t \in Task /\ t.pc = pc /\ t.gen = gens + 1
    BY <1>2, <1>7, <2>1 DEF Task
  <2> HIDE DEF t
  <2> QED
    BY <1>7, <2>1, <2>2 DEF TaskOk, Calls
<1> HIDE DEF t
<1>10. /\ wrk' \in [Workers -> Task \cup {Idle}] /\ wrk'[w] = t
       /\ \A v \in Workers \ {w} : wrk'[v] = wrk[v]
  BY <1>2, <1>8, <1>9 DEF TypeOK
<1>11. Pending' = Pending /\ Calling' = Calling \ {w}
  BY <1>1, <1>9, <1>10 DEF Pending, Calling
<1>12. TypeOK' /\ GalleryOk(gallery)'
  <2>1. GalleryMove /\ XlMove /\ FilesMove /\ QueueMove /\ Ticks
    BY <1>1 DEF GalleryMove, XlMove, FilesMove, QueueMove, Ticks
  <2>2. requests' \in Nat /\ gens' \in Nat /\ proc' \in [Photos -> Processing]
    BY <1>1, <1>2, <1>4 DEF TypeOK
  <2> QED
    BY <1>10, <2>1, <2>2, TypesKept
<1>13. Budget'
  <2>1. gens' + Cardinality(Pending') + Cardinality(Calling') <= requests'
    BY <1>1, <1>4, <1>5, <1>6, <1>11
  <2> QED
    BY <1>1, <1>2, <1>5, <1>6, <1>11, <2>1 DEF Budget
<1>14. SuccessKept
  BY <1>1 DEF SuccessKept
<1>15. \A v \in Workers : TaskOk(wrk'[v])
  BY <1>9, <1>10 DEF ImagesInv
<1> QED
  BY <1>12, <1>13, <1>14, <1>15 DEF ImagesInv

-----------------------------------------------------------------------------
(* The other steps of process_product_image.                               *)
LEMMA SaveExternalIdStep ==
  ASSUME ImagesInv, NEW w \in Workers, SaveExternalId(w)
  PROVE  ImagesInv' /\ SuccessKept
<1> PICK p : p = Photo(w)
  OBVIOUS
<1>1. /\ Busy(w) /\ wrk[w].pc = "save" /\ p = Photo(w)
      /\ UNCHANGED <<gallery, xl, files, isSet, queue, hist>>
  BY DEF SaveExternalId, At
<1>2. /\ TypeOK /\ wrk[w] \in Task /\ p \in Photos /\ proc[p] \in Processing
      /\ wrk[w].gen \in Gens /\ wrk[w].gen # 0
  BY <1>1, TaskOf DEF ImagesInv, TaskOk, Task
<1>3. /\ GalleryMove /\ XlMove /\ FilesMove /\ QueueMove /\ Ticks
      /\ UNCHANGED <<requests, gens>>
  BY <1>1 DEF GalleryMove, XlMove, FilesMove, QueueMove, Ticks, hist
<1>4. CASE Exists(p) /\ proc[p].status = "processing"
  <2> DEFINE r == [proc[p] EXCEPT !.ext = wrk[w].gen]
  <2>1. r \in Processing /\ r.status = "processing"
    BY <1>2, <1>4 DEF Processing
  <2>2. proc' = [proc EXCEPT ![p] = r] /\ Goto(w, "schedule")
    BY <1>1, <1>2, <1>4 DEF SaveExternalId, TypeOK
  <2> HIDE DEF r
  <2>3. ProcMove /\ SuccessKept
    BY <1>2, <1>4, <2>1, <2>2, ProcStep
  <2>4. TaskMove
    BY <1>1, <1>2, <2>2, GotoStep
  <2> QED
    BY <1>3, <2>3, <2>4, Quiet
<1>5. CASE ~(Exists(p) /\ proc[p].status = "processing")
  <2>1. Done(w) /\ proc' = proc
    BY <1>1, <1>5 DEF SaveExternalId
  <2>2. TaskMove /\ ProcMove /\ SuccessKept
    BY <2>1, DoneStep DEF ProcMove, SuccessKept
  <2> QED
    BY <1>3, <2>2, Quiet
<1> QED
  BY <1>4, <1>5

LEMMA ScheduleCheckStep ==
  ASSUME ImagesInv, NEW w \in Workers, ScheduleCheck(w)
  PROVE  ImagesInv' /\ SuccessKept
<1>1. /\ Busy(w) /\ wrk[w].pc = "schedule" /\ Done(w)
      /\ queue' = Put(queue, CheckMsg(Photo(w), wrk[w].gen, 1))
      /\ UNCHANGED <<gallery, xl, proc, files, isSet, hist>>
  BY DEF ScheduleCheck, At
<1>2. Photo(w) \in Photos /\ wrk[w].gen \in Gens \ {0} /\ 1 \in Attempts
  BY <1>1, TaskOf, BoundsAssumption DEF ImagesInv, TaskOk, Task, Attempts
<1>3. QueueMove
  BY <1>1, <1>2, MessageShapes, PutStep
<1>4. TaskMove
  BY <1>1, DoneStep
<1>5. /\ GalleryMove /\ ProcMove /\ XlMove /\ FilesMove /\ Ticks /\ SuccessKept
      /\ UNCHANGED <<requests, gens>>
  BY <1>1 DEF GalleryMove, ProcMove, XlMove, FilesMove, Ticks, SuccessKept, hist
<1> QED
  BY <1>3, <1>4, <1>5, Quiet

-----------------------------------------------------------------------------
(* check_product_image_generation.                                         *)
LEMMA TakeCheckStep ==
  ASSUME ImagesInv, NEW w \in Workers, NEW p \in Photos, TakeCheck(w, p)
  PROVE  ImagesInv' /\ SuccessKept
<1>1. PICK m \in Messages :
        /\ m.task = "check" /\ m.photo = p /\ queue[m] > 0
        /\ queue' = Out(queue, m)
        /\ IF ~Takeable(p) THEN UNCHANGED <<proc, wrk>>
           ELSE IF isSet \/ proc[p].gemini
           THEN SetStatus(p, "failed") /\ UNCHANGED wrk
           ELSE /\ proc' = [proc EXCEPT ![p].fresh = TRUE]
                /\ wrk' = [wrk EXCEPT ![w] = [pc |-> "poll", msg |-> m, todo |-> Modes,
                      gen |-> IF proc[p].ext = 0 \/ proc[p].status = "result_received"
                              THEN m.ext ELSE proc[p].ext,
                      received |-> proc[p].status = "result_received"]]
        /\ UNCHANGED <<gallery, xl, files, isSet, hist>>
  BY DEF TakeCheck
<1>2. TypeOK /\ proc[p] \in Processing
  BY DEF ImagesInv, TypeOK
<1>3. /\ GalleryMove /\ XlMove /\ FilesMove /\ QueueMove /\ Ticks
      /\ UNCHANGED <<requests, gens>>
  <2>1. QueueMove
    BY <1>1, OutStep
  <2> QED
    BY <1>1, <2>1 DEF GalleryMove, XlMove, FilesMove, Ticks, hist
<1>4. CASE ~Takeable(p)
  <2>1. UNCHANGED <<proc, wrk>>
    BY <1>1, <1>4
  <2>2. ProcMove /\ TaskMove /\ SuccessKept
    BY <2>1 DEF ProcMove, TaskMove, SuccessKept
  <2> QED
    BY <1>3, <2>2, Quiet
<1>5. CASE Takeable(p) /\ (isSet \/ proc[p].gemini)
  <2>1. SetStatus(p, "failed") /\ UNCHANGED wrk /\ proc[p].status # "succeeded"
    BY <1>1, <1>5 DEF Takeable
  <2>2. ProcMove /\ SuccessKept
    BY <2>1, StatusStep DEF Statuses
  <2>3. TaskMove
    BY <2>1 DEF TaskMove
  <2> QED
    BY <1>3, <2>2, <2>3, Quiet
<1>6. CASE Takeable(p) /\ ~(isSet \/ proc[p].gemini)
  <2> DEFINE r == [proc[p] EXCEPT !.fresh = TRUE]
             g == IF proc[p].ext = 0 \/ proc[p].status = "result_received"
                  THEN m.ext ELSE proc[p].ext
             received == proc[p].status = "result_received"
             t == [pc |-> "poll", msg |-> m, todo |-> Modes, gen |-> g, received |-> received]
  <2>1. r \in Processing /\ r.status = proc[p].status
    BY <1>2 DEF Processing
  <2>2. proc' = [proc EXCEPT ![p] = r] /\ wrk' = [wrk EXCEPT ![w] = t]
    BY <1>1, <1>2, <1>6 DEF TypeOK
  <2> HIDE DEF r
  <2>3. ProcMove /\ SuccessKept
    BY <1>2, <2>1, <2>2, ProcStep
  <2>4. g \in Gens /\ received \in BOOLEAN
    BY <1>1, <1>2, CheckMessage DEF Processing
  <2> HIDE DEF g, received
  <2>5. t \in Task /\ TaskOk(t) /\ ~Calls(t)
    BY <1>1, <2>4 DEF Task, TaskOk, Calls
  <2> HIDE DEF t
  <2>6. TaskMove
    BY <2>2, <2>5, TaskStep
  <2> QED
    BY <1>3, <2>3, <2>6, Quiet
<1> QED
  BY <1>4, <1>5, <1>6

LEMMA PollAgainStep ==
  ASSUME ImagesInv, NEW w \in Workers, PollAgain(w)
  PROVE  ImagesInv' /\ SuccessKept
<1> PICK m : m = wrk[w].msg
  OBVIOUS
<1> DEFINE a == IF m.attempt > MaxPolls THEN m.attempt ELSE m.attempt + 1
<1>1. /\ Busy(w) /\ wrk[w].pc = "poll" /\ Done(w)
      /\ queue' = Put(queue, CheckMsg(m.photo, m.ext, a))
      /\ UNCHANGED <<gallery, xl, proc, files, isSet, hist>>
  BY DEF PollAgain, At
<1>2. m \in Messages /\ m.task = "check"
  BY <1>1, TaskOf DEF ImagesInv, TaskOk
<1>3. a \in Attempts /\ m.photo \in Photos /\ m.ext \in Gens \ {0}
  <2>1. m.attempt \in Attempts /\ m.photo \in Photos /\ m.ext \in Gens \ {0}
    BY <1>2, CheckMessage
  <2> QED
    BY <2>1, BoundsAssumption DEF Attempts
<1> HIDE DEF a
<1>4. QueueMove
  BY <1>1, <1>3, MessageShapes, PutStep
<1>5. TaskMove
  BY <1>1, DoneStep
<1>6. /\ GalleryMove /\ ProcMove /\ XlMove /\ FilesMove /\ Ticks /\ SuccessKept
      /\ UNCHANGED <<requests, gens>>
  BY <1>1 DEF GalleryMove, ProcMove, XlMove, FilesMove, Ticks, SuccessKept, hist
<1> QED
  BY <1>4, <1>5, <1>6, Quiet

(* The final claim does not take back a success.                           *)
LEMMA ClaimFinalStep ==
  ASSUME ImagesInv, NEW w \in Workers, ClaimFinal(w)
  PROVE  ImagesInv' /\ SuccessKept
<1> PICK p : p = Photo(w)
  OBVIOUS
<1>1. /\ Busy(w) /\ wrk[w].pc = "poll" /\ p = Photo(w)
      /\ UNCHANGED <<gallery, xl, files, isSet, queue, hist>>
  BY DEF ClaimFinal, At
<1>2. /\ TypeOK /\ wrk[w] \in Task /\ p \in Photos /\ proc[p] \in Processing
      /\ wrk[w].gen \in Gens /\ wrk[w].msg.task = "check"
  BY <1>1, TaskOf DEF ImagesInv, TaskOk, Task
<1>3. /\ GalleryMove /\ XlMove /\ FilesMove /\ QueueMove /\ Ticks
      /\ UNCHANGED <<requests, gens>>
  BY <1>1 DEF GalleryMove, XlMove, FilesMove, QueueMove, Ticks, hist
<1>4. CASE FinalRefused(p)
  <2>1. Done(w) /\ proc' = proc
    BY <1>1, <1>4 DEF ClaimFinal
  <2>2. TaskMove /\ ProcMove /\ SuccessKept
    BY <2>1, DoneStep DEF ProcMove, SuccessKept
  <2> QED
    BY <1>3, <2>2, Quiet
<1>5. CASE ~FinalRefused(p)
  <2> DEFINE r == [proc[p] EXCEPT !.status = "result_received", !.fresh = TRUE,
                                  !.ext = wrk[w].gen, !.gemini = FALSE]
  <2>1. r \in Processing /\ r.status = "result_received"
    <3>1. "result_received" \in Statuses
      BY DEF Statuses
    <3> QED
      BY <1>2, <3>1 DEF Processing
  <2>2. proc' = [proc EXCEPT ![p] = r] /\ Goto(w, "safety") /\ proc[p].status # "succeeded"
    BY <1>1, <1>2, <1>5 DEF ClaimFinal, FinalRefused, TypeOK
  <2> HIDE DEF r
  <2>3. ProcMove /\ SuccessKept
    BY <1>2, <2>1, <2>2, ProcStep
  <2>4. TaskMove
    BY <1>1, <1>2, <2>2, GotoStep
  <2> QED
    BY <1>3, <2>3, <2>4, Quiet
<1> QED
  BY <1>4, <1>5

LEMMA SafetyRetryStep ==
  ASSUME ImagesInv, NEW w \in Workers, SafetyRetry(w)
  PROVE  ImagesInv' /\ SuccessKept
<1>1. /\ Busy(w) /\ Goto(w, "store") /\ queue' = Put(queue, wrk[w].msg)
      /\ UNCHANGED <<gallery, xl, proc, files, isSet, hist>>
  BY DEF SafetyRetry, At
<1>2. QueueMove
  BY <1>1, TaskOf, PutStep
<1>3. TaskMove
  BY <1>1, GotoStep
<1>4. /\ GalleryMove /\ ProcMove /\ XlMove /\ FilesMove /\ Ticks /\ SuccessKept
      /\ UNCHANGED <<requests, gens>>
  BY <1>1 DEF GalleryMove, ProcMove, XlMove, FilesMove, Ticks, SuccessKept, hist
<1> QED
  BY <1>2, <1>3, <1>4, Quiet

-----------------------------------------------------------------------------
(* Both tasks store their files and finish, or fail.                       *)
LEMMA StoreFileStep ==
  ASSUME ImagesInv, NEW w \in Workers, StoreFile(w)
  PROVE  ImagesInv' /\ SuccessKept
<1>1. PICK m \in Modes :
        /\ Busy(w) /\ wrk[w].pc = "store"
        /\ files' = [files EXCEPT ![Photo(w)] = @ \cup {m}]
        /\ wrk' = [wrk EXCEPT ![w].todo = @ \ {m},
                     ![w].pc = IF wrk[w].todo = {m} THEN "finish" ELSE "store"]
        /\ UNCHANGED <<gallery, xl, proc, isSet, queue, hist>>
  BY DEF StoreFile, At
<1>2. TypeOK /\ wrk[w] \in Task
  BY <1>1, TaskOf DEF ImagesInv
<1> DEFINE pc == IF wrk[w].todo = {m} THEN "finish" ELSE "store"
           t == [wrk[w] EXCEPT !.todo = wrk[w].todo \ {m}, !.pc = pc]
<1>3. wrk' = [wrk EXCEPT ![w] = t]
  BY <1>1, <1>2 DEF TypeOK
<1>4. t \in Task /\ TaskOk(t) /\ ~Calls(t)
  <2>1. pc \in {"finish", "store"}
    OBVIOUS
  <2> HIDE DEF pc
  <2>2. t \in Task /\ t.pc = pc
    BY <1>2, <2>1 DEF Task
  <2> HIDE DEF t
  <2> QED
    BY <2>1, <2>2 DEF TaskOk, Calls
<1> HIDE DEF t
<1>5. TaskMove
  BY <1>3, <1>4, TaskStep
<1>6. FilesMove
  BY <1>1, <1>2 DEF FilesMove, TypeOK
<1>7. /\ GalleryMove /\ ProcMove /\ XlMove /\ QueueMove /\ Ticks /\ SuccessKept
      /\ UNCHANGED <<requests, gens>>
  BY <1>1 DEF GalleryMove, ProcMove, XlMove, QueueMove, Ticks, SuccessKept, hist
<1> QED
  BY <1>5, <1>6, <1>7, Quiet

(* A task that ends changes its photo's status only if that lets it.       *)
LEMMA EndingSteps ==
  ASSUME ImagesInv, NEW w \in Workers, Finish(w) \/ Fail(w) \/ PhotoGone(w)
  PROVE  ImagesInv' /\ SuccessKept
<1>1. /\ Busy(w) /\ Done(w) /\ UNCHANGED <<gallery, xl, files, isSet, queue, hist>>
      /\ \/ SetStatus(Photo(w), "succeeded")
         \/ SetStatus(Photo(w), "failed") /\ MayFail(w)
         \/ proc' = proc
  <2>1. CASE Finish(w)
    BY <2>1 DEF Finish, At
  <2>2. CASE Fail(w)
    BY <2>2 DEF Fail, At
  <2>3. CASE PhotoGone(w)
    BY <2>3 DEF PhotoGone, At
  <2> QED
    BY <2>1, <2>2, <2>3
<1>2. Photo(w) \in Photos
  BY <1>1, TaskOf
<1>3. ProcMove /\ SuccessKept
  <2>1. CASE SetStatus(Photo(w), "succeeded")
    BY <1>2, <2>1, StatusStep DEF Statuses
  <2>2. CASE SetStatus(Photo(w), "failed") /\ MayFail(w)
    <3>1. proc[Photo(w)].status # "succeeded"
      BY <2>2 DEF MayFail
    <3> QED
      BY <1>2, <2>2, <3>1, StatusStep DEF Statuses
  <2>3. CASE proc' = proc
    BY <2>3 DEF ProcMove, SuccessKept
  <2> QED
    BY <1>1, <2>1, <2>2, <2>3
<1>4. TaskMove
  BY <1>1, DoneStep
<1>5. /\ GalleryMove /\ XlMove /\ FilesMove /\ QueueMove /\ Ticks
      /\ UNCHANGED <<requests, gens>>
  BY <1>1 DEF GalleryMove, XlMove, FilesMove, QueueMove, Ticks, hist
<1> QED
  BY <1>3, <1>4, <1>5, Quiet

-----------------------------------------------------------------------------
(* generate_product_xl_cover leaves the processing of the photo alone.     *)
LEMMA TakeXlStep ==
  ASSUME ImagesInv, NEW w \in Workers, NEW p \in Photos, TakeXl(w, p)
  PROVE  ImagesInv' /\ SuccessKept
<1>1. /\ queue[XlMsg(p)] > 0 /\ queue' = Out(queue, XlMsg(p))
      /\ UNCHANGED <<gallery, proc, files, isSet, hist>>
      /\ \/ UNCHANGED <<xl, wrk>>
         \/ xl' = [xl EXCEPT ![p] = "failed"] /\ UNCHANGED wrk
         \/ xl' = [xl EXCEPT ![p] = "processing"] /\ Start(w, "xl", XlMsg(p), FALSE)
  BY DEF TakeXl
<1>2. TypeOK
  BY DEF ImagesInv
<1>3. QueueMove
  BY <1>1, MessageShapes, OutStep
<1>4. XlMove
  BY <1>1, <1>2 DEF XlMove, TypeOK, Statuses
<1>5. TaskMove
  <2>1. CASE UNCHANGED wrk
    BY <2>1 DEF TaskMove
  <2>2. CASE Start(w, "xl", XlMsg(p), FALSE)
    <3> DEFINE t == [pc |-> "xl", msg |-> XlMsg(p), gen |-> 0, todo |-> Modes,
                     received |-> FALSE]
    <3>1. XlMsg(p) \in Messages /\ 0 \in Gens
      BY MessageShapes, BoundsAssumption DEF Gens
    <3>2. t \in Task /\ TaskOk(t) /\ ~Calls(t)
      BY <3>1 DEF Task, TaskOk, Calls
    <3>3. wrk' = [wrk EXCEPT ![w] = t]
      BY <2>2 DEF Start
    <3> HIDE DEF t
    <3> QED
      BY <3>2, <3>3, TaskStep
  <2> QED
    BY <1>1, <2>1, <2>2
<1>6. /\ GalleryMove /\ ProcMove /\ FilesMove /\ Ticks /\ SuccessKept
      /\ UNCHANGED <<requests, gens>>
  BY <1>1 DEF GalleryMove, ProcMove, FilesMove, Ticks, SuccessKept, hist
<1> QED
  BY <1>3, <1>4, <1>5, <1>6, Quiet

LEMMA XlSteps ==
  ASSUME ImagesInv, NEW w \in Workers, StoreXl(w) \/ FinishXl(w)
  PROVE  ImagesInv' /\ SuccessKept
<1>1. TypeOK /\ XlMode \in Modes \cup {XlMode}
  BY DEF ImagesInv
<1>2. CASE StoreXl(w)
  <2>1. /\ Busy(w) /\ files' = [files EXCEPT ![Photo(w)] = @ \cup {XlMode}]
        /\ Goto(w, "xl_stored") /\ UNCHANGED <<gallery, xl, proc, isSet, queue, hist>>
    BY <1>2 DEF StoreXl, At
  <2>2. FilesMove
    BY <1>1, <2>1 DEF FilesMove, TypeOK
  <2>3. TaskMove
    BY <2>1, GotoStep
  <2>4. /\ GalleryMove /\ ProcMove /\ XlMove /\ QueueMove /\ Ticks /\ SuccessKept
        /\ UNCHANGED <<requests, gens>>
    BY <2>1 DEF GalleryMove, ProcMove, XlMove, QueueMove, Ticks, SuccessKept, hist
  <2> QED
    BY <2>2, <2>3, <2>4, Quiet
<1>3. CASE FinishXl(w)
  <2>1. PICK ok \in BOOLEAN :
          /\ Busy(w) /\ Done(w) /\ UNCHANGED <<gallery, proc, files, isSet, queue, hist>>
          /\ xl' = [xl EXCEPT ![Photo(w)] =
                      IF ~Exists(Photo(w)) THEN @ ELSE IF ok THEN "succeeded" ELSE "failed"]
    BY <1>3 DEF FinishXl, At
  <2>2. XlMove
    BY <1>1, <2>1 DEF XlMove, TypeOK, Statuses
  <2>3. TaskMove
    BY <2>1, DoneStep
  <2>4. /\ GalleryMove /\ ProcMove /\ FilesMove /\ QueueMove /\ Ticks /\ SuccessKept
        /\ UNCHANGED <<requests, gens>>
    BY <2>1 DEF GalleryMove, ProcMove, FilesMove, QueueMove, Ticks, SuccessKept, hist
  <2> QED
    BY <2>2, <2>3, <2>4, Quiet
<1> QED
  BY <1>2, <1>3

-----------------------------------------------------------------------------
(* Faults give no right to a call back: a message that is delivered again  *)
(* finds no pending photo, unless it is requested anew.                    *)
LEMMA FaultSteps ==
  ASSUME ImagesInv, RowLocked \/ \E w \in Workers : WorkerLost(w) \/ Abort(w)
  PROVE  ImagesInv' /\ SuccessKept
<1>1. /\ faults' = faults + 1
      /\ UNCHANGED <<gallery, xl, proc, files, isSet, requests, gens, edits>>
  BY DEF RowLocked, WorkerLost, Abort, Fault
<1>2. QueueMove /\ TaskMove
  <2>1. CASE RowLocked
    <3>1. QueueMove
      BY <2>1, OutStep DEF RowLocked
    <3> QED
      BY <2>1, <3>1 DEF RowLocked, TaskMove
  <2>2. ASSUME NEW w \in Workers, WorkerLost(w) PROVE QueueMove /\ TaskMove
    <3>1. Busy(w) /\ Done(w) /\ queue' = Put(queue, wrk[w].msg)
      BY <2>2 DEF WorkerLost
    <3> QED
      BY <3>1, TaskOf, PutStep, DoneStep
  <2>3. ASSUME NEW w \in Workers, Abort(w) PROVE QueueMove /\ TaskMove
    BY <2>3, DoneStep DEF Abort, QueueMove
  <2> QED
    BY <2>1, <2>2, <2>3
<1>3. /\ GalleryMove /\ ProcMove /\ XlMove /\ FilesMove /\ Ticks /\ SuccessKept
      /\ UNCHANGED <<requests, gens>>
  BY <1>1 DEF GalleryMove, ProcMove, XlMove, FilesMove, Ticks, SuccessKept
<1> QED
  BY <1>2, <1>3, Quiet

(* A lease runs out, or the sweep takes it anew.                           *)
LEMMA FreshStep ==
  ASSUME ImagesInv, NEW p \in Photos, NEW b \in BOOLEAN, proc' = [proc EXCEPT ![p].fresh = b]
  PROVE  ProcMove /\ SuccessKept
<1> DEFINE r == [proc[p] EXCEPT !.fresh = b]
<1>1. proc \in [Photos -> Processing] /\ proc[p] \in Processing
  BY DEF ImagesInv, TypeOK
<1>2. r \in Processing /\ r.status = proc[p].status
  BY <1>1 DEF Processing
<1>3. proc' = [proc EXCEPT ![p] = r]
  BY <1>1
<1> HIDE DEF r
<1> QED
  BY <1>2, <1>3, ProcStep

LEMMA AgeStep ==
  ASSUME ImagesInv, NEW p \in Photos, Age(p)
  PROVE  ImagesInv' /\ SuccessKept
<1>1. /\ proc' = [proc EXCEPT ![p].fresh = FALSE]
      /\ UNCHANGED <<gallery, xl, files, isSet, queue, wrk, hist>>
  BY DEF Age
<1>2. ProcMove /\ SuccessKept
  BY <1>1, FreshStep
<1>3. /\ GalleryMove /\ TaskMove /\ XlMove /\ FilesMove /\ QueueMove /\ Ticks
      /\ UNCHANGED <<requests, gens>>
  BY <1>1 DEF GalleryMove, TaskMove, XlMove, FilesMove, QueueMove, Ticks, hist
<1> QED
  BY <1>2, <1>3, Quiet

(* The sweep resumes a known generation and never starts one.              *)
LEMMA RecoverStep ==
  ASSUME ImagesInv, NEW p \in Photos, Recover(p)
  PROVE  ImagesInv' /\ SuccessKept
<1>1. /\ proc[p].status \in {"processing", "result_received"}
      /\ UNCHANGED <<gallery, xl, files, isSet, wrk, hist>>
  BY DEF Recover, Abandoned
<1>2. /\ GalleryMove /\ TaskMove /\ XlMove /\ FilesMove /\ Ticks
      /\ UNCHANGED <<requests, gens>>
  BY <1>1 DEF GalleryMove, TaskMove, XlMove, FilesMove, Ticks, hist
<1>3. CASE proc[p].ext = 0
  <2>1. SetStatus(p, "failed") /\ UNCHANGED queue
    BY <1>3 DEF Recover
  <2>2. ProcMove /\ SuccessKept
    BY <1>1, <2>1, StatusStep DEF Statuses
  <2> QED
    BY <1>2, <2>1, <2>2, Quiet DEF QueueMove
<1>4. CASE proc[p].ext # 0
  <2>1. /\ proc' = [proc EXCEPT ![p].fresh = TRUE]
        /\ queue' = Put(queue, CheckMsg(p, proc[p].ext, 1))
    BY <1>4 DEF Recover
  <2>2. ProcMove /\ SuccessKept
    BY <2>1, FreshStep
  <2>3. proc[p].ext \in Gens \ {0} /\ 1 \in Attempts
    BY <1>4, BoundsAssumption DEF ImagesInv, TypeOK, Processing, Attempts
  <2>4. QueueMove
    BY <2>1, <2>3, MessageShapes, PutStep
  <2> QED
    BY <1>2, <2>2, <2>4, Quiet
<1> QED
  BY <1>3, <1>4

-----------------------------------------------------------------------------
LEMMA NextImages == ImagesInv /\ [Next]_vars => ImagesInv' /\ SuccessKept
<1> SUFFICES ASSUME ImagesInv, [Next]_vars PROVE ImagesInv' /\ SuccessKept
  OBVIOUS
<1>1. CASE EditGallery
  BY <1>1, GalleryEdits, DeleteStep, GeneratedEdits DEF EditGallery
<1>2. CASE \E p \in Photos : Request(p) \/ Age(p) \/ Recover(p)
  BY <1>2, RequestStep, AgeStep, RecoverStep
<1>3. CASE \E w \in Workers, p \in Photos : Take(w, p)
  BY <1>3, TakeProcessStep, TakeCheckStep, TakeXlStep DEF Take
<1>4. CASE \E w \in Workers : Work(w)
  BY <1>4, CallProviderStep, SaveExternalIdStep, ScheduleCheckStep, PollAgainStep, ClaimFinalStep,
     SafetyRetryStep, StoreFileStep, EndingSteps, XlSteps DEF Work
<1>5. CASE RowLocked \/ \E w \in Workers : WorkerLost(w) \/ Abort(w)
  BY <1>5, FaultSteps
<1>6. CASE UNCHANGED vars
  <2>1. /\ GalleryMove /\ ProcMove /\ TaskMove /\ XlMove /\ FilesMove /\ QueueMove /\ Ticks
        /\ SuccessKept /\ UNCHANGED <<requests, gens>>
    BY <1>6 DEF vars, hist, GalleryMove, ProcMove, TaskMove, XlMove, FilesMove, QueueMove, Ticks,
                SuccessKept
  <2> QED
    BY <2>1, Quiet
<1> QED
  BY <1>1, <1>2, <1>3, <1>4, <1>5, <1>6 DEF Next

(* Every reachable state has what the proofs below need of it.             *)
LEMMA ImagesAlways == Spec => []ImagesInv
  BY InitImages, NextImages, PTL DEF Spec

(* Rows, messages and tasks keep their shape, and whoever uploads, deletes, *)
(* promotes and reorders photos in whatever order: a product with photos    *)
(* has exactly one cover and a strict order.                                *)
THEOREM GalleryConsistent == Spec => []Consistent
<1>1. ImagesInv => Consistent
  <2> SUFFICES ASSUME ImagesInv PROVE OneCover
    BY DEF Consistent, ImagesInv
  <2>1. GalleryOk(gallery)
    BY DEF ImagesInv
  <2>2. ASSUME DOMAIN gallery # {} PROVE Cardinality(Covers(gallery)) = 1
    <3>1. PICK c \in DOMAIN gallery : Covers(gallery) = {c}
      BY <2>1, <2>2 DEF GalleryOk
    <3> QED
      BY <3>1, FS_Singleton
  <2> QED
    BY <2>1, <2>2 DEF OneCover, WellFormed, GalleryOk, Rows
<1> QED
  BY <1>1, ImagesAlways, PTL

(* Redelivered, lost and recovered tasks together start at most one paid    *)
(* generation for each request: the right to it passes from the request to  *)
(* the photo it makes pending and to the task that claims the photo.        *)
THEOREM GenerationsPaidOnce == Spec => []PaidOnce
<1>1. ImagesInv => PaidOnce
  <2> SUFFICES ASSUME ImagesInv PROVE gens <= requests
    BY DEF PaidOnce
  <2>1. Budget /\ gens \in Nat /\ requests \in Nat
    BY DEF ImagesInv, TypeOK
  <2>2. Cardinality(Pending) \in Nat /\ Cardinality(Calling) \in Nat
    BY <2>1, FS_CardinalityType DEF Budget
  <2>3. gens + Cardinality(Pending) + Cardinality(Calling) <= requests
    BY <2>1 DEF Budget
  <2> QED
    BY <2>1, <2>2, <2>3
<1> QED
  BY <1>1, ImagesAlways, PTL

(* A processing that succeeded is only undone by a new request, or by the   *)
(* removal of its photo: no late, duplicate or timed-out task of an earlier *)
(* round fails it or takes it back.                                         *)
THEOREM ProcessingSuccessStays == Spec => SuccessStays
<1>1. ImagesInv /\ [Next]_vars =>
        [\A p \in Photos :
          (proc[p].status = "succeeded" /\ p \in DOMAIN gallery') =>
             \/ proc'[p].status = "succeeded"
             \/ proc'[p].status = "pending" /\ requests' > requests]_vars
  BY NextImages DEF SuccessKept
<1> QED
  BY <1>1, ImagesAlways, PTL DEF Spec, SuccessStays

=============================================================================
