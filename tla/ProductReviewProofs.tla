------------------------ MODULE ProductReviewProofs ------------------------
(***************************************************************************)
(* Proofs about the review of products and their EAN codes, for any number *)
(* of products, codes, accounts, manager pages and overlapping PATCHes.    *)
(***************************************************************************)
EXTENDS ProductReview, TLAPS

-----------------------------------------------------------------------------
(* Type correctness *)

(* The rows that the operations write are rows of the table. *)
LEMMA StatusRows ==
  ASSUME NEW row \in Product
  PROVE  /\ \A s \in Statuses : [row EXCEPT !.status = s] \in Product
         /\ Submitted(row) \in Product
         /\ \A s \in Statuses, f \in [Accounts -> Codes] :
              [row EXCEPT !.status = s, !.ean = f] \in Product
         /\ CanBump(row) =>
              \A s \in Statuses : [row EXCEPT !.status = s, !.rev = @ + 1] \in Product
<1>1. CanBump(row) => row.rev + 1 \in 1..MaxRevision
  BY RevisionAssumption DEF CanBump, Product
<1>2. \A s \in Statuses : [row EXCEPT !.status = s] \in Product
  BY DEF Product
<1>3. Submitted(row) \in Product
  BY <1>2 DEF Submitted, Statuses
<1>4. \A s \in Statuses, f \in [Accounts -> Codes] :
        [row EXCEPT !.status = s, !.ean = f] \in Product
  BY DEF Product
<1>5. CanBump(row) =>
        \A s \in Statuses : [row EXCEPT !.status = s, !.rev = @ + 1] \in Product
  BY <1>1 DEF Product
<1> QED
  BY <1>2, <1>3, <1>4, <1>5

LEMMA CatalogRows ==
  ASSUME NEW row \in Product, NEW c \in Catalogs
  PROVE  /\ [row EXCEPT !.catalog = c] \in Product
         /\ (row.status = "submitted" => CanBump(row)) =>
                /\ Bumped(row) \in Product
                /\ Bumped([row EXCEPT !.catalog = c]) \in Product
         /\ CanBump(row) =>
              /\ WithPending(row, c) \in Product
              /\ [row EXCEPT !.catalog = c, !.pending = None, !.rev = @ + 1] \in Product
<1>1. CanBump(row) => row.rev + 1 \in 1..MaxRevision
  BY RevisionAssumption DEF CanBump, Product
<1>2. [row EXCEPT !.catalog = c] \in Product
  BY DEF Product
<1>3. ASSUME row.status = "submitted" => CanBump(row)
      PROVE  /\ Bumped(row) \in Product
             /\ Bumped([row EXCEPT !.catalog = c]) \in Product
  BY <1>1, <1>3 DEF Product, Bumped
<1>4. CanBump(row) => WithPending(row, c) \in Product
  BY <1>1 DEF Product, WithPending
<1>5. CanBump(row) =>
        [row EXCEPT !.catalog = c, !.pending = None, !.rev = @ + 1] \in Product
  BY <1>1 DEF Product
<1> QED
  BY <1>2, <1>3, <1>4, <1>5

LEMMA StatusNames ==
  {"draft", "submitted", "approved", "rejected", "withdrawn", "deactivated",
   "archived"} = Statuses
BY DEF Statuses

(* What the pool's functions return is a table of codes. *)
LEMMA CodeTables ==
  ASSUME NEW codes \in [Codes -> EanCode], NEW p \in Products
  PROVE  /\ Released(codes, p) \in [Codes -> EanCode]
         /\ \A f \in Assignments(codes) :
              /\ f \in [Accounts -> Codes]
              /\ Assigned(codes, p, f) \in [Codes -> EanCode]
         /\ \A c \in Codes : Consumed(codes, p, c) \in [Codes -> EanCode]
         /\ \A c \in Codes : [codes EXCEPT ![c] = Available] \in [Codes -> EanCode]
BY DEF EanCode, Held, Absent, Available, Released, Assigned, Consumed, Assignments

LEMMA ReviewInit == Init => TypeOK
BY RevisionAssumption, CatalogAssumption, StatusNames, SMTT(30)
   DEF Init, TypeOK, Product, EanCode, Listings, Absent, Page, Request

(* Overwriting p's row with a row, and the ways a request and a page move, *)
(* keep their types.                                                       *)
LEMMA RowKeepsType ==
  ASSUME TypeOK, NEW p \in Products, NEW row \in Product, Row(p, row)
  PROVE  prod' \in [Products -> Product]
BY DEF TypeOK, Row

LEMMA RequestTypes ==
  ASSUME TypeOK, NEW r \in Requests, req[r] # Idle
  PROVE  /\ req[r] \in Request
         /\ req[r].product \in Products /\ req[r].row \in Product
         /\ prod[req[r].product] \in Product
         /\ Close(r) => req' \in [Requests -> Request \cup {Idle}]
         /\ \A pc \in {"photos", "resubmit"} :
              Step(r, pc) => req' \in [Requests -> Request \cup {Idle}]
<1>1. req[r] \in Request
  BY DEF TypeOK
<1>2. /\ req[r].product \in Products /\ req[r].row \in Product
      /\ prod[req[r].product] \in Product
  BY <1>1 DEF TypeOK, Request
<1>3. Close(r) => req' \in [Requests -> Request \cup {Idle}]
  BY DEF TypeOK, Close
<1>4. ASSUME NEW pc \in {"photos", "resubmit"}, Step(r, pc)
      PROVE  req' \in [Requests -> Request \cup {Idle}]
  <2>1. [req[r] EXCEPT !.pc = pc] \in Request
    BY <1>1 DEF Request
  <2> QED
    BY <1>4, <2>1 DEF TypeOK, Step
<1> QED
  BY <1>1, <1>2, <1>3, <1>4

LEMMA PagesKeepType ==
  ASSUME TypeOK, NEW m \in Managers, UsePage(m)
  PROVE  /\ page' \in [Managers -> Page \cup {NoPage}]
         /\ outdated' \subseteq Managers
BY DEF TypeOK, UsePage

LEMMA ListingRows ==
  ASSUME NEW l \in Listings, NEW c \in Codes
  PROVE  /\ [l EXCEPT !.state = "down"] \in Listings
         /\ [state |-> "live", ean |-> c] \in Listings
BY DEF Listings

LEMMA PoolKeepsType ==
  ASSUME TypeOK, NEW p \in Products, NEW a \in Accounts, Pool(p, a)
  PROVE  TypeOK'
<1>1. CASE StartPublish(p, a)
  <2>1. prod[p].ean[a] \in Codes
    BY <1>1 DEF StartPublish, TypeOK, Product
  <2>2. /\ listing' = [listing EXCEPT ![p] = [listing[p] EXCEPT ![a] =
                         [state |-> "live", ean |-> prod[p].ean[a]]]]
        /\ listing[p] \in [Accounts -> Listings]
    BY <1>1 DEF StartPublish, TypeOK
  <2>3. listing' \in [Products -> [Accounts -> Listings]]
    BY <2>1, <2>2, ListingRows DEF TypeOK
  <2> QED
    BY <1>1, <2>3 DEF StartPublish, TypeOK, history
<1>2. CASE ConfirmPublish(p, a)
  <2>1. listing[p][a].ean \in Codes
    BY <1>2 DEF ConfirmPublish, TypeOK, Listings, CanConsume
  <2> QED
    BY <1>2, <2>1, CodeTables DEF ConfirmPublish, TypeOK, history
<1>3. CASE TakeDown(p, a)
  <2>1. /\ listing' = [listing EXCEPT ![p] = [listing[p] EXCEPT ![a] =
                         [listing[p][a] EXCEPT !.state = "down"]]]
        /\ listing[p] \in [Accounts -> Listings]
        /\ listing[p][a] \in Listings
    BY <1>3 DEF TakeDown, TypeOK
  <2>2. [listing[p][a] EXCEPT !.state = "down"] \in Listings
    BY <2>1, ListingRows DEF Listings
  <2>3. listing' \in [Products -> [Accounts -> Listings]]
    BY <2>1, <2>2 DEF TypeOK
  <2> QED
    BY <1>3, <2>3 DEF TakeDown, TypeOK, history
<1> QED
  BY <1>1, <1>2, <1>3 DEF Pool

LEMMA SellerKeepsType ==
  ASSUME TypeOK, NEW p \in Products, Seller(p) \/ OpenDelete(p) \/ Destroy(p)
  PROVE  TypeOK'
<1>1. /\ prod[p] \in Product /\ prod[p].catalog \in Catalogs
      /\ Submitted(prod[p]) \in Product
  BY StatusRows DEF TypeOK, Product
<1>2. \A s \in Statuses : [prod[p] EXCEPT !.status = s] \in Product
  BY <1>1, StatusRows
<1>3. CASE Submit(p)
  BY <1>1, <1>3, RowKeepsType DEF Submit, TypeOK, history
<1>4. CASE EditPhotos(p)
  BY <1>1, <1>4, RowKeepsType, CatalogRows DEF EditPhotos, MarkOutdated, TypeOK, history
<1>5. CASE EditApprovedPhotos(p)
  BY <1>1, <1>5, RowKeepsType, CatalogRows DEF EditApprovedPhotos, TypeOK, history
<1>6. CASE Withdraw(p)
  BY <1>1, <1>6, RowKeepsType, StatusRows, CodeTables, StatusNames
  DEF Withdraw, MarkOutdated, TypeOK, history
<1>7. CASE Deactivate(p)
  BY <1>2, <1>7, RowKeepsType, StatusNames DEF Deactivate, TypeOK, history
<1>8. ASSUME NEW accepted \in BOOLEAN, Respond(p, accepted)
      PROVE  TypeOK'
  <2>1. offer[p] \in Catalogs
    BY <1>8 DEF Respond, TypeOK
  <2> QED
    BY <1>1, <1>8, <2>1, RowKeepsType, CatalogRows DEF Respond, TypeOK, history
<1>9. CASE OpenDelete(p)
  BY <1>9 DEF OpenDelete, TypeOK, history
<1>10. CASE Destroy(p)
  BY <1>1, <1>2, <1>10, RowKeepsType, StatusNames DEF Destroy, TypeOK, history
<1> QED
  BY <1>3, <1>4, <1>5, <1>6, <1>7, <1>8, <1>9, <1>10 DEF Seller

LEMMA ServeKeepsType ==
  ASSUME TypeOK, NEW r \in Requests, Serve(r)
  PROVE  TypeOK'
<1>1. ASSUME NEW p \in Products, OpenPatch(r, p)
      PROVE  TypeOK'
  <2>1. PICK who \in {"seller", "manager"}, resubmit \in BOOLEAN :
          req' = [req EXCEPT ![r] = [pc |-> "open", product |-> p, who |-> who,
                                     resubmit |-> resubmit, row |-> prod[p]]]
    BY <1>1 DEF OpenPatch
  <2>2. [pc |-> "open", product |-> p, who |-> who, resubmit |-> resubmit,
         row |-> prod[p]] \in Request
    BY DEF TypeOK, Request
  <2> QED
    BY <1>1, <2>1, <2>2 DEF OpenPatch, TypeOK, history
<1>2. SUFFICES ASSUME \/ UploadInPatch(r) \/ Refresh(r) \/ Resubmit(r)
                      \/ \E c \in Catalogs : SavePending(r, c) \/ SavePatch(r, c)
               PROVE  TypeOK'
  BY <1>1 DEF Serve
<1>9. req[r] # Idle
  <2>1. req[r].pc # "idle"
    BY <1>2 DEF UploadInPatch, Refresh, Resubmit, SavePending, SavePatch
  <2>2. Idle.pc = "idle"
    BY DEF Idle
  <2> QED
    BY <2>1, <2>2
<1> DEFINE p == req[r].product
<1>3. /\ p \in Products /\ prod[p] \in Product /\ req[r].row \in Product
      /\ req[r] \in Request
  BY <1>9, RequestTypes
<1>4. CASE UploadInPatch(r)
  <2>1. Bumped(prod[p]) \in Product
    BY <1>3, <1>4, CatalogRows, CatalogAssumption DEF UploadInPatch
  <2> QED
    BY <1>3, <1>4, <1>9, <2>1, RequestTypes, RowKeepsType
    DEF UploadInPatch, MarkOutdated, TypeOK, history
<1>5. CASE Refresh(r)
  <2>1. [req[r] EXCEPT !.pc = "ready", !.row = prod[p]] \in Request
    BY <1>3 DEF Request
  <2> QED
    BY <1>5, <2>1 DEF Refresh, TypeOK, history
<1>6. CASE Resubmit(r)
  <2>1. Submitted(prod[p]) \in Product
    BY <1>3, StatusRows
  <2> QED
    BY <1>3, <1>6, <1>9, <2>1, RequestTypes, RowKeepsType DEF Resubmit, TypeOK, history
<1>7. ASSUME NEW c \in Catalogs, SavePending(r, c)
      PROVE  TypeOK'
  <2>1. WithPending(prod[p], c) \in Product
    BY <1>3, <1>7, CatalogRows DEF SavePending
  <2> QED
    BY <1>3, <1>7, <1>9, <2>1, RequestTypes, RowKeepsType DEF SavePending, TypeOK, history
<1>8. ASSUME NEW c \in Catalogs, SavePatch(r, c)
      PROVE  TypeOK'
  <2>1. Bumped([req[r].row EXCEPT !.catalog = c]) \in Product
    BY <1>3, <1>8, CatalogRows DEF SavePatch
  <2> QED
    BY <1>3, <1>8, <1>9, <2>1, RequestTypes, RowKeepsType
    DEF SavePatch, MarkOutdated, TypeOK, history
<1> QED
  BY <1>2, <1>4, <1>5, <1>6, <1>7, <1>8

LEMMA ManageKeepsType ==
  ASSUME TypeOK, NEW m \in Managers, NEW p \in Products, Manage(m, p)
  PROVE  TypeOK'
<1>1. prod[p] \in Product
  BY DEF TypeOK
<1>2. CASE Load(m, p)
  <2>1. [product |-> p, rev |-> prod[p].rev] \in Page
    BY <1>1 DEF Product, Page
  <2> QED
    BY <1>2, <2>1 DEF Load, TypeOK
<1>3. Decide(m, p) => /\ page' \in [Managers -> Page \cup {NoPage}]
                      /\ outdated' \subseteq Managers
  BY PagesKeepType DEF Decide, TypeOK
<1>4. CASE Approve(m, p)
  <2>1. /\ prod' \in [Products -> Product]
        /\ code' \in [Codes -> EanCode]
    <3>1. CASE HasEans(prod[p])
      BY <1>1, <1>4, <3>1, StatusRows, StatusNames, RowKeepsType DEF Approve, TypeOK
    <3>2. CASE ~HasEans(prod[p])
      <4>1. PICK f \in Assignments(code) :
              /\ code' = Assigned(code, p, f)
              /\ Row(p, [prod[p] EXCEPT !.status = "approved", !.ean = f])
        BY <1>4, <3>2 DEF Approve
      <4>2. f \in [Accounts -> Codes] /\ code' \in [Codes -> EanCode]
        BY <4>1, CodeTables DEF TypeOK
      <4> QED
        BY <1>1, <4>1, <4>2, StatusRows, StatusNames, RowKeepsType
    <3> QED
      BY <3>1, <3>2
  <2> QED
    BY <1>3, <1>4, <2>1 DEF Approve, TypeOK
<1>5. CASE Reject(m, p)
  BY <1>1, <1>3, <1>5, StatusRows, StatusNames, RowKeepsType DEF Reject, TypeOK
<1>6. ASSUME NEW s \in {"submitted", "rejected"}, ChangeStatus(m, p, s)
      PROVE  TypeOK'
  BY <1>1, <1>3, <1>6, StatusRows, StatusNames, RowKeepsType DEF ChangeStatus, TypeOK
<1>7. CASE ApproveChanges(m, p)
  <2>1. prod[p].pending \in Catalogs
    BY <1>1, <1>7 DEF ApproveChanges, Product
  <2>2. [prod[p] EXCEPT !.catalog = prod[p].pending, !.pending = None, !.rev = @ + 1]
          \in Product
    BY <1>1, <1>7, <2>1, CatalogRows DEF ApproveChanges
  <2> QED
    BY <1>7, <2>2, PagesKeepType, RowKeepsType
      DEF ApproveChanges, ChangesApplied, TypeOK
<1>8. CASE RejectChanges(m, p)
  <2>1. [prod[p] EXCEPT !.pending = None] \in Product
    BY <1>1 DEF Product
  <2> QED
    BY <1>8, <2>1, PagesKeepType, RowKeepsType
      DEF RejectChanges, ChangesDiscarded, TypeOK
<1>9. ASSUME NEW c \in Catalogs, OfferPrice(p, c)
      PROVE  TypeOK'
  BY <1>9 DEF OfferPrice, TypeOK, history
<1> QED
  BY <1>2, <1>4, <1>5, <1>6, <1>7, <1>8, <1>9 DEF Manage

LEMMA ReviewTypeStep == TypeOK /\ [Next]_vars => TypeOK'
<1> SUFFICES ASSUME TypeOK, [Next]_vars
             PROVE  TypeOK'
  OBVIOUS
<1>1. ASSUME NEW c \in Codes, Import(c)
      PROVE  TypeOK'
  BY <1>1 DEF Import, TypeOK, EanCode, history
<1>2. CASE UNCHANGED vars
  BY <1>2 DEF vars, history, TypeOK
<1> QED
  BY <1>1, <1>2, PoolKeepsType, SellerKeepsType, ServeKeepsType, ManageKeepsType,
     ListedAssumption DEF Next

(* The rows of products, codes, offers, listings, pages and open requests  *)
(* always have the form the code gives them: no revision passes its bound, *)
(* and a code has a product exactly when it is reserved or consumed.       *)
THEOREM ReviewTypeCorrect == Spec => []TypeOK
BY ReviewInit, ReviewTypeStep, PTL DEF Spec

-----------------------------------------------------------------------------
(* The actions that write the table of codes. *)
CodeWritten ==
  \/ code' = code
  \/ \E c \in Codes : Import(c)
  \/ \E p \in Products, a \in Accounts : ConfirmPublish(p, a)
  \/ \E p \in Products : Withdraw(p)
  \/ \E m \in Managers, p \in Products : Approve(m, p)

LEMMA CodeWriters == [Next]_vars => CodeWritten
<1>1. ASSUME NEW p \in Products, NEW a \in Accounts, Pool(p, a)
      PROVE  CodeWritten
  BY <1>1 DEF Pool, StartPublish, TakeDown, CodeWritten
<1>2. ASSUME NEW p \in Products, Seller(p) \/ OpenDelete(p) \/ Destroy(p)
      PROVE  CodeWritten
  BY <1>2 DEF Seller, Submit, EditPhotos, EditApprovedPhotos, Deactivate, Respond,
              OpenDelete, Destroy, CodeWritten
<1>3. ASSUME NEW r \in Requests, Serve(r)
      PROVE  CodeWritten
  BY <1>3 DEF Serve, OpenPatch, UploadInPatch, Refresh, Resubmit, SavePending, SavePatch,
              CodeWritten
<1>4. ASSUME NEW m \in Managers, NEW p \in Products, Manage(m, p)
      PROVE  CodeWritten
  BY <1>4 DEF Manage, Load, Reject, ChangeStatus, ApproveChanges, RejectChanges,
              OfferPrice, CodeWritten
<1>5. CASE UNCHANGED vars
  BY <1>5 DEF vars, CodeWritten
<1>6. ASSUME NEW c \in Codes, Import(c)
      PROVE  CodeWritten
  BY <1>6 DEF CodeWritten
<1> QED
  BY <1>1, <1>2, <1>3, <1>4, <1>5, <1>6, ListedAssumption DEF Next

(* A code that was spent stays spent, whoever withdraws, approves or       *)
(* publishes: consume_ean_code is the last write to its row.               *)
THEOREM SpentStaysSpent == Spec => SpentForever
<1>1. ASSUME [Next]_vars, NEW c \in Codes, code[c].state = "consumed"
      PROVE  TypeOK => code'[c] = code[c]
  <2> SUFFICES ASSUME TypeOK
               PROVE  code'[c] = code[c]
    OBVIOUS
  <2>1. code[c] \in EanCode
    BY DEF TypeOK
  <2>2. code[c] # Absent /\ code[c] # Available
        /\ \A p \in Products : code[c] # Held(p, "reserved")
    BY <1>1 DEF Absent, Available, Held
  <2>3. ASSUME NEW d \in Codes, Import(d)
        PROVE  code'[c] = code[c]
    BY <2>2, <2>3 DEF Import, TypeOK
  <2>4. ASSUME NEW p \in Products, NEW a \in Accounts, ConfirmPublish(p, a)
        PROVE  code'[c] = code[c]
    BY <2>2, <2>4 DEF ConfirmPublish, CanConsume, Consumed, TypeOK
  <2>5. ASSUME NEW p \in Products, Withdraw(p)
        PROVE  code'[c] = code[c]
    BY <2>2, <2>5 DEF Withdraw, Released
  <2>6. ASSUME NEW m \in Managers, NEW p \in Products, Approve(m, p)
        PROVE  code'[c] = code[c]
    <3>1. CASE code' = code
      BY <3>1
    <3>2. CASE \E f \in Assignments(code) : code' = Assigned(code, p, f)
      <4>1. PICK f \in Assignments(code) : code' = Assigned(code, p, f)
        BY <3>2
      <4>2. \A a \in Accounts : f[a] # c
        BY <2>2 DEF Assignments, FreeCodes
      <4> QED
        BY <4>1, <4>2 DEF Assigned
    <3> QED
      BY <2>6, <3>1, <3>2 DEF Approve
  <2>7. CodeWritten
    BY <1>1, CodeWriters
  <2> QED
    BY <2>3, <2>4, <2>5, <2>6, <2>7 DEF CodeWritten
<1>2. TypeOK /\ [Next]_vars
        => [\A c \in Codes : code[c].state = "consumed" => code'[c] = code[c]]_vars
  BY <1>1
<1> QED
  BY <1>2, ReviewTypeCorrect, PTL DEF Spec, SpentForever

-----------------------------------------------------------------------------
(* The inductive invariant about codes.  NoSharedEan and OneCodePerAccount *)
(* compare products, codes and nothing else, but a PATCH can write back a  *)
(* row it read long ago, so the copies that requests hold have to satisfy  *)
(* what the rows do.                                                       *)

(* A row has a code for every account or for none, and for every account   *)
(* once it was approved.                                                   *)
Whole(row) ==
  /\ HasEans(row) \/ \A a \in Accounts : row.ean[a] = None
  /\ row.status \in {"approved", "deactivated"} => HasEans(row)

(* The codes a row of p names are held by p. *)
Holds(row, p) ==
  \A a \in Accounts : row.ean[a] # None => code[row.ean[a]].product = p

RowsWhole ==
  /\ \A p \in Products : Whole(prod[p])
  /\ \A r \in Requests : req[r] # Idle => Whole(req[r].row)

WrittenIsHeld ==
  /\ \A p \in Products \ released : Holds(prod[p], p)
  /\ \A r \in Requests : req[r] # Idle /\ req[r].product \notin released
       => Holds(req[r].row, req[r].product)

HeldIsWritten ==
  \A p \in Products \ clobbered, c \in Codes :
    code[c].product = p => prod[p].ean[AccountOf[c]] = c

EanParts == RowsWhole /\ WrittenIsHeld /\ HeldIsWritten
EanInv   == TypeOK /\ EanParts

LEMMA EanInit == Init => EanParts
<1> SUFFICES ASSUME Init PROVE EanParts
  OBVIOUS
<1>1. \A p \in Products : /\ prod[p].status \in {"draft", "submitted"}
                          /\ \A a \in Accounts : prod[p].ean[a] = None
  BY DEF Init
<1>2. /\ \A r \in Requests : req[r] = Idle
      /\ \A c \in Codes : code[c].product = None
  BY DEF Init, Absent
<1> QED
  BY <1>1, <1>2, NoneIsNoProduct
  DEF EanParts, RowsWhole, Whole, HasEans, WrittenIsHeld, Holds, HeldIsWritten

(* A step that leaves the codes alone, keeps the codes of every row, and   *)
(* gives requests no copy but that of a row.                               *)
CopiesFromRows ==
  \A r \in Requests : req'[r] # Idle =>
    \/ req[r] # Idle /\ req'[r].product = req[r].product /\ req'[r].row = req[r].row
    \/ req'[r].product \in Products /\ req'[r].row = prod[req'[r].product]

LEMMA EansKept ==
  ASSUME EanInv, UNCHANGED <<code, clobbered, released>>, CopiesFromRows,
         \A p \in Products : prod'[p].ean = prod[p].ean /\ Whole(prod'[p])
  PROVE  EanParts'
<1>1. RowsWhole'
  BY DEF EanInv, EanParts, RowsWhole, CopiesFromRows, Whole, HasEans
<1>2. WrittenIsHeld'
  BY DEF EanInv, EanParts, WrittenIsHeld, CopiesFromRows, Holds
<1>3. HeldIsWritten'
  BY DEF EanInv, EanParts, HeldIsWritten
<1> QED
  BY <1>1, <1>2, <1>3 DEF EanParts

(* Overwriting p's row with the same codes, without approving it. *)
LEMMA RowKeepsEans ==
  ASSUME EanInv, NEW p \in Products, NEW row, Row(p, row), row.ean = prod[p].ean,
         row.status \in {"approved", "deactivated"}
           => prod[p].status \in {"approved", "deactivated"}
  PROVE  \A q \in Products : prod'[q].ean = prod[q].ean /\ Whole(prod'[q])
<1>1. Whole(prod[p]) /\ Whole(row)
  BY DEF EanInv, EanParts, RowsWhole, Whole, HasEans
<1> QED
  BY <1>1 DEF EanInv, TypeOK, EanParts, RowsWhole, Row

LEMMA EditsKeepEans ==
  ASSUME NEW row \in Product
  PROVE  /\ Submitted(row).ean = row.ean /\ Submitted(row).status = "submitted"
         /\ Bumped(row).ean = row.ean /\ Bumped(row).status = row.status
         /\ \A c \in Catalogs : /\ WithPending(row, c).ean = row.ean
                                 /\ WithPending(row, c).status = row.status
                                 /\ Bumped([row EXCEPT !.catalog = c]).ean = row.ean
                                 /\ Bumped([row EXCEPT !.catalog = c]).status = row.status
BY DEF Product, Submitted, Bumped, WithPending

LEMMA SellerKeepsEans ==
  ASSUME EanInv, NEW p \in Products,
         Seller(p) \/ OpenDelete(p) \/ Destroy(p), ~Withdraw(p)
  PROVE  EanParts'
<1>1. prod[p] \in Product /\ prod[p].catalog \in Catalogs
  BY DEF EanInv, TypeOK, Product
<1>2. UNCHANGED <<code, clobbered, released, req>>
  BY DEF Seller, Submit, EditPhotos, EditApprovedPhotos, Deactivate, Respond, OpenDelete,
         Destroy, history
<1>3. CopiesFromRows
  BY <1>2 DEF CopiesFromRows
<1>4. UNCHANGED prod \/ \E row : /\ Row(p, row) /\ row.ean = prod[p].ean
                                 /\ row.status \in {"approved", "deactivated"}
                                      => prod[p].status \in {"approved", "deactivated"}
  <2>1. CASE Submit(p)
    BY <1>1, <2>1, EditsKeepEans DEF Submit
  <2>2. CASE EditPhotos(p)
    BY <1>1, <2>2, EditsKeepEans DEF EditPhotos
  <2>3. CASE EditApprovedPhotos(p)
    BY <1>1, <2>3, EditsKeepEans DEF EditApprovedPhotos
  <2>4. CASE Deactivate(p)
    BY <1>1, <2>4 DEF Deactivate, Product
  <2>5. ASSUME NEW accepted \in BOOLEAN, Respond(p, accepted)
        PROVE  Row(p, prod[p]) \/ Row(p, [prod[p] EXCEPT !.catalog = offer[p]])
    BY <2>5 DEF Respond
  <2>6. CASE Destroy(p)
    BY <1>1, <2>6 DEF Destroy, Product
  <2>7. CASE OpenDelete(p)
    BY <2>7 DEF OpenDelete
  <2>8. [prod[p] EXCEPT !.catalog = offer[p]].ean = prod[p].ean
          /\ [prod[p] EXCEPT !.catalog = offer[p]].status = prod[p].status
    BY <1>1 DEF Product
  <2> QED
    BY <2>1, <2>2, <2>3, <2>4, <2>5, <2>6, <2>7, <2>8 DEF Seller
<1>5. \A q \in Products : prod'[q].ean = prod[q].ean /\ Whole(prod'[q])
  <2>1. CASE UNCHANGED prod
    BY <2>1 DEF EanInv, EanParts, RowsWhole
  <2> QED
    BY <1>4, <2>1, RowKeepsEans
<1> QED
  BY <1>2, <1>3, <1>5, EansKept

(* Withdrawing gives back p's codes and no other's, and p is marked when   *)
(* it gave one back.                                                       *)
LEMMA WithdrawKeepsEans ==
  ASSUME EanInv, NEW p \in Products, Withdraw(p)
  PROVE  EanParts'
<1>1. prod[p] \in Product
  BY DEF EanInv, TypeOK
<1>2. \A q \in Products : prod'[q].ean = prod[q].ean /\ Whole(prod'[q])
  <2>1. [prod[p] EXCEPT !.status = "withdrawn", !.rev = @ + 1].ean = prod[p].ean
          /\ [prod[p] EXCEPT !.status = "withdrawn", !.rev = @ + 1].status = "withdrawn"
    BY <1>1 DEF Product
  <2> QED
    BY <2>1, RowKeepsEans DEF Withdraw
<1>3. UNCHANGED <<req, clobbered>> /\ code' = Released(code, p)
      /\ released \subseteq released' /\ (p \in released' \/ code' = code)
  BY DEF Withdraw
<1>4. \A c \in Codes, q \in Products :
        code'[c].product = q => code[c].product = q
  BY <1>3, NoneIsNoProduct DEF Released, Available
<1>5. \A c \in Codes, q \in Products \ released' :
        code[c].product = q => code'[c].product = q
  BY <1>3 DEF Released, Held
<1>6. \A q \in Products : \A a \in Accounts : prod[q].ean[a] \in Codes \cup {None}
  BY DEF EanInv, TypeOK, Product
<1>7. \A r \in Requests : req[r] # Idle =>
        /\ req[r].product \in Products
        /\ \A a \in Accounts : req[r].row.ean[a] \in Codes \cup {None}
  BY RequestTypes DEF EanInv, Product
<1>8. RowsWhole'
  BY <1>2, <1>3 DEF EanInv, EanParts, RowsWhole, Whole, HasEans
<1>9. WrittenIsHeld'
  <2>1. \A q \in Products \ released' : Holds(prod[q], q)'
    BY <1>2, <1>3, <1>5, <1>6 DEF EanInv, EanParts, WrittenIsHeld, Holds
  <2>2. \A r \in Requests : req'[r] # Idle /\ req'[r].product \notin released'
          => Holds(req[r].row, req[r].product)'
    BY <1>3, <1>5, <1>7 DEF EanInv, EanParts, WrittenIsHeld, Holds
  <2> QED
    BY <2>1, <2>2 DEF WrittenIsHeld
<1>10. HeldIsWritten'
  BY <1>2, <1>3, <1>4 DEF EanInv, EanParts, HeldIsWritten
<1> QED
  BY <1>8, <1>9, <1>10 DEF EanParts

(* Writing a stale copy back: the copy satisfies what the rows do, and the *)
(* product is marked when its row said something else by then.             *)
LEMMA SavePatchKeepsEans ==
  ASSUME EanInv, NEW r \in Requests, NEW c \in Catalogs, SavePatch(r, c)
  PROVE  EanParts'
<1> DEFINE p == req[r].product
           row == req[r].row
           new == Bumped([row EXCEPT !.catalog = c])
<1>1. req[r] # Idle
  BY DEF SavePatch, Idle
<1>2. p \in Products /\ row \in Product /\ prod[p] \in Product
  BY <1>1, RequestTypes DEF EanInv
<1>3. /\ new.ean = row.ean /\ new.status = row.status
      /\ Row(p, new) /\ UNCHANGED <<code, released>>
      /\ clobbered \subseteq clobbered' /\ (p \in clobbered' \/ prod[p] = row)
  BY <1>2, EditsKeepEans DEF SavePatch
<1>4. \A q \in Requests : req'[q] # Idle =>
        req[q] # Idle /\ req'[q].product = req[q].product /\ req'[q].row = req[q].row
  <2>1. req[r] \in Request
    BY <1>1, RequestTypes DEF EanInv
  <2>2. CASE Close(r)
    BY <2>2 DEF Close, EanInv, TypeOK
  <2>3. CASE Step(r, "resubmit")
    BY <1>1, <2>1, <2>3 DEF Step, EanInv, TypeOK, Request
  <2> QED
    BY <2>2, <2>3 DEF SavePatch
<1>5. prod'[p] = new /\ \A q \in Products \ {p} : prod'[q] = prod[q]
  BY <1>2, <1>3 DEF Row, EanInv, TypeOK
<1> HIDE DEF new
<1>6. RowsWhole'
  <2>1. Whole(row) /\ Whole(new)
    BY <1>1, <1>3 DEF EanInv, EanParts, RowsWhole, Whole, HasEans
  <2> QED
    BY <1>4, <1>5, <2>1 DEF EanInv, EanParts, RowsWhole, Whole, HasEans
<1>7. WrittenIsHeld'
  <2>1. p \notin released => Holds(row, p)
    BY <1>1 DEF EanInv, EanParts, WrittenIsHeld
  <2> QED
    BY <1>3, <1>4, <1>5, <2>1 DEF EanInv, EanParts, WrittenIsHeld, Holds
<1>8. HeldIsWritten'
  BY <1>3, <1>5 DEF EanInv, EanParts, HeldIsWritten
<1> QED
  BY <1>6, <1>7, <1>8 DEF EanParts

LEMMA ServeKeepsEans ==
  ASSUME EanInv, NEW r \in Requests, Serve(r)
  PROVE  EanParts'
<1>1. \A q \in Products : prod[q] \in Product /\ Whole(prod[q])
  BY DEF EanInv, TypeOK, EanParts, RowsWhole
<1>2. ASSUME NEW p \in Products, OpenPatch(r, p)
      PROVE  EanParts'
  <2>1. CopiesFromRows
    BY <1>2 DEF OpenPatch, CopiesFromRows, EanInv, TypeOK
  <2> QED
    BY <1>1, <1>2, <2>1, EansKept DEF OpenPatch, history
<1>3. ASSUME NEW c \in Catalogs, SavePatch(r, c)
      PROVE  EanParts'
  BY <1>3, SavePatchKeepsEans
<1>4. SUFFICES ASSUME \/ UploadInPatch(r) \/ Refresh(r) \/ Resubmit(r)
                      \/ \E c \in Catalogs : SavePending(r, c)
               PROVE  EanParts'
  BY <1>2, <1>3 DEF Serve
<1> DEFINE p == req[r].product
<1>5. req[r] # Idle
  BY <1>4 DEF UploadInPatch, Refresh, Resubmit, SavePending, Idle
<1>6. p \in Products /\ req[r] \in Request /\ prod[p] \in Product
  BY <1>5, RequestTypes DEF EanInv
<1>7. Close(r) \/ Step(r, "photos") => CopiesFromRows
  BY <1>5, <1>6 DEF Close, Step, CopiesFromRows, EanInv, TypeOK, Request
<1>8. \/ UNCHANGED prod
      \/ Row(p, prod[p]) \/ Row(p, Bumped(prod[p])) \/ Row(p, Submitted(prod[p]))
      \/ \E c \in Catalogs : Row(p, WithPending(prod[p], c))
  BY <1>4 DEF UploadInPatch, Refresh, Resubmit, SavePending
<1>9. \A q \in Products : prod'[q].ean = prod[q].ean /\ Whole(prod'[q])
  BY <1>1, <1>6, <1>8, EditsKeepEans, RowKeepsEans
<1>10. CopiesFromRows
  <2>1. CASE Refresh(r)
    BY <1>5, <1>6, <2>1 DEF Refresh, CopiesFromRows, EanInv, TypeOK, Request
  <2> QED
    BY <1>4, <1>7, <2>1 DEF UploadInPatch, Resubmit, SavePending
<1> QED
  BY <1>4, <1>9, <1>10, EansKept DEF UploadInPatch, Refresh, Resubmit, SavePending, history

(* Consuming a code and importing one give no product another code. *)
LEMMA PoolKeepsEans ==
  ASSUME EanInv,
         \/ \E p \in Products, a \in Accounts : Pool(p, a)
         \/ \E c \in Codes : Import(c)
  PROVE  EanParts'
<1>1. UNCHANGED <<prod, req, clobbered, released>>
  BY DEF Pool, StartPublish, ConfirmPublish, TakeDown, Import, history
<1>2. \A c \in Codes : code'[c].product = code[c].product
  <2>1. ASSUME NEW p \in Products, NEW a \in Accounts, ConfirmPublish(p, a)
        PROVE  \A c \in Codes : code'[c].product = code[c].product
    BY <2>1 DEF ConfirmPublish, CanConsume, Consumed, Held, EanInv, TypeOK
  <2>2. ASSUME NEW c \in Codes, Import(c)
        PROVE  \A d \in Codes : code'[d].product = code[d].product
    BY <2>2 DEF Import, Absent, Available, EanInv, TypeOK
  <2> QED
    BY <2>1, <2>2 DEF Pool, StartPublish, TakeDown
<1>3. \A q \in Products : \A a \in Accounts : prod[q].ean[a] \in Codes \cup {None}
  BY DEF EanInv, TypeOK, Product
<1>4. \A r \in Requests : req[r] # Idle =>
        \A a \in Accounts : req[r].row.ean[a] \in Codes \cup {None}
  BY RequestTypes DEF EanInv, Product
<1>5. RowsWhole'
  BY <1>1 DEF EanInv, EanParts, RowsWhole
<1>6. WrittenIsHeld'
  BY <1>1, <1>2, <1>3, <1>4 DEF EanInv, EanParts, WrittenIsHeld, Holds
<1>7. HeldIsWritten'
  BY <1>1, <1>2 DEF EanInv, EanParts, HeldIsWritten
<1> QED
  BY <1>5, <1>6, <1>7 DEF EanParts

(* Approval takes only free codes, one for each account, and only for a    *)
(* product whose row names none: if it is not marked it holds none.        *)
LEMMA AssignKeepsEans ==
  ASSUME EanInv, NEW p \in Products, ~HasEans(prod[p]), NEW f \in Assignments(code),
         code' = Assigned(code, p, f),
         Row(p, [prod[p] EXCEPT !.status = "approved", !.ean = f]),
         UNCHANGED <<req, clobbered, released>>
  PROVE  EanParts'
<1>1. /\ prod'[p].ean = f /\ prod'[p].status = "approved"
      /\ \A q \in Products \ {p} : prod'[q] = prod[q]
  BY DEF Row, EanInv, TypeOK, Product
<1>2. \A a \in Accounts : f[a] \in Codes /\ AccountOf[f[a]] = a
                            /\ code[f[a]].product = None
  BY DEF Assignments, FreeCodes, Available
<1>3. \A a \in Accounts : prod[p].ean[a] = None
  BY DEF EanInv, EanParts, RowsWhole, Whole
<1>4. \A c \in Codes : IF \E a \in Accounts : f[a] = c THEN code'[c].product = p
                                                      ELSE code'[c] = code[c]
  BY DEF Assigned, Held
<1>5. \A c \in Codes, q \in Products :
        code[c].product = q => code'[c].product = q
  BY <1>2, <1>4, NoneIsNoProduct
<1>6. \A q \in Products : \A a \in Accounts : prod[q].ean[a] \in Codes \cup {None}
  BY DEF EanInv, TypeOK, Product
<1>7. \A r \in Requests : req[r] # Idle =>
        /\ req[r].product \in Products
        /\ \A a \in Accounts : req[r].row.ean[a] \in Codes \cup {None}
  BY RequestTypes DEF EanInv, Product
<1>8. RowsWhole'
  <2>1. HasEans(prod'[p])
    BY <1>1, <1>2, NoneIsNoProduct DEF HasEans
  <2>2. Whole(prod'[p])
    BY <2>1 DEF Whole
  <2> QED
    BY <1>1, <2>2 DEF EanInv, EanParts, RowsWhole
<1>9. WrittenIsHeld'
  <2>1. Holds(prod[p], p)'
    BY <1>1, <1>2, <1>4 DEF Holds
  <2>2. \A q \in Products \ released : q # p => Holds(prod[q], q)'
    BY <1>1, <1>5, <1>6 DEF EanInv, EanParts, WrittenIsHeld, Holds
  <2>3. \A r \in Requests : req[r] # Idle /\ req[r].product \notin released
          => Holds(req[r].row, req[r].product)'
    BY <1>5, <1>7 DEF EanInv, EanParts, WrittenIsHeld, Holds
  <2> QED
    BY <2>1, <2>2, <2>3 DEF WrittenIsHeld
<1>10. HeldIsWritten'
  <2> SUFFICES ASSUME NEW q \in Products \ clobbered, NEW c \in Codes,
                      code'[c].product = q
               PROVE  prod'[q].ean[AccountOf[c]] = c
    BY DEF HeldIsWritten
  <2>1. AccountOf[c] \in Accounts
    BY DEF Accounts, Codes
  <2>2. CASE \E a \in Accounts : f[a] = c
    BY <1>1, <1>2, <1>4, <2>2
  <2>3. CASE ~\E a \in Accounts : f[a] = c
    <3>1. prod[q].ean[AccountOf[c]] = c
      BY <1>4, <2>3 DEF EanInv, EanParts, HeldIsWritten
    <3>2. q # p
      BY <1>3, <2>1, <3>1, NoneIsNoProduct
    <3> QED
      BY <1>1, <3>1, <3>2
  <2> QED
    BY <2>2, <2>3
<1> QED
  BY <1>8, <1>9, <1>10 DEF EanParts

LEMMA ManageKeepsEans ==
  ASSUME EanInv, NEW m \in Managers, NEW p \in Products, Manage(m, p)
  PROVE  EanParts'
<1>1. prod[p] \in Product
  BY DEF EanInv, TypeOK
<1>2. UNCHANGED <<req, clobbered, released>>
  BY DEF Manage, Load, Approve, Reject, ChangeStatus, ApproveChanges, RejectChanges,
         OfferPrice, history
<1>3. CopiesFromRows
  BY <1>2 DEF CopiesFromRows
<1>4. CASE Approve(m, p) /\ ~HasEans(prod[p])
  BY <1>2, <1>4, AssignKeepsEans DEF Approve
<1>5. CASE Approve(m, p) /\ HasEans(prod[p])
  <2>1. UNCHANGED code /\ Row(p, [prod[p] EXCEPT !.status = "approved"])
    BY <1>5 DEF Approve
  <2>2. [prod[p] EXCEPT !.status = "approved"].ean = prod[p].ean
    BY <1>1 DEF Product
  <2>3. \A q \in Products : prod'[q].ean = prod[q].ean /\ Whole(prod'[q])
    BY <1>5, <2>1, <2>2 DEF Row, EanInv, TypeOK, EanParts, RowsWhole, Whole, HasEans
  <2> QED
    BY <1>2, <1>3, <2>1, <2>3, EansKept
<1>6. CASE ~Approve(m, p)
  <2>1. UNCHANGED code
    BY <1>6 DEF Manage, Load, Reject, ChangeStatus, ApproveChanges, RejectChanges,
                OfferPrice
  <2>2. \/ UNCHANGED prod
        \/ \E s \in {"submitted", "rejected"} : Row(p, [prod[p] EXCEPT !.status = s])
        \/ Row(p, [prod[p] EXCEPT !.catalog = prod[p].pending, !.pending = None,
                                  !.rev = @ + 1])
        \/ Row(p, [prod[p] EXCEPT !.pending = None])
    BY <1>6 DEF Manage, Load, Reject, ChangeStatus, ApproveChanges, RejectChanges,
                ChangesApplied, ChangesDiscarded, OfferPrice
  <2>3. \A q \in Products : prod'[q].ean = prod[q].ean /\ Whole(prod'[q])
    <3>1. CASE UNCHANGED prod
      BY <3>1 DEF EanInv, EanParts, RowsWhole
    <3>2. \A s \in {"submitted", "rejected"} :
            /\ [prod[p] EXCEPT !.status = s].ean = prod[p].ean
            /\ [prod[p] EXCEPT !.status = s].status = s
      BY <1>1 DEF Product
    <3>3. \A row \in {[prod[p] EXCEPT !.catalog = prod[p].pending, !.pending = None,
                                      !.rev = @ + 1],
                       [prod[p] EXCEPT !.pending = None]} :
            row.ean = prod[p].ean /\ row.status = prod[p].status
      BY <1>1 DEF Product
    <3> QED
      BY <2>2, <3>1, <3>2, <3>3, RowKeepsEans
  <2> QED
    BY <1>2, <1>3, <2>1, <2>3, EansKept
<1> QED
  BY <1>4, <1>5, <1>6

LEMMA EanStep == EanInv /\ [Next]_vars => EanInv'
<1> SUFFICES ASSUME EanInv, [Next]_vars
             PROVE  EanParts'
  BY ReviewTypeStep DEF EanInv
<1>1. ASSUME NEW p \in Products, Seller(p) \/ OpenDelete(p) \/ Destroy(p)
      PROVE  EanParts'
  BY <1>1, SellerKeepsEans, WithdrawKeepsEans
<1>2. CASE UNCHANGED vars
  BY <1>2 DEF vars, history, EanInv, EanParts, RowsWhole, WrittenIsHeld, Holds,
              HeldIsWritten
<1> QED
  BY <1>1, <1>2, PoolKeepsEans, ServeKeepsEans, ManageKeepsEans, ListedAssumption
  DEF Next

(* In every state the rows, the copies that open PATCHes hold and the code *)
(* table agree: a row names a code for every account or for none, a code   *)
(* it names is held by its product unless that product gave codes back,    *)
(* and a product holds no other code unless a stale PATCH overwrote it.    *)
THEOREM EansConsistent == Spec => []EanInv
<1>1. Init => EanInv
  BY ReviewInit, EanInit DEF EanInv
<1> QED
  BY <1>1, EanStep, PTL DEF Spec

(* An approved or deactivated product has a code for every account.        *)
THEOREM ApprovedAlwaysHasEans == Spec => []ApprovedHasEans
<1>1. EanInv => ApprovedHasEans
  BY DEF EanInv, EanParts, RowsWhole, Whole, ApprovedHasEans
<1> QED
  BY <1>1, EansConsistent, PTL

(* A product holds at most one code of an account, unless a PATCH from a   *)
(* stale copy overwrote its row.                                           *)
THEOREM OneCodeOfAnAccount == Spec => []OneCodePerAccount
<1>1. EanInv => OneCodePerAccount
  <2> SUFFICES ASSUME EanInv, NEW p \in Products \ clobbered, NEW c \in Codes, NEW d \in Codes,
                      code[c].product = p, code[d].product = p,
                      AccountOf[c] = AccountOf[d]
               PROVE  c = d
    BY DEF OneCodePerAccount
  <2>1. prod[p].ean[AccountOf[c]] = c /\ prod[p].ean[AccountOf[d]] = d
    BY DEF EanInv, EanParts, HeldIsWritten
  <2> QED
    BY <2>1
<1> QED
  BY <1>1, EansConsistent, PTL

(* Two products that never gave codes back do not name the same code.      *)
THEOREM EansNotShared == Spec => []NoSharedEan
<1>1. EanInv => NoSharedEan
  <2> SUFFICES ASSUME EanInv, NEW p \in Products \ released, NEW q \in Products \ released,
                      NEW a \in Accounts, prod[p].ean[a] # None,
                      prod[p].ean[a] = prod[q].ean[a]
               PROVE  p = q
    BY DEF NoSharedEan
  <2>1. code[prod[p].ean[a]].product = p /\ code[prod[q].ean[a]].product = q
    BY DEF EanInv, EanParts, WrittenIsHeld, Holds
  <2> QED
    BY <2>1
<1> QED
  BY <1>1, EansConsistent, PTL

-----------------------------------------------------------------------------
(* Pages and revisions                                                     *)

(* The product a manager's page shows has the page's revision or a later   *)
(* one, a later one if it was edited in review since -- unless a stale     *)
(* PATCH overwrote it.                                                     *)
PageHonest(m) ==
  LET q == page[m].product
  IN  q \in Products \ clobbered =>
        /\ page[m].rev <= prod[q].rev
        /\ m \in outdated => page[m].rev < prod[q].rev

PagesInv == \A m \in Managers : PageHonest(m)

LEMMA PageTypes ==
  ASSUME TypeOK
  PROVE  /\ \A p \in Products : prod[p].rev \in Nat
         /\ \A m \in Managers : page[m].product \in Products => page[m] \in Page
                                                              /\ page[m].rev \in Nat
<1>1. \A p \in Products : prod[p].rev \in Nat
  BY DEF TypeOK, Product
<1>2. ASSUME NEW m \in Managers, page[m].product \in Products
      PROVE  page[m] \in Page /\ page[m].rev \in Nat
  BY <1>2, NoneIsNoProduct DEF TypeOK, Page, NoPage
<1> QED
  BY <1>1, <1>2

(* One page stays honest while its product's revision does not go back. *)
LEMMA SamePageHonest ==
  ASSUME TypeOK, TypeOK', NEW m \in Managers, PageHonest(m), page'[m] = page[m],
         clobbered \subseteq clobbered',
         \A q \in Products \ clobbered' :
           /\ prod[q].rev <= prod'[q].rev
           /\ m \in outdated' /\ page[m].product = q
                => m \in outdated \/ prod[q].rev < prod'[q].rev
  PROVE  PageHonest(m)'
<1> SUFFICES ASSUME page[m].product \in Products \ clobbered' PROVE PageHonest(m)'
  BY DEF PageHonest
<1>1. PICK q \in Products \ clobbered' : q = page[m].product
  OBVIOUS
<1>2. page[m].rev \in Nat /\ prod[q].rev \in Nat /\ prod'[q].rev \in Nat
  <2>1. prod'[q] \in Product
    BY DEF TypeOK
  <2> QED
    BY <1>1, <2>1, PageTypes DEF Product
<1>3. /\ prod[q].rev <= prod'[q].rev
      /\ m \in outdated' => m \in outdated \/ prod[q].rev < prod'[q].rev
  BY <1>1
<1>4. page[m].rev <= prod[q].rev /\ (m \in outdated => page[m].rev < prod[q].rev)
  BY <1>1 DEF PageHonest
<1>5. /\ page[m].rev <= prod'[q].rev
      /\ m \in outdated' => page[m].rev < prod'[q].rev
  BY <1>2, <1>3, <1>4
<1> QED
  BY <1>1, <1>5 DEF PageHonest

(* The rows the operations write never carry an earlier revision. *)
LEMMA Revisions ==
  ASSUME NEW row \in Product
  PROVE  /\ \A s : [row EXCEPT !.status = s].rev = row.rev
         /\ \A s, f : [row EXCEPT !.status = s, !.ean = f].rev = row.rev
         /\ \A s : [row EXCEPT !.status = s, !.rev = @ + 1].rev = row.rev + 1
         /\ \A c : [row EXCEPT !.catalog = c].rev = row.rev
         /\ Submitted(row).rev = row.rev
         /\ row.status = "submitted" => Bumped(row).rev = row.rev + 1
         /\ row.status # "submitted" => Bumped(row) = row
         /\ \A c : /\ row.status = "submitted" =>
                        Bumped([row EXCEPT !.catalog = c]).rev = row.rev + 1
                   /\ row.status # "submitted" =>
                        Bumped([row EXCEPT !.catalog = c]).rev = row.rev
                   /\ WithPending(row, c).rev = row.rev + 1
         /\ ChangesApplied(row).rev = row.rev + 1
         /\ ChangesDiscarded(row).rev = row.rev
         /\ row.rev \in Nat
<1>1. row.rev \in Nat
  BY DEF Product
<1>2. /\ \A s : [row EXCEPT !.status = s].rev = row.rev
      /\ \A s, f : [row EXCEPT !.status = s, !.ean = f].rev = row.rev
      /\ \A s : [row EXCEPT !.status = s, !.rev = @ + 1].rev = row.rev + 1
      /\ \A c : [row EXCEPT !.catalog = c].rev = row.rev
      /\ Submitted(row).rev = row.rev
  BY DEF Product, Submitted
<1>3. /\ row.status = "submitted" => Bumped(row).rev = row.rev + 1
      /\ row.status # "submitted" => Bumped(row) = row
  BY DEF Product, Bumped
<1>4. ASSUME NEW c
      PROVE  /\ row.status = "submitted" =>
                  Bumped([row EXCEPT !.catalog = c]).rev = row.rev + 1
             /\ row.status # "submitted" =>
                  Bumped([row EXCEPT !.catalog = c]).rev = row.rev
             /\ WithPending(row, c).rev = row.rev + 1
  BY DEF Product, Bumped, WithPending
<1>5. ChangesApplied(row).rev = row.rev + 1 /\ ChangesDiscarded(row).rev = row.rev
  BY DEF Product, ChangesApplied, ChangesDiscarded
<1> QED
  BY <1>1, <1>2, <1>3, <1>4, <1>5

(* An operation that writes one row and changes no page. *)
LEMMA EditKeepsPages ==
  ASSUME TypeOK, TypeOK', PagesInv, NEW p \in Products, NEW row \in Product, Row(p, row),
         page' = page, clobbered \subseteq clobbered',
         p \in clobbered' \/ prod[p].rev <= row.rev,
         \/ outdated' = outdated
         \/ MarkOutdated(p) /\ (p \in clobbered' \/ prod[p].rev < row.rev)
  PROVE  PagesInv'
<1>1. \A q \in Products : prod[q].rev \in Nat
  BY PageTypes
<1>2. prod'[p] = row /\ \A q \in Products : q # p => prod'[q] = prod[q]
  BY DEF Row, TypeOK
<1>3. ASSUME NEW m \in Managers PROVE PageHonest(m)'
  <2>1. ASSUME NEW q \in Products \ clobbered'
        PROVE  /\ prod[q].rev <= prod'[q].rev
               /\ m \in outdated' /\ page[m].product = q
                    => m \in outdated \/ prod[q].rev < prod'[q].rev
    <3>1. prod[q].rev <= prod'[q].rev
      BY <1>1, <1>2
    <3>2. ASSUME m \in outdated', page[m].product = q, m \notin outdated
          PROVE  prod[q].rev < prod'[q].rev
      BY <1>2, <3>2 DEF MarkOutdated
    <3> QED
      BY <3>1, <3>2
  <2> QED
    BY <2>1, SamePageHonest DEF PagesInv
<1> QED
  BY <1>3 DEF PagesInv

(* An operation of m that writes p's row and uses up m's page, or none. *)
LEMMA DecisionKeepsPages ==
  ASSUME TypeOK, TypeOK', PagesInv, NEW m \in Managers, NEW p \in Products,
         NEW row \in Product, Row(p, row), prod[p].rev <= row.rev,
         UsePage(m) \/ UNCHANGED <<page, outdated>>, clobbered' = clobbered
  PROVE  PagesInv'
<1>1. CASE UNCHANGED <<page, outdated>>
  BY <1>1, EditKeepsPages
<1>2. CASE UsePage(m)
  <2>1. /\ page'[m] = NoPage /\ outdated' = outdated \ {m}
        /\ \A n \in Managers : n # m => page'[n] = page[n]
    BY <1>2 DEF UsePage, TypeOK
  <2>2. PageHonest(m)'
    BY <2>1, NoneIsNoProduct DEF PageHonest, NoPage
  <2>3. prod'[p] = row /\ \A q \in Products : q # p => prod'[q] = prod[q]
    BY DEF Row, TypeOK
  <2>4. \A q \in Products : prod[q].rev <= prod'[q].rev
    BY <2>3, PageTypes
  <2>5. ASSUME NEW n \in Managers, n # m PROVE PageHonest(n)'
    BY <2>1, <2>4, <2>5, SamePageHonest DEF PagesInv
  <2> QED
    BY <2>2, <2>5 DEF PagesInv
<1> QED
  BY <1>1, <1>2

(* Steps that write no row and change no page. *)
LEMMA IdleKeepsPages ==
  ASSUME PagesInv, prod' = prod, page' = page, outdated' = outdated, clobbered' = clobbered
  PROVE  PagesInv'
BY DEF PagesInv, PageHonest

LEMMA SellersKeepPages ==
  ASSUME TypeOK, TypeOK', PagesInv, NEW p \in Products, Seller(p) \/ OpenDelete(p) \/ Destroy(p)
  PROVE  PagesInv'
<1>1. prod[p] \in Product /\ prod[p].rev \in Nat
  BY PageTypes DEF TypeOK
<1>2. PICK row \in Product : row = prod'[p]
  BY DEF TypeOK
<1>3. ASSUME NEW r, Row(p, r) PROVE r = row /\ Row(p, row)
  BY <1>2, <1>3 DEF Row, TypeOK
<1>4. CASE Submit(p) \/ Deactivate(p) \/ EditApprovedPhotos(p) \/ Destroy(p)
           \/ \E accepted \in BOOLEAN : Respond(p, accepted)
  <2>1. page' = page /\ clobbered' = clobbered /\ outdated' = outdated
    BY <1>4 DEF Submit, Deactivate, EditApprovedPhotos, Destroy, Respond, history
  <2>2. Row(p, row) /\ prod[p].rev <= row.rev
    <3>1. CASE Submit(p)
      BY <1>1, <1>2, <3>1 DEF Submit, Submitted, Row, TypeOK, Product
    <3>2. CASE Deactivate(p)
      BY <1>1, <1>2, <3>2 DEF Deactivate, Row, TypeOK, Product
    <3>3. CASE EditApprovedPhotos(p)
      BY <1>1, <1>2, <3>3 DEF EditApprovedPhotos, WithPending, Row, TypeOK, Product
    <3>4. CASE Destroy(p)
      BY <1>1, <1>2, <3>4 DEF Destroy, Row, TypeOK, Product
    <3>5. CASE \E accepted \in BOOLEAN : Respond(p, accepted)
      BY <1>1, <1>2, <3>5 DEF Respond, Row, TypeOK, Product
    <3> QED
      BY <1>4, <3>1, <3>2, <3>3, <3>4, <3>5
  <2> QED
    BY <2>1, <2>2, EditKeepsPages
<1>5. CASE EditPhotos(p) \/ Withdraw(p)
  <2>1. page' = page /\ clobbered' = clobbered /\ MarkOutdated(p)
    BY <1>5 DEF EditPhotos, Withdraw
  <2>2. Row(p, row) /\ row.rev = prod[p].rev + 1
    <3>1. CASE EditPhotos(p)
      BY <1>1, <1>2, <3>1 DEF EditPhotos, Bumped, Row, TypeOK, Product
    <3>2. CASE Withdraw(p)
      BY <1>1, <1>2, <3>2 DEF Withdraw, Row, TypeOK, Product
    <3> QED
      BY <1>5, <3>1, <3>2
  <2>3. prod[p].rev <= row.rev /\ prod[p].rev < row.rev
    BY <1>1, <2>2
  <2> QED
    BY <2>1, <2>2, <2>3, EditKeepsPages
<1>6. CASE OpenDelete(p)
  BY <1>6, IdleKeepsPages DEF OpenDelete, history
<1> QED
  BY <1>4, <1>5, <1>6 DEF Seller

LEMMA PatchesKeepPages ==
  ASSUME TypeOK, TypeOK', PagesInv, NEW r \in Requests, Serve(r)
  PROVE  PagesInv'
<1>1. CASE (\E p \in Products : OpenPatch(r, p)) \/ Refresh(r)
  BY <1>1, IdleKeepsPages DEF OpenPatch, Refresh, history
<1>2. SUFFICES ASSUME \/ UploadInPatch(r) \/ Resubmit(r)
                      \/ \E c \in Catalogs : SavePending(r, c) \/ SavePatch(r, c)
               PROVE  PagesInv'
  BY <1>1 DEF Serve
<1>3. req[r] # Idle
  <2>1. req[r].pc # "idle"
    BY <1>2 DEF UploadInPatch, Resubmit, SavePending, SavePatch
  <2> QED
    BY <2>1 DEF Idle
<1>4. PICK p \in Products : p = req[r].product
  BY <1>3, RequestTypes
<1>5. prod[p] \in Product /\ prod[p].rev \in Nat /\ req[r].row \in Product
  BY <1>3, PageTypes, RequestTypes DEF TypeOK
<1>6. PICK row \in Product : row = prod'[p]
  BY DEF TypeOK
<1>7. ASSUME NEW x, Row(p, x) PROVE x = row /\ Row(p, row)
  BY <1>6, <1>7 DEF Row, TypeOK
<1>8. CASE UploadInPatch(r)
  <2>1. page' = page /\ clobbered' = clobbered
        /\ (Row(p, Bumped(prod[p])) \/ prod' = prod)
        /\ IF prod'[p] # prod[p] THEN MarkOutdated(p) ELSE outdated' = outdated
    BY <1>4, <1>8 DEF UploadInPatch
  <2>2. CASE prod'[p] # prod[p]
    <3>1. Row(p, row) /\ row = Bumped(prod[p]) /\ MarkOutdated(p)
      BY <1>7, <2>1, <2>2
    <3>2. row.rev = prod[p].rev + 1
      BY <1>5, <1>6, <2>2, <3>1, Revisions
    <3>3. prod[p].rev <= row.rev /\ prod[p].rev < row.rev
      BY <1>5, <3>2
    <3> QED
      BY <2>1, <3>1, <3>3, EditKeepsPages
  <2>3. CASE prod'[p] = prod[p]
    <3>1. prod' = prod
      BY <1>4, <2>1, <2>3 DEF Row, TypeOK
    <3> QED
      BY <2>1, <2>3, <3>1, IdleKeepsPages
  <2> QED
    BY <2>2, <2>3
<1>9. CASE Resubmit(r)
  <2>1. page' = page /\ clobbered' = clobbered /\ outdated' = outdated
        /\ Row(p, IF Submittable(prod[p]) THEN Submitted(prod[p]) ELSE prod[p])
    BY <1>4, <1>9 DEF Resubmit, history
  <2>2. Row(p, row) /\ prod[p].rev <= row.rev
    <3>1. \/ Row(p, prod[p]) /\ row = prod[p]
          \/ Row(p, Submitted(prod[p])) /\ row = Submitted(prod[p])
      BY <1>7, <2>1
    <3>2. Submitted(prod[p]).rev = prod[p].rev
      BY <1>5, Revisions
    <3> QED
      BY <1>5, <3>1, <3>2
  <2> QED
    BY <2>1, <2>2, EditKeepsPages
<1>10. ASSUME NEW c \in Catalogs, SavePending(r, c) PROVE PagesInv'
  <2>1. page' = page /\ clobbered' = clobbered /\ outdated' = outdated
        /\ (Row(p, WithPending(prod[p], c)) \/ Row(p, prod[p]))
    BY <1>4, <1>10 DEF SavePending, history
  <2>2. Row(p, row) /\ prod[p].rev <= row.rev
    <3>1. \/ Row(p, prod[p]) /\ row = prod[p]
          \/ Row(p, WithPending(prod[p], c)) /\ row = WithPending(prod[p], c)
      BY <1>7, <2>1
    <3>2. WithPending(prod[p], c).rev = prod[p].rev + 1
      BY <1>5, Revisions
    <3> QED
      BY <1>5, <3>1, <3>2
  <2> QED
    BY <2>1, <2>2, EditKeepsPages
<1>11. ASSUME NEW c \in Catalogs, SavePatch(r, c) PROVE PagesInv'
  <2> DEFINE copy == req[r].row
  <2>1. /\ page' = page /\ Row(p, Bumped([copy EXCEPT !.catalog = c]))
        /\ clobbered' = clobbered \cup {q \in {p} : prod[q] # copy}
        /\ IF copy.status = "submitted" THEN MarkOutdated(p) ELSE outdated' = outdated
    BY <1>4, <1>11 DEF SavePatch
  <2>2. clobbered \subseteq clobbered' /\ (p \in clobbered' \/ prod[p] = copy)
    BY <2>1
  <2>3. Row(p, row) /\ row = Bumped([copy EXCEPT !.catalog = c])
    BY <1>7, <2>1
  <2>4. /\ copy.status = "submitted" => row.rev = copy.rev + 1
        /\ copy.status # "submitted" => row.rev = copy.rev
        /\ copy.rev \in Nat
    BY <1>5, <2>3, Revisions
  <2>5. p \in clobbered' \/ prod[p].rev <= row.rev
    BY <2>2, <2>4
  <2>6. \/ outdated' = outdated
        \/ MarkOutdated(p) /\ (p \in clobbered' \/ prod[p].rev < row.rev)
    <3>1. copy.status = "submitted" => p \in clobbered' \/ prod[p].rev < row.rev
      BY <2>2, <2>4
    <3> QED
      BY <2>1, <3>1
  <2> HIDE DEF copy
  <2> QED
    BY <2>1, <2>2, <2>3, <2>5, <2>6, EditKeepsPages
<1> QED
  BY <1>2, <1>8, <1>9, <1>10, <1>11

LEMMA ManagersKeepPages ==
  ASSUME TypeOK, TypeOK', PagesInv, NEW m \in Managers, NEW p \in Products, Manage(m, p)
  PROVE  PagesInv'
<1>1. prod[p] \in Product /\ prod[p].rev \in Nat
  BY PageTypes DEF TypeOK
<1>2. PICK row \in Product : row = prod'[p]
  BY DEF TypeOK
<1>3. ASSUME NEW x, Row(p, x) PROVE x = row /\ Row(p, row)
  BY <1>2, <1>3 DEF Row, TypeOK
<1>4. CASE Load(m, p)
  <2>1. /\ page'[m] = [product |-> p, rev |-> prod[p].rev]
        /\ \A n \in Managers : n # m => page'[n] = page[n]
        /\ outdated' = outdated \ {m} /\ prod' = prod /\ clobbered' = clobbered
    BY <1>4 DEF Load, TypeOK
  <2>2. PageHonest(m)'
    BY <1>1, <2>1 DEF PageHonest
  <2>3. ASSUME NEW n \in Managers, n # m PROVE PageHonest(n)'
    BY <2>1, <2>3 DEF PageHonest, PagesInv
  <2> QED
    BY <2>2, <2>3 DEF PagesInv
<1>5. CASE \E c \in Catalogs : OfferPrice(p, c)
  BY <1>5, IdleKeepsPages DEF OfferPrice, history
<1>6. CASE Approve(m, p) \/ Reject(m, p)
           \/ \E s \in {"submitted", "rejected"} : ChangeStatus(m, p, s)
  <2>1. (UsePage(m) \/ UNCHANGED <<page, outdated>>) /\ clobbered' = clobbered
    BY <1>6 DEF Approve, Reject, ChangeStatus, Decide
  <2>2. Row(p, row) /\ prod[p].rev <= row.rev
    <3>1. CASE Approve(m, p)
      <4>1. PICK f : \/ Row(p, [prod[p] EXCEPT !.status = "approved"])
                     \/ Row(p, [prod[p] EXCEPT !.status = "approved", !.ean = f])
        BY <3>1 DEF Approve
      <4>a. /\ [prod[p] EXCEPT !.status = "approved"].rev = prod[p].rev
            /\ [prod[p] EXCEPT !.status = "approved", !.ean = f].rev = prod[p].rev
        BY <1>1 DEF Product
      <4>2. row.rev = prod[p].rev /\ Row(p, row)
        BY <1>3, <4>1, <4>a
      <4> QED
        BY <1>1, <4>2
    <3>2. CASE Reject(m, p)
      BY <1>1, <1>2, <3>2 DEF Reject, Row, TypeOK, Product
    <3>3. CASE \E s \in {"submitted", "rejected"} : ChangeStatus(m, p, s)
      BY <1>1, <1>2, <3>3 DEF ChangeStatus, Row, TypeOK, Product
    <3> QED
      BY <1>6, <3>1, <3>2, <3>3
  <2> QED
    BY <2>1, <2>2, DecisionKeepsPages
<1>7. CASE ApproveChanges(m, p) \/ RejectChanges(m, p)
  <2>1. UsePage(m) /\ clobbered' = clobbered
    BY <1>7 DEF ApproveChanges, RejectChanges
  <2>2. Row(p, row) /\ prod[p].rev <= row.rev
    <3>1. Row(p, ChangesApplied(prod[p])) \/ Row(p, ChangesDiscarded(prod[p]))
      BY <1>7 DEF ApproveChanges, RejectChanges
    <3>2. /\ Row(p, row)
          /\ row = ChangesApplied(prod[p]) \/ row = ChangesDiscarded(prod[p])
      BY <1>3, <3>1
    <3>3. /\ ChangesApplied(prod[p]).rev = prod[p].rev + 1
          /\ ChangesDiscarded(prod[p]).rev = prod[p].rev
      BY <1>1, Revisions
    <3> QED
      BY <1>1, <3>2, <3>3
  <2> QED
    BY <2>1, <2>2, DecisionKeepsPages
<1> QED
  BY <1>4, <1>5, <1>6, <1>7 DEF Manage

LEMMA PagesStep == TypeOK /\ TypeOK' /\ PagesInv /\ [Next]_vars => PagesInv'
<1> SUFFICES ASSUME TypeOK, TypeOK', PagesInv, [Next]_vars PROVE PagesInv'
  OBVIOUS
<1>1. CASE UNCHANGED vars
  BY <1>1, IdleKeepsPages DEF vars, history
<1>2. CASE \E c \in Codes : Import(c)
  BY <1>2, IdleKeepsPages DEF Import, history
<1>3. CASE \E p \in Products, a \in Listed : Pool(p, a)
  BY <1>3, IdleKeepsPages DEF Pool, StartPublish, ConfirmPublish, TakeDown, history
<1> QED
  BY <1>1, <1>2, <1>3, SellersKeepPages, PatchesKeepPages, ManagersKeepPages DEF Next

(* Who uses up a page had the product's revision on it. *)
LEMMA PageUse ==
  ASSUME TypeOK, [Next]_vars, NEW m \in Managers, page[m].product \in Products,
         page'[m] = NoPage
  PROVE  ExpectedRevision(m, page[m].product)
<1>1. page'[m] # page[m]
  BY NoneIsNoProduct DEF NoPage
<1>2. PICK n \in Managers, p \in Products : Manage(n, p)
  BY <1>1 DEF Next, vars, Import, Pool, StartPublish, ConfirmPublish, TakeDown, Seller, Submit,
              EditPhotos, EditApprovedPhotos, Withdraw, Deactivate, Respond, OpenDelete, Destroy,
              Serve, OpenPatch, UploadInPatch, Refresh, Resubmit, SavePending, SavePatch, history
<1>3. ~Load(n, p)
  BY <1>1, NoneIsNoProduct DEF Load, TypeOK, NoPage
<1>4. ExpectedRevision(n, p) /\ UsePage(n)
  BY <1>1, <1>2, <1>3
     DEF Manage, Approve, Reject, ChangeStatus, ApproveChanges, RejectChanges, OfferPrice, Decide
<1>5. n = m
  BY <1>1, <1>4 DEF UsePage, TypeOK
<1> QED
  BY <1>4, <1>5 DEF ExpectedRevision

(* No decision succeeds from a page loaded before an edit in review, for   *)
(* any number of managers and PATCHes, unless a stale PATCH overwrote the  *)
(* product.                                                                *)
THEOREM StaleDecisionsFail == Spec => StaleDecisionFails
<1>1. Init => PagesInv
  BY NoneIsNoProduct DEF Init, PagesInv, PageHonest, NoPage
<1>2. Spec => []PagesInv
  BY <1>1, PagesStep, ReviewTypeCorrect, PTL DEF Spec
<1>3. TypeOK /\ PagesInv /\ [Next]_vars
        => [\A m \in Managers, p \in Products \ clobbered, s \in {"approved", "rejected"} :
              DecidesFrom(m, p, s) => m \notin outdated]_vars
  <2> SUFFICES ASSUME TypeOK, PagesInv, [Next]_vars, NEW m \in Managers,
                      NEW p \in Products \ clobbered, NEW s \in {"approved", "rejected"},
                      DecidesFrom(m, p, s)
               PROVE  m \notin outdated
    OBVIOUS
  <2>1. page[m].product = p /\ ExpectedRevision(m, p)
    BY PageUse DEF DecidesFrom
  <2>2. page[m].rev = prod[p].rev /\ prod[p].rev \in Nat
    BY <2>1, PageTypes DEF ExpectedRevision
  <2>3. m \in outdated => page[m].rev < prod[p].rev
    BY <2>1 DEF PagesInv, PageHonest
  <2> QED
    BY <2>2, <2>3
<1> QED
  BY <1>2, <1>3, ReviewTypeCorrect, PTL DEF Spec, StaleDecisionFails

-----------------------------------------------------------------------------
(* Archived products *)

LEMMA ArchivedStep ==
  ASSUME TypeOK, [Next]_vars, NEW p \in Products, prod[p].status = "archived"
  PROVE  prod'[p].status = "archived" \/ p \in clobbered'
<1>1. prod[p] \in Product
  BY DEF TypeOK
<1>2. SUFFICES ASSUME prod'[p] # prod[p]
               PROVE  prod'[p].status = "archived" \/ p \in clobbered'
  OBVIOUS
<1>3. ASSUME NEW q \in Products, NEW row, Row(q, row) PROVE q = p /\ prod'[p] = row
  BY <1>2, <1>3 DEF Row, TypeOK
<1>4. ASSUME NEW q \in Products, Seller(q) \/ OpenDelete(q) \/ Destroy(q)
      PROVE  prod'[p].status = "archived"
  <2>1. CASE Destroy(q)
    BY <1>1, <1>2, <1>3, <2>1 DEF Destroy, Product
  <2>2. CASE Submit(q) \/ Deactivate(q) \/ EditApprovedPhotos(q) \/ EditPhotos(q) \/ Withdraw(q)
    BY <1>3, <2>2 DEF Submit, Deactivate, EditApprovedPhotos, EditPhotos, Withdraw
  <2>3. CASE \E accepted \in BOOLEAN : Respond(q, accepted)
    BY <1>3, <2>3 DEF Respond, Negotiable
  <2>4. CASE OpenDelete(q)
    BY <1>2, <2>4 DEF OpenDelete
  <2> QED
    BY <1>4, <2>1, <2>2, <2>3, <2>4 DEF Seller
<1>5. ASSUME NEW m \in Managers, NEW q \in Products, Manage(m, q) PROVE FALSE
  BY <1>2, <1>3, <1>5 DEF Manage, Load, Approve, Reject, ChangeStatus, ApproveChanges,
                          RejectChanges, OfferPrice
<1>6. ASSUME NEW r \in Requests, Serve(r)
      PROVE  prod'[p].status = "archived" \/ p \in clobbered'
  <2>1. CASE (\E q \in Products : OpenPatch(r, q)) \/ Refresh(r)
    BY <1>2, <2>1 DEF OpenPatch, Refresh
  <2>2. SUFFICES ASSUME \/ UploadInPatch(r) \/ Resubmit(r)
                        \/ \E c \in Catalogs : SavePending(r, c) \/ SavePatch(r, c)
                 PROVE  prod'[p].status = "archived" \/ p \in clobbered'
    BY <1>6, <2>1 DEF Serve
  <2>3. req[r] # Idle
    <3>1. req[r].pc # "idle"
      BY <2>2 DEF UploadInPatch, Resubmit, SavePending, SavePatch
    <3> QED
      BY <3>1 DEF Idle
  <2>4. PICK q \in Products : q = req[r].product
    BY <2>3, RequestTypes
  <2>5. CASE UploadInPatch(r)
    <3>1. Row(q, Bumped(prod[q])) \/ prod' = prod
      BY <2>4, <2>5 DEF UploadInPatch
    <3>2. q = p /\ prod'[p] = Bumped(prod[p])
      BY <1>2, <1>3, <3>1
    <3> QED
      BY <1>2, <3>2 DEF Bumped
  <2>6. CASE Resubmit(r)
    <3>1. Row(q, IF Submittable(prod[q]) THEN Submitted(prod[q]) ELSE prod[q])
      BY <2>4, <2>6 DEF Resubmit
    <3> QED
      BY <1>2, <1>3, <3>1 DEF Submittable
  <2>7. ASSUME NEW c \in Catalogs, SavePending(r, c) PROVE FALSE
    <3>1. \/ Row(q, prod[q])
          \/ prod[q].status = "approved" /\ Row(q, WithPending(prod[q], c))
      BY <2>4, <2>7 DEF SavePending
    <3> QED
      BY <1>2, <1>3, <3>1
  <2>8. ASSUME NEW c \in Catalogs, SavePatch(r, c)
        PROVE  prod'[p].status = "archived" \/ p \in clobbered'
    <3>1. /\ Row(q, Bumped([req[r].row EXCEPT !.catalog = c]))
          /\ clobbered' = clobbered \cup {x \in {q} : prod[x] # req[r].row}
      BY <2>4, <2>8 DEF SavePatch
    <3>2. q = p /\ prod'[p] = Bumped([req[r].row EXCEPT !.catalog = c])
      BY <1>3, <3>1
    <3>3. CASE prod[p] # req[r].row
      BY <3>1, <3>2, <3>3
    <3>4. CASE prod[p] = req[r].row
      BY <1>1, <3>2, <3>4 DEF Bumped, Product
    <3> QED
      BY <3>3, <3>4
  <2> QED
    BY <2>2, <2>5, <2>6, <2>7, <2>8
<1> QED
  BY <1>2, <1>4, <1>5, <1>6
     DEF Next, vars, Import, Pool, StartPublish, ConfirmPublish, TakeDown

(* An archived product never returns to the workflow, through any overlap  *)
(* of DELETE, resubmission and decisions, unless a PATCH writes back an    *)
(* older row.                                                              *)
THEOREM ArchivedStays == Spec => ArchivedIsFinal
<1>1. TypeOK /\ [Next]_vars
        => [\A p \in Products : prod[p].status = "archived"
              => prod'[p].status = "archived" \/ p \in clobbered']_vars
  BY ArchivedStep
<1> QED
  BY <1>1, ReviewTypeCorrect, PTL DEF Spec, ArchivedIsFinal

=============================================================================
