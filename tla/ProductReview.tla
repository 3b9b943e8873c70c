--------------------------- MODULE ProductReview ---------------------------
(***************************************************************************)
(* The life of a product between its seller and the managers               *)
(* (apps/products, apps/moderation): review, decisions with an expected    *)
(* catalog revision, pending changes of an approved product, price offers, *)
(* withdrawal, archiving, and the EAN codes that approval assigns and a    *)
(* first publication spends.                                               *)
(*                                                                         *)
(* Every operation locks the product row and is one action, except PATCH   *)
(* and DELETE: their views read the row without a lock, and PATCH later    *)
(* writes every column of what it read.  A PATCH is a process that holds   *)
(* its copy of the row between its steps, a DELETE a mark on the product.  *)
(***************************************************************************)
EXTENDS EanPool

CONSTANTS
  Managers,      \* manager sessions: each holds one product page
  Requests,      \* PATCH requests being served at one time
  Catalogs,      \* values of what a manager judges: texts, price, variants
  FirstCatalog,  \* what the products are created with
  Listed,        \* bound: accounts the products are published on
  MaxRevision    \* bound: no edit beyond this catalog_revision

ASSUME RevisionAssumption == MaxRevision \in Nat \ {0}
ASSUME ListedAssumption == Listed \subseteq Accounts
ASSUME CatalogAssumption == FirstCatalog \in Catalogs /\ None \notin Catalogs

VARIABLES
  prod,      \* prod[p]: the product row
  code,      \* code[c]: the EAN table
  offer,     \* offer[p]: the catalog with the price a manager offers, or None
  listing,   \* listing[p][a]: p's publications on account a
  page,      \* page[m]: the product page manager m decides from
  req,       \* req[r]: an open PATCH and its copy of the row
  deleting   \* products a DELETE was admitted for and has not archived yet

(* History: managers whose page shows a product that was edited in review  *)
(* since; products a PATCH overwrote although its copy was stale; products *)
(* whose withdrawal gave codes back.                                       *)
VARIABLES outdated, clobbered, released

history == <<outdated, clobbered, released>>
vars == <<prod, code, offer, listing, page, req, deleting, history>>

-----------------------------------------------------------------------------
Statuses == {"draft", "submitted", "approved", "rejected", "withdrawn",
             "deactivated", "archived"}

(* catalog_revision is rev; ean holds ean_jv and ean_xl, None when blank.  *)
Product == [status : Statuses, rev : 1..MaxRevision, catalog : Catalogs,
            ean : [Accounts -> Codes \cup {None}],
            pending : Catalogs \cup {None}]

(* "live" stands for the statuses that block a change of the product:      *)
(* pending, publishing, active, deactivating, deleting; "down" for the     *)
(* others.  ean is the code the rows were created with.                    *)
Listings == [state : {"none", "live", "down"}, ean : Codes \cup {None}]

Page   == [product : Products, rev : 1..MaxRevision]
NoPage == [product |-> None]

(* pc: open | photos | ready (before, in and after the upload of its       *)
(* photos) | resubmit.                                                     *)
Request == [pc : {"open", "photos", "ready", "resubmit"},
            product : Products, who : {"seller", "manager"},
            resubmit : BOOLEAN, row : Product]
Idle == [pc |-> "idle"]

Init ==
  /\ prod \in [Products -> {[status |-> s, rev |-> 1, catalog |-> FirstCatalog,
                             ean |-> [a \in Accounts |-> None],
                             pending |-> None] : s \in {"draft", "submitted"}}]
  /\ code = [c \in Codes |-> Absent]
  /\ offer = [p \in Products |-> None]
  /\ listing = [p \in Products |->
                  [a \in Accounts |-> [state |-> "none", ean |-> None]]]
  /\ page = [m \in Managers |-> NoPage]
  /\ req = [r \in Requests |-> Idle]
  /\ deleting = {}
  /\ outdated = {} /\ clobbered = {} /\ released = {}

-----------------------------------------------------------------------------
(* Codes arrive, are assigned and are spent *)

(* import_ean_codes *)
Import(c) ==
  /\ code[c] = Absent
  /\ code' = [code EXCEPT ![c] = Available]
  /\ UNCHANGED <<prod, offer, listing, page, req, deleting, history>>

HasEans(row) == \A a \in Accounts : row.ean[a] # None

(* A publish job reaches p's listing on account a: start_publication_attempt *)
(* asks for a code, and for the row's own code if there is a row.          *)
StartPublish(p, a) ==
  /\ prod[p].ean[a] # None
  /\ listing[p][a].ean \in {None, prod[p].ean[a]}
  /\ listing' = [listing EXCEPT ![p][a] = [state |-> "live",
                                           ean |-> prod[p].ean[a]]]
  /\ UNCHANGED <<prod, code, offer, page, req, deleting, history>>

(* The first confirmed publication consumes the code.  When p no longer    *)
(* holds it, consume_ean_code raises and the transaction is rolled back.   *)
ConfirmPublish(p, a) ==
  /\ listing[p][a].state = "live"
  /\ CanConsume(code, p, listing[p][a].ean)
  /\ code' = Consumed(code, p, listing[p][a].ean)
  /\ UNCHANGED <<prod, offer, listing, page, req, deleting, history>>

(* The publication fails, is deactivated or is deleted. *)
TakeDown(p, a) ==
  /\ listing[p][a].state = "live"
  /\ listing' = [listing EXCEPT ![p][a].state = "down"]
  /\ UNCHANGED <<prod, code, offer, page, req, deleting, history>>

HasLiveListing(p) == \E a \in Accounts : listing[p][a].state = "live"

-----------------------------------------------------------------------------
(* The seller, in locked transactions *)

Row(p, row) == prod' = [prod EXCEPT ![p] = row]

(* Pages that show p as it was before an edit in review. *)
MarkOutdated(p) == outdated' = outdated \cup {m \in Managers : page[m].product = p}

(* Faulty: names the statuses that are refused. *)
SubmittableUnlessInReview(row) == row.status \notin {"submitted", "approved"}

(* submit_product_for_moderation *)
Submittable(row) == row.status \in {"draft", "rejected", "withdrawn"}
Submitted(row)   == [row EXCEPT !.status = "submitted"]

(* ProductSubmitView *)
Submit(p) ==
  /\ prod[p].status = "draft"
  /\ Row(p, Submitted(prod[p]))
  /\ UNCHANGED <<code, offer, listing, page, req, deleting, history>>

(* bump_in_review_catalog_revision *)
Bumped(row) ==
  IF row.status = "submitted" THEN [row EXCEPT !.rev = @ + 1] ELSE row

CanBump(row) == row.rev < MaxRevision   \* the bound MaxRevision

(* Photos uploaded, deleted or reordered while the product is in review. *)
EditPhotos(p) ==
  /\ prod[p].status = "submitted"
  /\ CanBump(prod[p])
  /\ Row(p, Bumped(prod[p]))
  /\ MarkOutdated(p)
  /\ UNCHANGED <<code, offer, listing, page, req, deleting, clobbered, released>>

(* save_seller_pending_changes.  Only what differs from the catalog is     *)
(* kept; new photos make the change pending even if no text differs.       *)
WithPending(row, c) ==
  [row EXCEPT !.pending = IF c = row.catalog /\ @ # None THEN @ ELSE c,
              !.rev = @ + 1]

(* Photos of an approved product: queued for a manager's approval. *)
EditApprovedPhotos(p) ==
  /\ prod[p].status = "approved"
  /\ CanBump(prod[p])
  /\ Row(p, WithPending(prod[p], prod[p].catalog))
  /\ UNCHANGED <<code, offer, listing, page, req, deleting, history>>

(* Faulty: the withdrawn product keeps its revision. *)
WithdrawSilently(p) ==
  /\ prod[p].status = "submitted"
  /\ Row(p, [prod[p] EXCEPT !.status = "withdrawn"])
  /\ code' = Released(code, p)
  /\ released' = released \cup {q \in {p} : code' # code}
  /\ MarkOutdated(p)
  /\ UNCHANGED <<offer, listing, page, req, deleting, clobbered>>

(* withdraw_product_submission.  The codes go back, the row keeps them. *)
Withdraw(p) ==
  /\ prod[p].status = "submitted"
  /\ CanBump(prod[p])
  /\ Row(p, [prod[p] EXCEPT !.status = "withdrawn", !.rev = @ + 1])
  /\ code' = Released(code, p)
  /\ released' = released \cup {q \in {p} : code' # code}
  /\ MarkOutdated(p)
  /\ UNCHANGED <<offer, listing, page, req, deleting, clobbered>>

(* request_product_deactivation *)
Deactivate(p) ==
  /\ prod[p].status = "approved"
  /\ Row(p, [prod[p] EXCEPT !.status = "deactivated"])
  /\ UNCHANGED <<code, offer, listing, page, req, deleting, history>>

(* create_price_negotiation supersedes the offer that is pending. *)
Negotiable(p) == prod[p].status \in {"submitted", "approved"}

OfferPrice(p, c) ==
  /\ Negotiable(p)
  /\ offer' = [offer EXCEPT ![p] = c]
  /\ UNCHANGED <<prod, code, listing, page, req, deleting, history>>

(* respond_to_price_negotiation: an accepted price is written into the     *)
(* row, without a new revision.                                            *)
Respond(p, accepted) ==
  /\ Negotiable(p)
  /\ offer[p] # None
  /\ offer' = [offer EXCEPT ![p] = None]
  /\ Row(p, IF accepted THEN [prod[p] EXCEPT !.catalog = offer[p]] ELSE prod[p])
  /\ UNCHANGED <<code, listing, page, req, deleting, history>>

-----------------------------------------------------------------------------
(* PATCH and DELETE: read without a lock, write later *)

(* CanAccessProduct *)
MayPatch(who, row) ==
  \/ who = "manager" /\ row.status # "archived"
  \/ who = "seller"  /\ row.status \notin {"deactivated", "archived"}

MayDelete(who, row) ==
  \/ who = "manager" /\ row.status # "archived"
  \/ who = "seller"  /\ row.status \in {"draft", "rejected", "withdrawn"}

(* A resubmission is accepted from the seller of a product not in review. *)
OpenPatch(r, p) ==
  \E who \in {"seller", "manager"}, resubmit \in BOOLEAN :
    /\ req[r] = Idle
    /\ MayPatch(who, prod[p])
    /\ resubmit => who = "seller" /\ Submittable(prod[p])
    /\ req' = [req EXCEPT ![r] = [pc |-> "open", product |-> p, who |-> who,
                                  resubmit |-> resubmit, row |-> prod[p]]]
    /\ UNCHANGED <<prod, code, offer, listing, page, deleting, history>>

Close(r) == req' = [req EXCEPT ![r] = Idle]
Step(r, pc) == req' = [req EXCEPT ![r].pc = pc]

(* upload_product_image inside a PATCH: under a lock, and refused for an   *)
(* approved product unless the copy already said so.                       *)
UploadInPatch(r) ==
  LET p == req[r].product
      allowed == \/ req[r].who = "manager"
                 \/ req[r].row.status = "approved"
                 \/ prod[p].status \notin {"approved", "deactivated", "archived"}
  IN  /\ req[r].pc = "open"
      /\ prod[p].status = "submitted" => CanBump(prod[p])
      /\ IF allowed
         THEN Step(r, "photos") /\ Row(p, Bumped(prod[p]))
         ELSE Close(r) /\ UNCHANGED prod
      /\ IF prod'[p] # prod[p] THEN MarkOutdated(p) ELSE UNCHANGED outdated
      /\ UNCHANGED <<code, offer, listing, page, deleting, clobbered, released>>

(* instance.refresh_from_db, after the uploads. *)
Refresh(r) ==
  /\ req[r].pc = "photos"
  /\ req' = [req EXCEPT ![r].pc = "ready", ![r].row = prod[req[r].product]]
  /\ UNCHANGED <<prod, code, offer, listing, page, deleting, history>>

(* A seller's PATCH of an approved product: save_seller_pending_changes    *)
(* looks at the locked row again.                                          *)
SavePending(r, c) ==
  LET p == req[r].product
      changed == c # prod[p].catalog \/ req[r].pc = "ready"
  IN  /\ req[r].pc \in {"open", "ready"}
      /\ req[r].who = "seller" /\ req[r].row.status = "approved"
      /\ CanBump(prod[p])
      /\ Row(p, IF prod[p].status = "approved" /\ changed
                THEN WithPending(prod[p], c) ELSE prod[p])
      /\ Close(r)
      /\ UNCHANGED <<code, offer, listing, page, deleting, history>>

(* update_product: every column of the copy is written, with the PATCH's   *)
(* values and, if the copy is in review, the next revision.                *)
SavePatch(r, c) ==
  LET p   == req[r].product
      row == req[r].row
  IN  /\ req[r].pc \in {"open", "ready"}
      /\ ~(req[r].who = "seller" /\ row.status = "approved")
      /\ row.status = "submitted" => CanBump(row)
      /\ Row(p, Bumped([row EXCEPT !.catalog = c]))
      /\ clobbered' = clobbered \cup {q \in {p} : prod[q] # row}
      /\ IF row.status = "submitted" THEN MarkOutdated(p) ELSE UNCHANGED outdated
      /\ IF req[r].resubmit THEN Step(r, "resubmit") ELSE Close(r)
      /\ UNCHANGED <<code, offer, listing, page, deleting, released>>

(* submit_product_for_moderation, in a transaction of its own. *)
Resubmit(r) ==
  LET p == req[r].product
  IN  /\ req[r].pc = "resubmit"
      /\ Row(p, IF Submittable(prod[p]) THEN Submitted(prod[p]) ELSE prod[p])
      /\ Close(r)
      /\ UNCHANGED <<code, offer, listing, page, deleting, history>>

(* A DELETE is admitted by the status it reads, without a lock ...        *)
OpenDelete(p) ==
  /\ \E who \in {"seller", "manager"} : MayDelete(who, prod[p])
  /\ deleting' = deleting \cup {p}
  /\ UNCHANGED <<prod, code, offer, listing, page, req, history>>

(* ... and perform_destroy writes the status only, whatever the row says   *)
(* by then, unless a listing is live.                                      *)
Destroy(p) ==
  /\ p \in deleting
  /\ deleting' = deleting \ {p}
  /\ Row(p, IF HasLiveListing(p) THEN prod[p]
                                 ELSE [prod[p] EXCEPT !.status = "archived"])
  /\ UNCHANGED <<code, offer, listing, page, req, history>>

-----------------------------------------------------------------------------
(* Managers *)

(* A manager loads the product page. *)
Load(m, p) ==
  /\ prod[p].status # "archived"
  /\ page' = [page EXCEPT ![m] = [product |-> p, rev |-> prod[p].rev]]
  /\ outdated' = outdated \ {m}
  /\ UNCHANGED <<prod, code, offer, listing, req, deleting, clobbered, released>>

(* ensure_catalog_revision, with the revision of m's page. *)
ExpectedRevision(m, p) == page[m].product = p /\ page[m].rev = prod[p].rev

UsePage(m) == /\ page' = [page EXCEPT ![m] = NoPage]
              /\ outdated' = outdated \ {m}

(* A decision is sent with the page's revision, which uses up the page, or *)
(* without one.                                                            *)
Decide(m, p) ==
  \/ ExpectedRevision(m, p) /\ UsePage(m)
  \/ UNCHANGED <<page, outdated>>

(* Faulty: takes new codes for a product that already has its own. *)
ApproveAnew(m, p) ==
  /\ Decide(m, p)
  /\ prod[p].status = "submitted"
  /\ \E f \in Assignments(code) :
       /\ code' = Assigned(code, p, f)
       /\ Row(p, [prod[p] EXCEPT !.status = "approved", !.ean = f])
  /\ UNCHANGED <<offer, listing, req, deleting, clobbered, released>>

(* approve_product, with assign_ean_codes_to_product *)
Approve(m, p) ==
  /\ Decide(m, p)
  /\ prod[p].status = "submitted"
  /\ \/ /\ HasEans(prod[p])
        /\ Row(p, [prod[p] EXCEPT !.status = "approved"])
        /\ UNCHANGED code
     \/ /\ ~HasEans(prod[p])
        /\ \E f \in Assignments(code) :
             /\ code' = Assigned(code, p, f)
             /\ Row(p, [prod[p] EXCEPT !.status = "approved", !.ean = f])
  /\ UNCHANGED <<offer, listing, req, deleting, clobbered, released>>

(* reject_product *)
Reject(m, p) ==
  /\ Decide(m, p)
  /\ prod[p].status = "submitted"
  /\ Row(p, [prod[p] EXCEPT !.status = "rejected"])
  /\ UNCHANGED <<code, offer, listing, req, deleting, clobbered, released>>

(* change_approved_product_status *)
ChangeStatus(m, p, s) ==
  /\ Decide(m, p)
  /\ prod[p].status = "approved"
  /\ ~HasLiveListing(p)
  /\ Row(p, [prod[p] EXCEPT !.status = s])
  /\ UNCHANGED <<code, offer, listing, req, deleting, clobbered, released>>

(* apply_pending_seller_changes: what the seller asked for becomes the     *)
(* catalog, under a new revision; discard_pending_seller_changes: it does  *)
(* not.                                                                    *)
ChangesApplied(row) ==
  [row EXCEPT !.catalog = row.pending, !.pending = None, !.rev = @ + 1]
ChangesDiscarded(row) == [row EXCEPT !.pending = None]

(* approve_seller_changes; the update job it queues is Orchestrator's. *)
ApproveChanges(m, p) ==
  /\ ExpectedRevision(m, p)
  /\ prod[p].status = "approved" /\ prod[p].pending # None
  /\ CanBump(prod[p])
  /\ Row(p, ChangesApplied(prod[p]))
  /\ UsePage(m)
  /\ UNCHANGED <<code, offer, listing, req, deleting, clobbered, released>>

(* reject_seller_changes *)
RejectChanges(m, p) ==
  /\ ExpectedRevision(m, p)
  /\ prod[p].status = "approved" /\ prod[p].pending # None
  /\ Row(p, ChangesDiscarded(prod[p]))
  /\ UsePage(m)
  /\ UNCHANGED <<code, offer, listing, req, deleting, clobbered, released>>

-----------------------------------------------------------------------------
Pool(p, a)  == StartPublish(p, a) \/ ConfirmPublish(p, a) \/ TakeDown(p, a)

Seller(p) ==
  \/ Submit(p) \/ EditPhotos(p) \/ EditApprovedPhotos(p) \/ Withdraw(p)
  \/ Deactivate(p)
  \/ \E accepted \in BOOLEAN : Respond(p, accepted)

Serve(r) ==
  \/ \E p \in Products : OpenPatch(r, p)
  \/ UploadInPatch(r) \/ Refresh(r) \/ Resubmit(r)
  \/ \E c \in Catalogs : SavePending(r, c) \/ SavePatch(r, c)

Manage(m, p) ==
  \/ Load(m, p) \/ Approve(m, p) \/ Reject(m, p)
  \/ \E s \in {"submitted", "rejected"} : ChangeStatus(m, p, s)
  \/ ApproveChanges(m, p) \/ RejectChanges(m, p)
  \/ \E c \in Catalogs : OfferPrice(p, c)

Next ==
  \/ \E c \in Codes : Import(c)
  \/ \E p \in Products, a \in Listed : Pool(p, a)
  \/ \E p \in Products : Seller(p) \/ OpenDelete(p) \/ Destroy(p)
  \/ \E r \in Requests : Serve(r)
  \/ \E m \in Managers, p \in Products : Manage(m, p)

Spec == Init /\ [][Next]_vars

-----------------------------------------------------------------------------
(* Properties *)

TypeOK ==
  /\ prod \in [Products -> Product]
  /\ code \in [Codes -> EanCode]
  /\ offer \in [Products -> Catalogs \cup {None}]
  /\ listing \in [Products -> [Accounts -> Listings]]
  /\ page \in [Managers -> Page \cup {NoPage}]
  /\ req \in [Requests -> Request \cup {Idle}]
  /\ deleting \subseteq Products
  /\ outdated \subseteq Managers
  /\ clobbered \subseteq Products /\ released \subseteq Products

(* A decision s on a product in review, with the revision of m's page. *)
DecidesFrom(m, p, s) ==
  /\ page[m].product = p /\ page'[m] = NoPage
  /\ prod[p].status = "submitted" /\ prod'[p].status = s

(* The docstring of withdraw_product_submission: once an edit in review    *)
(* (PATCH, photos, withdrawal) was saved, no decision succeeds with the    *)
(* revision of a page loaded before it -- unless a PATCH overwrote the     *)
(* product from a stale copy: its unlocked read is the only way around     *)
(* ensure_catalog_revision.                                                *)
StaleDecisionFails ==
  [][\A m \in Managers, p \in Products \ clobbered, s \in {"approved", "rejected"} :
       DecidesFrom(m, p, s) => m \notin outdated]_vars

(* assign_ean_codes_to_product: approved, and later deactivated, means a   *)
(* code of every account in the row -- all or none was assigned -- through *)
(* overwritten rows, returns to review and withdrawals.                    *)
ApprovedHasEans ==
  \A p \in Products :
    prod[p].status \in {"approved", "deactivated"} => HasEans(prod[p])

(* A product holds at most one code of an account, so that approving it    *)
(* again does not drain the pool, unless PATCH wrote back blank codes.     *)
OneCodePerAccount ==
  \A p \in Products \ clobbered : \A c, d \in Codes :
    code[c].product = p /\ code[d].product = p /\ AccountOf[c] = AccountOf[d]
      => c = d

(* Two products carry the same code only after one of them gave it back by *)
(* being withdrawn: assignment takes only free ones.                       *)
NoSharedEan ==
  \A p, q \in Products \ released : \A a \in Accounts :
    p # q /\ prod[p].ean[a] # None => prod[p].ean[a] # prod[q].ean[a]

(* A code spent by a first publication stays spent, and stays with its     *)
(* product: no withdrawal, new approval or archiving gives it away.        *)
SpentForever ==
  [][\A c \in Codes : code[c].state = "consumed" => code'[c] = code[c]]_vars

(* An archived product never returns to the workflow -- not by the tail of *)
(* a resubmission that overlaps its DELETE either -- unless a PATCH writes *)
(* back an older row.                                                      *)
ArchivedIsFinal ==
  [][\A p \in Products : prod[p].status = "archived"
       => prod'[p].status = "archived" \/ p \in clobbered']_vars
=============================================================================
