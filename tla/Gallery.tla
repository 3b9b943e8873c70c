------------------------------- MODULE Gallery ------------------------------
(***************************************************************************)
(* The photo rows of one product (apps/products, ProductImage): a gallery  *)
(* is a function from the photos the product has to their position and     *)
(* primary flag.  Every operation runs under the lock of the product row,  *)
(* so each is one operator from the old gallery to the new one.            *)
(***************************************************************************)
EXTENDS Naturals, FiniteSets, Sequences, FiniteSetsExt

Row == [position : Nat, primary : BOOLEAN]

EmptyGallery == [p \in {} |-> [position |-> 0, primary |-> FALSE]]

Covers(g)    == {p \in DOMAIN g : g[p].primary}
Positions(g) == {g[p].position : p \in DOMAIN g}
NextPosition(g) == IF DOMAIN g = {} THEN 0 ELSE Max(Positions(g)) + 1

(* All flags cleared, then p's set, if it is a photo of the gallery.       *)
MadePrimary(g, p) == [q \in DOMAIN g |-> [g[q] EXCEPT !.primary = q = p]]

(* upload_product_image: the first photo is the cover, asked for or not.   *)
Uploaded(g, p, asPrimary) ==
  LET added == [q \in DOMAIN g \cup {p} |->
                  IF q = p THEN [position |-> NextPosition(g), primary |-> FALSE] ELSE g[q]]
  IN IF asPrimary \/ Covers(g) = {} THEN MadePrimary(added, p) ELSE added

(* Faulty: nobody inherits the cover.                                      *)
DeletedCover(g, p) == [q \in DOMAIN g \ {p} |-> g[q]]

(* delete_product_image: the next photo in order inherits the cover.       *)
Deleted(g, p) ==
  LET left == [q \in DOMAIN g \ {p} |-> g[q]] IN
  IF ~g[p].primary \/ DOMAIN left = {} THEN left
  ELSE MadePrimary(left, CHOOSE q \in DOMAIN left :
                           left[q].position = Min(Positions(left)))

(* reorder_product_images: order lists every photo once; its first is the  *)
(* cover afterwards.                                                       *)
Orders(g) == {s \in [1 .. Cardinality(DOMAIN g) -> DOMAIN g] :
                \A p \in DOMAIN g : \E i \in DOMAIN s : s[i] = p}
Reordered(g, order) ==
  MadePrimary([p \in DOMAIN g |->
    [g[p] EXCEPT !.position = (CHOOSE i \in DOMAIN order : order[i] = p) - 1]], order[1])

(* What marketplaces and the moderation rely on: one cover, one order.     *)
WellFormed(g) ==
  /\ DOMAIN g # {} => Cardinality(Covers(g)) = 1
  /\ \A p, q \in DOMAIN g : p # q => g[p].position # g[q].position
=============================================================================
