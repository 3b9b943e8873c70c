------------------------------ MODULE EanPool ------------------------------
(***************************************************************************)
(* The EAN pool (apps/ean): what importing, assigning, releasing and       *)
(* consuming do to the table of codes, as functions on that table.  A      *)
(* table maps each code to its state and to the product that holds it.     *)
(***************************************************************************)
EXTENDS Naturals, FiniteSets

CONSTANTS
  Products,    \* products that can hold codes
  AccountOf,   \* AccountOf[c]: the account code c was imported for
  None

Codes    == DOMAIN AccountOf
Accounts == {AccountOf[c] : c \in Codes}

ASSUME NoneIsNoProduct == None \notin Products /\ None \notin Codes

(* "absent" is a code no manager has imported yet. *)
Absent    == [state |-> "absent",    product |-> None]
Available == [state |-> "available", product |-> None]
Held(p, s) == [state |-> s, product |-> p]

(* A code has a product exactly when it is reserved or consumed. *)
EanCode == {Absent, Available}
             \cup {Held(p, s) : p \in Products, s \in {"reserved", "consumed"}}

(* Faulty: codes that are assigned already can be taken as well. *)
TakeableCodes(codes, a) == {c \in Codes : AccountOf[c] = a /\ codes[c] # Absent}

(* The codes of account a that assign_ean_codes_to_product may take; which *)
(* of them it gets depends on the rows others have locked.                 *)
FreeCodes(codes, a) == {c \in Codes : AccountOf[c] = a /\ codes[c] = Available}

(* Faulty: an account without free codes gets none. *)
PartialAssignments(codes) ==
  {f \in [Accounts -> Codes \cup {None}] : \A a \in Accounts :
     IF FreeCodes(codes, a) = {} THEN f[a] = None ELSE f[a] \in FreeCodes(codes, a)}

(* One free code for every account; none at all when an account has none.  *)
Assignments(codes) ==
  {f \in [Accounts -> Codes] : \A a \in Accounts : f[a] \in FreeCodes(codes, a)}

(* The table after p was given the codes f. *)
Assigned(codes, p, f) ==
  [c \in Codes |-> IF \E a \in Accounts : f[a] = c THEN Held(p, "reserved")
                                                   ELSE codes[c]]

(* Faulty: takes back the codes that were spent, too. *)
ReleasedAll(codes, p) ==
  [c \in Codes |-> IF codes[c].product = p THEN Available ELSE codes[c]]

(* Faulty: the codes are free again, but keep their product. *)
ReleasedInPlace(codes, p) ==
  [c \in Codes |-> IF codes[c] = Held(p, "reserved") THEN Held(p, "available")
                                                     ELSE codes[c]]

(* The table after withdraw_product_submission gave back p's codes. *)
Released(codes, p) ==
  [c \in Codes |-> IF codes[c] = Held(p, "reserved") THEN Available
                                                     ELSE codes[c]]

(* consume_ean_code raises unless there is a code and p holds it. *)
CanConsume(codes, p, c) ==
  c # None /\ codes[c] \in {Held(p, "reserved"), Held(p, "consumed")}

Consumed(codes, p, c) == [codes EXCEPT ![c] = Held(p, "consumed")]
=============================================================================
