---------------------------- MODULE AfterbuySales ---------------------------
(***************************************************************************)
(* Sales of one product, imported from Afterbuy (apps/afterbuy): a beat    *)
(* task fetches the orders paid in the lookback window and stores them,    *)
(* matches each line to the product and tells the managers; a manager may  *)
(* then tell the seller and take the quantity of the selling channel over  *)
(* to the warehouse and, through a marketplace job, to the other channels. *)
(* Tasks overlap and repeat; the requests of the managers take no lock.    *)
(***************************************************************************)
EXTENDS Integers

CONSTANTS
  Lines,       \* lines of Afterbuy orders, an order each
  Channels,    \* (marketplace, account) pairs the product is listed on
  Importers,   \* processes that run sync_afterbuy_sales
  Managers,
  Prices,      \* unit prices the product's card may show
  FirstPrice,
  FirstStock,  \* quantity on the card and on every channel to begin with
  MaxClicks,   \* bound on manager requests
  MaxFaults,   \* bound on card changes, dying processes and failing calls
  None

ASSUME PriceAssumption == FirstPrice \in Prices /\ None \notin Prices
ASSUME NoneAssumption  == None \notin Channels /\ None \notin Lines
ASSUME BoundsAssumption ==
  FirstStock \in Nat /\ MaxClicks \in Nat /\ MaxFaults \in Nat

VARIABLES
  sold,      \* sold[l]: the channel that sold l
  window,    \* lines inside AFTERBUY_LOOKBACK_HOURS
  row,       \* row[l]: the stored line and its AfterbuySaleNotification
  card,      \* the product: does its EAN match, its price, its quantity
  live,      \* live[c]: the quantity channel c offers
  active,    \* channels whose publication is ACTIVE
  importer,  \* importer[i]: lines fetched and not yet stored
  click,     \* click[m]: the request manager m has in progress
  jobs       \* UPDATE jobs: quantity, targets left, target in progress

(* Bounded quantities and history: clicks, faults; told[l], notes[l]: sale *)
(* notices of l to the managers and to the seller; excused[l]: clicks that *)
(* overlapped another one on l, or died halfway; first[l]: the price when  *)
(* l was matched first; clean: nothing disturbed the latest stock sync.    *)
VARIABLES clicks, faults, told, notes, excused, first, clean

import == <<importer, told, first>>
hist   == <<clicks, faults, notes, excused>>
vars   == <<sold, window, row, card, live, active, click, jobs, clean, import, hist>>

-----------------------------------------------------------------------------
Row   == [stored : BOOLEAN, matched : BOOLEAN, settled : Prices \cup {None},
          sent : BOOLEAN, seller : BOOLEAN]
NoRow == [stored |-> FALSE, matched |-> FALSE, settled |-> None,
          sent |-> FALSE, seller |-> FALSE]

Card == [matches : BOOLEAN, price : Prices, stock : 0 .. FirstStock]
Job  == [qty : 0 .. FirstStock, todo : SUBSET Channels, at : Channels \cup {None}]

(* seen: seller_notified_at was set when the view loaded the notification; *)
(* live: the quantity read from the selling channel.                       *)
Click == [pc : {"open", "created"}, line : Lines, seen : BOOLEAN]
         \cup [pc : {"read"}, line : Lines, live : 0 .. FirstStock]
NoClick == [pc |-> "none"]

Outstanding(j) == jobs[j].todo # {}
JobIds         == 1 .. MaxClicks
NoJob          == [qty |-> 0, todo |-> {}, at |-> None]
Without(job, c) == IF job.todo = {c} THEN NoJob
                   ELSE [job EXCEPT !.at = None, !.todo = @ \ {c}]

Init ==
  /\ sold = [l \in Lines |-> None] /\ window = {}
  /\ row = [l \in Lines |-> NoRow]
  /\ card \in {[matches |-> b, price |-> FirstPrice, stock |-> FirstStock] : b \in BOOLEAN}
  /\ live = [c \in Channels |-> FirstStock] /\ active = Channels
  /\ importer = [i \in Importers |-> {}]
  /\ click = [m \in Managers |-> NoClick]
  /\ jobs = [j \in JobIds |-> NoJob]
  /\ clicks = 0 /\ faults = 0 /\ clean = FALSE
  /\ told = [l \in Lines |-> 0] /\ notes = [l \in Lines |-> 0]
  /\ excused = [l \in Lines |-> 0] /\ first = [l \in Lines |-> None]

Fault == faults < MaxFaults /\ faults' = faults + 1

-----------------------------------------------------------------------------
(* The world: buyers, time, and the product's card.                        *)

Sale(l, c) ==
  /\ sold[l] = None /\ live[c] > 0
  /\ sold' = [sold EXCEPT ![l] = c] /\ window' = window \cup {l}
  /\ live' = [live EXCEPT ![c] = @ - 1] /\ clean' = FALSE
  /\ UNCHANGED <<row, card, active, click, jobs, import, hist>>

LeaveWindow(l) ==
  /\ l \in window /\ window' = window \ {l}
  /\ UNCHANGED <<sold, row, card, live, active, click, jobs, clean, import, hist>>

(* The product is archived, gets or loses the EAN of the selling account,  *)
(* or its price is changed.                                                *)
ChangeCard(new) ==
  /\ Fault /\ new # card /\ new.stock = card.stock /\ card' = new
  /\ UNCHANGED <<sold, window, row, live, active, click, jobs, clean, import,
                 clicks, notes, excused>>

-----------------------------------------------------------------------------
(* sync_afterbuy_sales.                                                    *)

Fetch(i) ==
  /\ importer[i] = {} /\ window # {}
  /\ importer' = [importer EXCEPT ![i] = window]
  /\ UNCHANGED <<sold, window, row, card, live, active, click, jobs, clean,
                 told, first, hist>>

(* What one transaction leaves of a line.                                  *)
Upserted(r) ==
  [r EXCEPT !.stored = TRUE, !.matched = card.matches,
            !.settled = IF card.matches /\ @ = None THEN card.price ELSE @,
            !.sent    = @ \/ card.matches]

(* Faulty: an unmatched line is marked as told.                            *)
UpsertQueuesAll(i) == \E l \in importer[i] :
  /\ row' = [row EXCEPT ![l] = [Upserted(@) EXCEPT !.sent = TRUE]]
  /\ told' = [told EXCEPT ![l] = IF card.matches /\ ~row[l].sent THEN @ + 1 ELSE @]
  /\ first' = [first EXCEPT ![l] = IF card.matches /\ @ = None THEN card.price ELSE @]
  /\ importer' = [importer EXCEPT ![i] = @ \ {l}]
  /\ UNCHANGED <<sold, window, card, live, active, click, jobs, clean, hist>>

(* upsert_sold_order, with match_catalog_product, apply_card_price_snapshot *)
(* and queue_sale_notification, under the row lock of update_or_create: a   *)
(* line is matched anew each time, and only an unsent notice is sent.       *)
Upsert(i) == \E l \in importer[i] :
  /\ row' = [row EXCEPT ![l] = Upserted(@)]
  /\ told' = [told EXCEPT ![l] = IF card.matches /\ ~row[l].sent THEN @ + 1 ELSE @]
  /\ first' = [first EXCEPT ![l] = IF card.matches /\ @ = None THEN card.price ELSE @]
  /\ importer' = [importer EXCEPT ![i] = @ \ {l}]
  /\ UNCHANGED <<sold, window, card, live, active, click, jobs, clean, hist>>

(* The worker dies, Afterbuy fails or an order raises: the rest is left.   *)
ImportAborts(i) ==
  /\ Fault /\ importer[i] # {}
  /\ importer' = [importer EXCEPT ![i] = {}]
  /\ UNCHANGED <<sold, window, row, card, live, active, click, jobs, clean,
                 told, first, clicks, notes, excused>>

-----------------------------------------------------------------------------
(* A manager opens a sale notice: the view loads it with the line and its  *)
(* sale_notification, and refuses a line that is not matched now.          *)

Idle(m)       == click[m] = NoClick
Clicked       == clicks < MaxClicks /\ clicks' = clicks + 1
May(m, l)     == Idle(m) /\ told[l] > 0 /\ row[l].matched
Close(m)      == click' = [click EXCEPT ![m] = NoClick]
Telling(l)    == {m \in Managers : click[m].pc \in {"open", "created"} /\ click[m].line = l}
Excuse(l, b)  == IF b THEN [excused EXCEPT ![l] = @ + 1] ELSE excused

(* AfterbuyNotifySellerView *)
OpenNotify(m, l) ==
  /\ Clicked /\ May(m, l)
  /\ click' = [click EXCEPT ![m] = [pc |-> "open", line |-> l, seen |-> row[l].seller]]
  /\ excused' = Excuse(l, Telling(l) # {})
  /\ UNCHANGED <<sold, window, row, card, live, active, jobs, clean, import, faults, notes>>

(* Faulty: an earlier notice is not looked up.                             *)
TellSellerAnyway(m) ==
  /\ click[m].pc = "open"
  /\ notes' = [notes EXCEPT ![click[m].line] = @ + 1]
  /\ click' = [click EXCEPT ![m].pc = "created"]
  /\ UNCHANGED <<sold, window, row, card, live, active, jobs, clean, import,
                 clicks, faults, excused>>

TellSeller(m) ==
  /\ click[m].pc = "open"
  /\ LET l == click[m].line IN
     IF click[m].seen /\ notes[l] > 0
     THEN Close(m) /\ UNCHANGED notes
     ELSE /\ notes' = [notes EXCEPT ![l] = @ + 1]
          /\ click' = [click EXCEPT ![m].pc = "created"]
  /\ UNCHANGED <<sold, window, row, card, live, active, jobs, clean, import,
                 clicks, faults, excused>>

MarkTold(m) ==
  /\ click[m].pc = "created"
  /\ row' = [row EXCEPT ![click[m].line].seller = TRUE]
  /\ Close(m)
  /\ UNCHANGED <<sold, window, card, live, active, jobs, clean, import, hist>>

(* AfterbuySyncStockView: the selling channel is asked for its quantity.   *)
Undisturbed(m) == /\ \A k \in Managers \ {m} : click[k].pc # "read"
                  /\ \A j \in JobIds : ~Outstanding(j)

ReadLive(m, l) ==
  /\ Clicked /\ May(m, l)
  /\ click' = [click EXCEPT ![m] = [pc |-> "read", line |-> l, live |-> live[sold[l]]]]
  /\ clean' = Undisturbed(m)
  /\ UNCHANGED <<sold, window, row, card, live, active, jobs, import, faults, notes, excused>>

(* Faulty: the payload is built from the quantity before the sync.         *)
SyncStockEarly(m) ==
  /\ click[m].pc = "read"
  /\ LET c == sold[click[m].line] IN
     /\ card' = [card EXCEPT !.stock = click[m].live]
     /\ jobs' = [jobs EXCEPT ![CHOOSE j \in JobIds : jobs[j] = NoJob] =
                   IF active \subseteq {c} THEN NoJob
                   ELSE [qty |-> card.stock, todo |-> active \ {c}, at |-> None]]
  /\ Close(m)
  /\ UNCHANGED <<sold, window, row, live, active, clean, import, hist>>

(* apply_canonical_qty_to_product (a product has one variant),             *)
(* sibling_update_targets and create_marketplace_job, whose payload takes  *)
(* the new quantity; nothing happens to channels that are not ACTIVE now.  *)
SyncStock(m) ==
  /\ click[m].pc = "read"
  /\ LET c == sold[click[m].line] IN
     /\ card' = [card EXCEPT !.stock = click[m].live]
     /\ jobs' = [jobs EXCEPT ![CHOOSE j \in JobIds : jobs[j] = NoJob] =
                   IF active \subseteq {c} THEN NoJob
                   ELSE [qty |-> click[m].live, todo |-> active \ {c}, at |-> None]]
  /\ Close(m)
  /\ UNCHANGED <<sold, window, row, live, active, clean, import, hist>>

(* The request fails: live cannot be read, the payload cannot be built, or *)
(* the web worker dies; the transaction is rolled back, and a notice that  *)
(* was created stays unmarked.                                             *)
ClickFails(m) ==
  /\ Fault /\ ~Idle(m) /\ Close(m) /\ clean' = FALSE
  /\ excused' = Excuse(click[m].line, click[m].pc = "created")
  /\ UNCHANGED <<sold, window, row, card, live, active, jobs, import, clicks, notes>>

-----------------------------------------------------------------------------
(* execute_marketplace_job for an UPDATE, target by target (module         *)
(* Orchestrator has it in full): a row another attempt holds is not ACTIVE *)
(* and the target fails.                                                   *)

StartTarget(j) == \E c \in jobs[j].todo :
  /\ jobs[j].at = None
  /\ IF c \in active
     THEN active' = active \ {c} /\ jobs' = [jobs EXCEPT ![j].at = c]
     ELSE jobs' = [jobs EXCEPT ![j] = Without(@, c)] /\ UNCHANGED active
  /\ UNCHANGED <<sold, window, row, card, live, click, clean, import, hist>>

UpdateTarget(j) ==
  /\ jobs[j].at # None
  /\ LET c == jobs[j].at IN
     /\ live' = [live EXCEPT ![c] = jobs[j].qty]
     /\ active' = active \cup {c}
     /\ jobs' = [jobs EXCEPT ![j] = Without(@, c)]
  /\ UNCHANGED <<sold, window, row, card, click, clean, import, hist>>

(* delay() cannot reach the broker (the view ignores it), the worker dies  *)
(* before or after its call, or the marketplace refuses the update.        *)
JobFails(j) == \E done \in BOOLEAN :
  /\ Fault /\ Outstanding(j) /\ clean' = FALSE
  /\ done => jobs[j].at # None
  /\ live' = IF done THEN [live EXCEPT ![jobs[j].at] = jobs[j].qty] ELSE live
  /\ jobs' = [jobs EXCEPT ![j] = NoJob]
  /\ UNCHANGED <<sold, window, row, card, active, click, import, clicks, notes, excused>>

-----------------------------------------------------------------------------
Import(i) == Fetch(i) \/ Upsert(i)
Manage(m) == \/ \E l \in Lines : OpenNotify(m, l) \/ ReadLive(m, l)
             \/ TellSeller(m) \/ MarkTold(m) \/ SyncStock(m) \/ ClickFails(m)

Next == \/ \E l \in Lines, c \in Channels : Sale(l, c)
        \/ \E l \in Lines : LeaveWindow(l)
        \/ \E new \in Card : ChangeCard(new)
        \/ \E i \in Importers : Import(i) \/ ImportAborts(i)
        \/ \E m \in Managers : Manage(m)
        \/ \E j \in JobIds : StartTarget(j) \/ UpdateTarget(j) \/ JobFails(j)

(* The beat starts an import every quarter of an hour and its tasks run;   *)
(* buyers, managers and faults owe nothing.                                *)
Fairness == \A i \in Importers : WF_vars(Import(i))

Spec == Init /\ [][Next]_vars /\ Fairness

-----------------------------------------------------------------------------
(* Rows, requests and jobs have their shape; no quantity ever exceeds the  *)
(* one the sales started from.                                             *)
TypeOK ==
  /\ sold \in [Lines -> Channels \cup {None}] /\ window \subseteq Lines
  /\ row \in [Lines -> Row] /\ card \in Card
  /\ live \in [Channels -> 0 .. FirstStock] /\ active \subseteq Channels
  /\ importer \in [Importers -> SUBSET Lines]
  /\ click \in [Managers -> Click \cup {NoClick}]
  /\ jobs \in [JobIds -> Job]
  /\ clicks \in Nat /\ faults \in Nat /\ clean \in BOOLEAN
  /\ told \in [Lines -> Nat] /\ notes \in [Lines -> Nat]
  /\ excused \in [Lines -> Nat] /\ first \in [Lines -> Prices \cup {None}]

(* "One Afterbuy line, one message": however often imports repeat, overlap *)
(* and match the line anew, the managers hear of it once, the seller once  *)
(* more only for requests that overlapped or died halfway, and its price   *)
(* is the one of the first match.                                          *)
OncePerLine == \A l \in Lines :
  /\ told[l] <= 1
  /\ notes[l] <= 1 + excused[l]
  /\ row[l].settled = first[l]

Consistent == TypeOK /\ OncePerLine

(* A stock sync that no sale, no failure and no other sync disturbed leaves *)
(* the card and every channel that is listed with the quantity of the       *)
(* channel that sold, once its job is done.                                 *)
StockAgrees ==
  (clean /\ (\A m \in Managers : click[m].pc # "read") /\ (\A j \in JobIds : ~Outstanding(j)))
    => \A c \in active : live[c] = card.stock

(* A sale of a product that matches is told to the managers, unless it     *)
(* leaves the lookback window or the match first.                          *)
SalesTold == \A l \in Lines :
  (l \in window /\ card.matches) ~> (told[l] > 0 \/ l \notin window \/ ~card.matches)
=============================================================================
