---------------------------- MODULE ListingContent ---------------------------
(***************************************************************************)
(* The text of a product's future listings. A worker asks an AI service    *)
(* for one draft (MarketplaceContentGeneration), managers edit the draft,  *)
(* apply it to the configurations of the chosen channels                   *)
(* (MarketplaceListingConfiguration), and edit those. A configuration is   *)
(* read, changed and saved as one JSON value without a lock; the draft is  *)
(* edited and applied under the lock of its row; the worker saves without. *)
(***************************************************************************)
EXTENDS Integers

CONSTANTS
  Gens,         \* content generations of the product
  Channels,     \* channels of the product, each with its configuration
  Otto, Kaufland,  \* the channels of OTTO, those of Kaufland; the rest are Hood's
  Snapshots,    \* the optional fields a product may have named when asked
  Workers,      \* processes that run generate_marketplace_content
  Managers,
  Selections,   \* sets of channels a generation may be asked for
  Patches,      \* sets of fields a PATCH of a configuration may name
  MaxEvents,    \* bound on edits, PATCH and apply requests and on faults: lost
                \* messages, dying workers, failing requests
  Empty

(* A text is known by who wrote it last: the AI, an edit of the draft, or  *)
(* a manager in the configuration. "text" stands for title, description,   *)
(* bullet points and materials, which a draft always has.                  *)
Fields == {"text", "color", "composition"}

(* What the serializer of each marketplace accepts.                        *)
OttoFields     == {"text", "color"}
HoodFields     == {"text", "color"}
KauflandFields == {"text", "color", "composition"}
Accepted(c) == CASE c \in Otto -> OttoFields
                 [] c \in Kaufland -> KauflandFields
                 [] OTHER -> HoodFields

ASSUME ChannelAssumption  == Otto \cup Kaufland \subseteq Channels /\ Otto \cap Kaufland = {}
ASSUME SnapshotAssumption == Snapshots \subseteq SUBSET {"color", "composition"}
ASSUME EmptyAssumption    == Empty \notin Channels \cup {"ai", "edit", "typed"}
ASSUME SelectAssumption   == Selections \subseteq (SUBSET Channels) \ {{}}
ASSUME PatchAssumption    == Patches \subseteq (SUBSET Fields) \ {{}}
ASSUME BoundsAssumption   == MaxEvents \in Nat

VARIABLES
  gen,       \* gen[g]: the row of a generation
  message,   \* message[g]: deliveries of its task still to come
  worker,    \* worker[w]: the generation it works on
  config,    \* config[c]: the saved configuration of a channel
  request,   \* request[m]: the request of manager m in progress
  events     \* requests and faults so far

rows == <<gen, config>>
vars == <<rows, message, worker, request, events>>

-----------------------------------------------------------------------------
Text   == {"ai", "edit", "typed", Empty}
Texts  == [Fields -> Text]
Blank  == [f \in Fields |-> Empty]

Final == {"succeeded", "failed"}

(* seller: what the snapshot of the product names, and a draft then has to *)
Gen   == [status : {"none", "queued", "running"} \cup Final, draft : Texts,
          seller : SUBSET {"color", "composition"}, targets : SUBSET Channels,
          old : BOOLEAN]
NoGen == [status |-> "none", draft |-> Blank, seller |-> {}, targets |-> {},
          old |-> FALSE]

(* validate_universal_content                                              *)
Valid(seller, by) ==
  {d \in [Fields -> {by, Empty}] :
     /\ d["text"] = by
     /\ "color" \in seller => d["color"] = by
     /\ (d["composition"] = by) = ("composition" \in seller)}

(* universal_content_to_marketplace_configuration: the fields it maps, less *)
(* an empty color, which the apply view skips.                              *)
Mapped(c, draft) ==
  {"text"} \cup {f \in {"color"} : draft[f] # Empty}
           \cup {f \in {"composition"} : c \in Kaufland /\ draft[f] # Empty}

Unsaved == [now |-> Empty]

(* read: the configuration as this request loaded it; saved: what its      *)
(* open transaction has written, over what; todo: targets still to write.  *)
Patch  == [kind : {"patch"}, at : Channels, read : Texts, set : SUBSET Fields,
           with : {"typed", Empty}]
Apply  == [kind : {"apply"}, gen : Gens, draft : Texts, overwrite : BOOLEAN,
           todo : SUBSET Channels, at : Channels \cup {Empty}, read : Texts,
           saved : [Channels -> [was : Texts, now : Texts] \cup {Unsaved}]]
NoRequest == [kind |-> "none"]
NoGeneration == "idle"

Idle(m)     == request[m] = NoRequest
Applying(m) == request[m].kind = "apply"
Locked(g)   == \E m \in Managers : Applying(m) /\ request[m].gen = g
Holds(m, c) == Applying(m) /\ request[m].saved[c] # Unsaved
Free(m, c)  == \A k \in Managers \ {m} : ~Holds(k, c)

Init ==
  /\ gen = [g \in Gens |-> NoGen] /\ message = [g \in Gens |-> 0]
  /\ worker = [w \in Workers |-> NoGeneration]
  /\ config = [c \in Channels |-> Blank]
  /\ request = [m \in Managers |-> NoRequest]
  /\ events = 0

Event == events < MaxEvents /\ events' = events + 1

-----------------------------------------------------------------------------
(* ProductMarketplaceContentGenerationCreateView.post; after the commit    *)
(* the broker may fail, and the row stays queued without a message.        *)
Create(g, seller, targets) == \E sent \in BOOLEAN :
  /\ gen[g].status = "none"
  /\ gen' = [gen EXCEPT ![g] = [NoGen EXCEPT !.status = "queued",
                                !.seller = seller, !.targets = targets]]
  /\ IF sent THEN message' = [message EXCEPT ![g] = 1] /\ UNCHANGED events
     ELSE Event /\ UNCHANGED message
  /\ UNCHANGED <<worker, config, request>>

(* Faulty: a finished generation runs again.                               *)
TakeFinished(w, g) ==
  /\ worker[w] = NoGeneration /\ message[g] > 0 /\ ~Locked(g)
  /\ message' = [message EXCEPT ![g] = @ - 1]
  /\ gen' = [gen EXCEPT ![g].status = "running", ![g].old = FALSE]
  /\ worker' = [worker EXCEPT ![w] = g]
  /\ UNCHANGED <<config, request, events>>

(* generate_marketplace_content up to the AI call: a finished generation   *)
(* is skipped, a running one is taken over.                                *)
Take(w, g) ==
  /\ worker[w] = NoGeneration /\ message[g] > 0 /\ ~Locked(g)
  /\ message' = [message EXCEPT ![g] = @ - 1]
  /\ IF gen[g].status \in Final THEN UNCHANGED <<gen, worker>>
     ELSE /\ gen' = [gen EXCEPT ![g].status = "running", ![g].old = FALSE]
          /\ worker' = [worker EXCEPT ![w] = g]
  /\ UNCHANGED <<config, request, events>>

(* The AI answers: the draft, or that it could not be written or is not    *)
(* valid. Neither save looks at the row; both wait for its lock.           *)
Finish(w) == \E g \in {worker[w]} \cap Gens, ok \in BOOLEAN :
  /\ ~Locked(g)
  /\ \E draft \in IF ok THEN Valid(gen[g].seller, "ai") ELSE {gen[g].draft} :
       gen' = [gen EXCEPT ![g].status = IF ok THEN "succeeded" ELSE "failed",
                          ![g].draft = draft]
  /\ worker' = [worker EXCEPT ![w] = NoGeneration]
  /\ UNCHANGED <<config, message, request, events>>

(* The process dies and the message comes back, the task hits its time     *)
(* limit, or the broker loses the connection and delivers once more.       *)
Disturb(w) == \E g \in {worker[w]} \cap Gens, again, over \in BOOLEAN :
  /\ Event /\ (again \/ over)
  /\ message' = IF again THEN [message EXCEPT ![g] = @ + 1] ELSE message
  /\ worker' = IF over THEN [worker EXCEPT ![w] = NoGeneration] ELSE worker
  /\ UNCHANGED <<gen, config, request>>

(* AI_CONTENT_STALE_JOB_MINUTES pass, three times the limit of a task.     *)
Age(g) ==
  /\ gen[g].status = "running" /\ \A w \in Workers : worker[w] # g
  /\ gen' = [gen EXCEPT ![g].old = TRUE]
  /\ UNCHANGED <<config, message, worker, request, events>>

(* Faulty: the sweep leaves generations a message still exists for.        *)
RecoverUnqueued ==
  /\ LET stale == {g \in Gens : gen[g].status = "running" /\ gen[g].old /\ message[g] > 0} IN
     /\ stale # {} /\ \A g \in stale : ~Locked(g)
     /\ gen' = [g \in Gens |-> IF g \in stale THEN [gen[g] EXCEPT !.status = "failed"] ELSE gen[g]]
  /\ UNCHANGED <<config, message, worker, request, events>>

(* recover_stale_orchestrator_jobs, its part for generations               *)
Recover ==
  /\ LET stale == {g \in Gens : gen[g].status = "running" /\ gen[g].old} IN
     /\ stale # {} /\ \A g \in stale : ~Locked(g)
     /\ gen' = [g \in Gens |-> IF g \in stale THEN [gen[g] EXCEPT !.status = "failed"] ELSE gen[g]]
  /\ UNCHANGED <<config, message, worker, request, events>>

-----------------------------------------------------------------------------
(* Faulty: the draft is edited without the lock of its row.                *)
EditUnlocked(m, g) ==
  /\ Event /\ Idle(m) /\ gen[g].status = "succeeded"
  /\ \E draft \in Valid(gen[g].seller, "edit") : gen' = [gen EXCEPT ![g].draft = draft]
  /\ UNCHANGED <<config, message, worker, request>>

(* MarketplaceContentGenerationDetailView.patch                            *)
EditDraft(m, g) ==
  /\ Event /\ Idle(m) /\ ~Locked(g) /\ gen[g].status = "succeeded"
  /\ \E draft \in Valid(gen[g].seller, "edit") : gen' = [gen EXCEPT ![g].draft = draft]
  /\ UNCHANGED <<config, message, worker, request>>

(* The PATCH views of the OTTO, Hood and Kaufland configurations: what is  *)
(* sent is laid over the configuration the request loaded.                 *)
OpenPatch(m, c, set) == \E with \in {"typed", Empty} :
  /\ Event /\ Idle(m) /\ set \subseteq Accepted(c)
  /\ request' = [request EXCEPT ![m] = [kind |-> "patch", at |-> c,
                      read |-> config[c], set |-> set, with |-> with]]
  /\ UNCHANGED <<rows, message, worker>>

Patched(r) == [f \in Fields |-> IF f \in r.set THEN r.with ELSE r.read[f]]

SavePatch(m) == \E r \in {request[m]} :
  /\ r.kind = "patch" /\ Free(m, r.at)
  /\ config' = [config EXCEPT ![r.at] = Patched(r)]
  /\ request' = [request EXCEPT ![m] = NoRequest]
  /\ UNCHANGED <<gen, message, worker, events>>

-----------------------------------------------------------------------------
(* ProductMarketplaceContentGenerationApplyView.post: one transaction that *)
(* locks the generation, and loads and saves one configuration at a time.  *)
OpenApply(m, g, targets, overwrite) ==
  /\ Event /\ Idle(m) /\ ~Locked(g) /\ gen[g].status = "succeeded"
  /\ targets # {} /\ targets \subseteq gen[g].targets
  /\ request' = [request EXCEPT ![m] =
       [kind |-> "apply", gen |-> g, draft |-> gen[g].draft, overwrite |-> overwrite,
        todo |-> targets, at |-> Empty, read |-> Blank,
        saved |-> [c \in Channels |-> Unsaved]]]
  /\ UNCHANGED <<rows, message, worker>>

LoadTarget(m) ==
  /\ Applying(m) /\ request[m].at = Empty
  /\ \E c \in request[m].todo :
       request' = [request EXCEPT ![m].at = c, ![m].todo = @ \ {c}, ![m].read = config[c]]
  /\ UNCHANGED <<rows, message, worker, events>>

(* Faulty: what the manager has typed is replaced as well.                 *)
AppliedAnyway(r) ==
  [f \in Fields |-> IF f \in Mapped(r.at, r.draft) THEN r.draft[f] ELSE r.read[f]]

Applied(r) ==
  [f \in Fields |->
     IF f \in Mapped(r.at, r.draft) /\ (r.overwrite \/ r.read[f] = Empty)
     THEN r.draft[f] ELSE r.read[f]]

SaveTarget(m) == \E r \in {request[m]} :
  /\ Applying(m) /\ r.at # Empty
  /\ Applied(r) # r.read => Free(m, r.at)
  /\ request' = [request EXCEPT ![m].at = Empty, ![m].read = Blank, ![m].saved =
       IF Applied(r) = r.read THEN @
       ELSE [@ EXCEPT ![r.at] = [was |-> r.read, now |-> Applied(r)]]]
  /\ UNCHANGED <<rows, message, worker, events>>

Commit(m) == \E r \in {request[m]} :
  /\ Applying(m) /\ r.at = Empty /\ r.todo = {}
  /\ config' = [c \in Channels |-> IF Holds(m, c) THEN r.saved[c].now ELSE config[c]]
  /\ request' = [request EXCEPT ![m] = NoRequest]
  /\ UNCHANGED <<gen, message, worker, events>>

(* PostgreSQL ends one of two applies that wait for each other's rows.     *)
Waits(m, k)  == Applying(m) /\ request[m].at # Empty /\ Holds(k, request[m].at)
Deadlocked(m) == \E k \in Managers \ {m} : Waits(m, k) /\ Waits(k, m)

(* A request ends without effect.                                          *)
GiveUp(m) ==
  /\ ~Idle(m)
  /\ IF Deadlocked(m) THEN UNCHANGED events ELSE Event
  /\ request' = [request EXCEPT ![m] = NoRequest]
  /\ UNCHANGED <<rows, message, worker>>

-----------------------------------------------------------------------------
Proceed(m) == SavePatch(m) \/ LoadTarget(m) \/ SaveTarget(m) \/ Commit(m)

Next == \/ \E g \in Gens, S \in Snapshots, T \in Selections :
             Create(g, S, T)
        \/ \E w \in Workers, g \in Gens : Take(w, g)
        \/ \E w \in Workers : Finish(w) \/ Disturb(w)
        \/ \E g \in Gens : Age(g)
        \/ Recover
        \/ \E m \in Managers, g \in Gens : EditDraft(m, g)
        \/ \E m \in Managers, c \in Channels, S \in Patches : OpenPatch(m, c, S)
        \/ \E m \in Managers, g \in Gens, T \in SUBSET Channels, o \in BOOLEAN :
             OpenApply(m, g, T, o)
        \/ \E m \in Managers : Proceed(m) \/ GiveUp(m)

(* The beat runs the sweep, time passes, tasks and requests end; managers  *)
(* and faults owe nothing.                                                 *)
Fairness == /\ WF_vars(Recover)
            /\ \A g \in Gens : WF_vars(Age(g)) /\ WF_vars(\E w \in Workers : Take(w, g))
            /\ \A w \in Workers : WF_vars(Finish(w))
            /\ \A m \in Managers : WF_vars(Proceed(m) \/ (Deadlocked(m) /\ GiveUp(m)))

Spec == Init /\ [][Next]_vars /\ Fairness

-----------------------------------------------------------------------------
(* Rows, messages and requests have their shape, and no configuration has  *)
(* a field that the serializer of its marketplace does not know.           *)
TypeOK ==
  /\ gen \in [Gens -> Gen] /\ message \in [Gens -> Nat]
  /\ worker \in [Workers -> Gens \cup {NoGeneration}]
  /\ config \in [Channels -> Texts]
  /\ \A c \in Channels : \A f \in Fields \ Accepted(c) : config[c][f] = Empty
  /\ request \in [Managers -> Patch \cup Apply \cup {NoRequest}]
  /\ events \in Nat

(* What an apply writes is the draft as it stands until it commits: no     *)
(* edit, no worker and no sweep changes the generation in between, and two *)
(* applies never both hold a configuration.                                *)
AppliesOneDraft == \A m \in Managers : Applying(m) =>
  /\ gen[request[m].gen].status = "succeeded"
  /\ request[m].draft = gen[request[m].gen].draft
  /\ \A c \in Channels : Holds(m, c) => Free(m, c)

Consistent == TypeOK /\ AppliesOneDraft

(* A finished generation that no worker works on keeps its verdict, and    *)
(* its draft changes only to one a manager wrote, whatever is redelivered. *)
FinishedStays == [][\A g \in Gens :
  (gen[g].status \in Final /\ \A w \in Workers : worker[w] # g) =>
     /\ gen'[g].status = gen[g].status
     /\ gen'[g].draft \in {gen[g].draft} \cup Valid(gen[g].seller, "edit")]_vars

(* "Existing values remain unchanged unless overwrite=true": a value of a  *)
(* configuration is replaced only by a PATCH that names its field, by an   *)
(* apply that may overwrite it, or by a request that loaded another value. *)
Ends(m)   == ~Idle(m) /\ request'[m] = NoRequest
TextKept == [][\A c \in Channels, f \in Fields :
  (config[c][f] # Empty /\ config'[c][f] # config[c][f]) =>
    \E m \in Managers : Ends(m) /\ \E r \in {request[m]} :
      \/ r.kind = "patch" /\ r.at = c /\ (f \in r.set \/ r.read[f] # config[c][f])
      \/ r.kind = "apply" /\ Holds(m, c) /\ (r.overwrite \/ r.saved[c].was[f] # config[c][f])]_vars

(* A generation that runs ends, one way or the other.                      *)
RunningEnds == \A g \in Gens : gen[g].status = "running" ~> gen[g].status \in Final
=============================================================================
