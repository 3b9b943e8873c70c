------------------------- MODULE ListingContentProofs -------------------------
(***************************************************************************)
(* Proofs about the content of listings, for any number of generations,    *)
(* channels, workers and managers and any selection, snapshot and patch.   *)
(* An apply writes one draft and shares no configuration with another; a   *)
(* finished generation stays; what a manager typed is kept.                *)
(***************************************************************************)
EXTENDS ListingContent, TLAPS

(* A configuration without the fields its serializer does not know.        *)
Fits(c, text) == \A f \in Fields \ Accepted(c) : text[f] = Empty

(* What a PATCH has loaded and will lay over it is known to its serializer. *)
PatchFits == \A m \in Managers : request[m].kind = "patch" =>
  /\ request[m].set \subseteq Accepted(request[m].at)
  /\ Fits(request[m].at, request[m].read)

(* So is what an apply has loaded and what it has saved.                   *)
ApplyFits == \A m \in Managers : Applying(m) =>
  /\ request[m].at # Empty => Fits(request[m].at, request[m].read)
  /\ \A c \in Channels : Holds(m, c) => Fits(c, request[m].saved[c].now)

(* Without overwrite an apply has saved what it loaded wherever that was   *)
(* not empty.                                                              *)
SavedKeeps == \A m \in Managers, c \in Channels, f \in Fields :
  (Holds(m, c) /\ ~request[m].overwrite /\ request[m].saved[c].was[f] # Empty) =>
    request[m].saved[c].now[f] = request[m].saved[c].was[f]

ContentInv == Consistent /\ PatchFits /\ ApplyFits /\ SavedKeeps

-----------------------------------------------------------------------------
(* The three kinds of request are told apart by their kind.                *)
LEMMA Kinds ==
  ASSUME TypeOK, NEW m \in Managers
  PROVE  /\ request[m].kind = "patch" => request[m] \in Patch
         /\ Applying(m) => request[m] \in Apply
         /\ NoRequest.kind = "none"
         /\ Idle(m) => ~Applying(m)
BY DEF TypeOK, Patch, Apply, NoRequest, Applying, Idle

(* An entry that was saved is not the blank one.                           *)
LEMMA SavedDiffers ==
  ASSUME NEW a, NEW b
  PROVE  [was |-> a, now |-> b] # Unsaved
<1>1. DOMAIN [was |-> a, now |-> b] # DOMAIN Unsaved
  BY DEF Unsaved
<1> QED
  BY <1>1

(* What the AI or a manager may write is a text.                           *)
LEMMA ValidTexts ==
  ASSUME NEW s, NEW by \in {"ai", "edit"}, NEW d \in Valid(s, by)
  PROVE  d \in Texts
BY DEF Valid, Texts, Text, Fields

(* What a draft maps to a channel is known to its serializer.              *)
LEMMA MappedAccepted ==
  ASSUME NEW c \in Channels, NEW d
  PROVE  Mapped(c, d) \subseteq Accepted(c) /\ Mapped(c, d) \subseteq Fields
BY ChannelAssumption DEF Mapped, Accepted, OttoFields, HoodFields, KauflandFields, Fields

LEMMA InitContent == Init => ContentInv
<1> SUFFICES ASSUME Init PROVE ContentInv
  OBVIOUS
<1>1. TypeOK
  <2>1. Blank \in Texts /\ \A f \in Fields : Blank[f] = Empty
    BY DEF Blank, Texts, Text
  <2>2. NoGen \in Gen
    BY <2>1 DEF NoGen, Gen
  <2>3. \A c \in Channels : config[c] = Blank
    BY DEF Init
  <2> QED
    BY <2>1, <2>2, <2>3 DEF Init, TypeOK
<1>2. \A m \in Managers : request[m].kind = "none"
  BY DEF Init, NoRequest
<1> QED
  BY <1>1, <1>2 DEF ContentInv, Consistent, AppliesOneDraft, PatchFits, ApplyFits, SavedKeeps,
    Applying, Holds

(* A step on generations leaves the requests alone, and the generations    *)
(* that an apply has locked.                                               *)
LEMMA GenerationStep ==
  ASSUME ContentInv, UNCHANGED <<config, request>>,
         gen' \in [Gens -> Gen], message' \in [Gens -> Nat],
         worker' \in [Workers -> Gens \cup {NoGeneration}], events' \in Nat,
         \A g \in Gens : Locked(g) => gen'[g] = gen[g]
  PROVE  ContentInv'
<1>1. TypeOK'
  BY DEF ContentInv, Consistent, TypeOK
<1>2. AppliesOneDraft'
  <2>1. ASSUME NEW m \in Managers, Applying(m) PROVE gen'[request[m].gen] = gen[request[m].gen]
    <3>1. request[m].gen \in Gens
      BY <2>1, Kinds DEF ContentInv, Consistent, Apply
    <3> QED
      BY <2>1, <3>1 DEF Locked
  <2> QED
    BY <2>1 DEF ContentInv, Consistent, AppliesOneDraft, Applying, Holds, Free
<1>3. PatchFits' /\ ApplyFits' /\ SavedKeeps'
  BY DEF ContentInv, PatchFits, ApplyFits, SavedKeeps, Applying, Holds
<1> QED
  BY <1>1, <1>2, <1>3 DEF ContentInv, Consistent

(* A step of one manager keeps the invariant when it keeps what the         *)
(* invariant says of that manager's request and of the configurations.     *)
LEMMA RequestStep ==
  ASSUME ContentInv, NEW m \in Managers,
         UNCHANGED <<gen, message, worker>>, events' \in Nat,
         config' \in [Channels -> Texts],
         \A c \in Channels : Fits(c, config'[c]),
         NEW q \in Patch \cup Apply \cup {NoRequest},
         request' = [request EXCEPT ![m] = q],
         q.kind = "patch" => q.set \subseteq Accepted(q.at) /\ Fits(q.at, q.read),
         q.kind = "apply" =>
           /\ gen[q.gen].status = "succeeded" /\ q.draft = gen[q.gen].draft
           /\ q.at # Empty => Fits(q.at, q.read)
           /\ \A c \in Channels : q.saved[c] # Unsaved =>
                /\ Free(m, c) /\ Fits(c, q.saved[c].now)
                /\ \A f \in Fields : (~q.overwrite /\ q.saved[c].was[f] # Empty) =>
                     q.saved[c].now[f] = q.saved[c].was[f]
  PROVE  ContentInv'
<1>1. /\ request'[m] = q /\ \A k \in Managers \ {m} : request'[k] = request[k]
      /\ request' \in [Managers -> Patch \cup Apply \cup {NoRequest}]
  BY DEF ContentInv, Consistent, TypeOK
<1>2. TypeOK'
  BY <1>1 DEF ContentInv, Consistent, TypeOK, Fits
<1>3. /\ \A k \in Managers \ {m} :
           Applying(k)' = Applying(k) /\ \A c \in Channels : Holds(k, c)' = Holds(k, c)
      /\ Applying(m)' = (q.kind = "apply")
      /\ \A c \in Channels : Holds(m, c)' => q.saved[c] # Unsaved
  BY <1>1 DEF Applying, Holds
<1>4. AppliesOneDraft'
  <2> SUFFICES ASSUME NEW k \in Managers, Applying(k)'
               PROVE  /\ gen[request'[k].gen].status = "succeeded"
                      /\ request'[k].draft = gen[request'[k].gen].draft
                      /\ \A c \in Channels : Holds(k, c)' => Free(k, c)'
    BY DEF AppliesOneDraft
  <2>1. CASE k = m
    BY <2>1, <1>1, <1>3 DEF Free
  <2>2. CASE k # m
    <3>1. Applying(k) /\ request'[k] = request[k]
      BY <2>2, <1>1, <1>3
    <3>2. ASSUME NEW c \in Channels, Holds(k, c)' PROVE Free(k, c)'
      <4>1. Holds(k, c) /\ Free(k, c)
        BY <2>2, <3>1, <3>2, <1>3 DEF ContentInv, Consistent, AppliesOneDraft
      <4>2. ~Holds(m, c)'
        BY <2>2, <4>1, <1>3 DEF Free, Holds, Applying
      <4> QED
        BY <4>1, <4>2, <1>3 DEF Free
    <3> QED
      BY <3>1, <3>2 DEF ContentInv, Consistent, AppliesOneDraft
  <2> QED
    BY <2>1, <2>2
<1>5. PatchFits' /\ ApplyFits'
  <2> SUFFICES ASSUME NEW k \in Managers
               PROVE  /\ request'[k].kind = "patch" =>
                           /\ request'[k].set \subseteq Accepted(request'[k].at)
                           /\ Fits(request'[k].at, request'[k].read)
                      /\ Applying(k)' =>
                           /\ request'[k].at # Empty => Fits(request'[k].at, request'[k].read)
                           /\ \A c \in Channels : Holds(k, c)' =>
                                Fits(c, request'[k].saved[c].now)
    BY DEF PatchFits, ApplyFits, Fits
  <2>1. CASE k = m
    BY <2>1, <1>1, <1>3
  <2>2. CASE k # m
    <3>1. request'[k] = request[k]
      BY <2>2, <1>1
    <3> QED
      BY <2>2, <3>1, <1>3 DEF ContentInv, PatchFits, ApplyFits
  <2> QED
    BY <2>1, <2>2
<1>6. SavedKeeps'
  <2> SUFFICES ASSUME NEW k \in Managers, NEW c \in Channels, NEW f \in Fields, Holds(k, c)',
                      ~request'[k].overwrite, request'[k].saved[c].was[f] # Empty
               PROVE  request'[k].saved[c].now[f] = request'[k].saved[c].was[f]
    BY DEF SavedKeeps
  <2>1. CASE k = m
    BY <2>1, <1>1, <1>3 DEF Applying, Holds
  <2>2. CASE k # m
    <3>1. Holds(k, c) /\ request'[k] = request[k]
      BY <2>2, <1>1, <1>3
    <3> QED
      BY <3>1 DEF ContentInv, SavedKeeps
  <2> QED
    BY <2>1, <2>2
<1> QED
  BY <1>2, <1>4, <1>5, <1>6 DEF ContentInv, Consistent

-----------------------------------------------------------------------------
(* Asking for a draft starts from a row that does not exist yet.           *)
LEMMA CreateStep ==
  ASSUME ContentInv, NEW g \in Gens, NEW S \in Snapshots, NEW T \in Selections, Create(g, S, T)
  PROVE  ContentInv'
<1> DEFINE row == [NoGen EXCEPT !.status = "queued", !.seller = S, !.targets = T]
<1>1. row \in Gen
  <2>1. Blank \in Texts
    BY DEF Blank, Texts, Text
  <2> QED
    BY <2>1, SnapshotAssumption, SelectAssumption DEF NoGen, Gen
<1>2. gen[g].status = "none" /\ gen' = [gen EXCEPT ![g] = row]
  BY DEF Create
<1>3. message' \in [Gens -> Nat] /\ events' \in Nat
  BY DEF Create, Event, ContentInv, Consistent, TypeOK
<1>4. gen' \in [Gens -> Gen]
  BY <1>1, <1>2 DEF ContentInv, Consistent, TypeOK
<1>5. ~Locked(g)
  BY <1>2 DEF Locked, ContentInv, Consistent, AppliesOneDraft
<1>6. worker' \in [Workers -> Gens \cup {NoGeneration}] /\ UNCHANGED <<config, request>>
  BY DEF Create, ContentInv, Consistent, TypeOK
<1>7. \A h \in Gens : h # g => gen'[h] = gen[h]
  BY <1>2 DEF ContentInv, Consistent, TypeOK
<1> QED
  BY <1>3, <1>4, <1>5, <1>6, <1>7, GenerationStep

(* A generation changes one component of its row and stays a row.          *)
LEMMA GenRow ==
  ASSUME TypeOK, NEW g \in Gens
  PROVE  /\ gen[g] \in Gen
         /\ [gen[g] EXCEPT !.status = "running", !.old = FALSE] \in Gen
         /\ [gen[g] EXCEPT !.status = "failed"] \in Gen
         /\ [gen[g] EXCEPT !.old = TRUE] \in Gen
         /\ \A d \in Texts :
              /\ [gen[g] EXCEPT !.draft = d] \in Gen
              /\ \A s \in Final : [gen[g] EXCEPT !.status = s, !.draft = d] \in Gen
<1>1. gen[g] \in Gen
  BY DEF TypeOK
<1> QED
  BY <1>1 DEF Gen, Final

LEMMA TakeStep ==
  ASSUME ContentInv, NEW w \in Workers, NEW g \in Gens, Take(w, g)
  PROVE  ContentInv'
<1>1. TypeOK
  BY DEF ContentInv, Consistent
<1>2. message[g] - 1 \in Nat /\ message' = [message EXCEPT ![g] = @ - 1]
  BY <1>1 DEF Take, TypeOK
<1>3. CASE gen[g].status \in Final
  <2>1. UNCHANGED <<gen, worker, config, request, events>>
    BY <1>3 DEF Take
  <2> QED
    BY <1>1, <1>2, <2>1, GenerationStep DEF TypeOK
<1>4. CASE gen[g].status \notin Final
  <2>1. /\ gen' = [gen EXCEPT ![g].status = "running", ![g].old = FALSE]
        /\ worker' = [worker EXCEPT ![w] = g] /\ UNCHANGED <<config, request, events>>
    BY <1>4 DEF Take
  <2>2. gen' = [gen EXCEPT ![g] = [gen[g] EXCEPT !.status = "running", !.old = FALSE]]
    BY <1>1, <2>1 DEF TypeOK, Gen
  <2> DEFINE row == [gen[g] EXCEPT !.status = "running", !.old = FALSE]
  <2>3. row \in Gen /\ gen' = [gen EXCEPT ![g] = row]
    BY <1>1, <2>2, GenRow
  <2> HIDE DEF row
  <2>4. gen' \in [Gens -> Gen] /\ \A h \in Gens : h # g => gen'[h] = gen[h]
    BY <1>1, <2>3 DEF TypeOK
  <2>5. ~Locked(g)
    BY DEF Take
  <2> QED
    BY <1>1, <1>2, <2>1, <2>4, <2>5, GenerationStep DEF TypeOK
<1> QED
  BY <1>3, <1>4

LEMMA FinishStep ==
  ASSUME ContentInv, NEW w \in Workers, Finish(w)
  PROVE  ContentInv'
<1>1. TypeOK
  BY DEF ContentInv, Consistent
<1>2. PICK g \in {worker[w]} \cap Gens, ok \in BOOLEAN :
        /\ ~Locked(g)
        /\ \E draft \in IF ok THEN Valid(gen[g].seller, "ai") ELSE {gen[g].draft} :
             gen' = [gen EXCEPT ![g].status = IF ok THEN "succeeded" ELSE "failed",
                                ![g].draft = draft]
        /\ worker' = [worker EXCEPT ![w] = NoGeneration]
        /\ UNCHANGED <<config, message, request, events>>
  BY DEF Finish
<1>3. PICK draft \in IF ok THEN Valid(gen[g].seller, "ai") ELSE {gen[g].draft} :
        gen' = [gen EXCEPT ![g].status = IF ok THEN "succeeded" ELSE "failed",
                           ![g].draft = draft]
  BY <1>2
<1>4. draft \in Texts
  <2>1. gen[g].draft \in Texts
    BY <1>1, <1>2, GenRow DEF Gen
  <2> QED
    BY <1>3, <2>1, ValidTexts
<1> DEFINE s == IF ok THEN "succeeded" ELSE "failed"
           row == [gen[g] EXCEPT !.status = s, !.draft = draft]
<1>5. s \in Final
  BY DEF Final
<1>6. gen' = [gen EXCEPT ![g] = row]
  BY <1>1, <1>2, <1>3 DEF TypeOK, Gen
<1>7. row \in Gen
  BY <1>1, <1>2, <1>4, <1>5, GenRow
<1> HIDE DEF row
<1>8. gen' \in [Gens -> Gen] /\ \A h \in Gens : h # g => gen'[h] = gen[h]
  BY <1>1, <1>6, <1>7 DEF TypeOK
<1> QED
  BY <1>1, <1>2, <1>8, GenerationStep DEF TypeOK

LEMMA DisturbStep ==
  ASSUME ContentInv, NEW w \in Workers, Disturb(w)
  PROVE  ContentInv'
<1>1. TypeOK
  BY DEF ContentInv, Consistent
<1>2. PICK g \in {worker[w]} \cap Gens, again \in BOOLEAN, over \in BOOLEAN :
        /\ events' = events + 1
        /\ message' = IF again THEN [message EXCEPT ![g] = @ + 1] ELSE message
        /\ worker' = IF over THEN [worker EXCEPT ![w] = NoGeneration] ELSE worker
        /\ UNCHANGED <<gen, config, request>>
  BY DEF Disturb, Event
<1>3. message[g] + 1 \in Nat
  BY <1>1, <1>2 DEF TypeOK
<1> QED
  BY <1>1, <1>2, <1>3, GenerationStep DEF TypeOK

LEMMA AgeStep ==
  ASSUME ContentInv, NEW g \in Gens, Age(g)
  PROVE  ContentInv'
<1>1. TypeOK
  BY DEF ContentInv, Consistent
<1> DEFINE row == [gen[g] EXCEPT !.old = TRUE]
<1>2. gen' = [gen EXCEPT ![g] = row] /\ row \in Gen
  BY <1>1, GenRow DEF Age, TypeOK, Gen
<1> HIDE DEF row
<1>3. ~Locked(g)
  BY DEF Age, Locked, ContentInv, Consistent, AppliesOneDraft
<1>4. gen' \in [Gens -> Gen] /\ \A h \in Gens : h # g => gen'[h] = gen[h]
  BY <1>1, <1>2 DEF TypeOK
<1> QED
  BY <1>1, <1>3, <1>4, GenerationStep DEF TypeOK, Age

LEMMA RecoverStep ==
  ASSUME ContentInv, Recover
  PROVE  ContentInv'
<1>1. TypeOK
  BY DEF ContentInv, Consistent
<1> DEFINE stale == {g \in Gens : gen[g].status = "running" /\ gen[g].old}
<1>2. /\ gen' = [g \in Gens |-> IF g \in stale THEN [gen[g] EXCEPT !.status = "failed"] ELSE gen[g]]
      /\ \A g \in stale : ~Locked(g)
      /\ UNCHANGED <<config, message, worker, request, events>>
  BY DEF Recover
<1>3. gen' \in [Gens -> Gen]
  BY <1>1, <1>2, GenRow
<1> QED
  BY <1>1, <1>2, <1>3, GenerationStep DEF TypeOK

LEMMA EditDraftStep ==
  ASSUME ContentInv, NEW m \in Managers, NEW g \in Gens, EditDraft(m, g)
  PROVE  ContentInv'
<1>1. TypeOK
  BY DEF ContentInv, Consistent
<1>2. PICK draft \in Valid(gen[g].seller, "edit") : gen' = [gen EXCEPT ![g].draft = draft]
  BY DEF EditDraft
<1> DEFINE row == [gen[g] EXCEPT !.draft = draft]
<1>3. gen' = [gen EXCEPT ![g] = row] /\ row \in Gen
  BY <1>1, <1>2, GenRow, ValidTexts DEF TypeOK, Gen
<1> HIDE DEF row
<1>4. gen' \in [Gens -> Gen] /\ \A h \in Gens : h # g => gen'[h] = gen[h]
  BY <1>1, <1>3 DEF TypeOK
<1>5. ~Locked(g) /\ events' \in Nat /\ UNCHANGED <<config, message, worker, request>>
  BY <1>1 DEF EditDraft, Event, TypeOK
<1> QED
  BY <1>1, <1>4, <1>5, GenerationStep DEF TypeOK

-----------------------------------------------------------------------------
LEMMA OpenPatchStep ==
  ASSUME ContentInv, NEW m \in Managers, NEW c \in Channels, NEW S \in Patches, OpenPatch(m, c, S)
  PROVE  ContentInv'
<1>1. TypeOK
  BY DEF ContentInv, Consistent
<1>2. PICK with \in {"typed", Empty} :
        request' = [request EXCEPT ![m] = [kind |-> "patch", at |-> c, read |-> config[c],
                                           set |-> S, with |-> with]]
  BY DEF OpenPatch
<1> DEFINE q == [kind |-> "patch", at |-> c, read |-> config[c], set |-> S, with |-> with]
<1>3. q \in Patch
  BY <1>1, PatchAssumption DEF TypeOK, Patch
<1>4. q.kind = "patch" /\ q.set \subseteq Accepted(q.at) /\ Fits(q.at, q.read)
  BY <1>1 DEF TypeOK, Fits, OpenPatch
<1>5. request' = [request EXCEPT ![m] = q]
  BY <1>2
<1> HIDE DEF q
<1>6. events' \in Nat /\ UNCHANGED <<gen, config, message, worker>>
  BY <1>1 DEF OpenPatch, Event, TypeOK, rows
<1>7. config' \in [Channels -> Texts] /\ \A d \in Channels : Fits(d, config'[d])
  BY <1>1, <1>6 DEF TypeOK, Fits
<1> QED
  BY <1>3, <1>4, <1>5, <1>6, <1>7, RequestStep

(* A request that ends without effect: nothing is left to say of it.       *)
LEMMA EndStep ==
  ASSUME ContentInv, NEW m \in Managers, UNCHANGED <<gen, message, worker>>, events' \in Nat,
         config' \in [Channels -> Texts], \A c \in Channels : Fits(c, config'[c]),
         request' = [request EXCEPT ![m] = NoRequest]
  PROVE  ContentInv'
<1>1. NoRequest.kind = "none"
  BY DEF NoRequest
<1> QED
  BY <1>1, RequestStep

LEMMA SavePatchStep ==
  ASSUME ContentInv, NEW m \in Managers, SavePatch(m)
  PROVE  ContentInv'
<1>1. TypeOK
  BY DEF ContentInv, Consistent
<1> DEFINE r == request[m]
<1>2. /\ r.kind = "patch" /\ config' = [config EXCEPT ![r.at] = Patched(r)]
      /\ request' = [request EXCEPT ![m] = NoRequest]
      /\ UNCHANGED <<gen, message, worker, events>>
  BY DEF SavePatch
<1>3. r \in Patch /\ r.set \subseteq Accepted(r.at) /\ Fits(r.at, r.read)
  BY <1>1, <1>2, Kinds DEF ContentInv, PatchFits
<1>4. Patched(r) \in Texts /\ Fits(r.at, Patched(r))
  <2>1. r.at \in Channels /\ r.read \in Texts /\ r.with \in Text
    BY <1>3 DEF Patch, Text
  <2> QED
    BY <1>3, <2>1 DEF Patched, Fits, Texts
<1>5. r.at \in Channels
  BY <1>3 DEF Patch
<1> HIDE DEF r
<1>6. config' \in [Channels -> Texts] /\ \A c \in Channels : Fits(c, config'[c])
  BY <1>1, <1>2, <1>4, <1>5 DEF TypeOK, Fits
<1> QED
  BY <1>1, <1>2, <1>6, EndStep DEF TypeOK

LEMMA GiveUpStep ==
  ASSUME ContentInv, NEW m \in Managers, GiveUp(m)
  PROVE  ContentInv'
<1>1. events' \in Nat /\ UNCHANGED <<gen, config, message, worker>>
  BY DEF GiveUp, Event, ContentInv, Consistent, TypeOK, rows
<1>2. config' \in [Channels -> Texts] /\ \A c \in Channels : Fits(c, config'[c])
  BY <1>1 DEF ContentInv, Consistent, TypeOK, Fits
<1> QED
  BY <1>1, <1>2, EndStep DEF GiveUp

LEMMA OpenApplyStep ==
  ASSUME ContentInv, NEW m \in Managers, NEW g \in Gens, NEW T \in SUBSET Channels,
         NEW o \in BOOLEAN, OpenApply(m, g, T, o)
  PROVE  ContentInv'
<1>1. TypeOK
  BY DEF ContentInv, Consistent
<1> DEFINE q == [kind |-> "apply", gen |-> g, draft |-> gen[g].draft, overwrite |-> o,
                 todo |-> T, at |-> Empty, read |-> Blank,
                 saved |-> [c \in Channels |-> Unsaved]]
<1>2. request' = [request EXCEPT ![m] = q]
  BY DEF OpenApply
<1>3. q \in Apply
  <2>1. gen[g].draft \in Texts
    BY <1>1 DEF TypeOK, Gen
  <2>2. Blank \in Texts
    BY DEF Blank, Texts, Text
  <2> QED
    BY <2>1, <2>2 DEF Apply
<1>4. /\ q.kind = "apply" /\ q.gen = g /\ q.at = Empty /\ q.draft = gen[g].draft
      /\ \A c \in Channels : q.saved[c] = Unsaved
  OBVIOUS
<1> HIDE DEF q
<1>5. gen[g].status = "succeeded" /\ UNCHANGED <<gen, config, message, worker>> /\ events' \in Nat
  BY <1>1 DEF OpenApply, Event, TypeOK, rows
<1>6. config' \in [Channels -> Texts] /\ \A c \in Channels : Fits(c, config'[c])
  BY <1>1, <1>5 DEF TypeOK, Fits
<1> QED
  BY <1>2, <1>3, <1>4, <1>5, <1>6, RequestStep

(* What the invariant says of the apply of one manager.                    *)
LEMMA ApplyOf ==
  ASSUME ContentInv, NEW m \in Managers, Applying(m)
  PROVE  /\ request[m] \in Apply
         /\ gen[request[m].gen].status = "succeeded"
         /\ request[m].draft = gen[request[m].gen].draft
         /\ request[m].at # Empty => Fits(request[m].at, request[m].read)
         /\ \A c \in Channels : request[m].saved[c] # Unsaved =>
              /\ Free(m, c) /\ Fits(c, request[m].saved[c].now)
              /\ request[m].saved[c] \in [was : Texts, now : Texts]
              /\ \A f \in Fields :
                   (~request[m].overwrite /\ request[m].saved[c].was[f] # Empty) =>
                     request[m].saved[c].now[f] = request[m].saved[c].was[f]
<1>1. request[m] \in Apply
  BY Kinds DEF ContentInv, Consistent
<1>2. \A c \in Channels : request[m].saved[c] # Unsaved =>
        Holds(m, c) /\ request[m].saved[c] \in [was : Texts, now : Texts]
  BY <1>1 DEF Holds, Apply
<1> QED
  BY <1>1, <1>2 DEF ContentInv, Consistent, AppliesOneDraft, ApplyFits, SavedKeeps

LEMMA LoadTargetStep ==
  ASSUME ContentInv, NEW m \in Managers, LoadTarget(m)
  PROVE  ContentInv'
<1>1. TypeOK /\ Applying(m)
  BY DEF ContentInv, Consistent, LoadTarget
<1>2. PICK c \in request[m].todo :
        request' = [request EXCEPT ![m].at = c, ![m].todo = @ \ {c}, ![m].read = config[c]]
  BY DEF LoadTarget
<1> DEFINE q == [request[m] EXCEPT !.at = c, !.todo = @ \ {c}, !.read = config[c]]
<1>3. request[m] \in Apply
  BY <1>1, ApplyOf
<1>4. c \in Channels
  BY <1>2, <1>3 DEF Apply
<1>5. q \in Apply
  <2>1. config[c] \in Texts
    BY <1>1, <1>4 DEF TypeOK
  <2> QED
    BY <1>3, <1>4, <2>1 DEF Apply
<1>6. request' = [request EXCEPT ![m] = q]
  BY <1>1, <1>2, <1>3 DEF TypeOK, Apply
<1>7. /\ q.kind = "apply" /\ q.gen = request[m].gen /\ q.draft = request[m].draft
      /\ q.at = c /\ q.read = config[c] /\ q.saved = request[m].saved
      /\ q.overwrite = request[m].overwrite
  BY <1>3 DEF Apply
<1> HIDE DEF q
<1>8. Fits(c, config[c])
  BY <1>1, <1>4 DEF TypeOK, Fits
<1>9. UNCHANGED <<gen, config, message, worker, events>>
  BY DEF LoadTarget, rows
<1>10. config' \in [Channels -> Texts] /\ \A d \in Channels : Fits(d, config'[d])
  BY <1>1, <1>9 DEF TypeOK, Fits
<1>11. events' \in Nat
  BY <1>1, <1>9 DEF TypeOK
<1>12. q.kind = "apply" =>
        /\ gen[q.gen].status = "succeeded" /\ q.draft = gen[q.gen].draft
        /\ q.at # Empty => Fits(q.at, q.read)
        /\ \A d \in Channels : q.saved[d] # Unsaved =>
             /\ Free(m, d) /\ Fits(d, q.saved[d].now)
             /\ \A f \in Fields : (~q.overwrite /\ q.saved[d].was[f] # Empty) =>
                  q.saved[d].now[f] = q.saved[d].was[f]
  BY <1>1, <1>7, <1>8, ApplyOf
<1>13. q.kind # "patch"
  BY <1>7
<1> QED
  BY <1>5, <1>6, <1>9, <1>10, <1>11, <1>12, <1>13, RequestStep

(* What an apply writes: a text its serializer knows, which differs from   *)
(* what was loaded only where that was empty or the apply may overwrite.   *)
LEMMA AppliedText ==
  ASSUME NEW r \in Apply, r.at \in Channels, Fits(r.at, r.read)
  PROVE  /\ Applied(r) \in Texts /\ Fits(r.at, Applied(r))
         /\ \A f \in Fields : (~r.overwrite /\ r.read[f] # Empty) => Applied(r)[f] = r.read[f]
<1>1. r.draft \in Texts /\ r.read \in Texts
  BY DEF Apply
<1>2. Mapped(r.at, r.draft) \subseteq Accepted(r.at)
  BY MappedAccepted
<1> QED
  BY <1>1, <1>2 DEF Applied, Fits, Texts

LEMMA SaveTargetStep ==
  ASSUME ContentInv, NEW m \in Managers, SaveTarget(m)
  PROVE  ContentInv'
<1>1. TypeOK /\ Applying(m)
  BY DEF ContentInv, Consistent, SaveTarget
<1> DEFINE r == request[m]
           kept == IF Applied(r) = r.read THEN r.saved
                   ELSE [r.saved EXCEPT ![r.at] = [was |-> r.read, now |-> Applied(r)]]
           q == [r EXCEPT !.at = Empty, !.read = Blank, !.saved = kept]
<1>2. /\ r.at # Empty /\ (Applied(r) # r.read => Free(m, r.at))
      /\ request' = [request EXCEPT ![m].at = Empty, ![m].read = Blank, ![m].saved =
           IF Applied(r) = r.read THEN @
           ELSE [@ EXCEPT ![r.at] = [was |-> r.read, now |-> Applied(r)]]]
      /\ UNCHANGED <<gen, config, message, worker, events>>
  BY DEF SaveTarget, rows
<1>3. r \in Apply /\ r.at \in Channels /\ Fits(r.at, r.read)
  <2>1. r \in Apply /\ Fits(r.at, r.read)
    BY <1>1, <1>2, ApplyOf
  <2> QED
    BY <1>2, <2>1 DEF Apply
<1>4. request' = [request EXCEPT ![m] = q]
  BY <1>1, <1>2, <1>3 DEF TypeOK, Apply
<1>5. /\ Applied(r) \in Texts /\ Fits(r.at, Applied(r))
      /\ \A f \in Fields : (~r.overwrite /\ r.read[f] # Empty) => Applied(r)[f] = r.read[f]
  BY <1>3, AppliedText
<1>6. /\ kept \in [Channels -> [was : Texts, now : Texts] \cup {Unsaved}]
      /\ \A c \in Channels :
           \/ kept[c] = r.saved[c]
           \/ /\ c = r.at /\ Applied(r) # r.read
              /\ kept[c] = [was |-> r.read, now |-> Applied(r)]
  <2>1. r.saved \in [Channels -> [was : Texts, now : Texts] \cup {Unsaved}] /\ r.read \in Texts
    BY <1>3 DEF Apply
  <2>2. CASE Applied(r) = r.read
    <3>1. kept = r.saved
      BY <2>2
    <3> HIDE DEF kept
    <3> QED
      BY <2>1, <3>1
  <2>3. CASE Applied(r) # r.read
    <3> DEFINE new == [was |-> r.read, now |-> Applied(r)]
    <3>1. new \in [was : Texts, now : Texts] /\ kept = [r.saved EXCEPT ![r.at] = new]
      BY <1>5, <2>1, <2>3
    <3> HIDE DEF new, kept
    <3>2. kept \in [Channels -> [was : Texts, now : Texts] \cup {Unsaved}]
      BY <1>3, <2>1, <3>1
    <3>3. \A c \in Channels : kept[c] = IF c = r.at THEN new ELSE r.saved[c]
      BY <1>3, <2>1, <3>1
    <3>4. \A c \in Channels :
            \/ kept[c] = r.saved[c]
            \/ c = r.at /\ kept[c] = [was |-> r.read, now |-> Applied(r)]
      BY <3>3 DEF new
    <3> QED
      BY <2>3, <3>2, <3>4
  <2> QED
    BY <2>2, <2>3
<1>7. \A c \in Channels : kept[c] # Unsaved =>
        /\ Free(m, c) /\ Fits(c, kept[c].now)
        /\ \A f \in Fields : (~r.overwrite /\ kept[c].was[f] # Empty) =>
             kept[c].now[f] = kept[c].was[f]
  <2> SUFFICES ASSUME NEW c \in Channels, kept[c] # Unsaved
               PROVE  /\ Free(m, c) /\ Fits(c, kept[c].now)
                      /\ \A f \in Fields : (~r.overwrite /\ kept[c].was[f] # Empty) =>
                           kept[c].now[f] = kept[c].was[f]
    OBVIOUS
  <2>1. CASE kept[c] = r.saved[c]
    BY <1>1, <2>1, ApplyOf
  <2>2. CASE c = r.at /\ Applied(r) # r.read /\ kept[c] = [was |-> r.read, now |-> Applied(r)]
    <3>1. kept[c].was = r.read /\ kept[c].now = Applied(r)
      BY <2>2
    <3> QED
      BY <1>2, <1>5, <2>2, <3>1
  <2> QED
    BY <1>6, <2>1, <2>2
<1> HIDE DEF kept
<1>8. q \in Apply
  <2>1. Blank \in Texts
    BY DEF Blank, Texts, Text
  <2> QED
    BY <1>3, <1>6, <2>1 DEF Apply
<1>9. /\ q.kind = "apply" /\ q.gen = r.gen /\ q.draft = r.draft /\ q.at = Empty
      /\ q.saved = kept /\ q.overwrite = r.overwrite
  BY <1>3 DEF Apply
<1> HIDE DEF q
<1>10. config' \in [Channels -> Texts] /\ \A d \in Channels : Fits(d, config'[d])
  BY <1>1, <1>2 DEF TypeOK, Fits
<1>11. events' \in Nat
  BY <1>1, <1>2 DEF TypeOK
<1>12. q.kind = "apply" =>
        /\ gen[q.gen].status = "succeeded" /\ q.draft = gen[q.gen].draft
        /\ q.at # Empty => Fits(q.at, q.read)
        /\ \A d \in Channels : q.saved[d] # Unsaved =>
             /\ Free(m, d) /\ Fits(d, q.saved[d].now)
             /\ \A f \in Fields : (~q.overwrite /\ q.saved[d].was[f] # Empty) =>
                  q.saved[d].now[f] = q.saved[d].was[f]
  BY <1>1, <1>7, <1>9, ApplyOf
<1>13. q.kind # "patch"
  BY <1>9
<1> QED
  BY <1>2, <1>4, <1>8, <1>10, <1>11, <1>12, <1>13, RequestStep

LEMMA CommitStep ==
  ASSUME ContentInv, NEW m \in Managers, Commit(m)
  PROVE  ContentInv'
<1>1. TypeOK /\ Applying(m)
  BY DEF ContentInv, Consistent, Commit
<1> DEFINE r == request[m]
<1>2. /\ config' = [c \in Channels |-> IF Holds(m, c) THEN r.saved[c].now ELSE config[c]]
      /\ request' = [request EXCEPT ![m] = NoRequest]
      /\ UNCHANGED <<gen, message, worker, events>>
  BY DEF Commit
<1>3. \A c \in Channels : Holds(m, c) => r.saved[c].now \in Texts /\ Fits(c, r.saved[c].now)
  BY <1>1, ApplyOf DEF Holds
<1>4. config' \in [Channels -> Texts] /\ \A c \in Channels : Fits(c, config'[c])
  BY <1>1, <1>2, <1>3 DEF TypeOK, Fits
<1> QED
  BY <1>1, <1>2, <1>4, EndStep DEF TypeOK

-----------------------------------------------------------------------------
(* Every step keeps the invariant.                                         *)
LEMMA NextContent == ContentInv /\ [Next]_vars => ContentInv'
<1> SUFFICES ASSUME ContentInv, [Next]_vars
             PROVE  ContentInv'
  OBVIOUS
<1>1. CASE \E g \in Gens, S \in Snapshots, T \in Selections : Create(g, S, T)
  BY <1>1, CreateStep
<1>2. CASE \E w \in Workers, g \in Gens : Take(w, g)
  BY <1>2, TakeStep
<1>3. CASE \E w \in Workers : Finish(w) \/ Disturb(w)
  BY <1>3, FinishStep, DisturbStep
<1>4. CASE \E g \in Gens : Age(g)
  BY <1>4, AgeStep
<1>5. CASE Recover
  BY <1>5, RecoverStep
<1>6. CASE \E m \in Managers, g \in Gens : EditDraft(m, g)
  BY <1>6, EditDraftStep
<1>7. CASE \E m \in Managers, c \in Channels, S \in Patches : OpenPatch(m, c, S)
  BY <1>7, OpenPatchStep
<1>8. CASE \E m \in Managers, g \in Gens, T \in SUBSET Channels, o \in BOOLEAN :
             OpenApply(m, g, T, o)
  BY <1>8, OpenApplyStep
<1>9. CASE \E m \in Managers : Proceed(m) \/ GiveUp(m)
  BY <1>9, SavePatchStep, LoadTargetStep, SaveTargetStep, CommitStep, GiveUpStep DEF Proceed
<1>10. CASE UNCHANGED vars
  BY <1>10 DEF vars, rows, ContentInv, Consistent, TypeOK, AppliesOneDraft, PatchFits, ApplyFits,
    SavedKeeps, Applying, Holds, Free
<1> QED
  BY <1>1, <1>2, <1>3, <1>4, <1>5, <1>6, <1>7, <1>8, <1>9, <1>10 DEF Next

LEMMA ContentAlways == Spec => []ContentInv
BY InitContent, NextContent, PTL DEF Spec

(* Rows and requests keep their shape, no configuration ever holds a field *)
(* its serializer does not know, and what an apply writes is the draft as  *)
(* it stands until it commits, into configurations no other apply holds:   *)
(* ProductMarketplaceContentGenerationApplyView.post.                      *)
THEOREM ContentConsistent == Spec => []Consistent
<1>1. ContentInv => Consistent
  BY DEF ContentInv
<1> QED
  BY <1>1, ContentAlways, PTL

-----------------------------------------------------------------------------
(* A step on a finished generation nobody works on leaves its verdict, and *)
(* writes only a draft a manager has edited.                               *)
LEMMA FinishedStep ==
  ASSUME ContentInv, [Next]_vars, NEW g \in Gens,
         gen[g].status \in Final, \A w \in Workers : worker[w] # g
  PROVE  /\ gen'[g].status = gen[g].status
         /\ gen'[g].draft \in {gen[g].draft} \cup Valid(gen[g].seller, "edit")
<1>1. gen \in [Gens -> Gen] /\ gen[g].status # "none" /\ gen[g].status # "running"
  BY DEF ContentInv, Consistent, TypeOK, Final
<1>2. CASE gen'[g] = gen[g]
  BY <1>2
<1>3. CASE \E h \in Gens, S \in Snapshots, T \in Selections : Create(h, S, T)
  BY <1>1, <1>2, <1>3 DEF Create
<1>4. CASE \E w \in Workers, h \in Gens : Take(w, h)
  BY <1>1, <1>2, <1>4 DEF Take
<1>5. CASE \E w \in Workers : Finish(w) \/ Disturb(w)
  BY <1>1, <1>2, <1>5 DEF Finish, Disturb
<1>6. CASE \E h \in Gens : Age(h)
  BY <1>1, <1>2, <1>6 DEF Age
<1>7. CASE Recover
  BY <1>1, <1>2, <1>7 DEF Recover
<1>8. CASE \E m \in Managers, h \in Gens : EditDraft(m, h)
  <2>1. PICK m \in Managers, h \in Gens : EditDraft(m, h)
    BY <1>8
  <2>2. PICK draft \in Valid(gen[h].seller, "edit") : gen' = [gen EXCEPT ![h].draft = draft]
    BY <2>1 DEF EditDraft
  <2>3. CASE h # g
    BY <1>1, <1>2, <2>2, <2>3
  <2>4. CASE h = g
    BY <1>1, <2>2, <2>4 DEF Gen
  <2> QED
    BY <2>3, <2>4
<1>9. CASE UNCHANGED gen
  BY <1>2, <1>9
<1>10. CASE \E m \in Managers, c \in Channels, S \in Patches : OpenPatch(m, c, S)
  BY <1>9, <1>10 DEF OpenPatch, rows
<1>11. CASE \E m \in Managers, h \in Gens, T \in SUBSET Channels, o \in BOOLEAN :
             OpenApply(m, h, T, o)
  BY <1>9, <1>11 DEF OpenApply, rows
<1>12. CASE \E m \in Managers : Proceed(m) \/ GiveUp(m)
  BY <1>9, <1>12 DEF Proceed, SavePatch, LoadTarget, SaveTarget, Commit, GiveUp, rows
<1>13. CASE UNCHANGED vars
  BY <1>9, <1>13 DEF vars, rows
<1> QED
  BY <1>3, <1>4, <1>5, <1>6, <1>7, <1>8, <1>10, <1>11, <1>12, <1>13 DEF Next

(* A finished generation that no worker works on keeps its verdict, and its *)
(* draft changes only to one a manager wrote: a redelivered                *)
(* generate_marketplace_content and the sweep leave it.                    *)
THEOREM FinishedGenerationStays == Spec => FinishedStays
<1>1. ContentInv /\ [Next]_vars =>
        [\A g \in Gens :
           (gen[g].status \in Final /\ \A w \in Workers : worker[w] # g) =>
             /\ gen'[g].status = gen[g].status
             /\ gen'[g].draft \in {gen[g].draft} \cup Valid(gen[g].seller, "edit")]_vars
  BY FinishedStep
<1> QED
  BY <1>1, ContentAlways, PTL DEF Spec, FinishedStays

-----------------------------------------------------------------------------
(* Configurations change only when a PATCH saves or an apply commits.      *)
LEMMA ConfigChanges ==
  ASSUME ContentInv, [Next]_vars, config' # config
  PROVE  \E m \in Managers : SavePatch(m) \/ Commit(m)
<1>1. CASE \E g \in Gens, S \in Snapshots, T \in Selections : Create(g, S, T)
  BY <1>1 DEF Create
<1>2. CASE \E w \in Workers, g \in Gens : Take(w, g)
  BY <1>2 DEF Take
<1>3. CASE \E w \in Workers : Finish(w) \/ Disturb(w)
  BY <1>3 DEF Finish, Disturb
<1>4. CASE (\E g \in Gens : Age(g)) \/ Recover
  BY <1>4 DEF Age, Recover
<1>5. CASE \E m \in Managers, g \in Gens : EditDraft(m, g)
  BY <1>5 DEF EditDraft
<1>6. CASE \E m \in Managers, c \in Channels, S \in Patches : OpenPatch(m, c, S)
  BY <1>6 DEF OpenPatch, rows
<1>7. CASE \E m \in Managers, g \in Gens, T \in SUBSET Channels, o \in BOOLEAN :
             OpenApply(m, g, T, o)
  BY <1>7 DEF OpenApply, rows
<1>8. CASE \E m \in Managers : Proceed(m) \/ GiveUp(m)
  BY <1>8 DEF Proceed, LoadTarget, SaveTarget, GiveUp, rows
<1>9. CASE UNCHANGED vars
  BY <1>9 DEF vars, rows
<1> QED
  BY <1>1, <1>2, <1>3, <1>4, <1>5, <1>6, <1>7, <1>8, <1>9 DEF Next

(* What replaces a typed value names its field, may overwrite it, or has   *)
(* loaded another value.                                                   *)
LEMMA ReplacedBy ==
  ASSUME ContentInv, [Next]_vars, NEW c \in Channels, NEW f \in Fields,
         config[c][f] # Empty, config'[c][f] # config[c][f]
  PROVE  \E m \in Managers : Ends(m) /\ \E r \in {request[m]} :
           \/ r.kind = "patch" /\ r.at = c /\ (f \in r.set \/ r.read[f] # config[c][f])
           \/ r.kind = "apply" /\ Holds(m, c) /\ (r.overwrite \/ r.saved[c].was[f] # config[c][f])
<1>1. PICK m \in Managers : SavePatch(m) \/ Commit(m)
  BY ConfigChanges
<1> DEFINE r == request[m]
<1>2. TypeOK /\ config \in [Channels -> Texts]
  BY DEF ContentInv, Consistent, TypeOK
<1>3. Ends(m)
  <2>1. request' = [request EXCEPT ![m] = NoRequest] /\ request[m] # NoRequest
    BY <1>1 DEF SavePatch, Commit, Applying, NoRequest
  <2> QED
    BY <1>2, <2>1 DEF Ends, Idle, TypeOK
<1>4. CASE SavePatch(m)
  <2>1. r.kind = "patch" /\ config' = [config EXCEPT ![r.at] = Patched(r)]
    BY <1>4 DEF SavePatch
  <2>2. r.at \in Channels
    BY <1>2, <2>1, Kinds DEF Patch
  <2>3. c = r.at /\ config'[c] = Patched(r)
    BY <1>2, <2>1, <2>2
  <2>4. f \in r.set \/ r.read[f] # config[c][f]
    BY <2>3 DEF Patched
  <2> QED
    BY <1>3, <2>1, <2>3, <2>4
<1>5. CASE Commit(m)
  <2>1. /\ Applying(m)
        /\ config' = [d \in Channels |-> IF Holds(m, d) THEN r.saved[d].now ELSE config[d]]
    BY <1>5 DEF Commit
  <2>2. Holds(m, c) /\ config'[c] = r.saved[c].now
    BY <2>1
  <2>3. r.overwrite \/ r.saved[c].was[f] # config[c][f]
    BY <2>2 DEF ContentInv, SavedKeeps
  <2> QED
    BY <1>3, <2>1, <2>2, <2>3 DEF Applying
<1> QED
  BY <1>1, <1>4, <1>5

(* What a manager typed into a configuration is replaced only by a PATCH   *)
(* that names it, an apply that may overwrite it, or a request that had    *)
(* loaded another value: the PATCH views of the configurations and         *)
(* ProductMarketplaceContentGenerationApplyView.post without overwrite.    *)
THEOREM TypedTextKept == Spec => TextKept
<1>1. ContentInv /\ [Next]_vars =>
        [\A c \in Channels, f \in Fields :
           (config[c][f] # Empty /\ config'[c][f] # config[c][f]) =>
             \E m \in Managers : Ends(m) /\ \E r \in {request[m]} :
               \/ r.kind = "patch" /\ r.at = c /\ (f \in r.set \/ r.read[f] # config[c][f])
               \/ r.kind = "apply" /\ Holds(m, c) /\ (r.overwrite \/ r.saved[c].was[f] # config[c][f])]_vars
  BY ReplacedBy
<1> QED
  BY <1>1, ContentAlways, PTL DEF Spec, TextKept
=============================================================================
