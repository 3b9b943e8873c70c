--------------------------- MODULE SellerPurgeProofs ---------------------------
(***************************************************************************)
(* Proofs about accounts and the deletion of a seller, for any number of   *)
(* attempts, requests, listings, retries and faults.  A code answers for   *)
(* one thing, sessions end with the password they were given for, and a    *)
(* seller who is gone leaves nothing on the marketplaces.                  *)
(***************************************************************************)
EXTENDS SellerPurge, FiniteSetTheorems, TLAPS

(* The verification code: no more codes than requests, and an attempt for  *)
(* each wrong entry that was compared with the code that is held.          *)
EmailInv ==
  /\ email \in Code /\ email.last <= events /\ wrong.email \in 0 .. MaxAttempts
  /\ email.held => wrong.email <= email.attempts
  /\ Unregistered => wrong.email = 0 /\ ~email.held

(* The reset code: a code still held has replaced nothing, nor has a later *)
(* one; stamps only grow, and the token in force was bought with the code  *)
(* that is held.                                                           *)
ResetInv ==
  /\ reset \in Code /\ reset.last <= events /\ wrong.reset \in 0 .. MaxAttempts
  /\ reset.held => wrong.reset <= reset.attempts /\ resets[reset.last] = 0
  /\ resets \in [CodeIds -> {0, 1}]
  /\ \A c \in CodeIds : c > reset.last => resets[c] = 0
  /\ stamp \in [now : CodeIds, last : CodeIds]
  /\ stamp.now <= stamp.last /\ stamp.last <= events
  /\ tokens \subseteq Token
  /\ \A t \in tokens : /\ 1 <= t.stamp /\ t.stamp <= stamp.last
                       /\ t.stamp = stamp.now => reset.held /\ t.code = reset.last

(* Password changes past their check, each of which will make one password. *)
Changes == {p \in pending : p.what = "change"}

(* The password: each one so far, and each to come from a change in        *)
(* progress, has cost a request; a request in progress checked the password *)
(* in force or one that a login is known to have outlived.                 *)
PasswordInv ==
  /\ account \in Account /\ sessions \subseteq Passwords /\ pending \subseteq Request
  /\ late \subseteq Passwords /\ events \in 0 .. MaxEvents
  /\ IsFiniteSet(Changes) /\ account.password + Cardinality(Changes) <= events + 1
  /\ \A p \in pending : p.password = account.password \/ p.password \in late
  /\ SessionsEnd

AccountInv ==
  EmailInv /\ ResetInv /\ PasswordInv /\ wrong \in [email : Nat, reset : Nat]

(* Types of what the purge adds to the account.                            *)
PurgeTypes ==
  /\ rows \in [Listings -> RowStatus] /\ jobs \in [Listings -> Job]
  /\ online \subseteq Listings /\ code \in {"none", "reserved", "consumed", "available"}
  /\ purge \in [pc : {"idle", "checked", "erased"}, by : {"none", "request", "finalize"},
                rows : SUBSET Listings, jobs : SUBSET Listings]
  /\ finals \subseteq 0 .. MaxRetries /\ faults \in 0 .. MaxFaults /\ crossed \in BOOLEAN
  /\ purge.pc # "idle" => purge.by # "none"
  /\ \A l \in Listings : jobs[l].kind = "none" \/ jobs[l].pc = "none" => jobs[l] = NoJob

(* While the seller exists: what customers see has an active row, or one   *)
(* that a job has marked busy, and a job that could have changed that has  *)
(* not done so yet.                                                        *)
Shown(l) ==
  /\ l \in online => rows[l] \in {"active", "busy"}
  /\ jobs[l].kind = "publish" /\ jobs[l].pc \in {"queued", "lost", "claimed", "started", "failed"}
       => l \notin online
  /\ jobs[l].kind = "remove" /\ jobs[l].pc = "ok" => l \notin online
  /\ jobs[l].pc \in {"started", "ok", "failed"} => rows[l] = "busy"

(* While a transaction deletes the seller and nobody publishes: no job, no *)
(* busy row, and no active one once it deletes.                            *)
Quiet(l) ==
  /\ jobs[l] = NoJob /\ rows[l] # "busy"
  /\ purge.pc = "erased" \/ purge.by = "finalize" => rows[l] # "active"

Market ==
  /\ ~Deleted => \A l \in Listings : Shown(l)
  /\ purge # Closed /\ ~crossed => \A l \in Listings : Quiet(l)
  /\ Deleted => purge = Closed

PurgeInv == AccountInv /\ PurgeTypes /\ Market /\ NothingLeft

-----------------------------------------------------------------------------
(* What the invariant of the account says of the properties that are run.  *)
LEMMA AccountInvImplies == AccountInv => AccountTypeOK /\ CodesHold /\ SessionsEnd
<1> SUFFICES ASSUME AccountInv PROVE AccountTypeOK /\ CodesHold /\ SessionsEnd
  OBVIOUS
<1>1. AccountTypeOK
  BY DEF AccountInv, EmailInv, ResetInv, PasswordInv, AccountTypeOK
<1>2. CodesHold
  <2>1. \A c \in CodeIds : resets[c] <= 1
    <3>1. \A c \in CodeIds : resets[c] \in {0, 1}
      BY DEF AccountInv, ResetInv
    <3> QED
      BY <3>1
  <2>2. wrong.email <= MaxAttempts /\ wrong.reset <= MaxAttempts
    BY AttemptsAssumption DEF AccountInv, EmailInv, ResetInv
  <2>3. \A t \in tokens : t.stamp = stamp.now => reset.held /\ t.code = reset.last
    BY DEF AccountInv, ResetInv
  <2> QED
    BY <2>1, <2>2, <2>3 DEF CodesHold
<1> QED
  BY <1>1, <1>2 DEF AccountInv, PasswordInv

LEMMA InitAccount == Init => AccountInv
<1> SUFFICES ASSUME Init PROVE AccountInv
  OBVIOUS
<1>1. NoCode \in Code /\ NoCode.last = 0 /\ ~NoCode.held
  BY AttemptsAssumption, EventsAssumption DEF NoCode, Code, CodeIds
<1>2. EmailInv
  BY <1>1, AttemptsAssumption DEF Init, EmailInv
<1>3. ResetInv
  <2>1. 0 \in CodeIds
    BY EventsAssumption DEF CodeIds
  <2> QED
    BY <1>1, <2>1, AttemptsAssumption DEF Init, ResetInv
<1>4. PasswordInv
  <2>1. account \in Account /\ account.password = 1
    <3>1. 1 \in Passwords
      BY EventsAssumption DEF Passwords
    <3>2. CASE account \in [status : {"absent"}, verified : {FALSE}, active : {FALSE}, password : {1}]
      BY <3>1, <3>2 DEF Account
    <3>3. CASE account \in [status : {"present"}, verified : {TRUE}, active : {TRUE}, password : {1}]
      BY <3>1, <3>3 DEF Account
    <3> QED
      BY <3>2, <3>3 DEF Init
  <2>2. Changes = {}
    BY DEF Init, Changes
  <2>3. IsFiniteSet(Changes) /\ Cardinality(Changes) = 0
    BY <2>2, FS_EmptySet
  <2> QED
    BY <2>1, <2>3, EventsAssumption DEF Init, PasswordInv, SessionsEnd
<1> QED
  BY <1>2, <1>3, <1>4 DEF AccountInv, Init

-----------------------------------------------------------------------------
(* A code that is issued, cleared, missed or ages stays a code.            *)
LEMMA CodeChanges ==
  ASSUME NEW m \in Code
  PROVE  /\ m.last <= MaxEvents =>
              /\ Issued(m) \in Code /\ Issued(m).last = m.last + 1 /\ Issued(m).held
              /\ Issued(m).attempts = 0
         /\ Cleared(m) \in Code /\ Cleared(m).last = m.last /\ ~Cleared(m).held
         /\ Usable(m) => /\ Miss(m) \in Code /\ Miss(m).last = m.last /\ Miss(m).held = m.held
                         /\ Miss(m).attempts = m.attempts + 1
                         /\ m.attempts + 1 <= MaxAttempts
<1>1. m.last \in Nat /\ m.attempts \in Nat
  BY AttemptsAssumption, EventsAssumption DEF Code, CodeIds
<1>2. m.last <= MaxEvents => m.last + 1 \in CodeIds
  BY <1>1, EventsAssumption DEF CodeIds
<1>3. Usable(m) => m.attempts + 1 \in 0 .. MaxAttempts
  BY <1>1, AttemptsAssumption DEF Usable
<1>4. 0 \in 0 .. MaxAttempts
  BY AttemptsAssumption
<1>5. m.last <= MaxEvents => Issued(m) \in Code
  BY <1>2, <1>4 DEF Issued, Code
<1>6. Cleared(m) \in Code /\ Cleared(m).last = m.last /\ ~Cleared(m).held
  BY <1>4 DEF Cleared, Code
<1>7. Usable(m) => /\ Miss(m) \in Code /\ Miss(m).last = m.last /\ Miss(m).held = m.held
                   /\ Miss(m).attempts = m.attempts + 1
  BY <1>3 DEF Miss, Code
<1> QED
  BY <1>3, <1>5, <1>6, <1>7, AttemptsAssumption DEF Issued

LEMMA CodeAges ==
  ASSUME NEW m \in Code
  PROVE  /\ [m EXCEPT !.live = FALSE] \in Code /\ [m EXCEPT !.cool = FALSE] \in Code
         /\ [m EXCEPT !.live = FALSE].last = m.last /\ [m EXCEPT !.cool = FALSE].last = m.last
         /\ [m EXCEPT !.live = FALSE].held = m.held /\ [m EXCEPT !.cool = FALSE].held = m.held
         /\ [m EXCEPT !.live = FALSE].attempts = m.attempts
         /\ [m EXCEPT !.cool = FALSE].attempts = m.attempts
BY DEF Code

(* A step that leaves the verification code alone.                         *)
LEMMA EmailFrame ==
  ASSUME AccountInv, email' = email, wrong'.email = wrong.email, events' \in Nat,
         events <= events', Unregistered' => Unregistered
  PROVE  EmailInv'
<1>1. email.last \in Nat /\ events \in Nat
  BY EventsAssumption DEF AccountInv, EmailInv, PasswordInv, Code, CodeIds
<1> QED
  BY <1>1 DEF AccountInv, EmailInv

(* A step that leaves the reset code and its tokens alone, or some expire. *)
LEMMA ResetFrame ==
  ASSUME AccountInv, UNCHANGED <<reset, resets, stamp>>, wrong'.reset = wrong.reset,
         tokens' \subseteq tokens, events' \in Nat, events <= events'
  PROVE  ResetInv'
<1>1. reset.last \in Nat /\ stamp.last \in Nat /\ events \in Nat
  BY EventsAssumption DEF AccountInv, ResetInv, PasswordInv, Code, CodeIds
<1>2. reset.last <= events' /\ stamp.last <= events'
  BY <1>1 DEF AccountInv, ResetInv
<1> QED
  BY <1>2 DEF AccountInv, ResetInv

(* A step that leaves the password and the requests in progress alone, or  *)
(* some sessions end.                                                      *)
LEMMA PasswordFrame ==
  ASSUME AccountInv, account' \in Account, account'.password = account.password,
         UNCHANGED <<pending, late>>, sessions' \subseteq sessions,
         events' \in 0 .. MaxEvents, events <= events'
  PROVE  PasswordInv'
<1>1. Changes' = Changes
  BY DEF Changes
<1>2. /\ account.password \in Nat /\ events \in Nat /\ events' \in Nat /\ Cardinality(Changes) \in Nat
      /\ account.password + Cardinality(Changes) <= events + 1
  BY FS_CardinalityType, EventsAssumption DEF AccountInv, PasswordInv, Account, Passwords
<1>3. account'.password + Cardinality(Changes)' <= events' + 1
  BY <1>1, <1>2
<1> QED
  BY <1>1, <1>3 DEF AccountInv, PasswordInv, SessionsEnd

(* A request within its bound.                                             *)
LEMMA EventStep ==
  ASSUME AccountInv, Event
  PROVE  events' \in 0 .. MaxEvents /\ events' \in Nat /\ events \in Nat /\ events' = events + 1
         /\ events <= MaxEvents
BY EventsAssumption DEF AccountInv, PasswordInv, Event

-----------------------------------------------------------------------------
LEMMA RegisterStep ==
  ASSUME AccountInv, Register
  PROVE  AccountInv'
<1>1. events' \in 0 .. MaxEvents /\ events' \in Nat /\ events \in Nat /\ events' = events + 1
      /\ events <= MaxEvents
  BY EventStep DEF Register
<1>2. /\ Unregistered /\ account' = [account EXCEPT !.status = "present"] /\ email' = Issued(email)
      /\ UNCHANGED <<reset, stamp, tokens, sessions, pending, wrong, resets, late>>
  BY DEF Register
<1>3. account' \in Account /\ account'.password = account.password /\ ~Unregistered'
  BY <1>2 DEF AccountInv, PasswordInv, Account, Unregistered
<1>4. EmailInv'
  <2>1. email \in Code /\ email.last <= events /\ email.last \in Nat
    BY EventsAssumption DEF AccountInv, EmailInv, Code, CodeIds
  <2>2. email' \in Code /\ email'.last = email.last + 1 /\ email'.attempts = 0
    BY <1>1, <1>2, <2>1, CodeChanges, EventsAssumption
  <2>3. wrong'.email = 0 /\ 0 \in 0 .. MaxAttempts
    BY <1>2, AttemptsAssumption DEF AccountInv, EmailInv
  <2>4. email'.last <= events'
    BY <1>1, <2>1, <2>2
  <2> QED
    BY <1>3, <2>2, <2>3, <2>4 DEF EmailInv
<1>5. ResetInv'
  BY <1>1, <1>2, ResetFrame
<1>6. PasswordInv'
  BY <1>1, <1>2, <1>3, PasswordFrame
<1> QED
  BY <1>2, <1>4, <1>5, <1>6 DEF AccountInv

(* A wrong entry that is compared is counted with the attempts.            *)
LEMMA MissedCount ==
  ASSUME AccountInv
  PROVE  /\ Missed("email") => /\ wrong' \in [email : Nat, reset : Nat]
                               /\ wrong'.email = wrong.email + 1 /\ wrong'.reset = wrong.reset
         /\ Missed("reset") => /\ wrong' \in [email : Nat, reset : Nat]
                               /\ wrong'.reset = wrong.reset + 1 /\ wrong'.email = wrong.email
BY DEF AccountInv, Missed

(* A check that succeeds adds a request that knows the password in force.  *)
LEMMA CheckedLogin ==
  ASSUME AccountInv, Checked("login"), account' \in Account,
         account'.password = account.password, UNCHANGED <<sessions, late>>,
         events' \in 0 .. MaxEvents, events <= events'
  PROVE  PasswordInv'
<1> DEFINE p == [what |-> "login", password |-> account.password]
<1>1. pending' = pending \cup {p} /\ p \in Request /\ p.what = "login"
      /\ p.password = account.password
  BY DEF Checked, Request, AccountInv, PasswordInv, Account
<1> HIDE DEF p
<1>2. Changes' = Changes
  BY <1>1 DEF Changes
<1>3. /\ account.password \in Nat /\ events \in Nat /\ events' \in Nat /\ Cardinality(Changes) \in Nat
      /\ account.password + Cardinality(Changes) <= events + 1
  BY FS_CardinalityType, EventsAssumption DEF AccountInv, PasswordInv, Account, Passwords
<1>4. account'.password + Cardinality(Changes)' <= events' + 1
  BY <1>2, <1>3
<1>5. pending' \subseteq Request
      /\ \A r \in pending' : r.password = account'.password \/ r.password \in late'
  BY <1>1 DEF AccountInv, PasswordInv
<1> QED
  BY <1>2, <1>4, <1>5 DEF AccountInv, PasswordInv, SessionsEnd

LEMMA VerifyEmailStep ==
  ASSUME AccountInv, NEW c, VerifyEmail(c)
  PROVE  AccountInv'
<1>1. events' \in 0 .. MaxEvents /\ events' \in Nat /\ events \in Nat /\ events' = events + 1
      /\ events <= events' /\ events <= MaxEvents
  BY EventStep DEF VerifyEmail
<1>2. /\ Present /\ Usable(email)
      /\ UNCHANGED <<reset, stamp, tokens, sessions, resets, late>>
  BY DEF VerifyEmail
<1>3. email \in Code /\ email.last \in Nat /\ email.last <= events /\ wrong.email \in 0 .. MaxAttempts
      /\ (email.held => wrong.email <= email.attempts) /\ email.attempts \in Nat
  BY EventsAssumption, AttemptsAssumption DEF AccountInv, EmailInv, Code, CodeIds
<1>4. email.last <= events'
  BY <1>1, <1>3
<1>5. CASE c = email.last
  <2>1. /\ account' = [account EXCEPT !.verified = TRUE, !.active = TRUE]
        /\ email' = Cleared(email) /\ Checked("login") /\ UNCHANGED wrong
    BY <1>5 DEF VerifyEmail, SignIn
  <2>2. account' \in Account /\ account'.password = account.password
        /\ account'.status = "present"
    BY <1>2, <2>1 DEF AccountInv, PasswordInv, Account, Present
  <2>3. EmailInv'
    <3>1. email' \in Code /\ email'.last = email.last /\ ~email'.held
      BY <1>3, <2>1, CodeChanges
    <3> QED
      BY <1>3, <1>4, <2>1, <2>2, <3>1 DEF EmailInv, Unregistered
  <2>4. ResetInv'
    BY <1>1, <1>2, <2>1, ResetFrame
  <2>5. PasswordInv'
    BY <1>1, <1>2, <2>1, <2>2, CheckedLogin
  <2> QED
    BY <2>1, <2>3, <2>4, <2>5 DEF AccountInv
<1>6. CASE c # email.last
  <2>1. email' = Miss(email) /\ Missed("email") /\ UNCHANGED <<account, pending>>
    BY <1>6 DEF VerifyEmail
  <2>2. /\ wrong' \in [email : Nat, reset : Nat]
        /\ wrong'.email = wrong.email + 1 /\ wrong'.reset = wrong.reset
    BY <2>1, MissedCount
  <2>3. EmailInv'
    <3>1. /\ email' \in Code /\ email'.last = email.last /\ email'.held = email.held
          /\ email'.attempts = email.attempts + 1 /\ email.attempts + 1 <= MaxAttempts
          /\ email.held
      BY <1>2, <1>3, <2>1, CodeChanges DEF Usable
    <3>2. wrong'.email <= email'.attempts /\ wrong'.email \in 0 .. MaxAttempts
      BY <1>3, <2>2, <3>1, AttemptsAssumption
    <3>3. ~Unregistered'
      BY <1>2, <2>1 DEF Unregistered, Present
    <3> QED
      BY <1>4, <3>1, <3>2, <3>3 DEF EmailInv
  <2>4. ResetInv'
    BY <1>1, <1>2, <2>2, ResetFrame
  <2>5. PasswordInv'
    BY <1>1, <1>2, <2>1, PasswordFrame DEF AccountInv, PasswordInv
  <2> QED
    BY <2>2, <2>3, <2>4, <2>5 DEF AccountInv
<1> QED
  BY <1>5, <1>6

LEMMA ResendStep ==
  ASSUME AccountInv, Resend
  PROVE  AccountInv'
<1>1. events' \in 0 .. MaxEvents /\ events' \in Nat /\ events \in Nat /\ events' = events + 1
      /\ events <= events' /\ events <= MaxEvents
  BY EventStep DEF Resend
<1>2. /\ Present /\ email' = Issued(email) /\ wrong' = [wrong EXCEPT !.email = 0]
      /\ UNCHANGED <<account, reset, stamp, tokens, sessions, pending, resets, late>>
  BY DEF Resend
<1>3. wrong' \in [email : Nat, reset : Nat] /\ wrong'.email = 0 /\ wrong'.reset = wrong.reset
  BY <1>2 DEF AccountInv
<1>4. EmailInv'
  <2>1. email \in Code /\ email.last <= events /\ email.last \in Nat
    BY EventsAssumption DEF AccountInv, EmailInv, Code, CodeIds
  <2>2. email' \in Code /\ email'.last = email.last + 1 /\ email'.attempts = 0
    BY <1>1, <1>2, <2>1, CodeChanges, EventsAssumption
  <2>3. 0 \in 0 .. MaxAttempts /\ ~Unregistered'
    BY <1>2, AttemptsAssumption DEF Unregistered, Present
  <2>4. email'.last <= events'
    BY <1>1, <2>1, <2>2
  <2> QED
    BY <1>3, <2>2, <2>3, <2>4 DEF EmailInv
<1>5. ResetInv'
  BY <1>1, <1>2, <1>3, ResetFrame
<1>6. PasswordInv'
  BY <1>1, <1>2, PasswordFrame DEF AccountInv, PasswordInv
<1> QED
  BY <1>3, <1>4, <1>5, <1>6 DEF AccountInv

LEMMA ManagerConfirmStep ==
  ASSUME AccountInv, ManagerConfirm
  PROVE  AccountInv'
<1>1. events' \in 0 .. MaxEvents /\ events' \in Nat /\ events \in Nat /\ events' = events + 1
      /\ events <= events'
  BY EventStep DEF ManagerConfirm
<1>2. /\ Present /\ account' = [account EXCEPT !.verified = TRUE, !.active = TRUE]
      /\ email' = Cleared(email)
      /\ UNCHANGED <<reset, stamp, tokens, sessions, pending, wrong, resets, late>>
  BY DEF ManagerConfirm
<1>3. account' \in Account /\ account'.password = account.password
      /\ account'.status = "present"
  BY <1>2 DEF AccountInv, PasswordInv, Account, Present
<1>4. EmailInv'
  <2>1. email \in Code /\ email.last \in Nat /\ email.last <= events
    BY EventsAssumption DEF AccountInv, EmailInv, Code, CodeIds
  <2>2. email' \in Code /\ email'.last = email.last /\ ~email'.held
    BY <1>2, <2>1, CodeChanges
  <2>3. email'.last <= events' /\ wrong'.email \in 0 .. MaxAttempts /\ ~Unregistered'
    BY <1>1, <1>2, <1>3, <2>1, <2>2 DEF AccountInv, EmailInv, Unregistered
  <2> QED
    BY <2>2, <2>3 DEF EmailInv
<1>5. ResetInv'
  BY <1>1, <1>2, ResetFrame
<1>6. PasswordInv'
  BY <1>1, <1>2, <1>3, PasswordFrame
<1> QED
  BY <1>2, <1>4, <1>5, <1>6 DEF AccountInv

-----------------------------------------------------------------------------
LEMMA RequestResetStep ==
  ASSUME AccountInv, RequestReset
  PROVE  AccountInv'
<1>1. events' \in 0 .. MaxEvents /\ events' \in Nat /\ events \in Nat /\ events' = events + 1
      /\ events <= events' /\ events <= MaxEvents
  BY EventStep DEF RequestReset
<1>2. /\ reset' = Issued(reset) /\ wrong' = [wrong EXCEPT !.reset = 0]
      /\ stamp' = [stamp EXCEPT !.now = 0]
      /\ UNCHANGED <<account, email, tokens, sessions, pending, resets, late>>
  BY DEF RequestReset
<1>3. wrong' \in [email : Nat, reset : Nat] /\ wrong'.reset = 0 /\ wrong'.email = wrong.email
  BY <1>2 DEF AccountInv
<1>4. ResetInv'
  <2>1. reset \in Code /\ reset.last <= events /\ reset.last \in Nat
    BY EventsAssumption DEF AccountInv, ResetInv, Code, CodeIds
  <2>2. reset' \in Code /\ reset'.last = reset.last + 1 /\ reset'.attempts = 0
    BY <1>1, <1>2, <2>1, CodeChanges, EventsAssumption
  <2>3. 0 \in 0 .. MaxAttempts /\ reset'.last <= events' /\ 0 \in CodeIds
    BY <1>1, <2>1, <2>2, AttemptsAssumption, EventsAssumption DEF CodeIds
  <2>4. /\ stamp' \in [now : CodeIds, last : CodeIds] /\ stamp'.now = 0 /\ stamp'.last = stamp.last
        /\ stamp.last \in Nat /\ stamp.last <= events
    BY <1>2, <2>3, EventsAssumption DEF AccountInv, ResetInv, CodeIds
  <2>5. stamp'.now <= stamp'.last /\ stamp'.last <= events'
    BY <1>1, <2>4
  <2>6. \A c \in CodeIds : c > reset.last => resets[c] = 0
    BY DEF AccountInv, ResetInv
  <2>7. resets'[reset'.last] = 0
    <3>1. reset'.last \in CodeIds /\ reset'.last > reset.last
      BY <1>1, <2>1, <2>2, EventsAssumption DEF CodeIds
    <3> QED
      BY <1>2, <2>6, <3>1
  <2>8. \A c \in CodeIds : c > reset'.last => resets'[c] = 0
    <3> SUFFICES ASSUME NEW c \in CodeIds, c > reset'.last PROVE resets[c] = 0
      BY <1>2
    <3>1. c \in Nat /\ c > reset.last
      BY <2>1, <2>2, EventsAssumption DEF CodeIds
    <3> QED
      BY <2>6, <3>1
  <2>9. \A t \in tokens' : 1 <= t.stamp /\ t.stamp <= stamp'.last /\ t.stamp # stamp'.now
    <3> SUFFICES ASSUME NEW t \in tokens PROVE 1 <= t.stamp /\ t.stamp <= stamp.last /\ t.stamp # 0
      BY <1>2, <2>4
    <3>1. t \in Token /\ 1 <= t.stamp /\ t.stamp <= stamp.last
      BY DEF AccountInv, ResetInv
    <3> QED
      BY <3>1
  <2>10. tokens' \subseteq Token /\ resets' \in [CodeIds -> {0, 1}]
    BY <1>2 DEF AccountInv, ResetInv
  <2>11. wrong'.reset \in 0 .. MaxAttempts /\ wrong'.reset <= reset'.attempts
    BY <1>3, <2>2, <2>3
  <2> QED
    BY <2>2, <2>3, <2>4, <2>5, <2>7, <2>8, <2>9, <2>10, <2>11 DEF ResetInv
<1>5. EmailInv'
  BY <1>1, <1>2, <1>3, EmailFrame DEF Unregistered
<1>6. PasswordInv'
  BY <1>1, <1>2, PasswordFrame DEF AccountInv, PasswordInv
<1> QED
  BY <1>3, <1>4, <1>5, <1>6 DEF AccountInv

LEMMA VerifyResetStep ==
  ASSUME AccountInv, NEW c, VerifyReset(c)
  PROVE  AccountInv'
<1>1. events' \in 0 .. MaxEvents /\ events' \in Nat /\ events \in Nat /\ events' = events + 1
      /\ events <= events' /\ events <= MaxEvents
  BY EventStep DEF VerifyReset
<1>2. Usable(reset) /\ UNCHANGED <<account, email, sessions, pending, resets, late>>
  BY DEF VerifyReset
<1>3. reset \in Code /\ reset.held /\ reset.last \in CodeIds /\ reset.last <= events
      /\ wrong.reset \in 0 .. MaxAttempts /\ wrong.reset <= reset.attempts /\ reset.attempts \in Nat
  BY <1>2, AttemptsAssumption DEF AccountInv, ResetInv, Code, Usable
<1>4. reset.last <= events' /\ reset.last \in Nat
  BY <1>1, <1>3, EventsAssumption DEF CodeIds
<1>5. PasswordInv'
  BY <1>1, <1>2, PasswordFrame DEF AccountInv, PasswordInv
<1>6. CASE c = reset.last
  <2> DEFINE n == stamp.last + 1
             t == [stamp |-> n, code |-> c]
  <2>1. /\ stamp' = [now |-> n, last |-> n] /\ tokens' = tokens \cup {t}
        /\ UNCHANGED <<reset, wrong>>
    BY <1>6 DEF VerifyReset
  <2>2. stamp.last \in Nat /\ stamp.last <= events
    BY EventsAssumption DEF AccountInv, ResetInv, CodeIds
  <2>3. n \in CodeIds /\ n \in Nat /\ n <= events' /\ 1 <= n /\ stamp.last < n
    BY <1>1, <2>2, EventsAssumption DEF CodeIds
  <2>4. t \in Token /\ t.stamp = n /\ t.code = reset.last
    BY <1>3, <1>6, <2>3 DEF Token
  <2>5. stamp' \in [now : CodeIds, last : CodeIds] /\ stamp'.now = n /\ stamp'.last = n
    BY <2>1, <2>3
  <2>6. \A u \in tokens : 1 <= u.stamp /\ u.stamp <= n /\ u.stamp # n
    <3> SUFFICES ASSUME NEW u \in tokens PROVE 1 <= u.stamp /\ u.stamp <= n /\ u.stamp # n
      OBVIOUS
    <3>1. u.stamp \in Nat /\ 1 <= u.stamp /\ u.stamp <= stamp.last
      BY EventsAssumption DEF AccountInv, ResetInv, Token, CodeIds
    <3> QED
      BY <2>2, <2>3, <3>1
  <2> HIDE DEF n, t
  <2>7. \A u \in tokens' : /\ 1 <= u.stamp /\ u.stamp <= stamp'.last
                           /\ u.stamp = stamp'.now => reset'.held /\ u.code = reset'.last
    <3> SUFFICES ASSUME NEW u \in tokens'
                 PROVE  /\ 1 <= u.stamp /\ u.stamp <= stamp'.last
                        /\ u.stamp = stamp'.now => reset'.held /\ u.code = reset'.last
      OBVIOUS
    <3>1. CASE u = t
      <4>1. n <= n
        BY <2>3
      <4> QED
        BY <1>3, <2>1, <2>3, <2>4, <2>5, <3>1, <4>1
    <3>2. CASE u \in tokens
      BY <2>5, <2>6, <3>2
    <3> QED
      BY <2>1, <3>1, <3>2
  <2>8. ResetInv'
    <3>1. stamp'.now <= stamp'.last /\ stamp'.last <= events'
      BY <2>3, <2>5
    <3>2. tokens' \subseteq Token
      BY <2>1, <2>4 DEF AccountInv, ResetInv
    <3> QED
      BY <1>2, <1>4, <2>1, <2>5, <2>7, <3>1, <3>2 DEF AccountInv, ResetInv
  <2>9. EmailInv'
    BY <1>1, <1>2, <2>1, EmailFrame DEF Unregistered
  <2> QED
    BY <1>5, <2>1, <2>8, <2>9 DEF AccountInv
<1>7. CASE c # reset.last
  <2>1. reset' = Miss(reset) /\ Missed("reset") /\ UNCHANGED <<stamp, tokens>>
    BY <1>7 DEF VerifyReset
  <2>2. /\ wrong' \in [email : Nat, reset : Nat]
        /\ wrong'.reset = wrong.reset + 1 /\ wrong'.email = wrong.email
    BY <2>1, MissedCount
  <2>3. /\ reset' \in Code /\ reset'.last = reset.last /\ reset'.held = reset.held
        /\ reset'.attempts = reset.attempts + 1 /\ reset.attempts + 1 <= MaxAttempts
    BY <1>2, <1>3, <2>1, CodeChanges
  <2>4. wrong'.reset <= reset'.attempts /\ wrong'.reset \in 0 .. MaxAttempts
    BY <1>3, <2>2, <2>3, AttemptsAssumption
  <2>5. ResetInv'
    <3>1. stamp.last \in Nat /\ stamp.last <= events
      BY EventsAssumption DEF AccountInv, ResetInv, CodeIds
    <3>2. stamp.last <= events'
      BY <1>1, <3>1
    <3> QED
      BY <1>2, <1>4, <2>1, <2>3, <2>4, <3>2 DEF AccountInv, ResetInv
  <2>6. EmailInv'
    BY <1>1, <1>2, <2>2, EmailFrame DEF Unregistered
  <2> QED
    BY <1>5, <2>2, <2>5, <2>6 DEF AccountInv
<1> QED
  BY <1>6, <1>7

-----------------------------------------------------------------------------
(* A new password ends the sessions of the one before it, and what still   *)
(* knows that one is known to be late.                                     *)
LEMMA NewPasswordStep ==
  ASSUME AccountInv, NewPassword(pending'), pending' \subseteq pending,
         IsFiniteSet(Changes'), account.password + Cardinality(Changes') <= events',
         events' \in 0 .. MaxEvents
  PROVE  /\ PasswordInv' /\ account'.status = account.status
<1>1. /\ account' = [account EXCEPT !.password = @ + 1] /\ sessions' = {}
      /\ late' = late \cup {p.password : p \in pending'}
  BY DEF NewPassword
<1>2. account.password \in Nat /\ 1 <= account.password /\ account \in Account
  BY EventsAssumption DEF AccountInv, PasswordInv, Account, Passwords
<1>3. Cardinality(Changes') \in Nat
  BY FS_CardinalityType
<1>4. account.password + 1 \in Passwords
  BY <1>2, <1>3, EventsAssumption DEF Passwords
<1>5. account' \in Account /\ account'.password = account.password + 1
      /\ account'.status = account.status
  BY <1>1, <1>2, <1>4 DEF Account
<1>6. account'.password + Cardinality(Changes') <= events' + 1
  BY <1>2, <1>3, <1>5, EventsAssumption
<1>7. late' \subseteq Passwords /\ \A p \in pending' : p.password \in late'
  BY <1>1 DEF AccountInv, PasswordInv, Request
<1>8. pending' \subseteq Request
  BY DEF AccountInv, PasswordInv
<1> QED
  BY <1>1, <1>5, <1>6, <1>7, <1>8 DEF PasswordInv, SessionsEnd

LEMMA CompleteResetStep ==
  ASSUME AccountInv, NEW t \in tokens, CompleteReset(t)
  PROVE  AccountInv'
<1>1. events' \in 0 .. MaxEvents /\ events' \in Nat /\ events \in Nat /\ events' = events + 1
      /\ events <= events'
  BY EventStep DEF CompleteReset
<1>2. /\ stamp.now = t.stamp /\ NewPassword(pending)
      /\ reset' = [Cleared(reset) EXCEPT !.cool = FALSE]
      /\ stamp' = [stamp EXCEPT !.now = 0]
      /\ resets' = [resets EXCEPT ![t.code] = @ + 1]
      /\ UNCHANGED <<email, tokens, pending, wrong>>
  BY DEF CompleteReset
<1>3. PasswordInv' /\ account'.status = account.status
  <2>1. Changes' = Changes
    BY <1>2 DEF Changes
  <2>2. /\ account.password \in Nat /\ Cardinality(Changes) \in Nat /\ IsFiniteSet(Changes)
        /\ account.password + Cardinality(Changes) <= events + 1
    BY FS_CardinalityType, EventsAssumption DEF AccountInv, PasswordInv, Account, Passwords
  <2>3. IsFiniteSet(Changes') /\ account.password + Cardinality(Changes') <= events'
    BY <1>1, <2>1, <2>2
  <2> QED
    BY <1>1, <1>2, <2>3, NewPasswordStep
<1>4. /\ t \in Token /\ reset.held /\ t.code = reset.last /\ resets[reset.last] = 0
      /\ reset \in Code /\ reset.last \in CodeIds /\ reset.last \in Nat /\ reset.last <= events
  BY <1>2, EventsAssumption DEF AccountInv, ResetInv, Code, CodeIds
<1>5. ResetInv'
  <2>1. Cleared(reset) \in Code /\ Cleared(reset).last = reset.last /\ ~Cleared(reset).held
    BY <1>4, CodeChanges
  <2>2. reset' \in Code /\ reset'.last = reset.last /\ ~reset'.held
    BY <1>2, <2>1, CodeAges
  <2>3. reset'.last <= events'
    BY <1>1, <1>4, <2>2
  <2>4. /\ resets' \in [CodeIds -> {0, 1}]
        /\ \A c \in CodeIds : c > reset'.last => resets'[c] = 0
    <3>1. resets' = [resets EXCEPT ![reset.last] = 1]
      BY <1>2, <1>4
    <3>2. resets \in [CodeIds -> {0, 1}] /\ \A c \in CodeIds : c > reset.last => resets[c] = 0
      BY DEF AccountInv, ResetInv
    <3> QED
      BY <1>4, <2>2, <3>1, <3>2
  <2>5. /\ stamp' \in [now : CodeIds, last : CodeIds] /\ stamp'.now = 0 /\ stamp'.last = stamp.last
        /\ stamp.last \in Nat /\ stamp.last <= events
    BY <1>2, EventsAssumption DEF AccountInv, ResetInv, CodeIds
  <2>6. stamp'.now <= stamp'.last /\ stamp'.last <= events'
    BY <1>1, <2>5
  <2>7. \A u \in tokens' : 1 <= u.stamp /\ u.stamp <= stamp'.last /\ u.stamp # stamp'.now
    <3> SUFFICES ASSUME NEW u \in tokens PROVE 1 <= u.stamp /\ u.stamp <= stamp.last /\ u.stamp # 0
      BY <1>2, <2>5
    <3>1. 1 <= u.stamp /\ u.stamp <= stamp.last
      BY DEF AccountInv, ResetInv
    <3> QED
      BY <3>1
  <2>8. tokens' \subseteq Token /\ wrong'.reset \in 0 .. MaxAttempts
    BY <1>2 DEF AccountInv, ResetInv
  <2> QED
    BY <2>2, <2>3, <2>4, <2>5, <2>6, <2>7, <2>8 DEF ResetInv
<1>6. EmailInv'
  BY <1>1, <1>2, <1>3, EmailFrame DEF Unregistered
<1> QED
  BY <1>2, <1>3, <1>5, <1>6 DEF AccountInv

-----------------------------------------------------------------------------
(* A password change past its check adds at most one to the changes.       *)
LEMMA CheckStep ==
  ASSUME AccountInv, NEW what \in {"login", "change"}, Check(what)
  PROVE  AccountInv'
<1>1. events' \in 0 .. MaxEvents /\ events' \in Nat /\ events \in Nat /\ events' = events + 1
      /\ events <= events'
  BY EventStep DEF Check
<1>2. /\ Checked(what)
      /\ UNCHANGED <<account, email, reset, stamp, tokens, sessions, wrong, resets, late>>
  BY DEF Check
<1>3. account \in Account /\ account.password \in Passwords /\ account.password \in Nat
  BY EventsAssumption DEF AccountInv, PasswordInv, Account, Passwords
<1>4. PasswordInv'
  <2>1. CASE what = "login"
    BY <1>1, <1>2, <1>3, <2>1, CheckedLogin
  <2>2. CASE what = "change"
    <3> DEFINE p == [what |-> "change", password |-> account.password]
    <3>1. pending' = pending \cup {p} /\ p \in Request /\ p.what = "change"
          /\ p.password = account.password
      BY <1>2, <1>3, <2>2 DEF Checked, Request
    <3> HIDE DEF p
    <3>2. Changes' = Changes \cup {p}
      BY <3>1 DEF Changes
    <3>3. IsFiniteSet(Changes) /\ account.password + Cardinality(Changes) <= events + 1
      BY DEF AccountInv, PasswordInv
    <3>4. /\ IsFiniteSet(Changes') /\ Cardinality(Changes) \in Nat
          /\ Cardinality(Changes') \in {Cardinality(Changes), Cardinality(Changes) + 1}
      BY <3>2, <3>3, FS_AddElement, FS_CardinalityType
    <3>5. account'.password + Cardinality(Changes') <= events' + 1
      BY <1>1, <1>2, <1>3, <3>3, <3>4
    <3>6. pending' \subseteq Request
          /\ \A r \in pending' : r.password = account'.password \/ r.password \in late'
      BY <1>2, <3>1 DEF AccountInv, PasswordInv
    <3> QED
      BY <1>1, <1>2, <3>4, <3>5, <3>6 DEF AccountInv, PasswordInv, SessionsEnd
  <2> QED
    BY <2>1, <2>2
<1>5. EmailInv'
  BY <1>1, <1>2, EmailFrame DEF Unregistered
<1>6. ResetInv'
  BY <1>1, <1>2, ResetFrame
<1> QED
  BY <1>2, <1>4, <1>5, <1>6 DEF AccountInv

(* The count of what is unchanged, for the steps that cost no request.     *)
LEMMA StillCounts ==
  ASSUME AccountInv
  PROVE  /\ events \in 0 .. MaxEvents /\ events \in Nat /\ events <= events
         /\ account \in Account /\ account.password \in Nat /\ account.password \in Passwords
         /\ IsFiniteSet(Changes) /\ Cardinality(Changes) \in Nat
         /\ account.password + Cardinality(Changes) <= events + 1
<1>1. events \in 0 .. MaxEvents /\ account \in Account /\ IsFiniteSet(Changes)
      /\ account.password + Cardinality(Changes) <= events + 1
  BY DEF AccountInv, PasswordInv
<1>2. events \in Nat /\ account.password \in Passwords /\ account.password \in Nat
  BY <1>1, EventsAssumption DEF Account, Passwords
<1> QED
  BY <1>1, <1>2, FS_CardinalityType

LEMMA LogInStep ==
  ASSUME AccountInv, NEW p \in pending, LogIn(p)
  PROVE  AccountInv'
<1>1. /\ p.what = "login" /\ pending' = pending \ {p}
      /\ sessions' = IF Present THEN sessions \cup {p.password} ELSE sessions
      /\ UNCHANGED <<account, email, reset, stamp, tokens, events, wrong, resets, late>>
  BY DEF LogIn
<1>2. PasswordInv'
  <2>1. Changes' = Changes
    BY <1>1 DEF Changes
  <2>2. p \in Request /\ p.password \in Passwords
        /\ (p.password = account.password \/ p.password \in late)
    BY DEF AccountInv, PasswordInv, Request
  <2>3. sessions' \subseteq Passwords /\ \A s \in sessions' : s = account.password \/ s \in late
    BY <1>1, <2>2 DEF AccountInv, PasswordInv, SessionsEnd
  <2>4. /\ IsFiniteSet(Changes)' /\ (account.password + Cardinality(Changes) <= events + 1)'
        /\ pending' \subseteq Request
        /\ \A r \in pending' : r.password = account.password \/ r.password \in late
    BY <1>1, <2>1 DEF AccountInv, PasswordInv
  <2> QED
    BY <1>1, <2>3, <2>4 DEF AccountInv, PasswordInv, SessionsEnd
<1>3. EmailInv'
  BY <1>1, StillCounts, EmailFrame DEF Unregistered
<1>4. ResetInv'
  BY <1>1, StillCounts, ResetFrame
<1> QED
  BY <1>1, <1>2, <1>3, <1>4 DEF AccountInv

LEMMA ChangePasswordStep ==
  ASSUME AccountInv, NEW p \in pending, ChangePassword(p)
  PROVE  AccountInv'
<1>1. /\ p.what = "change" /\ pending' = pending \ {p}
      /\ UNCHANGED <<email, reset, stamp, tokens, events, wrong, resets>>
  BY DEF ChangePassword
<1>2. Changes' = Changes \ {p} /\ p \in Changes
  BY <1>1 DEF Changes
<1>3. IsFiniteSet(Changes') /\ Cardinality(Changes') = Cardinality(Changes) - 1
  BY <1>2, StillCounts, FS_RemoveElement
<1>4. account.password + Cardinality(Changes') <= events'
  BY <1>1, <1>3, StillCounts
<1>5. PasswordInv' /\ account'.status = account.status
  <2>1. CASE Present
    <3>1. NewPassword(pending')
      BY <2>1 DEF ChangePassword
    <3> QED
      BY <1>1, <1>3, <1>4, <3>1, StillCounts, NewPasswordStep
  <2>2. CASE ~Present
    <3>1. UNCHANGED <<account, sessions, late>>
      BY <2>2 DEF ChangePassword
    <3>2. account'.password + Cardinality(Changes') <= events' + 1
      BY <1>1, <1>3, <3>1, StillCounts
    <3> QED
      BY <1>1, <1>3, <3>1, <3>2 DEF AccountInv, PasswordInv, SessionsEnd
  <2> QED
    BY <2>1, <2>2
<1>6. EmailInv'
  BY <1>1, <1>5, StillCounts, EmailFrame DEF Unregistered
<1>7. ResetInv'
  BY <1>1, StillCounts, ResetFrame
<1> QED
  BY <1>1, <1>5, <1>6, <1>7 DEF AccountInv

LEMMA LogOutStep ==
  ASSUME AccountInv, NEW s \in sessions, LogOut(s)
  PROVE  AccountInv'
<1>1. events' \in 0 .. MaxEvents /\ events' \in Nat /\ events \in Nat /\ events' = events + 1
      /\ events <= events'
  BY EventStep DEF LogOut
<1>2. /\ sessions' = sessions \ {s}
      /\ UNCHANGED <<account, email, reset, stamp, tokens, pending, wrong, resets, late>>
  BY DEF LogOut
<1>3. PasswordInv'
  BY <1>1, <1>2, StillCounts, PasswordFrame
<1>4. EmailInv' /\ ResetInv'
  BY <1>1, <1>2, EmailFrame, ResetFrame DEF Unregistered
<1> QED
  BY <1>2, <1>3, <1>4 DEF AccountInv

LEMMA ExpireStep ==
  ASSUME AccountInv, Expire
  PROVE  AccountInv'
<1>1. UNCHANGED <<account, stamp, sessions, pending, events, wrong, resets, late>>
  BY DEF Expire
<1>2. /\ email \in Code /\ reset \in Code
      /\ email' \in {email, [email EXCEPT !.live = FALSE], [email EXCEPT !.cool = FALSE]}
      /\ reset' \in {reset, [reset EXCEPT !.live = FALSE], [reset EXCEPT !.cool = FALSE]}
      /\ tokens' \subseteq tokens
  BY DEF Expire, AccountInv, EmailInv, ResetInv
<1>3. /\ email' \in Code /\ email'.last = email.last /\ email'.held = email.held
      /\ email'.attempts = email.attempts
      /\ reset' \in Code /\ reset'.last = reset.last /\ reset'.held = reset.held
      /\ reset'.attempts = reset.attempts
  BY <1>2, CodeAges
<1>4. EmailInv'
  BY <1>1, <1>3 DEF AccountInv, EmailInv, Unregistered
<1>5. ResetInv'
  BY <1>1, <1>2, <1>3 DEF AccountInv, ResetInv
<1>6. PasswordInv'
  BY <1>1, StillCounts, PasswordFrame
<1> QED
  BY <1>1, <1>4, <1>5, <1>6 DEF AccountInv

(* Every step of the account keeps its invariant.                          *)
LEMMA AccountSteps == AccountInv /\ (Locking \/ Free) => AccountInv'
<1>1. AccountInv /\ Locking => AccountInv'
  BY VerifyEmailStep, VerifyResetStep, CompleteResetStep, ChangePasswordStep, ResendStep,
    ManagerConfirmStep, RequestResetStep DEF Locking
<1>2. AccountInv /\ Free => AccountInv'
  BY CheckStep, LogInStep, LogOutStep, RegisterStep, ExpireStep DEF Free
<1> QED
  BY <1>1, <1>2

-----------------------------------------------------------------------------
LEMMA InitPurge == PurgeInit => PurgeInv
<1> SUFFICES ASSUME PurgeInit PROVE PurgeInv
  OBVIOUS
<1>1. AccountInv
  BY InitAccount DEF PurgeInit
<1>2. NoJob \in Job /\ Closed.pc = "idle" /\ NoJob.pc = "none"
      /\ Closed \in [pc : {"idle", "checked", "erased"}, by : {"none", "request", "finalize"},
                     rows : SUBSET Listings, jobs : SUBSET Listings]
  BY DEF NoJob, Job, Closed
<1>3. rows \in [Listings -> {"none", "active", "failed"}]
  BY DEF PurgeInit
<1>4. PurgeTypes
  <2>1. rows \in [Listings -> RowStatus] /\ online \subseteq Listings
    BY <1>3 DEF PurgeInit, RowStatus, Active
  <2>2. jobs \in [Listings -> Job] /\ code \in {"none", "reserved", "consumed", "available"}
        /\ \A l \in Listings : jobs[l] = NoJob
    BY <1>2 DEF PurgeInit
  <2>3. purge = Closed /\ finals = {} /\ faults \in 0 .. MaxFaults /\ crossed = FALSE
    BY FaultsAssumption DEF PurgeInit
  <2> QED
    BY <1>2, <2>1, <2>2, <2>3 DEF PurgeTypes
<1>5. \A l \in Listings : Shown(l)
  BY <1>2, <1>3 DEF PurgeInit, Shown, Active
<1>6. ~Deleted
  BY DEF PurgeInit, Init, Deleted
<1> QED
  BY <1>1, <1>4, <1>5, <1>6 DEF PurgeInit, PurgeInv, Market, NothingLeft

(* A step of one listing keeps the invariant when it keeps what the        *)
(* invariant says of that listing.                                         *)
LEMMA ListingStep ==
  ASSUME PurgeInv, NEW l \in Listings,
         UNCHANGED <<account, purge, finals>>, AccountInv',
         rows' \in [Listings -> RowStatus], jobs' \in [Listings -> Job], online' \subseteq Listings,
         code' \in {"none", "reserved", "consumed", "available"},
         faults' \in 0 .. MaxFaults, crossed' \in BOOLEAN, crossed => crossed',
         \A k \in Listings \ {l} :
           rows'[k] = rows[k] /\ jobs'[k] = jobs[k] /\ (k \in online' <=> k \in online),
         jobs'[l].kind = "none" \/ jobs'[l].pc = "none" => jobs'[l] = NoJob,
         ~Deleted => Shown(l)',
         ~crossed' => purge = Closed /\ (Deleted => jobs'[l] = NoJob /\ l \notin online')
  PROVE  PurgeInv'
<1>1. PurgeTypes'
  <2>1. \A k \in Listings : jobs'[k].kind = "none" \/ jobs'[k].pc = "none" => jobs'[k] = NoJob
    BY DEF PurgeInv, PurgeTypes
  <2> QED
    BY <2>1 DEF PurgeInv, PurgeTypes
<1>2. Deleted' = Deleted
  BY DEF Deleted
<1>3. Market'
  <2>1. ASSUME ~Deleted, NEW k \in Listings PROVE Shown(k)'
    <3>1. CASE k = l
      BY <2>1, <3>1
    <3>2. CASE k # l
      <4>1. Shown(k)
        BY <2>1 DEF PurgeInv, Market
      <4> QED
        BY <3>2, <4>1 DEF Shown
    <3> QED
      BY <3>1, <3>2
  <2>2. ~crossed' => purge = Closed
    OBVIOUS
  <2>3. Deleted => purge = Closed
    BY DEF PurgeInv, Market
  <2> QED
    BY <1>2, <2>1, <2>2, <2>3 DEF Market
<1>4. NothingLeft'
  <2> SUFFICES ASSUME Deleted, ~crossed'
               PROVE  online' = {} /\ \A k \in Listings : jobs'[k] = NoJob
    BY <1>2 DEF NothingLeft
  <2>1. online = {} /\ \A k \in Listings : jobs[k] = NoJob
    BY DEF PurgeInv, NothingLeft
  <2> QED
    BY <2>1
<1> QED
  BY <1>1, <1>3, <1>4 DEF PurgeInv

(* What the invariant says while the seller's row is not deleted and of a  *)
(* job that is under way.                                                  *)
LEMMA UnderWay ==
  ASSUME PurgeInv, NEW l \in Listings, jobs[l].pc # "none"
  PROVE  /\ ~crossed => purge = Closed /\ ~Deleted
         /\ jobs[l] \in Job /\ jobs[l].kind \in {"publish", "remove"}
<1>1. jobs[l] # NoJob
  BY DEF NoJob
<1>2. ~crossed => purge = Closed /\ ~Deleted
  BY <1>1 DEF PurgeInv, Market, Quiet, NothingLeft
<1>3. jobs[l] \in Job /\ jobs[l].kind # "none"
  BY <1>1 DEF PurgeInv, PurgeTypes
<1> QED
  BY <1>2, <1>3 DEF Job

(* The account moves, the marketplaces do not.                             *)
LEMMA AccountOnly ==
  ASSUME PurgeInv, Locking \/ Free, UNCHANGED purgeVars
  PROVE  PurgeInv'
<1>1. AccountInv'
  BY AccountSteps DEF PurgeInv
<1>2. Deleted' = Deleted
  <2>1. account \in Account
    BY DEF PurgeInv, AccountInv, PasswordInv
  <2>2. CASE Locking
    <3>1. \/ account' = account
          \/ account' = [account EXCEPT !.password = @ + 1]
          \/ account' = [account EXCEPT !.verified = TRUE, !.active = TRUE]
      BY <2>2 DEF Locking, VerifyEmail, VerifyReset, CompleteReset, ChangePassword, Resend,
        ManagerConfirm, RequestReset, NewPassword
    <3> QED
      BY <2>1, <3>1 DEF Deleted, Account
  <2>3. CASE Free
    <3>1. \/ account' = account
          \/ Unregistered /\ account' = [account EXCEPT !.status = "present"]
      BY <2>3 DEF Free, Check, LogIn, LogOut, Register, Expire
    <3> QED
      BY <2>1, <3>1 DEF Deleted, Account, Unregistered
  <2> QED
    BY <2>2, <2>3
<1>3. PurgeTypes' = PurgeTypes
  BY DEF purgeVars, PurgeTypes
<1>4. Market' = Market
  BY <1>2 DEF purgeVars, Market, Shown, Quiet
<1>5. NothingLeft' = NothingLeft
  BY <1>2 DEF purgeVars, NothingLeft
<1> QED
  BY <1>1, <1>3, <1>4, <1>5 DEF PurgeInv

(* A step that costs a request and leaves the account alone; one that also *)
(* blocks or deletes it.                                                   *)
LEMMA RequestOnly ==
  ASSUME AccountInv, Event,
         UNCHANGED <<account, email, reset, stamp, tokens, sessions, pending, wrong, resets, late>>
  PROVE  AccountInv'
<1>1. events' \in 0 .. MaxEvents /\ events' \in Nat /\ events <= events'
  BY EventStep
<1>2. EmailInv' /\ ResetInv' /\ PasswordInv'
  BY <1>1, StillCounts, EmailFrame, ResetFrame, PasswordFrame DEF Unregistered
<1> QED
  BY <1>2 DEF AccountInv

LEMMA SessionsRevoked ==
  ASSUME AccountInv, account' \in Account, account'.password = account.password,
         account'.status # "absent" \/ account'.status = account.status,
         sessions' \subseteq sessions,
         UNCHANGED <<email, reset, stamp, tokens, pending, events, wrong, resets, late>>
  PROVE  AccountInv'
<1>1. events' \in 0 .. MaxEvents /\ events' \in Nat /\ events <= events'
  BY StillCounts
<1>2. EmailInv'
  BY <1>1, EmailFrame DEF Unregistered
<1>3. ResetInv' /\ PasswordInv'
  BY <1>1, ResetFrame, PasswordFrame
<1> QED
  BY <1>2, <1>3 DEF AccountInv

LEMMA AccountStill ==
  ASSUME AccountInv, UNCHANGED accountVars
  PROVE  AccountInv'
BY StillCounts, SessionsRevoked DEF accountVars, AccountInv

-----------------------------------------------------------------------------
LEMMA PublishStep ==
  ASSUME PurgeInv, NEW l \in Listings, Publish(l)
  PROVE  PurgeInv'
<1> DEFINE job == [kind |-> "publish", pc |-> "queued"]
<1>1. /\ Event /\ Present /\ rows[l] \in {"none", "off", "failed"}
      /\ jobs' = [jobs EXCEPT ![l] = job] /\ crossed' = (crossed \/ purge # Closed)
      /\ UNCHANGED <<account, email, reset, stamp, tokens, sessions, pending, wrong, resets, late>>
      /\ UNCHANGED <<rows, online, code, purge, finals, faults>>
  BY DEF Publish
<1>2. AccountInv'
  BY <1>1, RequestOnly DEF PurgeInv
<1>3. job \in Job /\ job.kind = "publish" /\ job.pc = "queued"
  BY DEF Job
<1> HIDE DEF job
<1>4. /\ jobs' \in [Listings -> Job] /\ jobs'[l] = job
      /\ \A k \in Listings \ {l} : jobs'[k] = jobs[k]
      /\ crossed' \in BOOLEAN /\ crossed \in BOOLEAN
  BY <1>1, <1>3 DEF PurgeInv, PurgeTypes
<1>5. ~Deleted /\ Shown(l)
  BY <1>1 DEF Present, Deleted, PurgeInv, Market
<1>6. Shown(l)'
  BY <1>1, <1>3, <1>4, <1>5 DEF Shown
<1>7. /\ rows' \in [Listings -> RowStatus] /\ online' \subseteq Listings /\ faults' \in 0 .. MaxFaults
      /\ code' \in {"none", "reserved", "consumed", "available"}
  BY <1>1 DEF PurgeInv, PurgeTypes
<1> QED
  BY <1>1, <1>2, <1>3, <1>4, <1>5, <1>6, <1>7, ListingStep

(* The steps of a job: each starts from one that is under way.             *)
LEMMA JobStep ==
  ASSUME PurgeInv, NEW l \in Listings, jobs[l].pc # "none",
         NEW job \in Job \cup {NoJob}, jobs' = [jobs EXCEPT ![l] = job],
         UNCHANGED <<accountVars, purge, finals, crossed>>, faults' \in 0 .. MaxFaults,
         rows' \in [Listings -> RowStatus], online' \subseteq Listings,
         code' \in {"none", "reserved", "consumed", "available"},
         \A k \in Listings \ {l} : rows'[k] = rows[k] /\ (k \in online' <=> k \in online),
         job.kind = "none" \/ job.pc = "none" => job = NoJob,
         ~Deleted => Shown(l)'
  PROVE  PurgeInv'
<1>1. NoJob \in Job
  BY DEF NoJob, Job
<1>2. /\ jobs' \in [Listings -> Job] /\ jobs'[l] = job
      /\ \A k \in Listings \ {l} : jobs'[k] = jobs[k]
  BY <1>1 DEF PurgeInv, PurgeTypes
<1>3. AccountInv' /\ crossed' \in BOOLEAN /\ UNCHANGED account
  BY AccountStill DEF PurgeInv, PurgeTypes, accountVars
<1>4. ~crossed' => purge = Closed /\ ~Deleted
  BY UnderWay
<1> QED
  BY <1>2, <1>3, <1>4, ListingStep

LEMMA ClaimStep ==
  ASSUME PurgeInv, NEW l \in Listings, Claim(l)
  PROVE  PurgeInv'
<1> DEFINE job == [jobs[l] EXCEPT !.pc = "claimed"]
<1>1. /\ jobs[l].pc = "queued" /\ jobs' = [jobs EXCEPT ![l] = job]
      /\ UNCHANGED <<accountVars, rows, online, code, purge, finals, faults, crossed>>
  BY DEF Claim, PurgeInv, PurgeTypes, Job
<1>2. jobs[l] \in Job /\ jobs[l].kind \in {"publish", "remove"}
  BY <1>1, UnderWay
<1>3. job \in Job /\ job.kind = jobs[l].kind /\ job.pc = "claimed"
  BY <1>2 DEF Job
<1> HIDE DEF job
<1>4. jobs'[l] = job
  BY <1>1 DEF PurgeInv, PurgeTypes
<1>5. ~Deleted => Shown(l)'
  BY <1>1, <1>3, <1>4 DEF Shown, PurgeInv, Market
<1>6. /\ rows' \in [Listings -> RowStatus] /\ online' \subseteq Listings /\ faults' \in 0 .. MaxFaults
      /\ code' \in {"none", "reserved", "consumed", "available"}
  BY <1>1 DEF PurgeInv, PurgeTypes
<1> QED
  BY <1>1, <1>2, <1>3, <1>5, <1>6, JobStep

LEMMA StartStep ==
  ASSUME PurgeInv, NEW l \in Listings, Start(l)
  PROVE  PurgeInv'
<1>1. /\ jobs[l].pc = "claimed"
      /\ UNCHANGED <<accountVars, online, code, purge, finals, faults, crossed>>
  BY DEF Start
<1>2. jobs[l] \in Job /\ jobs[l].kind \in {"publish", "remove"}
  BY <1>1, UnderWay
<1>3. /\ online' \subseteq Listings /\ faults' \in 0 .. MaxFaults
      /\ code' \in {"none", "reserved", "consumed", "available"}
  BY <1>1 DEF PurgeInv, PurgeTypes
<1>4. CASE Deleted
  <2>1. jobs' = [jobs EXCEPT ![l] = NoJob] /\ UNCHANGED rows
    BY <1>4 DEF Start
  <2>2. rows' \in [Listings -> RowStatus]
    BY <2>1 DEF PurgeInv, PurgeTypes
  <2> QED
    BY <1>1, <1>3, <1>4, <2>1, <2>2, JobStep
<1>5. CASE ~Deleted
  <2> DEFINE job == [jobs[l] EXCEPT !.pc = "started"]
  <2>1. jobs' = [jobs EXCEPT ![l] = job] /\ rows' = [rows EXCEPT ![l] = "busy"]
    BY <1>5 DEF Start, PurgeInv, PurgeTypes, Job
  <2>2. job \in Job /\ job.kind = jobs[l].kind /\ job.pc = "started"
    BY <1>2 DEF Job
  <2> HIDE DEF job
  <2>3. /\ rows' \in [Listings -> RowStatus] /\ rows'[l] = "busy" /\ jobs'[l] = job
        /\ \A k \in Listings \ {l} : rows'[k] = rows[k]
    BY <2>1 DEF PurgeInv, PurgeTypes, RowStatus
  <2>4. Shown(l)'
    BY <1>1, <1>5, <2>2, <2>3 DEF Shown, PurgeInv, Market
  <2> QED
    BY <1>1, <1>2, <1>3, <2>1, <2>2, <2>3, <2>4, JobStep
<1> QED
  BY <1>4, <1>5

LEMMA CallStep ==
  ASSUME PurgeInv, NEW l \in Listings, Call(l)
  PROVE  PurgeInv'
<1>1. PICK done \in BOOLEAN :
        /\ jobs[l].pc = "started"
        /\ jobs' = [jobs EXCEPT ![l].pc = IF done THEN "ok" ELSE "failed"]
        /\ online' = IF ~done THEN online
                     ELSE IF jobs[l].kind = "publish" THEN online \cup {l} ELSE online \ {l}
        /\ UNCHANGED <<accountVars, rows, code, purge, finals, faults, crossed>>
  BY DEF Call
<1> DEFINE pc == IF done THEN "ok" ELSE "failed"
           job == [jobs[l] EXCEPT !.pc = pc]
<1>2. jobs[l] \in Job /\ jobs[l].kind \in {"publish", "remove"}
  BY <1>1, UnderWay
<1>3. jobs' = [jobs EXCEPT ![l] = job]
  BY <1>1 DEF PurgeInv, PurgeTypes, Job
<1>4. job \in Job /\ job.kind = jobs[l].kind /\ job.pc = pc /\ pc \in {"ok", "failed"}
  BY <1>2 DEF Job
<1> HIDE DEF job
<1>5. jobs'[l] = job
  BY <1>3 DEF PurgeInv, PurgeTypes
<1>6. /\ online' \subseteq Listings /\ faults' \in 0 .. MaxFaults /\ rows' \in [Listings -> RowStatus]
      /\ code' \in {"none", "reserved", "consumed", "available"}
      /\ \A k \in Listings \ {l} : rows'[k] = rows[k] /\ (k \in online' <=> k \in online)
  BY <1>1 DEF PurgeInv, PurgeTypes
<1>7. ASSUME ~Deleted PROVE Shown(l)'
  <2>1. Shown(l)
    BY <1>7 DEF PurgeInv, Market
  <2>2. rows'[l] = "busy"
    BY <1>1, <2>1 DEF Shown
  <2>3. jobs[l].kind = "publish" /\ ~done => l \notin online'
    BY <1>1, <2>1 DEF Shown
  <2>4. jobs[l].kind = "remove" /\ done => l \notin online'
    BY <1>1
  <2> QED
    BY <1>2, <1>4, <1>5, <2>2, <2>3, <2>4 DEF Shown
<1> QED
  BY <1>1, <1>2, <1>3, <1>4, <1>6, <1>7, JobStep

LEMMA MarkStep ==
  ASSUME PurgeInv, NEW l \in Listings, Mark(l)
  PROVE  PurgeInv'
<1>1. /\ jobs[l].pc \in {"ok", "failed"} /\ jobs' = [jobs EXCEPT ![l] = NoJob]
      /\ UNCHANGED <<accountVars, online, purge, finals, faults, crossed>>
  BY DEF Mark
<1>2. jobs[l] \in Job /\ jobs[l].kind \in {"publish", "remove"}
  BY <1>1, UnderWay
<1>3. /\ online' \subseteq Listings /\ faults' \in 0 .. MaxFaults
      /\ code \in {"none", "reserved", "consumed", "available"} /\ rows \in [Listings -> RowStatus]
  BY <1>1 DEF PurgeInv, PurgeTypes
<1>4. CASE Deleted
  <2>1. UNCHANGED <<rows, code>>
    BY <1>4 DEF Mark
  <2> QED
    BY <1>1, <1>3, <1>4, <2>1, JobStep
<1>5. CASE ~Deleted
  <2> DEFINE out == Outcome(jobs[l])
  <2>1. /\ rows' = [rows EXCEPT ![l] = out]
        /\ code' = IF rows'[l] = "active" THEN "consumed" ELSE code
    BY <1>5 DEF Mark
  <2>2. /\ jobs[l].kind = "publish" => out = IF jobs[l].pc = "ok" THEN "active" ELSE "failed"
        /\ jobs[l].kind = "remove" => out = IF jobs[l].pc = "ok" THEN "off" ELSE "active"
    BY DEF Outcome
  <2> HIDE DEF out
  <2>3. out \in {"active", "failed", "off"}
    BY <1>2, <2>2
  <2>4. /\ rows' \in [Listings -> RowStatus] /\ rows'[l] = out
        /\ \A k \in Listings \ {l} : rows'[k] = rows[k]
    BY <1>3, <2>1, <2>3 DEF RowStatus
  <2>5. l \in online => out = "active"
    BY <1>1, <1>2, <1>5, <2>2 DEF PurgeInv, Market, Shown
  <2>6. jobs'[l].kind = "none" /\ jobs'[l].pc = "none"
    BY <1>1 DEF PurgeInv, PurgeTypes, NoJob
  <2>7. Shown(l)'
    BY <1>1, <2>4, <2>5, <2>6 DEF Shown
  <2>8. code' \in {"none", "reserved", "consumed", "available"}
    BY <1>3, <2>1
  <2> QED
    BY <1>1, <1>3, <2>4, <2>7, <2>8, JobStep
<1> QED
  BY <1>4, <1>5

LEMMA DieStep ==
  ASSUME PurgeInv, NEW l \in Listings, Die(l)
  PROVE  PurgeInv'
<1>1. /\ jobs[l].pc \in {"claimed", "started", "ok", "failed"} /\ Fault
      /\ jobs' = [jobs EXCEPT ![l] = IF Deleted THEN NoJob ELSE [@ EXCEPT !.pc = "dead"]]
      /\ UNCHANGED <<accountVars, rows, online, code, purge, finals, crossed>>
  BY DEF Die
<1>2. jobs[l] \in Job /\ jobs[l].kind \in {"publish", "remove"}
  BY <1>1, UnderWay
<1>3. /\ online' \subseteq Listings /\ rows' \in [Listings -> RowStatus]
      /\ code' \in {"none", "reserved", "consumed", "available"}
  BY <1>1 DEF PurgeInv, PurgeTypes
<1>4. faults' \in 0 .. MaxFaults
  BY <1>1, FaultsAssumption DEF Fault, PurgeInv, PurgeTypes
<1>5. CASE Deleted
  BY <1>1, <1>3, <1>4, <1>5, JobStep
<1>6. CASE ~Deleted
  <2> DEFINE job == [jobs[l] EXCEPT !.pc = "dead"]
  <2>1. jobs' = [jobs EXCEPT ![l] = job]
    BY <1>1, <1>6
  <2>2. job \in Job /\ job.kind = jobs[l].kind /\ job.pc = "dead"
    BY <1>2 DEF Job
  <2> HIDE DEF job
  <2>3. jobs'[l] = job
    BY <2>1 DEF PurgeInv, PurgeTypes
  <2>4. Shown(l)'
    BY <1>1, <1>6, <2>2, <2>3 DEF Shown, PurgeInv, Market
  <2> QED
    BY <1>1, <1>2, <1>3, <1>4, <2>1, <2>2, <2>4, JobStep
<1> QED
  BY <1>5, <1>6

LEMMA RecoverStep ==
  ASSUME PurgeInv, NEW l \in Listings, Recover(l)
  PROVE  PurgeInv'
<1>1. /\ jobs[l].pc = "dead" /\ jobs' = [jobs EXCEPT ![l] = NoJob]
      /\ UNCHANGED <<accountVars, rows, online, code, purge, finals, faults, crossed>>
  BY DEF Recover
<1>2. /\ online' \subseteq Listings /\ rows' \in [Listings -> RowStatus] /\ faults' \in 0 .. MaxFaults
      /\ code' \in {"none", "reserved", "consumed", "available"}
  BY <1>1 DEF PurgeInv, PurgeTypes
<1>3. jobs'[l].kind = "none" /\ jobs'[l].pc = "none"
  BY <1>1 DEF PurgeInv, PurgeTypes, NoJob
<1>4. ~Deleted => Shown(l)'
  BY <1>1, <1>3 DEF Shown, PurgeInv, Market
<1> QED
  BY <1>1, <1>2, <1>4, JobStep

-----------------------------------------------------------------------------
(* No work in progress: a transaction may begin.                           *)
LEMMA NotBusy ==
  ASSUME PurgeInv, ~Busy, NEW l \in Listings
  PROVE  jobs[l] = NoJob /\ rows[l] # "busy"
BY DEF Busy, PurgeInv, PurgeTypes

(* What stays of the types when a transaction begins or ends.              *)
LEMMA PurgeOnly ==
  ASSUME PurgeInv, AccountInv', UNCHANGED <<rows, jobs, online, code, faults>>, Deleted' = Deleted,
         crossed' = crossed,
         purge' \in [pc : {"idle", "checked", "erased"}, by : {"none", "request", "finalize"},
                    rows : SUBSET Listings, jobs : SUBSET Listings],
         purge'.pc # "idle" => purge'.by # "none", finals' \subseteq 0 .. MaxRetries,
         Deleted => purge' = Closed,
         purge' # Closed /\ ~crossed =>
           \A l \in Listings :
             /\ jobs[l] = NoJob /\ rows[l] # "busy"
             /\ purge'.pc = "erased" \/ purge'.by = "finalize" => rows[l] # "active"
  PROVE  PurgeInv'
<1>1. PurgeTypes'
  BY DEF PurgeInv, PurgeTypes
<1>2. Market'
  BY DEF PurgeInv, Market, Shown, Quiet
<1>3. NothingLeft'
  BY DEF PurgeInv, NothingLeft
<1> QED
  BY <1>1, <1>2, <1>3 DEF PurgeInv

(* The record of a transaction that is closed and of one that has checked. *)
LEMMA Transactions ==
  /\ Closed \in [pc : {"idle", "checked", "erased"}, by : {"none", "request", "finalize"},
                 rows : SUBSET Listings, jobs : SUBSET Listings]
  /\ Closed.pc = "idle"
  /\ \A by \in {"request", "finalize"} :
       LET t == [Closed EXCEPT !.pc = "checked", !.by = by] IN
       /\ t \in [pc : {"idle", "checked", "erased"}, by : {"none", "request", "finalize"},
                 rows : SUBSET Listings, jobs : SUBSET Listings]
       /\ t.pc = "checked" /\ t.by = by
BY DEF Closed

LEMMA RequestPurgeStep ==
  ASSUME PurgeInv, RequestPurge
  PROVE  PurgeInv'
<1> DEFINE t == [Closed EXCEPT !.pc = "checked", !.by = "request"]
<1>1. /\ Event /\ ~Busy /\ purge' = t
      /\ UNCHANGED <<account, email, reset, stamp, tokens, sessions, pending, wrong, resets, late>>
      /\ UNCHANGED <<rows, jobs, online, code, finals, faults, crossed>>
  BY DEF RequestPurge
<1>2. AccountInv'
  BY <1>1, RequestOnly DEF PurgeInv
<1>3. /\ t \in [pc : {"idle", "checked", "erased"}, by : {"none", "request", "finalize"},
                rows : SUBSET Listings, jobs : SUBSET Listings]
      /\ t.pc = "checked" /\ t.by = "request"
  BY Transactions
<1> HIDE DEF t
<1>4. Deleted' = Deleted /\ ~Deleted /\ finals' \subseteq 0 .. MaxRetries
  BY <1>1 DEF RequestPurge, Deleted, Present, PurgeInv, PurgeTypes
<1>5. \A l \in Listings : jobs[l] = NoJob /\ rows[l] # "busy"
  BY <1>1, NotBusy
<1> QED
  BY <1>1, <1>2, <1>3, <1>4, <1>5, PurgeOnly

LEMMA FinalizeStep ==
  ASSUME PurgeInv, NEW k \in 0 .. MaxRetries, Finalize(k)
  PROVE  PurgeInv'
<1>1. /\ purge = Closed /\ k \in finals
      /\ UNCHANGED <<accountVars, rows, jobs, online, code, faults, crossed>>
  BY DEF Finalize
<1>2. AccountInv' /\ Deleted' = Deleted
  BY <1>1, AccountStill DEF PurgeInv, accountVars, Deleted
<1>3. finals' \subseteq 0 .. MaxRetries
  <2>1. Retried(k) \subseteq 0 .. MaxRetries
    BY RetriesAssumption DEF Retried
  <2>2. finals \subseteq 0 .. MaxRetries
    BY DEF PurgeInv, PurgeTypes
  <2>3. finals' \subseteq finals \cup Retried(k)
    BY DEF Finalize
  <2> QED
    BY <2>1, <2>2, <2>3
<1>4. CASE UNCHANGED purge
  <2>1. Deleted => purge' = Closed
    BY <1>1, <1>4
  <2> QED
    BY <1>1, <1>2, <1>3, <1>4, <2>1, Transactions, PurgeOnly
<1>5. CASE ~(UNCHANGED purge)
  <2> DEFINE t == [Closed EXCEPT !.pc = "checked", !.by = "finalize"]
  <2>1. purge' = t /\ ~Busy /\ Active = {} /\ ~Deleted
    BY <1>5 DEF Finalize, Present, Deleted
  <2>2. /\ t \in [pc : {"idle", "checked", "erased"}, by : {"none", "request", "finalize"},
                  rows : SUBSET Listings, jobs : SUBSET Listings]
        /\ t.pc = "checked" /\ t.by = "finalize"
    BY Transactions
  <2> HIDE DEF t
  <2>3. \A l \in Listings : jobs[l] = NoJob /\ rows[l] # "busy" /\ rows[l] # "active"
    BY <2>1, NotBusy DEF Active
  <2> QED
    BY <1>1, <1>2, <1>3, <2>1, <2>2, <2>3, PurgeOnly
<1> QED
  BY <1>4, <1>5

LEMMA EraseStep ==
  ASSUME PurgeInv, Erase
  PROVE  PurgeInv'
<1> DEFINE t == [purge EXCEPT !.pc = "erased",
                         !.rows = {l \in Listings : rows[l] # "none"},
                         !.jobs = {l \in Listings : jobs[l] # NoJob}]
<1>1. /\ purge.pc = "checked" /\ (purge.by = "request" => Active = {}) /\ purge' = t
      /\ UNCHANGED <<accountVars, rows, jobs, online, code, finals, faults, crossed>>
  BY DEF Erase
<1>2. AccountInv' /\ Deleted' = Deleted
  BY <1>1, AccountStill DEF PurgeInv, accountVars, Deleted
<1>3. /\ purge \in [pc : {"idle", "checked", "erased"}, by : {"none", "request", "finalize"},
                    rows : SUBSET Listings, jobs : SUBSET Listings]
      /\ purge.by \in {"request", "finalize"} /\ purge # Closed /\ finals \subseteq 0 .. MaxRetries
  BY <1>1, Transactions DEF PurgeInv, PurgeTypes
<1>4. /\ t \in [pc : {"idle", "checked", "erased"}, by : {"none", "request", "finalize"},
                rows : SUBSET Listings, jobs : SUBSET Listings]
      /\ t.by = purge.by
  BY <1>3
<1> HIDE DEF t
<1>5. ~crossed => \A l \in Listings : jobs[l] = NoJob /\ rows[l] # "busy" /\ rows[l] # "active"
  BY <1>1, <1>3 DEF PurgeInv, Market, Quiet, Active
<1>6. ~Deleted
  BY <1>3 DEF PurgeInv, Market
<1> QED
  BY <1>1, <1>2, <1>3, <1>4, <1>5, <1>6, PurgeOnly

LEMMA BlockStep ==
  ASSUME PurgeInv, Block
  PROVE  PurgeInv'
<1>1. PICK lost \in SUBSET Active, told \in BOOLEAN :
        /\ IF told THEN UNCHANGED faults ELSE Fault
        /\ jobs' = [l \in Listings |->
                     IF l \notin Active THEN jobs[l]
                     ELSE [kind |-> "remove", pc |-> IF l \in lost THEN "lost" ELSE "queued"]]
        /\ finals' = IF told THEN finals \cup {MaxRetries} ELSE finals
  BY DEF Block
<1>2. /\ purge' = Closed /\ account' = [account EXCEPT !.active = FALSE] /\ sessions' = {}
      /\ rows' = [l \in Listings |-> IF l \in Active THEN "busy" ELSE rows[l]]
      /\ UNCHANGED <<email, reset, stamp, tokens, pending, events, wrong, resets, late>>
      /\ UNCHANGED <<online, code, crossed>>
      /\ purge.pc = "checked" /\ Active # {}
  BY DEF Block
<1>3. AccountInv' /\ Deleted' = Deleted
  <2>1. account \in Account
    BY DEF PurgeInv, AccountInv, PasswordInv
  <2>2. account' \in Account /\ account'.password = account.password
        /\ account'.status = account.status
    BY <1>2, <2>1 DEF Account
  <2> QED
    BY <1>2, <2>2, SessionsRevoked DEF PurgeInv, Deleted
<1>4. PurgeTypes'
  <2>1. jobs' \in [Listings -> Job]
        /\ \A l \in Listings : jobs'[l].kind = "none" \/ jobs'[l].pc = "none" => jobs'[l] = NoJob
    <3> SUFFICES ASSUME NEW l \in Listings
                 PROVE  /\ jobs'[l] \in Job
                        /\ jobs'[l].kind = "none" \/ jobs'[l].pc = "none" => jobs'[l] = NoJob
      BY <1>1
    <3>1. CASE l \notin Active
      BY <1>1, <3>1 DEF PurgeInv, PurgeTypes
    <3>2. CASE l \in Active
      <4>1. jobs'[l] = [kind |-> "remove", pc |-> IF l \in lost THEN "lost" ELSE "queued"]
        BY <1>1, <3>2
      <4> QED
        BY <4>1 DEF Job
    <3> QED
      BY <3>1, <3>2
  <2>2. rows' \in [Listings -> RowStatus]
    BY <1>2 DEF PurgeInv, PurgeTypes, RowStatus
  <2>3. finals' \subseteq 0 .. MaxRetries /\ faults' \in 0 .. MaxFaults
    BY <1>1, RetriesAssumption, FaultsAssumption DEF PurgeInv, PurgeTypes, Fault
  <2> QED
    BY <1>2, <2>1, <2>2, <2>3, Transactions DEF PurgeInv, PurgeTypes
<1>5. Market'
  <2>1. ASSUME ~Deleted, NEW l \in Listings PROVE Shown(l)'
    <3>1. CASE l \notin Active
      <4>1. jobs'[l] = jobs[l] /\ rows'[l] = rows[l] /\ online' = online
        BY <1>1, <1>2, <3>1
      <4> QED
        BY <2>1, <4>1 DEF PurgeInv, Market, Shown
    <3>2. CASE l \in Active
      <4>1. jobs'[l] = [kind |-> "remove", pc |-> IF l \in lost THEN "lost" ELSE "queued"]
            /\ rows'[l] = "busy"
        BY <1>1, <1>2, <3>2
      <4>2. jobs'[l].kind = "remove" /\ jobs'[l].pc # "ok"
        BY <4>1
      <4> QED
        BY <4>1, <4>2 DEF Shown
    <3> QED
      BY <3>1, <3>2
  <2> QED
    BY <1>2, <1>3, <2>1 DEF Market
<1>6. NothingLeft'
  <2> SUFFICES ASSUME Deleted, ~crossed PROVE FALSE
    BY <1>2, <1>3 DEF NothingLeft
  <2> QED
    BY <1>2, Transactions DEF PurgeInv, Market
<1> QED
  BY <1>3, <1>4, <1>5, <1>6 DEF PurgeInv

LEMMA CommitStep ==
  ASSUME PurgeInv, Commit
  PROVE  PurgeInv'
<1> DEFINE came == \E l \in Listings :
                     \/ l \notin purge.rows /\ rows[l] # "none"
                     \/ l \notin purge.jobs /\ jobs[l] # NoJob
<1>1. /\ purge.pc = "erased" /\ purge' = Closed
      /\ UNCHANGED <<email, reset, stamp, tokens, pending, events, wrong, resets, late>>
      /\ UNCHANGED <<online, finals, faults, crossed>>
  BY DEF Commit
<1>2. finals' \subseteq 0 .. MaxRetries /\ purge # Closed /\ ~Deleted
  BY <1>1, Transactions DEF PurgeInv, PurgeTypes, Market
<1>3. CASE came
  <2>1. UNCHANGED <<account, sessions, rows, jobs, code>>
    BY <1>3 DEF Commit
  <2>2. AccountInv' /\ Deleted' = Deleted
    BY <1>1, <2>1, AccountStill DEF PurgeInv, accountVars, Deleted
  <2> QED
    BY <1>1, <1>2, <2>1, <2>2, Transactions, PurgeOnly
<1>4. CASE ~came
  <2>1. /\ account' = [account EXCEPT !.status = "deleted"] /\ sessions' = {}
        /\ rows' = [l \in Listings |-> "none"]
        /\ jobs' = [l \in Listings |->
                      IF Alive(l) /\ jobs[l].pc # "queued" THEN jobs[l] ELSE NoJob]
        /\ code' = IF code = "reserved" THEN "available" ELSE code
    BY <1>4 DEF Commit
  <2>2. AccountInv' /\ Deleted'
    <3>1. account \in Account
      BY DEF PurgeInv, AccountInv, PasswordInv
    <3>2. account' \in Account /\ account'.password = account.password
          /\ account'.status = "deleted"
      BY <2>1, <3>1 DEF Account
    <3> QED
      BY <1>1, <2>1, <3>2, SessionsRevoked DEF PurgeInv, Deleted
  <2>3. PurgeTypes'
    <3>1. NoJob \in Job /\ NoJob.kind = "none"
      BY DEF NoJob, Job
    <3>2. /\ jobs' \in [Listings -> Job]
          /\ \A l \in Listings : jobs'[l].kind = "none" \/ jobs'[l].pc = "none" => jobs'[l] = NoJob
      BY <2>1, <3>1 DEF PurgeInv, PurgeTypes
    <3>3. rows' \in [Listings -> RowStatus]
      BY <2>1 DEF RowStatus
    <3>4. code' \in {"none", "reserved", "consumed", "available"}
      BY <2>1 DEF PurgeInv, PurgeTypes
    <3> QED
      BY <1>1, <1>2, <3>2, <3>3, <3>4, Transactions DEF PurgeInv, PurgeTypes
  <2>4. Market'
    BY <1>1, <2>2 DEF Market
  <2>5. NothingLeft'
    <3> SUFFICES ASSUME ~crossed
                 PROVE  online = {} /\ \A l \in Listings : jobs'[l] = NoJob
      BY <1>1 DEF NothingLeft
    <3>1. \A l \in Listings : jobs[l] = NoJob /\ rows[l] # "busy" /\ rows[l] # "active"
      BY <1>1, <1>2 DEF PurgeInv, Market, Quiet
    <3>2. online = {}
      BY <1>2, <3>1 DEF PurgeInv, PurgeTypes, Market, Shown
    <3> QED
      BY <2>1, <3>1, <3>2
  <2> QED
    BY <2>2, <2>3, <2>4, <2>5 DEF PurgeInv
<1> QED
  BY <1>3, <1>4

-----------------------------------------------------------------------------
(* Every step keeps the invariant.                                         *)
LEMMA NextPurge == PurgeInv /\ [Next]_vars => PurgeInv'
<1> SUFFICES ASSUME PurgeInv, [Next]_vars
             PROVE  PurgeInv'
  OBVIOUS
<1>1. CASE (Locking \/ Free) /\ UNCHANGED purgeVars
  BY <1>1, AccountOnly
<1>2. CASE RequestPurge \/ Transact
  BY <1>2, RequestPurgeStep, BlockStep, EraseStep, CommitStep DEF Transact
<1>3. CASE \E k \in 0 .. MaxRetries : Finalize(k)
  BY <1>3, FinalizeStep
<1>4. CASE \E l \in Listings : Publish(l) \/ Work(l) \/ Die(l) \/ Recover(l)
  BY <1>4, PublishStep, ClaimStep, StartStep, CallStep, MarkStep, DieStep, RecoverStep DEF Work
<1>5. CASE UNCHANGED vars
  <2>1. UNCHANGED accountVars /\ UNCHANGED purgeVars
    BY <1>5 DEF vars
  <2>2. AccountInv'
    BY <2>1, AccountStill DEF PurgeInv
  <2> QED
    BY <2>1, <2>2 DEF accountVars, purgeVars, PurgeInv, PurgeTypes, Market, Shown, Quiet, Deleted,
      NothingLeft
<1> QED
  BY <1>1, <1>2, <1>3, <1>4, <1>5 DEF Next

LEMMA PurgeAlways == Spec => []PurgeInv
BY InitPurge, NextPurge, PTL DEF Spec

(* No code is compared with more than MAX_ATTEMPTS wrong entries, a reset  *)
(* code replaces one password however many tokens it bought, and the token *)
(* in force is one of the latest code's: the services of verification and  *)
(* password reset, with everything of the purge in its type.               *)
THEOREM AccountCodesOk == Spec => []CodesOk
<1>1. PurgeInv => CodesOk
  BY AccountInvImplies DEF PurgeInv, PurgeTypes, CodesOk, TypeOK
<1> QED
  BY <1>1, PurgeAlways, PTL

(* A session is of the password in force, or its login had passed the      *)
(* check when the password was replaced: set_password with                 *)
(* revoke_refresh_tokens.                                                  *)
THEOREM SessionsEndWithPassword == Spec => []SessionsEnd
<1>1. PurgeInv => SessionsEnd
  BY DEF PurgeInv, AccountInv, PasswordInv
<1> QED
  BY <1>1, PurgeAlways, PTL

(* A seller who is gone leaves no listing online and no job, unless a      *)
(* publication was requested while a purge's transaction was open:         *)
(* try_finalize_seller_purge.                                              *)
THEOREM PurgeLeavesNothing == Spec => []NothingLeft
<1>1. PurgeInv => NothingLeft
  BY DEF PurgeInv
<1> QED
  BY <1>1, PurgeAlways, PTL
=============================================================================
