---------------------------- MODULE AccountCodes ----------------------------
(***************************************************************************)
(* One account: its e-mailed codes, its password and its refresh tokens    *)
(* (apps/accounts/services.py, views.py). A registration is confirmed with *)
(* a code or by a manager; a forgotten password is replaced with a code,   *)
(* which buys a reset token, which buys a new password. The services lock  *)
(* the user's row. Logging in and changing the password do not: they check *)
(* a row that they loaded before. Mail may come late, twice or never, so   *)
(* any code ever issued may be entered at any time.                        *)
(***************************************************************************)
EXTENDS Naturals, FiniteSets

CONSTANTS
  MaxAttempts,  \* EMAIL_VERIFICATION_MAX_ATTEMPTS, PASSWORD_RESET_MAX_ATTEMPTS
  MaxEvents     \* bound on the requests of users and managers

ASSUME AttemptsAssumption == MaxAttempts \in Nat \ {0}
ASSUME EventsAssumption   == MaxEvents \in Nat

VARIABLES
  account,   \* the row: status, is_email_verified, is_active, password
  email,     \* the verification code
  reset,     \* the password reset code
  stamp,     \* password_reset_verified_at: the one in force (0: none), the last
  tokens,    \* reset tokens in the user's hands
  sessions,  \* refresh tokens that are not revoked: the password each began with
  pending,   \* logins and password changes past their check
  events
VARIABLES
  wrong,     \* history: wrong codes compared since the code was issued
  resets,    \* history: resets[c], passwords that reset code c replaced
  late       \* history: passwords that a login had checked when they changed

accountVars == <<account, email, reset, stamp, tokens, sessions, pending, events,
                 wrong, resets, late>>

-----------------------------------------------------------------------------
CodeIds   == 0 .. MaxEvents + 1
Passwords == 1 .. MaxEvents + 1

(* A code: its number, whether its hash is stored, whether it has not      *)
(* expired, and whether the cooldown after sending it still runs.          *)
Code    == [last : CodeIds, held : BOOLEAN, live : BOOLEAN,
            attempts : 0 .. MaxAttempts, cool : BOOLEAN]
NoCode  == [last |-> 0, held |-> FALSE, live |-> FALSE, attempts |-> 0, cool |-> FALSE]
Account == [status : {"absent", "present", "deleted"}, verified : BOOLEAN,
            active : BOOLEAN, password : Passwords]
Token   == [stamp : CodeIds, code : CodeIds]
Request == [what : {"login", "change"}, password : Passwords]

Event   == events < MaxEvents /\ events' = events + 1
Present == account.status = "present"

(* issue_email_verification_code, issue_password_reset_code                *)
Issued(m) == [last |-> m.last + 1, held |-> TRUE, live |-> TRUE,
              attempts |-> 0, cool |-> TRUE]
Cleared(m) == [m EXCEPT !.held = FALSE, !.live = FALSE, !.attempts = 0]
Usable(m)  == m.held /\ m.live /\ m.attempts < MaxAttempts

Init ==
  /\ account \in [status : {"absent"}, verified : {FALSE}, active : {FALSE}, password : {1}]
                 \cup [status : {"present"}, verified : {TRUE}, active : {TRUE}, password : {1}]
  /\ email = NoCode /\ reset = NoCode
  /\ stamp = [now |-> 0, last |-> 0]
  /\ tokens = {} /\ sessions = {} /\ pending = {} /\ events = 0
  /\ wrong = [email |-> 0, reset |-> 0]
  /\ resets = [c \in CodeIds |-> 0] /\ late = {}

-----------------------------------------------------------------------------
(* RegisterSerializer: nobody has this address yet.                        *)
Unregistered == account.status = "absent"

(* RegisterView.create, register_user                                      *)
Register ==
  /\ Event /\ Unregistered
  /\ account' = [account EXCEPT !.status = "present"]
  /\ email' = Issued(email)
  /\ UNCHANGED <<reset, stamp, tokens, sessions, pending, wrong, resets, late>>

(* A code that is compared and does not match costs an attempt.            *)
Miss(m)       == [m EXCEPT !.attempts = @ + 1]
Missed(kind)  == wrong' = [wrong EXCEPT ![kind] = @ + 1]

(* The password of a request passed its check: what follows uses the row   *)
(* as it was then.                                                         *)
Checked(what) == pending' = pending \cup {[what |-> what, password |-> account.password]}

(* verify_email_code; the tokens of the answer are made after its commit   *)
(* (EmailVerificationView).                                                *)
SignIn == Checked("login")

VerifyEmail(c) ==
  /\ Event /\ Present /\ ~account.verified /\ Usable(email)
  /\ IF c = email.last
     THEN /\ account' = [account EXCEPT !.verified = TRUE, !.active = TRUE]
          /\ email' = Cleared(email)
          /\ SignIn
          /\ UNCHANGED wrong
     ELSE email' = Miss(email) /\ Missed("email") /\ UNCHANGED <<account, pending>>
  /\ UNCHANGED <<reset, stamp, tokens, sessions, resets, late>>

(* resend_email_verification_code                                          *)
Resend ==
  /\ Event /\ Present /\ ~account.verified /\ ~email.cool
  /\ email' = Issued(email) /\ wrong' = [wrong EXCEPT !.email = 0]
  /\ UNCHANGED <<account, reset, stamp, tokens, sessions, pending, resets, late>>

(* manager_confirm_seller_email                                            *)
ManagerConfirm ==
  /\ Event /\ Present /\ ~(account.verified /\ account.active)
  /\ account' = [account EXCEPT !.verified = TRUE, !.active = TRUE]
  /\ email' = Cleared(email)
  /\ UNCHANGED <<reset, stamp, tokens, sessions, pending, wrong, resets, late>>

-----------------------------------------------------------------------------
(* Faulty: a new code leaves the token of the one before it in force.      *)
RequestResetKeeps ==
  /\ Event /\ Present /\ account.active /\ ~reset.cool
  /\ reset' = Issued(reset) /\ wrong' = [wrong EXCEPT !.reset = 0]
  /\ UNCHANGED <<account, email, stamp, tokens, sessions, pending, resets, late>>

(* request_password_reset                                                  *)
RequestReset ==
  /\ Event /\ Present /\ account.active /\ ~reset.cool
  /\ reset' = Issued(reset) /\ wrong' = [wrong EXCEPT !.reset = 0]
  /\ stamp' = [stamp EXCEPT !.now = 0]
  /\ UNCHANGED <<account, email, tokens, sessions, pending, resets, late>>

(* verify_password_reset_code: the code stays, and may buy another token,  *)
(* which takes the place of the first.                                     *)
VerifyReset(c) ==
  /\ Event /\ Present /\ account.active /\ Usable(reset)
  /\ IF c = reset.last
     THEN /\ stamp' = [now |-> stamp.last + 1, last |-> stamp.last + 1]
          /\ tokens' = tokens \cup {[stamp |-> stamp.last + 1, code |-> c]}
          /\ UNCHANGED <<reset, wrong>>
     ELSE reset' = Miss(reset) /\ Missed("reset") /\ UNCHANGED <<stamp, tokens>>
  /\ UNCHANGED <<account, email, sessions, pending, resets, late>>

(* set_password and revoke_refresh_tokens, while the requests in rest go   *)
(* on with the password they checked.                                      *)
NewPassword(rest) ==
  /\ account' = [account EXCEPT !.password = @ + 1]
  /\ sessions' = {}
  /\ late' = late \cup {p.password : p \in rest}

(* complete_password_reset                                                 *)
CompleteReset(t) ==
  /\ Event /\ t \in tokens
  /\ Present /\ account.active /\ stamp.now = t.stamp
  /\ NewPassword(pending)
  /\ reset' = [Cleared(reset) EXCEPT !.cool = FALSE]
  /\ stamp' = [stamp EXCEPT !.now = 0]
  /\ resets' = [resets EXCEPT ![t.code] = @ + 1]
  /\ UNCHANGED <<email, tokens, pending, wrong>>

-----------------------------------------------------------------------------
(* LoginView, PasswordChangeView: the check of the password.               *)
Check(what) ==
  /\ Event /\ Present /\ account.active
  /\ Checked(what)
  /\ UNCHANGED <<account, email, reset, stamp, tokens, sessions, wrong, resets, late>>

(* Then the tokens are made, ...                                           *)
LogIn(p) ==
  /\ p.what = "login" /\ pending' = pending \ {p}
  /\ sessions' = IF Present THEN sessions \cup {p.password} ELSE sessions
  /\ UNCHANGED <<account, email, reset, stamp, tokens, events, wrong, resets, late>>

(* Faulty: the tokens of the user are not revoked.                         *)
ChangePasswordOnly(p) ==
  /\ p.what = "change" /\ pending' = pending \ {p}
  /\ IF Present THEN /\ account' = [account EXCEPT !.password = @ + 1]
                     /\ UNCHANGED <<sessions, late>>
     ELSE UNCHANGED <<account, sessions, late>>
  /\ UNCHANGED <<email, reset, stamp, tokens, events, wrong, resets>>

(* ... or the password is replaced.                                        *)
ChangePassword(p) ==
  /\ p.what = "change" /\ pending' = pending \ {p}
  /\ IF Present THEN NewPassword(pending') ELSE UNCHANGED <<account, sessions, late>>
  /\ UNCHANGED <<email, reset, stamp, tokens, events, wrong, resets>>

(* LogoutView; RefreshView replaces a token with one of the same session.  *)
LogOut(s) ==
  /\ Event /\ s \in sessions /\ sessions' = sessions \ {s}
  /\ UNCHANGED <<account, email, reset, stamp, tokens, pending, wrong, resets, late>>

-----------------------------------------------------------------------------
(* Time: a code or a reset token expires, a cooldown ends.                 *)
Expire ==
  /\ \/ email.live /\ email' = [email EXCEPT !.live = FALSE] /\ UNCHANGED <<reset, tokens>>
     \/ email.cool /\ email' = [email EXCEPT !.cool = FALSE] /\ UNCHANGED <<reset, tokens>>
     \/ reset.live /\ reset' = [reset EXCEPT !.live = FALSE] /\ UNCHANGED <<email, tokens>>
     \/ reset.cool /\ reset' = [reset EXCEPT !.cool = FALSE] /\ UNCHANGED <<email, tokens>>
     \/ \E t \in tokens : tokens' = tokens \ {t} /\ UNCHANGED <<email, reset>>
  /\ UNCHANGED <<account, stamp, sessions, pending, events, wrong, resets, late>>

(* What waits for the lock on the user's row, and what does not.           *)
Locking ==
  \/ \E c \in 0 .. email.last : VerifyEmail(c)
  \/ \E c \in 0 .. reset.last : VerifyReset(c)
  \/ \E t \in tokens : CompleteReset(t)
  \/ \E p \in pending : ChangePassword(p)
  \/ Resend \/ ManagerConfirm \/ RequestReset

Free ==
  \/ \E what \in {"login", "change"} : Check(what)
  \/ \E p \in pending : LogIn(p)
  \/ \E s \in sessions : LogOut(s)
  \/ Register \/ Expire

-----------------------------------------------------------------------------
AccountTypeOK ==
  /\ account \in Account /\ email \in Code /\ reset \in Code
  /\ stamp \in [now : CodeIds, last : CodeIds] /\ tokens \subseteq Token
  /\ sessions \subseteq Passwords /\ pending \subseteq Request /\ events \in 0 .. MaxEvents
  /\ wrong \in [email : Nat, reset : Nat] /\ resets \in [CodeIds -> Nat]
  /\ late \subseteq Passwords

(* A code answers for one thing: at most MaxAttempts wrong entries are     *)
(* compared with it, it replaces at most one password whatever tokens it   *)
(* bought, and the token in force is one that the latest code bought.      *)
CodesHold ==
  /\ wrong.email <= MaxAttempts /\ wrong.reset <= MaxAttempts
  /\ \A c \in CodeIds : resets[c] <= 1
  /\ \A t \in tokens : t.stamp = stamp.now => reset.held /\ t.code = reset.last

(* A refresh token outlives the password it was given for only when its    *)
(* login had passed the check as the password was replaced.                *)
SessionsEnd == \A s \in sessions : s = account.password \/ s \in late
=============================================================================
