------------------------------ MODULE Accounts ------------------------------
(***************************************************************************)
(* Accounts, passwords, sessions and one-time tokens (app/routers/auth.py, *)
(* the user operations of app/routers/superadmin.py) and the webhooks of   *)
(* Bitrix24 that write to an account (app/routers/bitrix_webhooks.py).     *)
(*                                                                         *)
(* A handler first reads and checks, and writes and commits at its end     *)
(* without comparing what it has read: Begin... and Finish....  Between    *)
(* the two, an `async def' handler lets no other one run, for it awaits    *)
(* nothing there; a `def' handler runs in a thread next to everything      *)
(* else.  Only the webhooks await Bitrix24 in the middle, and from their   *)
(* UPDATE of the account on they hold its row lock.                        *)
(*                                                                         *)
(* Passwords are numbered in the order of their commits.  Rate limits,     *)
(* the expiry of tokens and sessions, and impersonation are left out;      *)
(* every role but superadmin is "other" and changes nothing here.          *)
(*                                                                         *)
(* An operator named Bug... is a plausible mistake in the one after it.    *)
(***************************************************************************)
EXTENDS Integers, FiniteSets

CONSTANTS
    User,          \* accounts
    Session,       \* rows of user_sessions
    Token,         \* rows of auth_tokens
    Thread,        \* threads of `def' handlers
    AdminThread,   \* those in which the superadmins' requests run
    Loop,          \* the event loop
    Hook,          \* webhook calls of Bitrix24
    Contact,       \* users known to Bitrix24 as a contact
    Staff,         \* users who may be superadmins at the start
    MaxPassword,   \* bound of the model on password changes
    MaxRotations,  \* bound of the model on refreshes of a session
    Nobody         \* no user, session or token

ASSUME ConstantsAssumption ==
    /\ AdminThread \subseteq Thread
    /\ Contact \subseteq User
    /\ Staff \subseteq User /\ Staff # {}
    /\ Loop \notin Thread \cup Hook /\ Thread \cap Hook = {}
    /\ Nobody \notin User \cup Session \cup Token
    /\ MaxPassword \in Nat /\ MaxRotations \in Nat

VARIABLES
    user,   \* portal_users, committed
    sess,   \* user_sessions, committed
    token,  \* auth_tokens, committed
    txn     \* the open transaction of each thread, of the loop and of each webhook

vars == <<user, sess, token, txn>>

Txn == Thread \cup {Loop} \cup Hook

UserRow ==
    [status : {"none", "pending", "active", "blocked"}, role : {"superadmin", "other"},
     password : Nat, reset : Nat, signedIn : BOOLEAN]

NoUser ==
    [status |-> "none", role |-> "other", password |-> 0, reset |-> 0, signedIn |-> FALSE]

SessionRow ==
    [status : {"none", "live", "revoked"}, user : User \cup {Nobody}, password : Nat,
     rotation : Nat]

NoSession == [status |-> "none", user |-> Nobody, password |-> 0, rotation |-> 0]

TokenRow ==
    [type : {"none", "first_login", "password_reset"}, user : User \cup {Nobody}, uses : Nat]

NoToken == [type |-> "none", user |-> Nobody, uses |-> 0]

LoopKinds == {"login", "first_login", "reset_request", "reset_confirm"}
ThreadKinds == {"change_password", "logout", "refresh"}
AdminKinds == {"invite", "create_user", "block", "unblock", "role"}
HookKinds == {"create_update", "create_waits", "contact_waits", "companies_update", "companies_wait"}

\* The transactions that use the account, at their end, as they read it: row.
StaleKinds == {"login", "create_update", "contact_waits"}

Txns ==
    [kind : {"none"} \cup LoopKinds \cup ThreadKinds \cup AdminKinds \cup HookKinds,
     user : User \cup {Nobody}, sess : Session \cup {Nobody}, token : Token \cup {Nobody},
     row : UserRow]

Idle ==
    [kind |-> "none", user |-> Nobody, sess |-> Nobody, token |-> Nobody, row |-> NoUser]

TypeOK ==
    /\ user \in [User -> UserRow]
    /\ sess \in [Session -> SessionRow]
    /\ token \in [Token -> TokenRow]
    /\ txn \in [Txn -> Txns]
    /\ \A s \in Session : sess[s].status = "live" => user[sess[s].user].signedIn

Init ==
    /\ \E A \in SUBSET Staff :
          /\ A # {}
          /\ user = [u \in User |->
                        IF u \in A
                        THEN [NoUser EXCEPT !.status = "active", !.role = "superadmin"]
                        ELSE NoUser]
    /\ sess = [s \in Session |-> NoSession]
    /\ token = [k \in Token |-> NoToken]
    /\ txn = [t \in Txn |-> Idle]

-----------------------------------------------------------------------------
\* The handlers of LoopKinds run in threads, too.
BugAsync == Thread \cup {Loop}

(***************************************************************************)
(* Where the handlers of LoopKinds, which are `async def', run.            *)
(***************************************************************************)
Async == {Loop}

(***************************************************************************)
(* A webhook that is not waiting for Bitrix24 occupies the loop, even      *)
(* while PostgreSQL makes it wait for a row.                               *)
(***************************************************************************)
LoopFree ==
    /\ txn[Loop].kind = "none"
    /\ \A h \in Hook : txn[h].kind \notin {"create_update", "companies_update"}

Ready(t) == txn[t].kind = "none" /\ (t = Loop => LoopFree)

\* No webhook keeps the account from being updated.
BugHeld(u) == FALSE

Held(u) ==
    \E h \in Hook : txn[h].user = u /\ txn[h].kind \in {"create_waits", "companies_wait"}

Begin(t, kind, u, s, k) ==
    /\ Ready(t)
    /\ txn' = [txn EXCEPT ![t] = [Idle EXCEPT !.kind = kind, !.user = u, !.sess = s,
                                              !.token = k,
                                              !.row = IF kind \in StaleKinds
                                                      THEN user[u] ELSE NoUser]]
    /\ UNCHANGED <<user, sess, token>>

Ends(t, kind) == txn[t].kind = kind /\ txn' = [txn EXCEPT ![t] = Idle]

NewSession(s) == sess[s].status = "none" /\ \A t \in Txn : txn[t].sess # s

NewToken(k) == token[k].type = "none" /\ \A t \in Txn : txn[t].token # k

MayChoosePassword(u) == user[u].password < MaxPassword

WithPassword(row) == [row EXCEPT !.password = @ + 1]

\* Only the session that made the request ends.
BugRevoked(u) ==
    [s \in Session |->
        IF sess[s].user = u /\ sess[s].password = user[u].password
        THEN [sess[s] EXCEPT !.status = "revoked"] ELSE sess[s]]

\* revoke_sessions_for_user.
Revoked(u) ==
    [s \in Session |->
        IF sess[s].user = u THEN [sess[s] EXCEPT !.status = "revoked"] ELSE sess[s]]

-----------------------------------------------------------------------------
(***************************************************************************)
(* POST /auth/login, once the password is verified.                        *)
(***************************************************************************)
BeginLogin(t, u, s) ==
    /\ user[u].status = "active"
    /\ NewSession(s)
    /\ Begin(t, "login", u, s, Nobody)

\* last_login_at is left as it is.
BugSignsIn(row) == row

SignsIn(row) == [row EXCEPT !.signedIn = TRUE]

FinishLogin(t) ==
    LET u == txn[t].user IN
    /\ Ends(t, "login")
    /\ ~Held(u)
    /\ sess' = [sess EXCEPT ![txn[t].sess] =
                   [status |-> "live", user |-> u, password |-> txn[t].row.password, rotation |-> 0]]
    /\ user' = [user EXCEPT ![u] = SignsIn(@)]
    /\ UNCHANGED token

(***************************************************************************)
(* POST /auth/first-login and /auth/password-reset/confirm:                *)
(* token_error_for_row, then the account.                                  *)
(***************************************************************************)
Usable(k, type) ==
    /\ token[k].type = type
    /\ token[k].uses = 0
    /\ user[token[k].user].status # "blocked"

BeginFirstLogin(t, k) ==
    /\ Usable(k, "first_login")
    /\ MayChoosePassword(token[k].user)
    /\ Begin(t, "first_login", token[k].user, Nobody, k)

FinishFirstLogin(t) ==
    LET u == txn[t].user IN
    /\ Ends(t, "first_login")
    /\ ~Held(u)
    /\ user' = [user EXCEPT ![u] = [WithPassword(@) EXCEPT !.status = "active"]]
    /\ token' = [token EXCEPT ![txn[t].token].uses = @ + 1]
    /\ UNCHANGED sess

BeginReset(t, k) ==
    /\ Usable(k, "password_reset")
    /\ MayChoosePassword(token[k].user)
    /\ Begin(t, "reset_confirm", token[k].user, Nobody, k)

FinishReset(t) ==
    LET u == txn[t].user IN
    /\ Ends(t, "reset_confirm")
    /\ ~Held(u)
    /\ user' = [user EXCEPT ![u] = [WithPassword(@) EXCEPT !.reset = user[u].password + 1]]
    /\ token' = [token EXCEPT ![txn[t].token].uses = @ + 1]
    /\ sess' = Revoked(u)

(***************************************************************************)
(* POST /auth/password-reset/request.                                      *)
(***************************************************************************)
BeginResetRequest(t, u, k) ==
    /\ user[u].status \notin {"none", "blocked"}
    /\ NewToken(k)
    /\ Begin(t, "reset_request", u, Nobody, k)

FinishResetRequest(t) ==
    /\ Ends(t, "reset_request")
    /\ token' = [token EXCEPT ![txn[t].token] =
                    [type |-> "password_reset", user |-> txn[t].user, uses |-> 0]]
    /\ UNCHANGED <<user, sess>>

-----------------------------------------------------------------------------
\* get_current_user_from_cookie.
SignedIn(u) ==
    /\ user[u].status = "active"
    /\ \E s \in Session : sess[s].user = u /\ sess[s].status = "live"

(***************************************************************************)
(* POST /auth/change-password.                                             *)
(***************************************************************************)
BeginChangePassword(t, u) ==
    /\ SignedIn(u)
    /\ MayChoosePassword(u)
    /\ Begin(t, "change_password", u, Nobody, Nobody)

FinishChangePassword(t) ==
    LET u == txn[t].user IN
    /\ Ends(t, "change_password")
    /\ ~Held(u)
    /\ user' = [user EXCEPT ![u] = WithPassword(@)]
    /\ sess' = Revoked(u)
    /\ UNCHANGED token

(***************************************************************************)
(* POST /auth/logout and /auth/refresh find the session by the hash of the *)
(* refresh token issued last; with an older one they write nothing.        *)
(***************************************************************************)
BeginLogout(t, s) ==
    /\ sess[s].status = "live"
    /\ Begin(t, "logout", sess[s].user, s, Nobody)

FinishLogout(t) ==
    /\ Ends(t, "logout")
    /\ sess' = [sess EXCEPT ![txn[t].sess].status = "revoked"]
    /\ UNCHANGED <<user, token>>

BeginRefresh(t, s) ==
    /\ sess[s].status = "live"
    /\ user[sess[s].user].status = "active"
    /\ sess[s].rotation < MaxRotations
    /\ Begin(t, "refresh", sess[s].user, s, Nobody)

\* The row is written back as it was read.
BugRotated(row) == [row EXCEPT !.rotation = @ + 1, !.status = "live"]

Rotated(row) == [row EXCEPT !.rotation = @ + 1]

FinishRefresh(t) ==
    /\ Ends(t, "refresh")
    /\ sess' = [sess EXCEPT ![txn[t].sess] = Rotated(@)]
    /\ UNCHANGED <<user, token>>

-----------------------------------------------------------------------------
\* require_superadmin.
IsSuperadmin(u) == user[u].status = "active" /\ user[u].role = "superadmin"

Acts(u) == IsSuperadmin(u) /\ SignedIn(u)

(***************************************************************************)
(* POST /auth/invites, and POST /superadmin/users, which inserts the       *)
(* account with its token.                                                 *)
(***************************************************************************)
BeginInvite(t, u, k) ==
    /\ \E a \in User : Acts(a)
    /\ user[u].status \notin {"none", "blocked"}
    /\ NewToken(k)
    /\ Begin(t, "invite", u, Nobody, k)

FinishInvite(t) ==
    /\ Ends(t, "invite")
    /\ token' = [token EXCEPT ![txn[t].token] =
                    [type |-> "first_login", user |-> txn[t].user, uses |-> 0]]
    /\ UNCHANGED <<user, sess>>

BeginCreateUser(t, u, k) ==
    /\ \E a \in User : Acts(a)
    /\ user[u].status = "none"
    /\ NewToken(k)
    /\ Begin(t, "create_user", u, Nobody, k)

\* Without the commit, the insert fails on the unique e-mail address (Abort).
FinishCreateUser(t) ==
    LET u == txn[t].user IN
    /\ Ends(t, "create_user")
    /\ ~Held(u)
    /\ user[u].status = "none"
    /\ user' = [user EXCEPT ![u] = [WithPassword(@) EXCEPT !.status = "pending"]]
    /\ token' = [token EXCEPT ![txn[t].token] =
                    [type |-> "first_login", user |-> u, uses |-> 0]]
    /\ UNCHANGED sess

(***************************************************************************)
(* POST /superadmin/users/{id}/block and /unblock.                         *)
(***************************************************************************)
BeginBlock(t, a, u) ==
    /\ Acts(a)
    /\ u # a
    /\ user[u].status \notin {"none", "blocked"}
    /\ Begin(t, "block", u, Nobody, Nobody)

FinishBlock(t) ==
    LET u == txn[t].user IN
    /\ Ends(t, "block")
    /\ ~Held(u)
    /\ user' = [user EXCEPT ![u].status = "blocked"]
    /\ sess' = Revoked(u)
    /\ UNCHANGED token

BeginUnblock(t, u) ==
    /\ \E a \in User : Acts(a)
    /\ user[u].status = "blocked"
    /\ Begin(t, "unblock", u, Nobody, Nobody)

FinishUnblock(t) ==
    /\ Ends(t, "unblock")
    /\ ~Held(txn[t].user)
    /\ user' = [user EXCEPT ![txn[t].user].status = "active"]
    /\ UNCHANGED <<sess, token>>

Others(u) == {v \in User \ {u} : IsSuperadmin(v)}

(***************************************************************************)
(* PATCH /superadmin/users/{id}/roles.  GENERAL_ROLE_CODES has no          *)
(* "superadmin" (ROLE_NOT_ALLOWED): the handler only takes that role away, *)
(* or exchanges two others.  A role the user has already changes nothing.  *)
(***************************************************************************)
BeginRole(t, a, u) ==
    /\ Acts(a)
    /\ u # a
    /\ user[u].status # "none"
    /\ user[u].role = "superadmin" => Others(u) # {}
    /\ Begin(t, "role", u, Nobody, Nobody)

FinishRole(t) ==
    LET u == txn[t].user IN
    /\ Ends(t, "role")
    /\ ~Held(u)
    /\ user' = [user EXCEPT ![u].role = "other"]
    /\ sess' = Revoked(u)
    /\ UNCHANGED token

-----------------------------------------------------------------------------
(***************************************************************************)
(* Webhook create-user: it reads the account when Bitrix24 has sent the    *)
(* contact, and updates (or inserts) it in sync_user_contact_cache, which  *)
(* then awaits the contact's companies.                                    *)
(***************************************************************************)
BeginSync(h, u) ==
    /\ LoopFree
    /\ u \in Contact
    /\ user[u].signedIn \/ MayChoosePassword(u)
    /\ Begin(h, "create_update", u, Nobody, Nobody)

\* An INSERT of an account that somebody else has inserted meanwhile fails (Abort).
UpdateContact(h) ==
    LET u == txn[h].user IN
    /\ txn[h].kind = "create_update"
    /\ ~Held(u)
    /\ txn[h].row.status = "none" => user[u].status = "none"
    /\ txn' = [txn EXCEPT ![h].kind = "create_waits"]
    /\ UNCHANGED <<user, sess, token>>

\* user_needs_reinvite.
NeedsReinvite(row) == row.status # "blocked" /\ ~row.signedIn

(***************************************************************************)
(* create-user inserts the account with a temporary password, or           *)
(* maybe_reinvite_existing_user gives it another one, and the mail is sent.*)
(* The token in it is of invite_tokens, which no handler reads.            *)
(***************************************************************************)
Invited(row, seen) ==
    IF NeedsReinvite(seen) THEN [WithPassword(row) EXCEPT !.status = "active"] ELSE row

\* A client, after the companies; the role is the one of the contact.
FinishSync(h) ==
    LET u == txn[h].user IN
    /\ LoopFree
    /\ Ends(h, "create_waits")
    /\ user' = [user EXCEPT ![u] = [Invited(@, txn[h].row) EXCEPT !.role = "other"]]
    /\ UNCHANGED <<sess, token>>

\* A partner: no company is awaited, and the role stays as it is.
SyncPartner(h) ==
    LET u == txn[h].user IN
    /\ Ends(h, "create_update")
    /\ ~Held(u)
    /\ txn[h].row.status = "none" => user[u].status = "none"
    /\ user' = [user EXCEPT ![u] = Invited(@, txn[h].row)]
    /\ UNCHANGED <<sess, token>>

(***************************************************************************)
(* Webhook sync-contact-companies: it reads the account, awaits the        *)
(* contact, writes back the role it has read, and awaits the companies.    *)
(***************************************************************************)
BeginCompanies(h, u) ==
    /\ LoopFree
    /\ u \in Contact
    /\ user[u].status # "none"
    /\ Begin(h, "contact_waits", u, Nobody, Nobody)

ReceiveContact(h) ==
    /\ LoopFree
    /\ txn[h].kind = "contact_waits"
    /\ txn' = [txn EXCEPT ![h].kind = "companies_update"]
    /\ UNCHANGED <<user, sess, token>>

UpdateCompanies(h) ==
    /\ txn[h].kind = "companies_update"
    /\ ~Held(txn[h].user)
    /\ txn' = [txn EXCEPT ![h].kind = "companies_wait"]
    /\ UNCHANGED <<user, sess, token>>

FinishCompanies(h) ==
    /\ LoopFree
    /\ Ends(h, "companies_wait")
    /\ user' = [user EXCEPT ![txn[h].user].role = txn[h].row.role]
    /\ UNCHANGED <<sess, token>>

\* Nor are there companies to await for a partner or a client without a role.
SkipCompanies(h) ==
    /\ Ends(h, "companies_update")
    /\ ~Held(txn[h].user)
    /\ txn[h].row.role = "other"
    /\ UNCHANGED <<user, sess, token>>

(***************************************************************************)
(* An exception, a crash, or mail that cannot be sent: rollback.           *)
(***************************************************************************)
Abort(t) ==
    /\ txn[t].kind # "none"
    /\ txn' = [txn EXCEPT ![t] = Idle]
    /\ UNCHANGED <<user, sess, token>>

-----------------------------------------------------------------------------
AsyncHandler(t) ==
    \/ \E u \in User, s \in Session : BeginLogin(t, u, s)
    \/ \E k \in Token : BeginFirstLogin(t, k) \/ BeginReset(t, k)
    \/ \E u \in User, k \in Token : BeginResetRequest(t, u, k)
    \/ FinishLogin(t)
    \/ FinishFirstLogin(t)
    \/ FinishReset(t)
    \/ FinishResetRequest(t)

ThreadHandler(t) ==
    \/ \E u \in User : BeginChangePassword(t, u)
    \/ \E s \in Session : BeginLogout(t, s) \/ BeginRefresh(t, s)
    \/ FinishChangePassword(t)
    \/ FinishLogout(t)
    \/ FinishRefresh(t)

AdminHandler(t) ==
    \/ \E u \in User, k \in Token : BeginInvite(t, u, k) \/ BeginCreateUser(t, u, k)
    \/ \E a, u \in User : BeginBlock(t, a, u) \/ BeginRole(t, a, u)
    \/ \E u \in User : BeginUnblock(t, u)
    \/ FinishInvite(t)
    \/ FinishCreateUser(t)
    \/ FinishBlock(t)
    \/ FinishUnblock(t)
    \/ FinishRole(t)

Webhook(h) ==
    \/ \E u \in User : BeginSync(h, u) \/ BeginCompanies(h, u)
    \/ UpdateContact(h)
    \/ FinishSync(h)
    \/ SyncPartner(h)
    \/ ReceiveContact(h)
    \/ UpdateCompanies(h)
    \/ FinishCompanies(h)
    \/ SkipCompanies(h)

Next ==
    \/ \E t \in Async : AsyncHandler(t)
    \/ \E t \in Thread : ThreadHandler(t)
    \/ \E t \in AdminThread : AdminHandler(t)
    \/ \E h \in Hook : Webhook(h)
    \/ \E t \in Txn : Abort(t)

Spec == Init /\ [][Next]_vars

-----------------------------------------------------------------------------
(***************************************************************************)
(* A token is used at most once, although neither handler locks its row    *)
(* or compares used_at in its UPDATE: what keeps a double click from       *)
(* using it twice is that nothing is awaited between the two.              *)
(***************************************************************************)
TokenUsedOnce == \A k \in Token : token[k].uses <= 1

(***************************************************************************)
(* No session that was opened before the last password reset is alive, not *)
(* even one whose login had verified the old password when the reset was   *)
(* confirmed (POST /auth/password-reset/confirm).                          *)
(***************************************************************************)
ResetEndsSessions ==
    \A s \in Session :
        sess[s].status = "live" => sess[s].password >= user[sess[s].user].reset

(***************************************************************************)
(* A revoked session stays revoked, also when it is refreshed while it is  *)
(* being revoked.                                                          *)
(***************************************************************************)
RevokedForGood ==
    [][\A s \in Session : sess[s].status = "revoked" => sess'[s].status = "revoked"]_vars

(***************************************************************************)
(* Bitrix24 repeating create-user never replaces the password of somebody  *)
(* who has signed in: the account is read before the companies are         *)
(* awaited, and only the row lock keeps a login from coming in between.    *)
(* Of somebody who has chosen a password and not signed in yet it does,    *)
(* although docs/project-architecture-and-business-logic.md:486 excludes   *)
(* it for everybody who is active.                                         *)
(***************************************************************************)
ReinviteSparesSignedIn ==
    [][\A h \in Hook, u \in User :
          (FinishSync(h) \/ SyncPartner(h)) /\ user[u].signedIn =>
              user'[u].password = user[u].password]_vars

(***************************************************************************)
(* There is always an active superadmin, which CANNOT_BLOCK_SELF and       *)
(* LAST_SUPERADMIN_REQUIRED are to ensure.  The code does not keep this:   *)
(* see README.md, observations.                                            *)
(***************************************************************************)
SomeSuperadmin == \E u \in User : IsSuperadmin(u)
=============================================================================
