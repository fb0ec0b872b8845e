--------------------------- MODULE AccountsProofs ---------------------------
(***************************************************************************)
(* What Accounts keeps true for any number of accounts, sessions, tokens,  *)
(* threads and webhooks.  It rests on what the handlers never say: that    *)
(* the one event loop runs an `async def' handler to its end, and that a   *)
(* webhook keeps the row lock of its account while it waits for Bitrix24.  *)
(***************************************************************************)
EXTENDS Accounts, TLAPS

\* The handlers that consume a one-time token, and those that insert one.
TakesToken == {"first_login", "reset_confirm"}
MakesToken == {"invite", "create_user", "reset_request"}

StoresTyped ==
    /\ user \in [User -> UserRow]
    /\ sess \in [Session -> SessionRow]
    /\ token \in [Token -> TokenRow]
    /\ txn \in [Txn -> Txns]

\* A reset chooses the password that is the newest at its commit.
PasswordsAdvance == \A u \in User : user[u].reset <= user[u].password

SessionOK(s) ==
    /\ sess[s].status = "none" <=> sess[s].user = Nobody
    /\ sess[s].status = "live" =>
          /\ user[sess[s].user].signedIn
          /\ user[sess[s].user].reset <= sess[s].password

TokenOK(k) ==
    /\ token[k].type = "none" => token[k].uses = 0
    /\ token[k].type # "none" => token[k].user \in User
    /\ token[k].uses <= 1

-----------------------------------------------------------------------------
\* Who runs which handler.
Placed(t) ==
    /\ txn[t].kind # "none" => txn[t].user \in User
    /\ txn[t].kind \in LoopKinds => t = Loop
    /\ txn[t].kind \in AdminKinds => t \in AdminThread
    /\ txn[t].kind \in HookKinds => t \in Hook /\ txn[t].user \in Contact

(***************************************************************************)
(* What a handler has checked still holds when it writes: a token that it  *)
(* consumes is unused, one that it inserts is its own.                     *)
(***************************************************************************)
TokenInHand(t) ==
    /\ txn[t].kind \in TakesToken =>
          /\ txn[t].token \in Token
          /\ token[txn[t].token].type # "none" /\ token[txn[t].token].uses = 0
    /\ txn[t].kind \in MakesToken =>
          /\ txn[t].token \in Token
          /\ token[txn[t].token].type = "none"
          /\ \A k \in Txn \ {t} : txn[k].token # txn[t].token

\* A login inserts a new session, and the password it has verified is not an older one.
SessionInHand(t) ==
    /\ txn[t].kind = "login" =>
          /\ txn[t].sess \in Session /\ sess[txn[t].sess].status = "none"
          /\ user[txn[t].user].reset <= txn[t].row.password
    /\ txn[t].kind \in {"logout", "refresh"} =>
          txn[t].sess \in Session /\ sess[txn[t].sess].status # "none"

(***************************************************************************)
(* Whoever has signed in had done so when create-user read the account:    *)
(* first the loop, then the row lock keeps a login from its commit.        *)
(***************************************************************************)
AccountInHand(t) ==
    /\ txn[t].kind = "create_update" => txn[Loop].kind = "none"
    /\ txn[t].kind \in {"create_update", "create_waits"} =>
          (user[txn[t].user].signedIn => txn[t].row.signedIn)

TxnInv(t) == Placed(t) /\ TokenInHand(t) /\ SessionInHand(t) /\ AccountInHand(t)

IInv ==
    /\ StoresTyped
    /\ PasswordsAdvance
    /\ \A s \in Session : SessionOK(s)
    /\ \A k \in Token : TokenOK(k)
    /\ \A t \in Txn : TxnInv(t)

-----------------------------------------------------------------------------
Kinds == {"none"} \cup LoopKinds \cup ThreadKinds \cup AdminKinds \cup HookKinds

LEMMA TxnFields ==
    ASSUME NEW q \in Txns
    PROVE  /\ q.kind \in Kinds /\ q.user \in User \cup {Nobody}
           /\ q.sess \in Session \cup {Nobody} /\ q.token \in Token \cup {Nobody}
           /\ q.row \in UserRow
BY DEF Txns, Kinds

LEMMA IdleFields ==
    /\ Idle \in Txns
    /\ Idle.kind = "none" /\ Idle.user = Nobody /\ Idle.sess = Nobody /\ Idle.token = Nobody
    /\ Idle.row = NoUser
BY DEF Idle, Txns, NoUser, UserRow

LEMMA TxnPlaces ==
    Loop \in Txn /\ Thread \subseteq Txn /\ AdminThread \subseteq Txn /\ Hook \subseteq Txn
BY ConstantsAssumption DEF Txn

\* The transaction that a handler opens.
LEMMA BeginEffect ==
    ASSUME IInv, NEW t \in Txn, NEW kind \in Kinds, NEW u \in User,
           NEW s \in Session \cup {Nobody}, NEW k \in Token \cup {Nobody},
           Begin(t, kind, u, s, k)
    PROVE  /\ txn' \in [Txn -> Txns] /\ \A h \in Txn \ {t} : txn'[h] = txn[h]
           /\ txn'[t].kind = kind /\ txn'[t].user = u /\ txn'[t].sess = s /\ txn'[t].token = k
           /\ txn'[t].row = (IF kind \in StaleKinds THEN user[u] ELSE NoUser)
           /\ UNCHANGED <<user, sess, token>>
           /\ txn[t].kind = "none" /\ (t = Loop => LoopFree)
<1> DEFINE r == IF kind \in StaleKinds THEN user[u] ELSE NoUser
           q == [Idle EXCEPT !.kind = kind, !.user = u, !.sess = s, !.token = k, !.row = r]
<1>1. r \in UserRow
  BY DEF IInv, StoresTyped, NoUser, UserRow
<1>2. txn' = [txn EXCEPT ![t] = q] /\ txn \in [Txn -> Txns]
  BY DEF Begin, IInv, StoresTyped
<1> HIDE DEF r
<1>3. /\ q \in Txns /\ q.kind = kind /\ q.user = u /\ q.sess = s /\ q.token = k /\ q.row = r
  BY <1>1 DEF Idle, Txns, Kinds
<1> HIDE DEF q
<1>4. /\ txn' \in [Txn -> Txns] /\ txn'[t] = q
      /\ \A h \in Txn \ {t} : txn'[h] = txn[h]
  BY <1>2, <1>3
<1> QED
  BY <1>3, <1>4 DEF Begin, Ready, r

(***************************************************************************)
(* A step inside a transaction, its begin or its rollback: nothing is      *)
(* committed, and no token is taken that another handler inserts.          *)
(***************************************************************************)
LEMMA OpenStep ==
    ASSUME IInv, NEW t \in Txn, UNCHANGED <<user, sess, token>>,
           txn' \in [Txn -> Txns], \A k \in Txn \ {t} : txn'[k] = txn[k],
           TxnInv(t)', t = Loop => LoopFree \/ txn'[t].kind = "none",
           \A k \in Txn \ {t} : txn[k].kind \in MakesToken => txn'[t].token # txn[k].token
    PROVE  IInv'
<1>1. /\ StoresTyped' /\ PasswordsAdvance'
      /\ \A s \in Session : SessionOK(s)'
      /\ \A k \in Token : TokenOK(k)'
  BY DEF IInv, StoresTyped, PasswordsAdvance, SessionOK, TokenOK
<1>2. ASSUME NEW k \in Txn \ {t}
      PROVE  TxnInv(k)'
  <2>1. TxnInv(k) /\ txn'[k] = txn[k]
    BY DEF IInv
  <2>2. Placed(k)'
    BY <2>1 DEF TxnInv, Placed
  <2>3. TokenInHand(k)'
    BY <2>1 DEF TxnInv, TokenInHand
  <2>4. SessionInHand(k)'
    BY <2>1 DEF TxnInv, SessionInHand
  <2>5. AccountInHand(k)'
    <3>1. txn'[k].kind = "create_update" => txn'[Loop].kind = "none"
      <4>1. SUFFICES ASSUME txn[k].kind = "create_update"
                     PROVE  txn'[Loop].kind = "none"
        BY <2>1
      <4>2. txn[Loop].kind = "none"
        BY <2>1, <4>1 DEF TxnInv, AccountInHand
      <4>3. CASE t # Loop
        BY <4>2, <4>3, TxnPlaces
      <4>4. CASE t = Loop /\ LoopFree
        <5>1. k \notin Hook
          BY <4>1, <4>4 DEF LoopFree
        <5> QED
          BY <2>1, <4>1, <5>1 DEF TxnInv, Placed, HookKinds
      <4> QED
        BY <4>3, <4>4
    <3> QED
      BY <2>1, <3>1 DEF TxnInv, AccountInHand
  <2> QED
    BY <2>2, <2>3, <2>4, <2>5 DEF TxnInv
<1>3. \A k \in Txn : TxnInv(k)'
  BY <1>2
<1> QED
  BY <1>1, <1>3 DEF IInv

(***************************************************************************)
(* A commit ends its transaction.  It disturbs no other one if an older    *)
(* password, a sign-in or a new session comes from the loop only, a        *)
(* sign-in meets no lock, and a token changes for its own handler.         *)
(***************************************************************************)
LEMMA CommitStep ==
    ASSUME IInv, NEW t \in Txn, txn[t].kind # "none", txn' = [txn EXCEPT ![t] = Idle],
           user' \in [User -> UserRow], sess' \in [Session -> SessionRow],
           token' \in [Token -> TokenRow],
           \A u \in User : user'[u].reset <= user'[u].password,
           \A u \in User : user'[u].reset = user[u].reset \/ t = Loop,
           \A u \in User :
              user'[u].signedIn => user[u].signedIn \/ (t = Loop /\ ~Held(u)),
           \A s \in Session : SessionOK(s)',
           \A s \in Session : sess[s].status = "none" => sess'[s].status = "none" \/ t = Loop,
           \A s \in Session : sess[s].status # "none" => sess'[s].status # "none",
           \A k \in Token : TokenOK(k)',
           \A k \in Token : \/ token'[k] = token[k]
                            \/ k = txn[t].token /\ txn[t].kind \in TakesToken \cup MakesToken
    PROVE  IInv'
<1>1. /\ txn' \in [Txn -> Txns] /\ txn'[t] = Idle
      /\ \A k \in Txn \ {t} : txn'[k] = txn[k]
  BY IdleFields DEF IInv, StoresTyped
<1>2. TxnInv(t)'
  BY <1>1, IdleFields
     DEF TxnInv, Placed, TokenInHand, SessionInHand, AccountInHand, LoopKinds, AdminKinds,
         HookKinds, TakesToken, MakesToken
<1>3. ASSUME NEW k \in Txn \ {t}
      PROVE  TxnInv(k)'
  <2>1. TxnInv(k) /\ TxnInv(t) /\ txn'[k] = txn[k] /\ txn[k] \in Txns
    BY <1>1 DEF IInv, StoresTyped
  <2>2. Placed(k)'
    BY <2>1 DEF TxnInv, Placed
  <2>3. TokenInHand(k)'
    <3>1. ASSUME txn[k].kind \in TakesToken
          PROVE  /\ txn[k].token \in Token
                 /\ token'[txn[k].token].type # "none" /\ token'[txn[k].token].uses = 0
      <4>1. /\ txn[k].token \in Token /\ k = Loop
            /\ token[txn[k].token].type # "none" /\ token[txn[k].token].uses = 0
        BY <2>1, <3>1 DEF TxnInv, Placed, TokenInHand, TakesToken, LoopKinds
      <4>2. token'[txn[k].token] = token[txn[k].token]
        <5>1. txn[t].kind \notin TakesToken
          BY <2>1, <4>1 DEF TxnInv, Placed, TakesToken, LoopKinds
        <5>2. txn[t].kind \in MakesToken => txn[k].token # txn[t].token
          BY <2>1 DEF TxnInv, TokenInHand
        <5> QED
          BY <4>1, <5>1, <5>2
      <4> QED
        BY <4>1, <4>2
    <3>2. ASSUME txn[k].kind \in MakesToken
          PROVE  /\ txn[k].token \in Token
                 /\ token'[txn[k].token].type = "none"
                 /\ \A h \in Txn \ {k} : txn'[h].token # txn[k].token
      <4>1. /\ txn[k].token \in Token
            /\ token[txn[k].token].type = "none"
            /\ \A h \in Txn \ {k} : txn[h].token # txn[k].token
        BY <2>1, <3>2 DEF TxnInv, TokenInHand
      <4>2. txn'[t].token # txn[k].token
        BY <1>1, <4>1, IdleFields, ConstantsAssumption
      <4> QED
        BY <1>1, <4>1, <4>2
    <3> QED
      BY <2>1, <3>1, <3>2 DEF TokenInHand
  <2>4. SessionInHand(k)'
    <3>1. ASSUME txn[k].kind = "login"
          PROVE  /\ txn[k].sess \in Session /\ sess'[txn[k].sess].status = "none"
                 /\ user'[txn[k].user].reset <= txn[k].row.password
      <4>1. k = Loop /\ t # Loop /\ txn[k].user \in User
        BY <2>1, <3>1 DEF TxnInv, Placed, LoopKinds
      <4> QED
        BY <2>1, <3>1, <4>1 DEF TxnInv, SessionInHand
    <3> QED
      BY <2>1, <3>1 DEF TxnInv, SessionInHand
  <2>5. AccountInHand(k)'
    <3>1. txn[k].kind = "create_update" => txn'[Loop].kind = "none" /\ t # Loop
      BY <1>1, <2>1, TxnPlaces DEF TxnInv, AccountInHand
    <3>2. ASSUME txn[k].kind \in {"create_update", "create_waits"},
                 user'[txn[k].user].signedIn
          PROVE  txn[k].row.signedIn
      <4>1. txn[k].user \in User /\ k \in Hook
        BY <2>1, <3>2 DEF TxnInv, Placed, HookKinds
      <4>2. user[txn[k].user].signedIn
        BY <3>1, <3>2, <4>1 DEF Held
      <4> QED
        BY <2>1, <3>2, <4>2 DEF TxnInv, AccountInHand
    <3> QED
      BY <2>1, <3>1, <3>2 DEF AccountInHand
  <2> QED
    BY <2>2, <2>3, <2>4, <2>5 DEF TxnInv
<1>4. \A k \in Txn : TxnInv(k)'
  BY <1>2, <1>3
<1> QED
  BY <1>1, <1>4 DEF IInv, StoresTyped, PasswordsAdvance

\* No revoked session comes back.
Onward == \A s \in Session : sess[s].status = "revoked" => sess'[s].status = "revoked"

LEMMA RevokedEffect ==
    ASSUME IInv, NEW u \in User
    PROVE  /\ Revoked(u) \in [Session -> SessionRow]
           /\ \A s \in Session :
                 /\ Revoked(u)[s].user = sess[s].user
                 /\ Revoked(u)[s].password = sess[s].password
                 /\ Revoked(u)[s].status = "none" <=> sess[s].status = "none"
                 /\ Revoked(u)[s].status = "live" => sess[s].status = "live"
                 /\ sess[s].status = "revoked" => Revoked(u)[s].status = "revoked"
                 /\ sess[s].user = u => Revoked(u)[s].status # "live"
<1>1. sess \in [Session -> SessionRow]
  BY DEF IInv, StoresTyped
<1>2. ASSUME NEW s \in Session
      PROVE  /\ Revoked(u)[s] \in SessionRow
             /\ Revoked(u)[s].user = sess[s].user
             /\ Revoked(u)[s].password = sess[s].password
             /\ Revoked(u)[s].status = IF sess[s].user = u THEN "revoked" ELSE sess[s].status
  <2>1. /\ Revoked(u)[s] = (IF sess[s].user = u THEN [sess[s] EXCEPT !.status = "revoked"]
                            ELSE sess[s])
        /\ sess[s] \in SessionRow
    BY <1>1 DEF Revoked
  <2> QED
    BY <2>1 DEF SessionRow
<1>3. \A s \in Session : sess[s].status = "none" => sess[s].user # u
  BY ConstantsAssumption DEF IInv, SessionOK
<1>4. Revoked(u) \in [Session -> SessionRow]
  BY <1>2 DEF Revoked
<1> QED
  BY <1>2, <1>3, <1>4

-----------------------------------------------------------------------------
(***************************************************************************)
(* What a handler has to check before it begins.                           *)
(***************************************************************************)
LEMMA BeginKeeps ==
    ASSUME IInv, NEW t \in Txn, NEW kind \in Kinds, NEW u \in User,
           NEW s \in Session \cup {Nobody}, NEW k \in Token \cup {Nobody},
           Begin(t, kind, u, s, k),
           kind \in LoopKinds => t = Loop,
           kind \in AdminKinds => t \in AdminThread,
           kind \in HookKinds => t \in Hook /\ u \in Contact,
           kind \in TakesToken => k \in Token /\ token[k].type # "none" /\ token[k].uses = 0,
           kind \in MakesToken => k \in Token /\ NewToken(k),
           kind \notin TakesToken \cup MakesToken => k = Nobody,
           kind = "login" => s \in Session /\ sess[s].status = "none",
           kind \in {"logout", "refresh"} => s \in Session /\ sess[s].status # "none",
           kind = "create_update" => LoopFree,
           kind # "create_waits"
    PROVE  IInv' /\ Onward
<1>1. /\ txn' \in [Txn -> Txns] /\ \A h \in Txn \ {t} : txn'[h] = txn[h]
      /\ txn'[t].kind = kind /\ txn'[t].user = u /\ txn'[t].sess = s /\ txn'[t].token = k
      /\ txn'[t].row = (IF kind \in StaleKinds THEN user[u] ELSE NoUser)
      /\ UNCHANGED <<user, sess, token>>
      /\ t = Loop => LoopFree
  BY BeginEffect
<1>2. Placed(t)'
  BY <1>1 DEF Placed
<1>3. TokenInHand(t)'
  BY <1>1 DEF TokenInHand, NewToken
<1>4. SessionInHand(t)'
  BY <1>1 DEF SessionInHand, StaleKinds, IInv, PasswordsAdvance
<1>5. AccountInHand(t)'
  <2>1. kind = "create_update" => txn'[Loop].kind = "none"
    <3> SUFFICES ASSUME kind = "create_update"
                 PROVE  txn'[Loop].kind = "none"
      OBVIOUS
    <3>1. t # Loop
      BY ConstantsAssumption DEF HookKinds
    <3> QED
      BY <1>1, <3>1, TxnPlaces DEF LoopFree
  <2> QED
    BY <1>1, <2>1 DEF AccountInHand, StaleKinds
<1>6. \A h \in Txn \ {t} : txn[h].kind \in MakesToken => txn'[t].token # txn[h].token
  <2> SUFFICES ASSUME NEW h \in Txn \ {t}, txn[h].kind \in MakesToken
               PROVE  k # txn[h].token
    BY <1>1
  <2>1. txn[h].token \in Token /\ token[txn[h].token].type = "none"
    BY DEF IInv, TxnInv, TokenInHand
  <2>2. k # Nobody => k \in Token
    OBVIOUS
  <2> QED
    BY <2>1, ConstantsAssumption DEF NewToken
<1>7. IInv'
  BY <1>1, <1>2, <1>3, <1>4, <1>5, <1>6, OpenStep DEF TxnInv
<1>8. Onward
  BY <1>1 DEF Onward
<1> QED
  BY <1>7, <1>8

LEMMA BeginLoginKeeps ==
    ASSUME IInv, NEW t \in Async, NEW u \in User, NEW s \in Session, BeginLogin(t, u, s)
    PROVE  IInv' /\ Onward
<1>1. t \in Txn /\ t = Loop /\ Begin(t, "login", u, s, Nobody) /\ sess[s].status = "none"
  BY TxnPlaces DEF Async, BeginLogin, NewSession
<1> QED
  BY <1>1, BeginKeeps DEF Kinds, LoopKinds, AdminKinds, HookKinds, TakesToken, MakesToken

\* The user of a token that can be used.
LEMMA UsableToken ==
    ASSUME IInv, NEW k \in Token, NEW type, type # "none", Usable(k, type)
    PROVE  token[k].type # "none" /\ token[k].uses = 0 /\ token[k].user \in User
BY DEF IInv, TokenOK, Usable

LEMMA BeginFirstLoginKeeps ==
    ASSUME IInv, NEW t \in Async, NEW k \in Token, BeginFirstLogin(t, k)
    PROVE  IInv' /\ Onward
<1> DEFINE u == token[k].user
<1>1. t \in Txn /\ t = Loop /\ Begin(t, "first_login", u, Nobody, k)
  BY TxnPlaces DEF Async, BeginFirstLogin
<1>2. token[k].type # "none" /\ token[k].uses = 0 /\ u \in User
  BY UsableToken DEF BeginFirstLogin
<1> HIDE DEF u
<1> QED
  BY <1>1, <1>2, BeginKeeps DEF Kinds, LoopKinds, AdminKinds, HookKinds, TakesToken, MakesToken

LEMMA BeginResetKeeps ==
    ASSUME IInv, NEW t \in Async, NEW k \in Token, BeginReset(t, k)
    PROVE  IInv' /\ Onward
<1> DEFINE u == token[k].user
<1>1. t \in Txn /\ t = Loop /\ Begin(t, "reset_confirm", u, Nobody, k)
  BY TxnPlaces DEF Async, BeginReset
<1>2. token[k].type # "none" /\ token[k].uses = 0 /\ u \in User
  BY UsableToken DEF BeginReset
<1> HIDE DEF u
<1> QED
  BY <1>1, <1>2, BeginKeeps DEF Kinds, LoopKinds, AdminKinds, HookKinds, TakesToken, MakesToken

LEMMA BeginResetRequestKeeps ==
    ASSUME IInv, NEW t \in Async, NEW u \in User, NEW k \in Token, BeginResetRequest(t, u, k)
    PROVE  IInv' /\ Onward
<1>1. t \in Txn /\ t = Loop /\ Begin(t, "reset_request", u, Nobody, k) /\ NewToken(k)
  BY TxnPlaces DEF Async, BeginResetRequest
<1> QED
  BY <1>1, BeginKeeps DEF Kinds, LoopKinds, AdminKinds, HookKinds, TakesToken, MakesToken

LEMMA BeginChangePasswordKeeps ==
    ASSUME IInv, NEW t \in Thread, NEW u \in User, BeginChangePassword(t, u)
    PROVE  IInv' /\ Onward
<1>1. t \in Txn /\ Begin(t, "change_password", u, Nobody, Nobody)
  BY TxnPlaces DEF BeginChangePassword
<1> QED
  BY <1>1, BeginKeeps
     DEF Kinds, LoopKinds, ThreadKinds, AdminKinds, HookKinds, TakesToken, MakesToken

\* The user of a session that exists.
LEMMA LiveSession ==
    ASSUME IInv, NEW s \in Session, sess[s].status = "live"
    PROVE  sess[s].user \in User /\ sess[s] \in SessionRow
BY DEF IInv, StoresTyped, SessionRow, SessionOK

LEMMA BeginLogoutKeeps ==
    ASSUME IInv, NEW t \in Thread, NEW s \in Session, BeginLogout(t, s)
    PROVE  IInv' /\ Onward
<1> DEFINE u == sess[s].user
<1>1. t \in Txn /\ Begin(t, "logout", u, s, Nobody) /\ sess[s].status = "live" /\ u \in User
  BY TxnPlaces, LiveSession DEF BeginLogout
<1> HIDE DEF u
<1> QED
  BY <1>1, BeginKeeps
     DEF Kinds, LoopKinds, ThreadKinds, AdminKinds, HookKinds, TakesToken, MakesToken

LEMMA BeginRefreshKeeps ==
    ASSUME IInv, NEW t \in Thread, NEW s \in Session, BeginRefresh(t, s)
    PROVE  IInv' /\ Onward
<1> DEFINE u == sess[s].user
<1>1. t \in Txn /\ Begin(t, "refresh", u, s, Nobody) /\ sess[s].status = "live" /\ u \in User
  BY TxnPlaces, LiveSession DEF BeginRefresh
<1> HIDE DEF u
<1> QED
  BY <1>1, BeginKeeps
     DEF Kinds, LoopKinds, ThreadKinds, AdminKinds, HookKinds, TakesToken, MakesToken

LEMMA BeginAdminKeeps ==
    ASSUME IInv, NEW t \in AdminThread, NEW u \in User,
           \/ \E k \in Token : BeginInvite(t, u, k) \/ BeginCreateUser(t, u, k)
           \/ \E a \in User : BeginBlock(t, a, u) \/ BeginRole(t, a, u)
           \/ BeginUnblock(t, u)
    PROVE  IInv' /\ Onward
<1>1. t \in Txn
  BY TxnPlaces
<1>2. ASSUME NEW k \in Token, BeginInvite(t, u, k) \/ BeginCreateUser(t, u, k)
      PROVE  IInv' /\ Onward
  <2>1. PICK kind \in {"invite", "create_user"} : Begin(t, kind, u, Nobody, k) /\ NewToken(k)
    BY <1>2 DEF BeginInvite, BeginCreateUser
  <2> QED
    BY <1>1, <2>1, BeginKeeps DEF Kinds, LoopKinds, AdminKinds, HookKinds, TakesToken, MakesToken
<1>3. ASSUME \/ \E a \in User : BeginBlock(t, a, u) \/ BeginRole(t, a, u)
             \/ BeginUnblock(t, u)
      PROVE  IInv' /\ Onward
  <2>1. PICK kind \in {"block", "unblock", "role"} : Begin(t, kind, u, Nobody, Nobody)
    BY <1>3 DEF BeginBlock, BeginRole, BeginUnblock
  <2> QED
    BY <1>1, <2>1, BeginKeeps DEF Kinds, LoopKinds, AdminKinds, HookKinds, TakesToken, MakesToken
<1> QED
  BY <1>2, <1>3

LEMMA BeginHookKeeps ==
    ASSUME IInv, NEW h \in Hook, NEW u \in User, BeginSync(h, u) \/ BeginCompanies(h, u)
    PROVE  IInv' /\ Onward
<1>1. PICK kind \in {"create_update", "contact_waits"} :
         h \in Txn /\ u \in Contact /\ LoopFree /\ Begin(h, kind, u, Nobody, Nobody)
  BY TxnPlaces DEF BeginSync, BeginCompanies
<1> QED
  BY <1>1, BeginKeeps DEF Kinds, LoopKinds, AdminKinds, HookKinds, TakesToken, MakesToken

-----------------------------------------------------------------------------
\* A webhook goes on: only its kind changes.
LEMMA HookStep ==
    ASSUME IInv, NEW h \in Hook, txn[h].kind \in HookKinds, NEW kind \in HookKinds,
           txn' = [txn EXCEPT ![h].kind = kind], UNCHANGED <<user, sess, token>>,
           kind \in {"create_waits", "companies_update", "companies_wait"},
           kind = "create_waits" => txn[h].kind = "create_update"
    PROVE  IInv' /\ Onward
<1>1. /\ h \in Txn /\ h # Loop /\ txn \in [Txn -> Txns] /\ txn[h] \in Txns
      /\ TxnInv(h)
  BY TxnPlaces, ConstantsAssumption DEF IInv, StoresTyped
<1>2. [txn[h] EXCEPT !.kind = kind] \in Txns
  BY <1>1 DEF Txns
<1>3. /\ txn' \in [Txn -> Txns] /\ \A k \in Txn \ {h} : txn'[k] = txn[k]
      /\ txn'[h].kind = kind /\ txn'[h].user = txn[h].user /\ txn'[h].row = txn[h].row
      /\ txn'[h].token = txn[h].token
  BY <1>1, <1>2 DEF Txns
<1>4. TxnInv(h)'
  <2>1. Placed(h)'
    BY <1>1, <1>3 DEF TxnInv, Placed, LoopKinds, AdminKinds, HookKinds
  <2>2. TokenInHand(h)' /\ SessionInHand(h)'
    BY <1>3 DEF TokenInHand, SessionInHand, TakesToken, MakesToken, HookKinds
  <2>3. AccountInHand(h)'
    BY <1>1, <1>3 DEF TxnInv, AccountInHand
  <2> QED
    BY <2>1, <2>2, <2>3 DEF TxnInv
<1>5. \A k \in Txn \ {h} : txn[k].kind \in MakesToken => txn'[h].token # txn[k].token
  BY <1>1, <1>3 DEF IInv, TxnInv, TokenInHand
<1>6. IInv'
  BY <1>1, <1>3, <1>4, <1>5, OpenStep
<1> QED
  BY <1>6 DEF Onward

\* A rollback.
LEMMA AbortKeeps ==
    ASSUME IInv, NEW t \in Txn, Abort(t)
    PROVE  IInv' /\ Onward
<1>1. /\ txn' \in [Txn -> Txns] /\ txn'[t] = Idle /\ \A k \in Txn \ {t} : txn'[k] = txn[k]
      /\ UNCHANGED <<user, sess, token>>
  BY IdleFields DEF Abort, IInv, StoresTyped
<1>2. TxnInv(t)'
  BY <1>1, IdleFields
     DEF TxnInv, Placed, TokenInHand, SessionInHand, AccountInHand, LoopKinds, AdminKinds,
         HookKinds, TakesToken, MakesToken
<1>3. \A h \in Txn \ {t} : txn[h].kind \in MakesToken => txn'[t].token # txn[h].token
  BY <1>1, IdleFields, ConstantsAssumption DEF IInv, TxnInv, TokenInHand
<1>4. IInv'
  BY <1>1, <1>2, <1>3, IdleFields, OpenStep
<1> QED
  BY <1>1, <1>4 DEF Onward

-----------------------------------------------------------------------------
\* The tokens, as the commit of t leaves them.
TokensMove(t) ==
    /\ token' \in [Token -> TokenRow]
    /\ \A k \in Token : TokenOK(k)'
    /\ \A k \in Token : \/ token'[k] = token[k]
                        \/ k = txn[t].token /\ txn[t].kind \in TakesToken \cup MakesToken

LEMMA TokensStay ==
    ASSUME IInv, NEW t \in Txn, UNCHANGED token
    PROVE  TokensMove(t)
BY DEF IInv, StoresTyped, TokensMove, TokenOK

\* Consumed: it was unused, and now it is not.
LEMMA TokenTaken ==
    ASSUME IInv, NEW t \in Txn, txn[t].kind \in TakesToken,
           token' = [token EXCEPT ![txn[t].token].uses = @ + 1]
    PROVE  TokensMove(t)
<1> DEFINE x == txn[t].token
<1>1. /\ token \in [Token -> TokenRow] /\ x \in Token
      /\ token[x].type # "none" /\ token[x].uses = 0
      /\ \A k \in Token : TokenOK(k)
  BY DEF IInv, StoresTyped, TxnInv, TokenInHand
<1>2. token' = [token EXCEPT ![x].uses = @ + 1]
  OBVIOUS
<1> HIDE DEF x
<1>3. /\ token' \in [Token -> TokenRow] /\ \A k \in Token \ {x} : token'[k] = token[k]
      /\ token'[x].type = token[x].type /\ token'[x].user = token[x].user
      /\ token'[x].uses = 1
  BY <1>1, <1>2 DEF TokenRow
<1>4. \A k \in Token : TokenOK(k)'
  BY <1>1, <1>3 DEF TokenOK
<1> QED
  BY <1>3, <1>4 DEF TokensMove, x

\* Inserted.
LEMMA TokenMade ==
    ASSUME IInv, NEW t \in Txn, txn[t].kind \in MakesToken,
           NEW type \in {"first_login", "password_reset"},
           token' = [token EXCEPT ![txn[t].token] =
                        [type |-> type, user |-> txn[t].user, uses |-> 0]]
    PROVE  TokensMove(t)
<1> DEFINE x == txn[t].token
           r == [type |-> type, user |-> txn[t].user, uses |-> 0]
<1>1. /\ token \in [Token -> TokenRow] /\ x \in Token /\ txn[t].user \in User
      /\ \A k \in Token : TokenOK(k)
  BY DEF IInv, StoresTyped, TxnInv, TokenInHand, Placed, MakesToken
<1>2. token' = [token EXCEPT ![x] = r]
  OBVIOUS
<1>3. r \in TokenRow /\ r.type # "none" /\ r.user \in User /\ r.uses = 0
  BY <1>1 DEF TokenRow
<1> HIDE DEF x, r
<1>4. /\ token' \in [Token -> TokenRow] /\ \A k \in Token \ {x} : token'[k] = token[k]
      /\ token'[x] = r
  BY <1>1, <1>2, <1>3
<1>5. \A k \in Token : TokenOK(k)'
  BY <1>1, <1>3, <1>4 DEF TokenOK
<1> QED
  BY <1>4, <1>5 DEF TokensMove, x

\* A commit that leaves the accounts and the sessions as they are.
LEMMA TokenCommit ==
    ASSUME IInv, NEW t \in Txn, txn[t].kind # "none", txn' = [txn EXCEPT ![t] = Idle],
           UNCHANGED <<user, sess>>, TokensMove(t)
    PROVE  IInv' /\ Onward
<1>1. /\ user' \in [User -> UserRow] /\ sess' \in [Session -> SessionRow]
      /\ \A u \in User : user'[u].reset <= user'[u].password
      /\ \A s \in Session : SessionOK(s)'
  BY DEF IInv, StoresTyped, PasswordsAdvance, SessionOK
<1>2. /\ \A u \in User : user'[u] = user[u]
      /\ \A s \in Session : sess'[s] = sess[s]
  OBVIOUS
<1>3. IInv'
  BY <1>1, <1>2, CommitStep DEF TokensMove
<1> QED
  BY <1>2, <1>3 DEF Onward

(***************************************************************************)
(* A commit that writes an account, without a sign-in or a reset, and may  *)
(* end its sessions.                                                       *)
(***************************************************************************)
LEMMA AccountCommit ==
    ASSUME IInv, NEW t \in Txn, txn[t].kind # "none", txn' = [txn EXCEPT ![t] = Idle],
           NEW u \in User, NEW r \in UserRow, user' = [user EXCEPT ![u] = r],
           r.signedIn = user[u].signedIn, r.reset = user[u].reset,
           user[u].password <= r.password,
           sess' = sess \/ sess' = Revoked(u), TokensMove(t)
    PROVE  IInv' /\ Onward
<1>1. user \in [User -> UserRow] /\ sess \in [Session -> SessionRow]
  BY DEF IInv, StoresTyped
<1>2. /\ user' \in [User -> UserRow] /\ \A v \in User \ {u} : user'[v] = user[v]
      /\ user'[u] = r
  BY <1>1
<1>3. /\ \A v \in User : user'[v].reset = user[v].reset
      /\ \A v \in User : user'[v].signedIn = user[v].signedIn
  BY <1>2
<1>4. \A v \in User : user'[v].reset <= user'[v].password
  <2>1. \A v \in User : user[v].reset <= user[v].password
    BY DEF IInv, PasswordsAdvance
  <2>2. \A a, b, c \in Nat : a <= b /\ b <= c => a <= c
    OBVIOUS
  <2>3. user[u].reset \in Nat /\ user[u].password \in Nat /\ r.password \in Nat
    BY <1>1 DEF UserRow
  <2> QED
    BY <1>2, <2>1, <2>2, <2>3
<1>5. /\ sess' \in [Session -> SessionRow]
      /\ \A s \in Session :
            /\ sess'[s].user = sess[s].user /\ sess'[s].password = sess[s].password
            /\ sess'[s].status = "none" <=> sess[s].status = "none"
            /\ sess'[s].status = "live" => sess[s].status = "live"
            /\ sess[s].status = "revoked" => sess'[s].status = "revoked"
  <2>1. CASE sess' = sess
    BY <1>1, <2>1
  <2>2. CASE sess' = Revoked(u)
    BY <2>2, RevokedEffect
  <2> QED
    BY <2>1, <2>2
<1>6. \A s \in Session : SessionOK(s)'
  <2> SUFFICES ASSUME NEW s \in Session
               PROVE  SessionOK(s)'
    OBVIOUS
  <2>1. SessionOK(s)
    BY DEF IInv
  <2>2. sess[s].status = "live" => sess[s].user \in User
    BY LiveSession
  <2> QED
    BY <1>3, <1>5, <2>1, <2>2 DEF SessionOK
<1>7. IInv'
  BY <1>2, <1>3, <1>4, <1>5, <1>6, CommitStep DEF TokensMove
<1> QED
  BY <1>5, <1>7 DEF Onward

-----------------------------------------------------------------------------
\* The account of a handler that is under way.
LEMMA OwnAccount ==
    ASSUME IInv, NEW t \in Txn, txn[t].kind # "none"
    PROVE  /\ txn[t].user \in User /\ user[txn[t].user] \in UserRow
           /\ txn[t] \in Txns /\ TxnInv(t)
BY DEF IInv, StoresTyped, TxnInv, Placed

\* What the handlers write to an account.
LEMMA RowWrites ==
    ASSUME NEW row \in UserRow
    PROVE  /\ WithPassword(row) \in UserRow
           /\ WithPassword(row).signedIn = row.signedIn
           /\ WithPassword(row).reset = row.reset
           /\ WithPassword(row).status = row.status
           /\ WithPassword(row).role = row.role
           /\ WithPassword(row).password = row.password + 1
           /\ row.password <= WithPassword(row).password
           /\ row.password <= row.password
BY DEF UserRow, WithPassword

LEMMA StatusWritten ==
    ASSUME NEW row \in UserRow, NEW status \in {"none", "pending", "active", "blocked"}
    PROVE  LET r == [row EXCEPT !.status = status]
           IN  /\ r \in UserRow /\ r.signedIn = row.signedIn /\ r.reset = row.reset
               /\ r.password = row.password /\ r.role = row.role /\ r.status = status
BY DEF UserRow

LEMMA BothWritten ==
    ASSUME NEW row \in UserRow, NEW status \in {"none", "pending", "active", "blocked"}
    PROVE  LET r == [WithPassword(row) EXCEPT !.status = status]
           IN  /\ r \in UserRow /\ r.signedIn = row.signedIn /\ r.reset = row.reset
               /\ row.password <= r.password /\ r.role = row.role /\ r.status = status
<1> DEFINE p == WithPassword(row)
<1>1. /\ p \in UserRow /\ p.signedIn = row.signedIn /\ p.reset = row.reset
      /\ row.password <= p.password /\ p.role = row.role
  BY RowWrites
<1> HIDE DEF p
<1>2. LET r == [p EXCEPT !.status = status]
      IN  /\ r \in UserRow /\ r.signedIn = p.signedIn /\ r.reset = p.reset
          /\ r.password = p.password /\ r.role = p.role /\ r.status = status
  BY <1>1, StatusWritten
<1> QED
  BY <1>1, <1>2 DEF p

LEMMA RoleWritten ==
    ASSUME NEW row \in UserRow, NEW role \in {"superadmin", "other"}
    PROVE  LET r == [row EXCEPT !.role = role]
           IN  /\ r \in UserRow /\ r.signedIn = row.signedIn /\ r.reset = row.reset
               /\ r.password = row.password /\ r.status = row.status /\ r.role = role
BY DEF UserRow

LEMMA FinishFirstLoginKeeps ==
    ASSUME IInv, NEW t \in Async, FinishFirstLogin(t)
    PROVE  IInv' /\ Onward
<1> DEFINE u == txn[t].user
           r == [WithPassword(user[u]) EXCEPT !.status = "active"]
<1>1. /\ t \in Txn /\ txn[t].kind = "first_login" /\ txn' = [txn EXCEPT ![t] = Idle]
      /\ user' = [user EXCEPT ![u] = r]
      /\ token' = [token EXCEPT ![txn[t].token].uses = @ + 1] /\ sess' = sess
  BY TxnPlaces, OwnAccount DEF Async, FinishFirstLogin, Ends, IInv, StoresTyped
<1>2. u \in User /\ user[u] \in UserRow
  BY <1>1, OwnAccount
<1>3. r \in UserRow /\ r.signedIn = user[u].signedIn /\ r.reset = user[u].reset
      /\ user[u].password <= r.password
  BY <1>2, BothWritten
<1>4. TokensMove(t)
  BY <1>1, TokenTaken DEF TakesToken
<1> HIDE DEF u, r
<1> QED
  BY <1>1, <1>2, <1>3, <1>4, AccountCommit

LEMMA FinishChangePasswordKeeps ==
    ASSUME IInv, NEW t \in Thread, FinishChangePassword(t)
    PROVE  IInv' /\ Onward
<1> DEFINE u == txn[t].user
           r == WithPassword(user[u])
<1>1. /\ t \in Txn /\ txn[t].kind # "none" /\ txn' = [txn EXCEPT ![t] = Idle]
      /\ sess' = Revoked(u) /\ token' = token
  BY TxnPlaces DEF FinishChangePassword, Ends
<1>2. u \in User /\ user[u] \in UserRow
  BY <1>1, OwnAccount
<1>3. user' = [user EXCEPT ![u] = r]
  BY <1>2 DEF FinishChangePassword, IInv, StoresTyped
<1>4. r \in UserRow /\ r.signedIn = user[u].signedIn /\ r.reset = user[u].reset
      /\ user[u].password <= r.password
  BY <1>2, RowWrites
<1>5. TokensMove(t)
  BY <1>1, TokensStay
<1> HIDE DEF u, r
<1> QED
  BY <1>1, <1>2, <1>3, <1>4, <1>5, AccountCommit

LEMMA FinishCreateUserKeeps ==
    ASSUME IInv, NEW t \in AdminThread, FinishCreateUser(t)
    PROVE  IInv' /\ Onward
<1> DEFINE u == txn[t].user
           r == [WithPassword(user[u]) EXCEPT !.status = "pending"]
<1>1. /\ t \in Txn /\ txn[t].kind = "create_user" /\ txn' = [txn EXCEPT ![t] = Idle]
      /\ token' = [token EXCEPT ![txn[t].token] =
                      [type |-> "first_login", user |-> u, uses |-> 0]]
      /\ sess' = sess
  BY TxnPlaces DEF FinishCreateUser, Ends
<1>2. u \in User /\ user[u] \in UserRow
  BY <1>1, OwnAccount
<1>3. user' = [user EXCEPT ![u] = r]
  BY <1>2 DEF FinishCreateUser, IInv, StoresTyped
<1>4. r \in UserRow /\ r.signedIn = user[u].signedIn /\ r.reset = user[u].reset
      /\ user[u].password <= r.password
  BY <1>2, BothWritten
<1>5. TokensMove(t)
  BY <1>1, TokenMade DEF MakesToken
<1> HIDE DEF u, r
<1> QED
  BY <1>1, <1>2, <1>3, <1>4, <1>5, AccountCommit

LEMMA FinishBlockKeeps ==
    ASSUME IInv, NEW t \in AdminThread, FinishBlock(t)
    PROVE  IInv' /\ Onward
<1> DEFINE u == txn[t].user
           r == [user[u] EXCEPT !.status = "blocked"]
<1>1. /\ t \in Txn /\ txn[t].kind # "none" /\ txn' = [txn EXCEPT ![t] = Idle]
      /\ user' = [user EXCEPT ![u] = r] /\ sess' = Revoked(u) /\ token' = token
  BY TxnPlaces DEF FinishBlock, Ends
<1>2. u \in User /\ user[u] \in UserRow
  BY <1>1, OwnAccount
<1>3. r \in UserRow /\ r.signedIn = user[u].signedIn /\ r.reset = user[u].reset
      /\ user[u].password <= r.password
  BY <1>2, RowWrites, StatusWritten
<1>4. TokensMove(t)
  BY <1>1, TokensStay
<1> HIDE DEF u, r
<1> QED
  BY <1>1, <1>2, <1>3, <1>4, AccountCommit

LEMMA FinishUnblockKeeps ==
    ASSUME IInv, NEW t \in AdminThread, FinishUnblock(t)
    PROVE  IInv' /\ Onward
<1> DEFINE u == txn[t].user
           r == [user[u] EXCEPT !.status = "active"]
<1>1. /\ t \in Txn /\ txn[t].kind # "none" /\ txn' = [txn EXCEPT ![t] = Idle]
      /\ user' = [user EXCEPT ![u] = r] /\ sess' = sess /\ token' = token
  BY TxnPlaces DEF FinishUnblock, Ends
<1>2. u \in User /\ user[u] \in UserRow
  BY <1>1, OwnAccount
<1>3. r \in UserRow /\ r.signedIn = user[u].signedIn /\ r.reset = user[u].reset
      /\ user[u].password <= r.password
  BY <1>2, RowWrites, StatusWritten
<1>4. TokensMove(t)
  BY <1>1, TokensStay
<1> HIDE DEF u, r
<1> QED
  BY <1>1, <1>2, <1>3, <1>4, AccountCommit

LEMMA FinishRoleKeeps ==
    ASSUME IInv, NEW t \in AdminThread, FinishRole(t)
    PROVE  IInv' /\ Onward
<1> DEFINE u == txn[t].user
           r == [user[u] EXCEPT !.role = "other"]
<1>1. /\ t \in Txn /\ txn[t].kind # "none" /\ txn' = [txn EXCEPT ![t] = Idle]
      /\ user' = [user EXCEPT ![u] = r] /\ sess' = Revoked(u) /\ token' = token
  BY TxnPlaces DEF FinishRole, Ends
<1>2. u \in User /\ user[u] \in UserRow
  BY <1>1, OwnAccount
<1>3. r \in UserRow /\ r.signedIn = user[u].signedIn /\ r.reset = user[u].reset
      /\ user[u].password <= r.password
  BY <1>2, RowWrites, RoleWritten
<1>4. TokensMove(t)
  BY <1>1, TokensStay
<1> HIDE DEF u, r
<1> QED
  BY <1>1, <1>2, <1>3, <1>4, AccountCommit

LEMMA FinishCompaniesKeeps ==
    ASSUME IInv, NEW h \in Hook, FinishCompanies(h)
    PROVE  IInv' /\ Onward
<1> DEFINE u == txn[h].user
           r == [user[u] EXCEPT !.role = txn[h].row.role]
<1>1. /\ h \in Txn /\ txn[h].kind # "none" /\ txn' = [txn EXCEPT ![h] = Idle]
      /\ user' = [user EXCEPT ![u] = r] /\ sess' = sess /\ token' = token
  BY TxnPlaces DEF FinishCompanies, Ends
<1>2. u \in User /\ user[u] \in UserRow /\ txn[h].row.role \in {"superadmin", "other"}
  BY <1>1, OwnAccount, TxnFields DEF UserRow
<1>3. r \in UserRow /\ r.signedIn = user[u].signedIn /\ r.reset = user[u].reset
      /\ user[u].password <= r.password
  BY <1>2, RowWrites, RoleWritten
<1>4. TokensMove(h)
  BY <1>1, TokensStay
<1> HIDE DEF u, r
<1> QED
  BY <1>1, <1>2, <1>3, <1>4, AccountCommit

(***************************************************************************)
(* What create-user writes: another password only to somebody who had not  *)
(* signed in when it read the account.                                     *)
(***************************************************************************)
LEMMA InvitedWritten ==
    ASSUME NEW row \in UserRow, NEW seen
    PROVE  LET r == Invited(row, seen)
           IN  /\ r \in UserRow /\ r.signedIn = row.signedIn /\ r.reset = row.reset
               /\ row.password <= r.password
               /\ ~NeedsReinvite(seen) => r.password = row.password
<1>1. CASE NeedsReinvite(seen)
  BY <1>1, BothWritten DEF Invited
<1>2. CASE ~NeedsReinvite(seen)
  BY <1>2, RowWrites DEF Invited
<1> QED
  BY <1>1, <1>2

LEMMA SyncWrites ==
    ASSUME IInv, NEW h \in Hook, FinishSync(h) \/ SyncPartner(h)
    PROVE  \E r \in UserRow :
              LET u == txn[h].user IN
              /\ user' = [user EXCEPT ![u] = r]
              /\ u \in User /\ user[u] \in UserRow
              /\ r.signedIn = user[u].signedIn /\ r.reset = user[u].reset
              /\ user[u].password <= r.password
              /\ ~NeedsReinvite(txn[h].row) => r.password = user[u].password
<1> DEFINE u == txn[h].user
           p == Invited(user[u], txn[h].row)
           q == [p EXCEPT !.role = "other"]
<1>1. h \in Txn /\ txn[h].kind # "none"
  BY TxnPlaces DEF FinishSync, SyncPartner, Ends
<1>2. u \in User /\ user[u] \in UserRow /\ user \in [User -> UserRow]
  BY <1>1, OwnAccount DEF IInv, StoresTyped
<1>3. user' = [user EXCEPT ![u] = p] \/ user' = [user EXCEPT ![u] = q]
  BY <1>2 DEF FinishSync, SyncPartner
<1>4. /\ p \in UserRow /\ p.signedIn = user[u].signedIn /\ p.reset = user[u].reset
      /\ user[u].password <= p.password
      /\ ~NeedsReinvite(txn[h].row) => p.password = user[u].password
  BY <1>2, InvitedWritten
<1> HIDE DEF p
<1>5. /\ q \in UserRow /\ q.signedIn = p.signedIn /\ q.reset = p.reset
      /\ q.password = p.password
  BY <1>4, RoleWritten
<1> HIDE DEF q
<1> QED
  BY <1>2, <1>3, <1>4, <1>5

LEMMA SyncKeeps ==
    ASSUME IInv, NEW h \in Hook, FinishSync(h) \/ SyncPartner(h)
    PROVE  IInv' /\ Onward
<1> DEFINE u == txn[h].user
<1>1. /\ h \in Txn /\ txn[h].kind # "none" /\ txn' = [txn EXCEPT ![h] = Idle]
      /\ sess' = sess /\ token' = token
  BY TxnPlaces DEF FinishSync, SyncPartner, Ends
<1>2. PICK r \in UserRow :
         /\ user' = [user EXCEPT ![u] = r]
         /\ u \in User /\ user[u] \in UserRow
         /\ r.signedIn = user[u].signedIn /\ r.reset = user[u].reset
         /\ user[u].password <= r.password
  BY SyncWrites
<1>3. TokensMove(h)
  BY <1>1, TokensStay
<1> HIDE DEF u
<1> QED
  BY <1>1, <1>2, <1>3, AccountCommit

(***************************************************************************)
(* The session of a login is a new one, and the password it has verified   *)
(* is as new as the last reset: no reset commits while the loop logs in.   *)
(***************************************************************************)
LEMMA FinishLoginKeeps ==
    ASSUME IInv, NEW t \in Async, FinishLogin(t)
    PROVE  IInv' /\ Onward
<1> DEFINE u == txn[t].user
           x == txn[t].sess
           n == [status |-> "live", user |-> u, password |-> txn[t].row.password, rotation |-> 0]
           r == SignsIn(user[u])
<1>1. /\ t \in Txn /\ t = Loop /\ txn[t].kind = "login" /\ txn' = [txn EXCEPT ![t] = Idle]
      /\ ~Held(u) /\ token' = token /\ sess' = [sess EXCEPT ![x] = n]
  BY TxnPlaces DEF Async, FinishLogin, Ends
<1>2. u \in User /\ user[u] \in UserRow /\ txn[t].row \in UserRow
  BY <1>1, OwnAccount, TxnFields
<1>3. /\ user \in [User -> UserRow] /\ sess \in [Session -> SessionRow]
      /\ x \in Session /\ sess[x].status = "none"
      /\ user[u].reset <= txn[t].row.password
  BY <1>1, OwnAccount DEF TxnInv, SessionInHand, IInv, StoresTyped
<1>4. user' = [user EXCEPT ![u] = r]
  BY <1>2, <1>3 DEF FinishLogin
<1>5. /\ n \in SessionRow /\ n.status = "live" /\ n.user = u
      /\ n.password = txn[t].row.password
  BY <1>2 DEF SessionRow, UserRow
<1>6. r \in UserRow /\ r.signedIn /\ r.reset = user[u].reset /\ r.password = user[u].password
  BY <1>2 DEF UserRow, SignsIn
<1> HIDE DEF x, n, r
<1>7. /\ sess' \in [Session -> SessionRow] /\ sess'[x] = n
      /\ \A s \in Session \ {x} : sess'[s] = sess[s]
  BY <1>1, <1>3, <1>5
<1>8. /\ user' \in [User -> UserRow] /\ user'[u] = r
      /\ \A v \in User \ {u} : user'[v] = user[v]
  BY <1>2, <1>3, <1>4, <1>6
<1>9. \A v \in User : user'[v].reset <= user'[v].password /\ user'[v].reset = user[v].reset
  BY <1>6, <1>8 DEF IInv, PasswordsAdvance
<1>10. \A v \in User : user'[v].signedIn => user[v].signedIn \/ (t = Loop /\ ~Held(v))
  BY <1>1, <1>8
<1>11. \A s \in Session : SessionOK(s)'
  <2> SUFFICES ASSUME NEW s \in Session
               PROVE  SessionOK(s)'
    OBVIOUS
  <2>1. CASE s = x
    <3>1. /\ sess'[s].status = "live" /\ sess'[s].user = u
          /\ user'[u].signedIn /\ user'[u].reset <= sess'[s].password
      BY <1>3, <1>5, <1>6, <1>7, <1>8, <2>1
    <3>2. u # Nobody
      BY <1>2, ConstantsAssumption
    <3> QED
      BY <3>1, <3>2 DEF SessionOK
  <2>2. CASE s # x
    <3>1. SessionOK(s) /\ sess'[s] = sess[s]
      BY <1>7, <2>2 DEF IInv
    <3>2. sess[s].status = "live" => sess[s].user \in User
      BY LiveSession
    <3>3. \A v \in User : user[v].signedIn => user'[v].signedIn
      BY <1>6, <1>8
    <3> QED
      BY <1>9, <3>1, <3>2, <3>3 DEF SessionOK
  <2> QED
    BY <2>1, <2>2
<1>12. TokensMove(t)
  BY <1>1, TokensStay
<1>13. IInv'
  BY <1>1, <1>5, <1>7, <1>8, <1>9, <1>10, <1>11, <1>12, CommitStep DEF TokensMove
<1>14. Onward
  BY <1>3, <1>7 DEF Onward
<1> QED
  BY <1>13, <1>14

\* A reset leaves no session of its user alive.
LEMMA FinishResetKeeps ==
    ASSUME IInv, NEW t \in Async, FinishReset(t)
    PROVE  IInv' /\ Onward
<1> DEFINE u == txn[t].user
           r == [WithPassword(user[u]) EXCEPT !.reset = user[u].password + 1]
<1>1. /\ t \in Txn /\ t = Loop /\ txn[t].kind = "reset_confirm"
      /\ txn' = [txn EXCEPT ![t] = Idle] /\ sess' = Revoked(u)
      /\ token' = [token EXCEPT ![txn[t].token].uses = @ + 1]
  BY TxnPlaces DEF Async, FinishReset, Ends
<1>2. u \in User /\ user[u] \in UserRow /\ user \in [User -> UserRow]
  BY <1>1, OwnAccount DEF IInv, StoresTyped
<1>3. user' = [user EXCEPT ![u] = r]
  BY <1>2 DEF FinishReset
<1>4. r \in UserRow /\ r.signedIn = user[u].signedIn /\ r.reset <= r.password
  <2> DEFINE p == WithPassword(user[u])
  <2>1. p \in UserRow /\ p.signedIn = user[u].signedIn /\ p.password = user[u].password + 1
    BY <1>2, RowWrites
  <2>2. user[u].password + 1 \in Nat /\ user[u].password + 1 <= user[u].password + 1
    BY <1>2 DEF UserRow
  <2> HIDE DEF p
  <2>3. [p EXCEPT !.reset = user[u].password + 1] = r
    BY DEF p
  <2> QED
    BY <2>1, <2>2, <2>3 DEF UserRow
<1> HIDE DEF r
<1>5. /\ user' \in [User -> UserRow] /\ user'[u] = r
      /\ \A v \in User \ {u} : user'[v] = user[v]
  BY <1>2, <1>3, <1>4
<1>6. /\ sess' \in [Session -> SessionRow]
      /\ \A s \in Session :
            /\ sess'[s].user = sess[s].user /\ sess'[s].password = sess[s].password
            /\ sess'[s].status = "none" <=> sess[s].status = "none"
            /\ sess'[s].status = "live" => sess[s].status = "live" /\ sess[s].user # u
            /\ sess[s].status = "revoked" => sess'[s].status = "revoked"
  BY <1>1, <1>2, RevokedEffect
<1>7. \A v \in User : user'[v].reset <= user'[v].password
  BY <1>4, <1>5 DEF IInv, PasswordsAdvance
<1>8. \A v \in User : user'[v].signedIn = user[v].signedIn
  BY <1>4, <1>5
<1>9. \A s \in Session : SessionOK(s)'
  <2> SUFFICES ASSUME NEW s \in Session
               PROVE  SessionOK(s)'
    OBVIOUS
  <2>1. SessionOK(s)
    BY DEF IInv
  <2>2. sess[s].status = "live" => sess[s].user \in User
    BY LiveSession
  <2> QED
    BY <1>5, <1>6, <2>1, <2>2 DEF SessionOK
<1>10. TokensMove(t)
  BY <1>1, TokenTaken DEF TakesToken
<1>11. IInv'
  BY <1>1, <1>5, <1>6, <1>7, <1>8, <1>9, <1>10, CommitStep DEF TokensMove
<1> QED
  BY <1>6, <1>11 DEF Onward

LEMMA FinishTokenKeeps ==
    ASSUME IInv, NEW t \in Txn, FinishResetRequest(t) \/ FinishInvite(t)
    PROVE  IInv' /\ Onward
<1>1. PICK type \in {"first_login", "password_reset"} :
         token' = [token EXCEPT ![txn[t].token] =
                      [type |-> type, user |-> txn[t].user, uses |-> 0]]
  BY DEF FinishResetRequest, FinishInvite
<1>2. /\ txn[t].kind \in MakesToken /\ txn[t].kind # "none" /\ txn' = [txn EXCEPT ![t] = Idle]
      /\ UNCHANGED <<user, sess>>
  BY DEF FinishResetRequest, FinishInvite, Ends, MakesToken
<1>3. TokensMove(t)
  BY <1>1, <1>2, TokenMade
<1> QED
  BY <1>2, <1>3, TokenCommit

\* A logout or a refresh writes to a session that exists and gives it no life.
LEMMA SessionCommit ==
    ASSUME IInv, NEW t \in Txn, txn[t].kind \in {"logout", "refresh"},
           txn' = [txn EXCEPT ![t] = Idle], UNCHANGED <<user, token>>,
           NEW r \in SessionRow, sess' = [sess EXCEPT ![txn[t].sess] = r],
           r.user = sess[txn[t].sess].user, r.password = sess[txn[t].sess].password,
           r.status = "revoked" \/ r.status = sess[txn[t].sess].status
    PROVE  IInv' /\ Onward
<1> DEFINE x == txn[t].sess
<1>1. sess \in [Session -> SessionRow] /\ x \in Session /\ sess[x].status # "none"
  BY DEF IInv, StoresTyped, TxnInv, SessionInHand
<1>2. sess' = [sess EXCEPT ![x] = r]
  OBVIOUS
<1> HIDE DEF x
<1>3. /\ sess' \in [Session -> SessionRow] /\ sess'[x] = r
      /\ \A s \in Session \ {x} : sess'[s] = sess[s]
  BY <1>1, <1>2
<1>4. \A s \in Session : SessionOK(s)'
  BY <1>1, <1>3 DEF IInv, SessionOK, x
<1>5. /\ user' \in [User -> UserRow]
      /\ \A u \in User : user'[u].reset <= user'[u].password
  BY DEF IInv, StoresTyped, PasswordsAdvance
<1>6. /\ \A s \in Session : sess[s].status = "none" => sess'[s].status = "none"
      /\ \A s \in Session : sess[s].status # "none" => sess'[s].status # "none"
      /\ \A s \in Session : sess[s].status = "revoked" => sess'[s].status = "revoked"
  BY <1>1, <1>3 DEF x
<1>7. TokensMove(t)
  BY TokensStay
<1>8. IInv'
  BY <1>3, <1>4, <1>5, <1>6, <1>7, CommitStep DEF TokensMove
<1> QED
  BY <1>6, <1>8 DEF Onward

LEMMA FinishOnSessionKeeps ==
    ASSUME IInv, NEW t \in Thread, FinishLogout(t) \/ FinishRefresh(t)
    PROVE  IInv' /\ Onward
<1> DEFINE x == txn[t].sess
<1>1. /\ t \in Txn /\ txn[t].kind \in {"logout", "refresh"} /\ txn' = [txn EXCEPT ![t] = Idle]
      /\ UNCHANGED <<user, token>>
  BY TxnPlaces DEF FinishLogout, FinishRefresh, Ends
<1>2. sess \in [Session -> SessionRow] /\ x \in Session
  BY <1>1 DEF IInv, StoresTyped, TxnInv, SessionInHand
<1>3. CASE FinishLogout(t)
  <2> DEFINE r == [sess[x] EXCEPT !.status = "revoked"]
  <2>1. r \in SessionRow /\ r.user = sess[x].user /\ r.password = sess[x].password
        /\ r.status = "revoked"
    BY <1>2 DEF SessionRow
  <2>2. sess' = [sess EXCEPT ![x] = r]
    BY <1>2, <1>3 DEF FinishLogout
  <2> HIDE DEF r
  <2> QED
    BY <1>1, <2>1, <2>2, SessionCommit
<1>4. CASE FinishRefresh(t)
  <2> DEFINE r == Rotated(sess[x])
  <2>1. r \in SessionRow /\ r.user = sess[x].user /\ r.password = sess[x].password
        /\ r.status = sess[x].status
    BY <1>2 DEF SessionRow, Rotated
  <2>2. sess' = [sess EXCEPT ![x] = r]
    BY <1>2, <1>4 DEF FinishRefresh
  <2> HIDE DEF r
  <2> QED
    BY <1>1, <2>1, <2>2, SessionCommit
<1> QED
  BY <1>3, <1>4

-----------------------------------------------------------------------------
LEMMA InitiallyIInv == Init => IInv
<1> SUFFICES ASSUME Init
             PROVE  IInv
  OBVIOUS
<1>1. PICK A \in SUBSET Staff :
         user = [u \in User |-> IF u \in A
                                THEN [NoUser EXCEPT !.status = "active", !.role = "superadmin"]
                                ELSE NoUser]
  BY DEF Init
<1>2. /\ [NoUser EXCEPT !.status = "active", !.role = "superadmin"] \in UserRow
      /\ [NoUser EXCEPT !.status = "active", !.role = "superadmin"].password = 0
      /\ [NoUser EXCEPT !.status = "active", !.role = "superadmin"].reset = 0
      /\ NoUser \in UserRow /\ NoUser.password = 0 /\ NoUser.reset = 0
  BY DEF NoUser, UserRow
<1>3. /\ user \in [User -> UserRow]
      /\ \A u \in User : user[u].password = 0 /\ user[u].reset = 0
  BY <1>1, <1>2
<1>4. /\ sess \in [Session -> SessionRow]
      /\ \A s \in Session : sess[s].status = "none" /\ sess[s].user = Nobody
  BY DEF Init, NoSession, SessionRow
<1>5. /\ token \in [Token -> TokenRow]
      /\ \A k \in Token : token[k].type = "none" /\ token[k].uses = 0
  BY DEF Init, NoToken, TokenRow
<1>6. txn \in [Txn -> Txns] /\ \A t \in Txn : txn[t] = Idle
  BY IdleFields DEF Init
<1>7. PasswordsAdvance
  BY <1>3 DEF PasswordsAdvance
<1>8. \A s \in Session : SessionOK(s)
  BY <1>4 DEF SessionOK
<1>9. \A k \in Token : TokenOK(k)
  BY <1>5 DEF TokenOK
<1>10. \A t \in Txn : TxnInv(t)
  BY <1>6, IdleFields
     DEF TxnInv, Placed, TokenInHand, SessionInHand, AccountInHand, LoopKinds, AdminKinds,
         HookKinds, TakesToken, MakesToken
<1> QED
  BY <1>3, <1>4, <1>5, <1>6, <1>7, <1>8, <1>9, <1>10 DEF IInv, StoresTyped

LEMMA Stuttering ==
    ASSUME IInv, UNCHANGED vars
    PROVE  IInv' /\ Onward
<1>1. UNCHANGED <<user, sess, token, txn>>
  BY DEF vars
<1>2. /\ StoresTyped' /\ PasswordsAdvance'
      /\ \A s \in Session : SessionOK(s)'
  BY <1>1 DEF IInv, StoresTyped, PasswordsAdvance, SessionOK
<1>3. \A k \in Token : TokenOK(k)'
  BY <1>1 DEF IInv, TokenOK
<1>4. \A t \in Txn : TxnInv(t)'
  BY <1>1 DEF IInv, TxnInv, Placed, TokenInHand, SessionInHand, AccountInHand
<1> QED
  BY <1>1, <1>2, <1>3, <1>4 DEF IInv, Onward

LEMMA Steps == IInv /\ [Next]_vars => IInv' /\ Onward
<1> SUFFICES ASSUME IInv, [Next]_vars
             PROVE  IInv' /\ Onward
  OBVIOUS
<1>1. CASE UNCHANGED vars
  BY <1>1, Stuttering
<1>2. ASSUME NEW t \in Async, AsyncHandler(t)
      PROVE  IInv' /\ Onward
  <2>1. CASE \E u \in User, s \in Session : BeginLogin(t, u, s)
    BY <2>1, BeginLoginKeeps
  <2>2. CASE \E k \in Token : BeginFirstLogin(t, k) \/ BeginReset(t, k)
    BY <2>2, BeginFirstLoginKeeps, BeginResetKeeps
  <2>3. CASE \E u \in User, k \in Token : BeginResetRequest(t, u, k)
    BY <2>3, BeginResetRequestKeeps
  <2>4. CASE FinishLogin(t) \/ FinishFirstLogin(t) \/ FinishReset(t)
    BY <2>4, FinishLoginKeeps, FinishFirstLoginKeeps, FinishResetKeeps
  <2>5. CASE FinishResetRequest(t)
    BY <2>5, FinishTokenKeeps, TxnPlaces DEF Async
  <2> QED
    BY <1>2, <2>1, <2>2, <2>3, <2>4, <2>5 DEF AsyncHandler
<1>3. ASSUME NEW t \in Thread, ThreadHandler(t)
      PROVE  IInv' /\ Onward
  <2>1. CASE \E u \in User : BeginChangePassword(t, u)
    BY <2>1, BeginChangePasswordKeeps
  <2>2. CASE \E s \in Session : BeginLogout(t, s) \/ BeginRefresh(t, s)
    BY <2>2, BeginLogoutKeeps, BeginRefreshKeeps
  <2>3. CASE FinishChangePassword(t) \/ FinishLogout(t) \/ FinishRefresh(t)
    BY <2>3, FinishChangePasswordKeeps, FinishOnSessionKeeps
  <2> QED
    BY <1>3, <2>1, <2>2, <2>3 DEF ThreadHandler
<1>4. ASSUME NEW t \in AdminThread, AdminHandler(t)
      PROVE  IInv' /\ Onward
  <2>1. CASE \/ \E u \in User, k \in Token : BeginInvite(t, u, k) \/ BeginCreateUser(t, u, k)
             \/ \E a, u \in User : BeginBlock(t, a, u) \/ BeginRole(t, a, u)
             \/ \E u \in User : BeginUnblock(t, u)
    BY <2>1, BeginAdminKeeps
  <2>2. CASE FinishInvite(t)
    BY <2>2, FinishTokenKeeps, TxnPlaces
  <2>3. CASE FinishCreateUser(t) \/ FinishBlock(t) \/ FinishUnblock(t) \/ FinishRole(t)
    BY <2>3, FinishCreateUserKeeps, FinishBlockKeeps, FinishUnblockKeeps, FinishRoleKeeps
  <2> QED
    BY <1>4, <2>1, <2>2, <2>3 DEF AdminHandler
<1>5. ASSUME NEW h \in Hook, Webhook(h)
      PROVE  IInv' /\ Onward
  <2>1. CASE \E u \in User : BeginSync(h, u) \/ BeginCompanies(h, u)
    BY <2>1, BeginHookKeeps
  <2>2. CASE UpdateContact(h) \/ ReceiveContact(h) \/ UpdateCompanies(h)
    <3>1. PICK kind \in {"create_waits", "companies_update", "companies_wait"} :
             /\ txn' = [txn EXCEPT ![h].kind = kind] /\ UNCHANGED <<user, sess, token>>
             /\ txn[h].kind \in HookKinds
             /\ kind = "create_waits" => txn[h].kind = "create_update"
      BY <2>2 DEF UpdateContact, ReceiveContact, UpdateCompanies, HookKinds
    <3>2. kind \in HookKinds
      BY DEF HookKinds
    <3> QED
      BY <3>1, <3>2, HookStep
  <2>3. CASE FinishSync(h) \/ SyncPartner(h) \/ FinishCompanies(h)
    BY <2>3, SyncKeeps, FinishCompaniesKeeps
  <2>4. CASE SkipCompanies(h)
    <3>1. /\ h \in Txn /\ txn[h].kind # "none" /\ txn' = [txn EXCEPT ![h] = Idle]
          /\ UNCHANGED <<user, sess, token>>
      BY <2>4, TxnPlaces DEF SkipCompanies, Ends
    <3> QED
      BY <3>1, TokensStay, TokenCommit
  <2> QED
    BY <1>5, <2>1, <2>2, <2>3, <2>4 DEF Webhook
<1>6. ASSUME NEW t \in Txn, Abort(t)
      PROVE  IInv' /\ Onward
  BY <1>6, AbortKeeps
<1> QED
  BY <1>1, <1>2, <1>3, <1>4, <1>5, <1>6 DEF Next

(***************************************************************************)
(* The invariant of the accounts.                                          *)
(***************************************************************************)
THEOREM AccountsInvariant == Spec => []IInv
<1>1. IInv /\ [Next]_vars => IInv'
  BY Steps
<1> QED
  BY InitiallyIInv, <1>1, PTL DEF Spec

(***************************************************************************)
(* Type correctness; and whoever has a live session has signed in          *)
(* (TypeOK).                                                               *)
(***************************************************************************)
THEOREM AccountsTypeCorrect == Spec => []TypeOK
<1>1. IInv => TypeOK
  BY DEF IInv, StoresTyped, TypeOK, SessionOK
<1> QED
  BY AccountsInvariant, <1>1, PTL

(***************************************************************************)
(* A token is used at most once (TokenUsedOnce), with any number of        *)
(* tokens, threads and webhooks: it is enough that the two handlers that   *)
(* consume one run in the event loop and await nothing.                    *)
(***************************************************************************)
THEOREM TokensAreUsedOnce == Spec => []TokenUsedOnce
<1>1. IInv => TokenUsedOnce
  BY DEF IInv, TokenOK, TokenUsedOnce
<1> QED
  BY AccountsInvariant, <1>1, PTL

(***************************************************************************)
(* No session from before the last reset of the password is alive          *)
(* (ResetEndsSessions).                                                    *)
(***************************************************************************)
THEOREM ResetsEndSessions == Spec => []ResetEndsSessions
<1>1. IInv => ResetEndsSessions
  <2> SUFFICES ASSUME IInv, NEW s \in Session, sess[s].status = "live"
               PROVE  sess[s].password >= user[sess[s].user].reset
    BY DEF ResetEndsSessions
  <2>1. user[sess[s].user].reset <= sess[s].password
    BY DEF IInv, SessionOK
  <2>2. user[sess[s].user] \in UserRow /\ sess[s] \in SessionRow
    BY LiveSession DEF IInv, StoresTyped
  <2> QED
    BY <2>1, <2>2 DEF UserRow, SessionRow
<1> QED
  BY AccountsInvariant, <1>1, PTL

(***************************************************************************)
(* A revoked session stays revoked (RevokedForGood).                       *)
(***************************************************************************)
THEOREM RevocationsLast == Spec => RevokedForGood
<1>1. IInv /\ [Next]_vars
      => [\A s \in Session : sess[s].status = "revoked" => sess'[s].status = "revoked"]_vars
  BY Steps DEF Onward
<1> QED
  BY AccountsInvariant, <1>1, PTL DEF Spec, RevokedForGood

(***************************************************************************)
(* Bitrix24 repeating create-user never replaces the password of somebody  *)
(* who has signed in (ReinviteSparesSignedIn), with any number of webhooks *)
(* that overlap: the row lock is enough.                                   *)
(***************************************************************************)
THEOREM ReinvitesSpare == Spec => ReinviteSparesSignedIn
<1>1. ASSUME IInv, NEW h \in Hook, NEW u \in User,
             FinishSync(h) \/ SyncPartner(h), user[u].signedIn
      PROVE  user'[u].password = user[u].password
  <2>1. PICK r \in UserRow :
           /\ user' = [user EXCEPT ![txn[h].user] = r]
           /\ ~NeedsReinvite(txn[h].row) => r.password = user[txn[h].user].password
    BY <1>1, SyncWrites
  <2>2. user \in [User -> UserRow]
    BY <1>1 DEF IInv, StoresTyped
  <2>3. CASE u = txn[h].user
    <3>1. h \in Txn /\ txn[h].kind \in {"create_update", "create_waits"}
      BY <1>1, TxnPlaces DEF FinishSync, SyncPartner, Ends
    <3>2. txn[h].row.signedIn
      BY <1>1, <2>3, <3>1 DEF IInv, TxnInv, AccountInHand
    <3> QED
      BY <2>1, <2>2, <2>3, <3>2 DEF NeedsReinvite
  <2>4. CASE u # txn[h].user
    BY <2>1, <2>2, <2>4
  <2> QED
    BY <2>3, <2>4
<1>2. IInv /\ [Next]_vars
      => [\A h \in Hook, u \in User :
             (FinishSync(h) \/ SyncPartner(h)) /\ user[u].signedIn =>
                 user'[u].password = user[u].password]_vars
  BY <1>1
<1> QED
  BY AccountsInvariant, <1>2, PTL DEF Spec, ReinviteSparesSignedIn
=============================================================================
