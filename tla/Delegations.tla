---------------------------- MODULE Delegations ----------------------------
(***************************************************************************)
(* Temporary delegation of applications (app/delegations.py and            *)
(* app/routers/delegations.py) and the superadmin operations that end      *)
(* delegations or take away what they rest on (app/routers/superadmin.py). *)
(*                                                                         *)
(* The handlers of delegations are `async def' and await nothing: in the   *)
(* one process of Dockerfile:17 they exclude each other (Loop).  Those of  *)
(* the superadmin are `def': they run in threads, statement by statement   *)
(* next to the loop and to each other.  At READ COMMITTED a statement sees *)
(* what is committed and what its own transaction wrote; an UPDATE waits   *)
(* for the row lock.  The items of a delegation are written only after the *)
(* delegation's own row, so that one row stands for them here.             *)
(*                                                                         *)
(* One company, and of its roles client_executor, which stands for every   *)
(* one that may delegate: client_viewer behaves here as no role.  Time     *)
(* goes in ticks; nothing runs the worker but POST                         *)
(* /delegations/run-worker.  A creation repeated with its idempotency key, *)
(* notifications and sessions change nothing modelled.  An application is  *)
(* given its first responsible user outside the repository, which only     *)
(* moves it (see tests/test_delegations.py:94).                            *)
(*                                                                         *)
(* An operator named Bug... is a plausible mistake in the one after it.    *)
(***************************************************************************)
EXTENDS Integers, FiniteSets

CONSTANTS
    Delegation,   \* rows of application_delegations
    Application,  \* rows of portal_applications
    User,         \* client users
    Thread,       \* threads of superadmin handlers
    Loop,         \* the event loop
    Grace,        \* how late an activation may be: 5 minutes
    MaxPeriod,    \* MAX_DELEGATION_DAYS
    MaxTime,      \* bound of the model on the time
    None          \* no user, no transaction

ASSUME ConstantsAssumption ==
    /\ Loop \notin Thread
    /\ Grace \in Nat /\ MaxPeriod \in Nat /\ MaxTime \in Nat
    /\ None \notin User \cup Thread \cup {Loop}

Txn == Thread \cup {Loop}
Time == 0 .. MaxTime

DelegationStatuses == {"scheduled", "active", "cancelled", "expired", "terminated", "failed"}
OPEN_DELEGATION_ITEM_STATUSES == {"scheduled", "active"}

VARIABLES
    now,      \* the time
    user,     \* status, and the user's active role in the company
    app,      \* assigned_to_user_id, None if the status is a final one
    deleg,    \* committed rows, with the status of the item of each application
    holder,   \* the transaction that has written to a row and not committed
    pending,  \* the row as its holder has written it
    txn       \* the state of each transaction

vars == <<now, user, app, deleg, holder, pending, txn>>

(***************************************************************************)
(* A row with status "none" is not inserted yet; so is an item.            *)
(***************************************************************************)
Rows ==
    [status : DelegationStatuses \cup {"none"}, from : User \cup {None}, to : User \cup {None},
     starts : Time, ends : Nat, items : [Application -> DelegationStatuses \cup {"none"}]]

NoRow ==
    [status |-> "none", from |-> None, to |-> None, starts |-> 0, ends |-> 0,
     items |-> [a \in Application |-> "none"]]

Kinds == {"none", "create", "close", "work", "block", "revoke"}

Txns ==
    [kind : Kinds, pc : {"idle", "select", "closing", "activating", "updating", "finishing"},
     user : User \cup {None}, left : Nat, todo : SUBSET Delegation, row : SUBSET Delegation,
     target : DelegationStatuses \cup {"none"}, at : Time]

Idle ==
    [kind |-> "none", pc |-> "idle", user |-> None, left |-> 0, todo |-> {}, row |-> {},
     target |-> "none", at |-> 0]

TypeOK ==
    /\ now \in Time
    /\ user \in [User -> [status : {"active", "blocked"}, role : {"client_executor", "none"}]]
    /\ app \in [Application -> User \cup {None}]
    /\ deleg \in [Delegation -> Rows]
    /\ holder \in [Delegation -> Txn \cup {None}]
    /\ pending \in [Delegation -> Rows]
    /\ txn \in [Txn -> Txns]
    /\ \A d \in Delegation :
          deleg[d].status # "none" => deleg[d].ends > deleg[d].starts /\ deleg[d].from # deleg[d].to

Init ==
    /\ now = 0
    /\ user = [u \in User |-> [status |-> "active", role |-> "client_executor"]]
    /\ app \in [Application -> User]
    /\ deleg = [d \in Delegation |-> NoRow]
    /\ holder = [d \in Delegation |-> None]
    /\ pending = [d \in Delegation |-> NoRow]
    /\ txn = [t \in Txn |-> Idle]

-----------------------------------------------------------------------------
IsOpen(status) == status \in OPEN_DELEGATION_ITEM_STATUSES

\* What a statement of transaction t reads.
Visible(t, d) == IF holder[d] = t THEN pending[d] ELSE deleg[d]

Free(t, d) == holder[d] \in {t, None}

Write(t, d, row) ==
    /\ holder' = [holder EXCEPT ![d] = t]
    /\ pending' = [pending EXCEPT ![d] = row]

\* user_is_active_client and active_company_role, and so is ensure_assignee_allowed.
MayServe(u) ==
    user[u].status = "active" /\ user[u].role # "none"

Selected(row) == {a \in Application : row.items[a] # "none"}

\* Only an item that is already active is a conflict.
BugConflict(t, d, a) ==
    \E c \in Delegation \ {d} : IsOpen(Visible(t, c).status) /\ Visible(t, c).items[a] = "active"

Conflict(t, d, a) ==
    \E c \in Delegation \ {d} : IsOpen(Visible(t, c).status) /\ IsOpen(Visible(t, c).items[a])

\* The period and the users are not compared.
BugValid(t, d, row) ==
    /\ row.starts >= now - Grace
    /\ row.ends - row.starts <= MaxPeriod
    /\ MayServe(row.from) /\ MayServe(row.to)
    /\ Selected(row) # {}
    /\ \A a \in Selected(row) :
          app[a] = row.from /\ ~Conflict(t, d, a)

(***************************************************************************)
(* validate_delegation_request finds no problem.                           *)
(***************************************************************************)
Valid(t, d, row) ==
    /\ row.from # row.to
    /\ row.starts >= now - Grace
    /\ row.ends > row.starts
    /\ row.ends - row.starts <= MaxPeriod
    /\ MayServe(row.from) /\ MayServe(row.to)
    /\ Selected(row) # {}
    /\ \A a \in Selected(row) :
          app[a] = row.from /\ ~Conflict(t, d, a)

-----------------------------------------------------------------------------
(***************************************************************************)
(* POST /delegations.                                                      *)
(***************************************************************************)
BeginCreate(d, row) ==
    /\ txn[Loop].pc = "idle"
    /\ deleg[d].status = "none"
    /\ row.status = IF row.starts <= now THEN "active" ELSE "scheduled"
    /\ \A a \in Application : row.items[a] \in {"none", row.status}
    /\ Valid(Loop, d, row)
    /\ Write(Loop, d, row)
    /\ txn' = [txn EXCEPT ![Loop] = [Idle EXCEPT !.kind = "create", !.pc = "finishing"]]
    /\ UNCHANGED <<now, user, app, deleg>>

(***************************************************************************)
(* POST /delegations/{id}/cancel and /superadmin/delegations/{id}/         *)
(* terminate: the status is read here and the UPDATE made by UpdateRow.    *)
(***************************************************************************)
BeginClose(d, s) ==
    /\ txn[Loop].pc = "idle"
    /\ IsOpen(deleg[d].status)
    /\ s \in {"cancelled", "terminated"}
    /\ txn' = [txn EXCEPT ![Loop] =
                  [Idle EXCEPT !.kind = "close", !.pc = "updating", !.row = {d}, !.target = s]]
    /\ UNCHANGED <<now, user, app, deleg, holder, pending>>

(***************************************************************************)
(* run_delegation_worker reads the delegations to activate at once.        *)
(***************************************************************************)
BeginWork ==
    LET due == {d \in Delegation : deleg[d].status = "scheduled" /\ deleg[d].starts <= now}
        over == {d \in Delegation : deleg[d].status = "active" /\ deleg[d].ends <= now}
    IN
    /\ txn[Loop].pc = "idle"
    /\ due \cup over # {}
    /\ txn' = [txn EXCEPT ![Loop] =
                  [Idle EXCEPT !.kind = "work", !.pc = "activating", !.todo = due, !.at = now]]
    /\ UNCHANGED <<now, user, app, deleg, holder, pending>>

(***************************************************************************)
(* A delegation to activate is validated; one that fails is ended, if its  *)
(* status, read again, is still open.                                      *)
(***************************************************************************)
Examine(d) ==
    LET row == Visible(Loop, d)
        fails == row.ends <= txn[Loop].at \/ ~Valid(Loop, d, row)
    IN
    /\ txn[Loop].pc = "activating"
    /\ d \in txn[Loop].todo
    /\ txn' =
          IF fails /\ ~IsOpen(row.status)
          THEN [txn EXCEPT ![Loop].todo = @ \ {d}]
          ELSE [txn EXCEPT ![Loop].todo = @ \ {d}, ![Loop].pc = "updating", ![Loop].row = {d},
                           ![Loop].target = IF fails THEN "failed" ELSE "active"]
    /\ UNCHANGED <<now, user, app, deleg, holder, pending>>

\* The worker reads the delegations that are over after it has activated the others.
BeginExpire ==
    /\ txn[Loop].pc = "activating"
    /\ txn[Loop].todo = {}
    /\ txn' = [txn EXCEPT
                  ![Loop].pc = "closing",
                  ![Loop].target = "expired",
                  ![Loop].todo = {d \in Delegation :
                                     /\ Visible(Loop, d).status = "active"
                                     /\ Visible(Loop, d).ends <= txn[Loop].at}]
    /\ UNCHANGED <<now, user, app, deleg, holder, pending>>

\* Activation takes every item with it.
BugActivated(row) ==
    [row EXCEPT !.status = "active",
                !.items = [a \in Application |->
                              IF row.items[a] = "none" THEN "none" ELSE "active"]]

Activated(row) ==
    [row EXCEPT !.status = "active",
                !.items = [a \in Application |->
                              IF row.items[a] = "scheduled" THEN "active" ELSE row.items[a]]]

\* The items that have not started are forgotten.
BugClosed(row, s) ==
    [row EXCEPT !.status = s,
                !.items = [a \in Application |->
                              IF row.items[a] = "active" THEN s ELSE row.items[a]]]

Closed(row, s) ==
    [row EXCEPT !.status = s,
                !.items = [a \in Application |->
                              IF IsOpen(row.items[a]) THEN s ELSE row.items[a]]]

(***************************************************************************)
(* UPDATE application_delegations ... WHERE id = d, which does not compare *)
(* the status, and the UPDATEs of its items, which do.                     *)
(***************************************************************************)
UpdateRow(t, d) ==
    LET s == txn[t].target IN
    /\ txn[t].pc = "updating"
    /\ d \in txn[t].row
    /\ Free(t, d)
    /\ Write(t, d, IF s = "active" THEN Activated(Visible(t, d)) ELSE Closed(Visible(t, d), s))
    /\ txn' = [txn EXCEPT ![t].row = {},
                          ![t].pc = CASE s \in {"active", "failed"} -> "activating"
                                      [] txn[t].kind = "close"      -> "finishing"
                                      [] OTHER                      -> "closing"]
    /\ UNCHANGED <<now, user, app, deleg>>

\* expire_or_terminate_delegation reads the status and does nothing if it is not open.
CheckRow(t, d) ==
    /\ txn[t].pc = "closing"
    /\ d \in txn[t].todo
    /\ txn' = IF IsOpen(Visible(t, d).status)
              THEN [txn EXCEPT ![t].todo = @ \ {d}, ![t].pc = "updating", ![t].row = {d}]
              ELSE [txn EXCEPT ![t].todo = @ \ {d}]
    /\ UNCHANGED <<now, user, app, deleg, holder, pending>>

-----------------------------------------------------------------------------
(***************************************************************************)
(* POST /superadmin/users/{id}/block ends the delegations of the user      *)
(* once, and once more before if the user has applications to hand over.   *)
(***************************************************************************)
BeginBlock(t, u) ==
    LET active == {a \in Application : app[a] = u} IN
    /\ txn[t].pc = "idle"
    /\ user[u].status = "active"
    /\ txn' = [txn EXCEPT ![t] =
                  [Idle EXCEPT !.kind = "block", !.pc = "select", !.user = u,
                               !.left = IF active = {} THEN 1 ELSE 2]]
    /\ UNCHANGED <<now, user, app, deleg, holder, pending>>

\* DELETE /superadmin/users/{id}/company-links/{id}.
BeginRevoke(t, u) ==
    /\ txn[t].pc = "idle"
    /\ user[u].role # "none"
    /\ txn' = [txn EXCEPT ![t] =
                  [Idle EXCEPT !.kind = "revoke", !.pc = "select", !.user = u, !.left = 1]]
    /\ UNCHANGED <<now, user, app, deleg, holder, pending>>

\* terminate_delegations_for_user.
Select(t) ==
    /\ txn[t].left > 0
    /\ \/ txn[t].pc = "select"
       \/ txn[t].pc = "closing" /\ txn[t].todo = {}
    /\ txn' = [txn EXCEPT
                  ![t].pc = "closing",
                  ![t].target = "terminated",
                  ![t].left = @ - 1,
                  ![t].todo = {d \in Delegation :
                                  /\ IsOpen(Visible(t, d).status)
                                  /\ txn[t].user \in {Visible(t, d).from, Visible(t, d).to}}]
    /\ UNCHANGED <<now, user, app, deleg, holder, pending>>

(***************************************************************************)
(* What a superadmin's transaction changes besides the delegations.        *)
(***************************************************************************)
Hands(u, v) == [a \in Application |-> IF app[a] = u THEN v ELSE app[a]]

Effect(t) ==
    LET u == txn[t].user IN
    CASE txn[t].kind = "block" ->
            /\ user' = [user EXCEPT ![u].status = "blocked"]
            /\ \E v \in {w \in User : MayServe(w)} \cup {None} :
                  app' = Hands(u, v)
      [] txn[t].kind = "revoke" ->
            user' = [user EXCEPT ![u].role = "none"] /\ UNCHANGED app
      [] OTHER -> UNCHANGED <<user, app>>

Release(t) ==
    /\ holder' = [d \in Delegation |-> IF holder[d] = t THEN None ELSE holder[d]]
    /\ pending' = [d \in Delegation |-> IF holder[d] = t THEN NoRow ELSE pending[d]]
    /\ txn' = [txn EXCEPT ![t] = Idle]

Commit(t) ==
    /\ \/ txn[t].pc = "finishing"
       \/ txn[t].pc = "closing" /\ txn[t].todo = {} /\ txn[t].left = 0
    /\ deleg' = [d \in Delegation |-> Visible(t, d)]
    /\ Effect(t)
    /\ Release(t)
    /\ UNCHANGED now

\* A deadlock that PostgreSQL ends, an exception or a crash.
Abort(t) ==
    /\ txn[t].pc # "idle"
    /\ Release(t)
    /\ UNCHANGED <<now, user, app, deleg>>

-----------------------------------------------------------------------------
(***************************************************************************)
(* What happens around, in one transaction each.                           *)
(***************************************************************************)
Unblock(u) ==
    /\ user[u].status = "blocked"
    /\ user' = [user EXCEPT ![u].status = "active"]
    /\ UNCHANGED <<now, app, deleg, holder, pending, txn>>

\* A company link is added, or confirmed again.
GiveRole(u) ==
    /\ user[u].role = "none"
    /\ user' = [user EXCEPT ![u].role = "client_executor"]
    /\ UNCHANGED <<now, app, deleg, holder, pending, txn>>

\* PATCH .../company-links/{id}/bitrix-company puts the link on another company.
MoveLink(u) ==
    /\ user[u].role # "none"
    /\ user' = [user EXCEPT ![u].role = "none"]
    /\ UNCHANGED <<now, app, deleg, holder, pending, txn>>

\* An application reaches one of the FINAL_APPLICATION_STATUSES.
Finish(a) ==
    /\ app[a] # None
    /\ app' = [app EXCEPT ![a] = None]
    /\ UNCHANGED <<now, user, deleg, holder, pending, txn>>

Tick ==
    /\ now < MaxTime
    /\ now' = now + 1
    /\ UNCHANGED <<user, app, deleg, holder, pending, txn>>

Create(d) ==
    \E u, v \in User, A \in SUBSET Application, s \in Time, e \in 0 .. MaxTime + 1 :
        LET status == IF s <= now THEN "active" ELSE "scheduled" IN
        BeginCreate(d, [status |-> status, from |-> u, to |-> v, starts |-> s, ends |-> e,
                        items |-> [a \in Application |-> IF a \in A THEN status ELSE "none"]])

Step(t) ==
    \/ \E d \in Delegation : UpdateRow(t, d) \/ CheckRow(t, d)
    \/ Select(t)
    \/ Commit(t)
    \/ Abort(t)

Next ==
    \/ \E d \in Delegation : Create(d) \/ Examine(d)
    \/ \E d \in Delegation, s \in {"cancelled", "terminated"} : BeginClose(d, s)
    \/ BeginWork
    \/ BeginExpire
    \/ \E t \in Thread, u \in User : BeginBlock(t, u) \/ BeginRevoke(t, u)
    \/ \E t \in Txn : Step(t)
    \/ \E u \in User : Unblock(u) \/ GiveRole(u) \/ MoveLink(u)
    \/ \E a \in Application : Finish(a)
    \/ Tick

Spec == Init /\ [][Next]_vars

-----------------------------------------------------------------------------
(***************************************************************************)
(* An application has at most one open item, whatever interleaves: the     *)
(* conflict check alone is enough and the unique index                     *)
(* uq_application_delegation_items_open never rejects an insert.           *)
(***************************************************************************)
OneOpenItem ==
    \A a \in Application : \A c, d \in Delegation :
        IsOpen(deleg[c].items[a]) /\ IsOpen(deleg[d].items[a]) => c = d

(***************************************************************************)
(* An item is open only together with its delegation and in the same way:  *)
(* a cancellation, termination, expiry or failed activation leaves nothing *)
(* open, although none of them checks the status again when it writes.     *)
(***************************************************************************)
ItemsFollow ==
    \A d \in Delegation, a \in Application :
        IsOpen(deleg[d].items[a]) => deleg[d].items[a] = deleg[d].status

(***************************************************************************)
(* Access that was taken back is not given again by the same delegation,   *)
(* even when the worker overwrites a concurrent cancellation.              *)
(***************************************************************************)
Grants == INSTANCE AccessGrants WITH
             grant <- [d \in Delegation |-> [a \in Application |->
                          IF deleg[d].items[a] \in {"none", "scheduled", "active"}
                          THEN deleg[d].items[a]
                          ELSE "closed"]]

GrantsMoveForward == Grants!Spec

(***************************************************************************)
(* Whoever is given access by a delegation has an active role in the       *)
(* company: "no extra application or document access is granted without an *)
(* active same-company role" (docs/access-control-matrix.md:58-59).        *)
(* has_active_delegated_access does not look at the role, and the code     *)
(* does not keep this: see README.md, observations.                        *)
(***************************************************************************)
HasDelegatedAccess(u, a) ==
    \E d \in Delegation :
        /\ deleg[d].to = u /\ deleg[d].status = "active" /\ deleg[d].items[a] = "active"
        /\ deleg[d].starts <= now /\ now < deleg[d].ends

NoStandaloneAccess ==
    \A u \in User, a \in Application : HasDelegatedAccess(u, a) => user[u].role # "none"
=============================================================================
