--------------------------- MODULE CompanyAccess ---------------------------
(***************************************************************************)
(* How the rows of user_company_roles of one client come about: the        *)
(* superadmin operations of app/routers/company_access.py and              *)
(* app/routers/superadmin.py and the synchronisation of a contact's        *)
(* companies by the webhooks of app/routers/bitrix_webhooks.py.  What the  *)
(* rows give the client is the subject of AccessPolicies.                  *)
(*                                                                         *)
(* A `def' handler runs in a thread; where it reads before it writes, two  *)
(* steps.  assign_company_role asks Bitrix24 for the company between its   *)
(* check and its INSERT.  A synchronisation writes row after row, with a   *)
(* request to Bitrix24 before each, and commits at the end; there is one   *)
(* at a time, since it has updated the user's row of portal_users first.   *)
(*                                                                         *)
(* Left out: the user's own status (Accounts), the delegations and         *)
(* sessions that a revocation ends (Delegations), the caches and the       *)
(* bitrix_link_status of a row, which no policy reads, and roles of other  *)
(* users, which can only add refusals of update_company_bitrix_link.       *)
(*                                                                         *)
(* An operator named Bug... is a plausible mistake in the one after it.    *)
(***************************************************************************)
EXTENDS AccessPolicies

CONSTANT Call  \* handlers that may be under way at a time

VARIABLES
    role,     \* user_company_roles, committed
    dirty,    \* the rows that the synchronisation has written
    pending,  \* those rows as written
    call      \* the handlers under way

vars == <<role, dirty, pending, call>>

Kinds == {"none", "assign", "create", "move", "sync"}

\* The company is that of the row to be; for sync, the one being looked at.
Calls ==
    [kind : Kinds, company : Company \cup {Nobody}, code : CLIENT_ROLES,
     row : Row \cup {Nobody}, todo : SUBSET Company]

Idle ==
    [kind |-> "none", company |-> Nobody, code |-> "client_viewer", row |-> Nobody, todo |-> {}]

NoRole == [status |-> "none", company |-> Nobody, code |-> "client_viewer"]

Open(row) == row.status \in {"active", "pending"}

SameKey(a, b) == Open(a) /\ Open(b) /\ a.company = b.company /\ a.code = b.code

\* uq_user_company_roles_active_pending.
UniqueRoles(rows) == \A q, r \in Row : q # r => ~SameKey(rows[q], rows[r])

(***************************************************************************)
(* The types, and with them no row of company 1817; the unique index       *)
(* holds; only a synchronisation has rows that are not committed, and      *)
(* there is one at most.                                                   *)
(***************************************************************************)
TypeOK ==
    /\ role \in [Row -> RoleRow]
    /\ dirty \in SUBSET Row
    /\ pending \in [Row -> RoleRow]
    /\ call \in [Call -> Calls]
    /\ UniqueRoles(role)
    /\ \A j, k \in Call : call[j].kind = "sync" /\ call[k].kind = "sync" => j = k
    /\ dirty # {} => \E k \in Call : call[k].kind = "sync"

Init ==
    /\ role = [r \in Row |-> NoRole]
    /\ dirty = {}
    /\ pending = [r \in Row |-> NoRole]
    /\ call = [k \in Call |-> Idle]

-----------------------------------------------------------------------------
\* The index refuses a row: IntegrityError.
Taken(r, row) == \E q \in Row \ ({r} \cup dirty) : SameKey(role[q], row)

\* A statement waits for the synchronisation: for its row, or in the index.
Waits(r, row) ==
    \/ r \in dirty
    \/ \E q \in dirty \ {r} : SameKey(role[q], row) \/ SameKey(pending[q], row)

Put(r, row) == role' = [role EXCEPT ![r] = row]

End(k) == call' = [call EXCEPT ![k] = Idle]

-----------------------------------------------------------------------------
(***************************************************************************)
(* assign_company_role and create_company_link: a row with the same        *)
(* company and role that is open is a conflict.                            *)
(***************************************************************************)
BeginInsert(k, kind, c, code) ==
    /\ call[k].kind = "none"
    /\ kind \in {"assign", "create"}
    /\ c # System
    /\ \A r \in Row : ~SameKey(role[r], [status |-> "pending", company |-> c, code |-> code])
    /\ call' = [call EXCEPT ![k] = [Idle EXCEPT !.kind = kind, !.company = c, !.code = code]]
    /\ UNCHANGED <<role, dirty, pending>>

(***************************************************************************)
(* The INSERT.  An assigned role is pending when Bitrix24 did not answer;  *)
(* create_company_link takes any status from the superadmin.               *)
(***************************************************************************)
FinishInsert(k, r, status) ==
    LET row == [status |-> status, company |-> call[k].company, code |-> call[k].code] IN
    /\ call[k].kind \in {"assign", "create"}
    /\ role[r].status = "none"
    /\ status = "closed" => call[k].kind = "create"
    /\ ~Waits(r, row) /\ ~Taken(r, row)
    /\ Put(r, row)
    /\ End(k)
    /\ UNCHANGED <<dirty, pending>>

(***************************************************************************)
(* update_company_link_role: whatever the row's status was, it is active.  *)
(***************************************************************************)
UpdateLinkRole(r, code) ==
    LET row == [role[r] EXCEPT !.code = code, !.status = "active"] IN
    /\ role[r].status # "none"
    /\ row # role[r]
    /\ ~Waits(r, row) /\ ~Taken(r, row)
    /\ Put(r, row)
    /\ UNCHANGED <<dirty, pending, call>>

(***************************************************************************)
(* update_company_bitrix_link: an open row of the new company, whoever's   *)
(* it is, is a conflict.                                                   *)
(***************************************************************************)
BeginMove(k, r, c) ==
    /\ call[k].kind = "none"
    /\ role[r].status # "none"
    /\ c # System
    /\ \A q \in Row \ {r} : ~(Open(role[q]) /\ role[q].company = c)
    /\ call' = [call EXCEPT ![k] = [Idle EXCEPT !.kind = "move", !.company = c, !.row = r]]
    /\ UNCHANGED <<role, dirty, pending>>

FinishMove(k) ==
    LET r == call[k].row
        row == [role[r] EXCEPT !.company = call[k].company]
    IN
    /\ call[k].kind = "move"
    /\ ~Waits(r, row) /\ ~Taken(r, row)
    /\ Put(r, row)
    /\ End(k)
    /\ UNCHANGED <<dirty, pending>>

\* revoke_company_role and revoke_company_link.
Revoke(r) ==
    /\ Open(role[r])
    /\ r \notin dirty
    /\ Put(r, [role[r] EXCEPT !.status = "closed"])
    /\ UNCHANGED <<dirty, pending, call>>

-----------------------------------------------------------------------------
\* The company of the contact itself is taken as it is.
BugCompanyIds(bindings, fallback, failed) ==
    IF failed \/ bindings = {} THEN {fallback} \ {Nobody} ELSE bindings \ {System}

(***************************************************************************)
(* company_ids_from_bitrix_contact: the companies bound to the contact, or *)
(* the contact's own one if there are none or they cannot be had.          *)
(***************************************************************************)
CompanyIds(bindings, fallback, failed) ==
    IF failed \/ bindings = {} THEN {fallback} \ {System, Nobody} ELSE bindings \ {System}

\* sync_user_contact_cache, with the role_code that the webhook has read.
BeginSync(k, code, bindings, fallback, failed) ==
    /\ call[k].kind = "none"
    /\ \A j \in Call : call[j].kind # "sync"
    /\ CompanyIds(bindings, fallback, failed) # {}
    /\ call' = [call EXCEPT ![k] =
           [Idle EXCEPT !.kind = "sync", !.code = code,
                        !.todo = CompanyIds(bindings, fallback, failed)]]
    /\ UNCHANGED <<role, dirty, pending>>

\* What the synchronisation reads.
Seen(r) == IF r \in dirty THEN pending[r] ELSE role[r]

Found(c) == {r \in Row : Open(Seen(r)) /\ Seen(r).company = c}

(***************************************************************************)
(* The row of the next company; the request to Bitrix24 for that company   *)
(* follows.  Two rows end the synchronisation: Abort.                      *)
(***************************************************************************)
Look(k, c) ==
    /\ call[k].kind = "sync" /\ call[k].company = Nobody
    /\ c \in call[k].todo
    /\ Cardinality(Found(c)) <= 1
    /\ call' = [call EXCEPT ![k].company = c, ![k].todo = @ \ {c},
                            ![k].row = CHOOSE r \in Row \cup {Nobody} :
                                           IF Found(c) = {} THEN r = Nobody ELSE r \in Found(c)]
    /\ UNCHANGED <<role, dirty, pending>>

\* The role is given again with the company.
BugSynced(row, code) == [row EXCEPT !.code = code, !.status = "active"]

\* The UPDATE of a row that was found: its status is left alone.
Synced(row, code) == [row EXCEPT !.code = code]

(***************************************************************************)
(* The UPDATE, or the INSERT with a status that depends on the answer.     *)
(***************************************************************************)
WriteRole(k, r, status) ==
    LET found == call[k].row # Nobody
        row == IF found
               THEN Synced(Seen(r), call[k].code)
               ELSE [status |-> status, company |-> call[k].company, code |-> call[k].code]
    IN
    /\ call[k].kind = "sync" /\ call[k].company # Nobody
    /\ IF found THEN r = call[k].row ELSE Seen(r).status = "none"
    /\ status \in {"active", "pending"}
    /\ \A q \in Row \ {r} : ~SameKey(Seen(q), row)
    /\ dirty' = dirty \cup {r}
    /\ pending' = [pending EXCEPT ![r] = row]
    /\ call' = [call EXCEPT ![k].company = Nobody, ![k].row = Nobody]
    /\ UNCHANGED role

Committed == [r \in Row |-> Seen(r)]

FinishSync(k) ==
    /\ call[k].kind = "sync" /\ call[k].company = Nobody
    /\ call[k].todo = {}
    /\ role' = Committed
    /\ dirty' = {}
    /\ pending' = [r \in Row |-> NoRole]
    /\ End(k)

(***************************************************************************)
(* An exception, a refusal by the index or a crash: the rollback.          *)
(***************************************************************************)
Abort(k) ==
    /\ call[k].kind # "none"
    /\ IF call[k].kind = "sync"
       THEN dirty' = {} /\ pending' = [r \in Row |-> NoRole]
       ELSE UNCHANGED <<dirty, pending>>
    /\ End(k)
    /\ UNCHANGED role

-----------------------------------------------------------------------------
Next ==
    \/ \E k \in Call, kind \in {"assign", "create"}, c \in Company, code \in CLIENT_ROLES :
          BeginInsert(k, kind, c, code)
    \/ \E k \in Call, r \in Row, status \in {"active", "pending", "closed"} :
          FinishInsert(k, r, status)
    \/ \E r \in Row, code \in CLIENT_ROLES : UpdateLinkRole(r, code)
    \/ \E k \in Call, r \in Row, c \in Company : BeginMove(k, r, c)
    \/ \E k \in Call : FinishMove(k)
    \/ \E r \in Row : Revoke(r)
    \/ \E k \in Call, code \in CLIENT_ROLES, bindings \in SUBSET Company,
          fallback \in Company \cup {Nobody}, failed \in BOOLEAN :
             BeginSync(k, code, bindings, fallback, failed)
    \/ \E k \in Call, c \in Company : Look(k, c)
    \/ \E k \in Call, r \in Row, status \in {"active", "pending"} : WriteRole(k, r, status)
    \/ \E k \in Call : FinishSync(k) \/ Abort(k)

Spec == Init /\ [][Next]_vars

-----------------------------------------------------------------------------
(***************************************************************************)
(* A row that has been revoked is not open again unless a superadmin sets  *)
(* its role: not because a synchronisation had found it open before, nor   *)
(* because a move was under way.                                           *)
(***************************************************************************)
RevokedRowsStay ==
    [][\A r \in Row :
          role[r].status = "closed" /\ role'[r].status # "closed" =>
              \E code \in CLIENT_ROLES : UpdateLinkRole(r, code)]_vars

(***************************************************************************)
(* The policies on every state of the rows: each one that is committed is  *)
(* also reached with no handler under way.                                 *)
(***************************************************************************)
Quiet == \A k \in Call : call[k] = Idle

(***************************************************************************)
(* Whoever is let at a company, an application or a document of it sees it *)
(* in the lists, which are other queries.                                  *)
(***************************************************************************)
AllGrantedIsListed == Quiet => \A w \in Worlds(role) : GrantedIsListed(w)

(***************************************************************************)
(* Documents, policies and every action need an application that the user  *)
(* may read, whatever rows the handlers above have left.                   *)
(***************************************************************************)
AllObjectsFollowApplication == Quiet => \A w \in Worlds(role) : ObjectsFollowApplication(w)

(***************************************************************************)
(* Whatever rows the handlers above have left, what goes beyond            *)
(* docs/access-control-matrix.md is a superadmin's or comes from an active *)
(* delegation, which by lines 55-59 of the matrix grants nothing.          *)
(***************************************************************************)
AllExcessIsDelegated == Quiet => \A w \in Worlds(role) : ExcessIsDelegated(w)
=============================================================================
