--------------------------- MODULE PartnerClients ---------------------------
(***************************************************************************)
(* A partner's requests for clients, the decisions on them, and the links  *)
(* and applications that rest on the decisions                             *)
(* (app/partner_client_requests.py, app/routers/partner_clients.py, the    *)
(* webhook partner-client-check-status, the partner part of                *)
(* app/routers/company_access.py).                                         *)
(*                                                                         *)
(* The handlers of partners' edits and of superadmins are `def' and run in *)
(* threads.  The webhook and the saving of an application are `async def'  *)
(* and await nothing once they have read the request, so that they exclude *)
(* each other (Loop).  An UPDATE holds the row lock until the commit.      *)
(*                                                                         *)
(* Bitrix24 may send, repeat and reorder notifications at will: any one    *)
(* arrives at any time.                                                    *)
(*                                                                         *)
(* An operator named Bug... is a plausible mistake in the one after it.    *)
(***************************************************************************)
EXTENDS FiniteSets

CONSTANTS
    Partner,  \* users of type partner
    Request,  \* rows of partner_client_requests
    Company,  \* companies of Bitrix24
    Thread,   \* threads of `def' handlers
    Loop,     \* the event loop
    None      \* no company, partner, request or transaction

ASSUME ConstantsAssumption ==
    /\ Loop \notin Thread
    /\ None \notin Partner \cup Request \cup Company \cup Thread \cup {Loop}
    /\ Partner \cap Request = {}

VARIABLES
    request,  \* partner_client_requests, committed
    link,     \* the status of partner_client_links, "none" without a row
    made,     \* companies Bitrix24 has made for a check
    draft,    \* the request and the company of the applications saved
    audit,    \* audit_logs: confirmations of a request, links made for a partner
    txn       \* the open transaction of each thread and of the loop

vars == <<request, link, made, draft, audit, txn>>

Txn == Thread \cup {Loop}

(***************************************************************************)
(* "editable" stands for the EDITABLE_STATUSES, pending and                *)
(* clarification_required; "inactive" for a link that is pending, rejected *)
(* or another_partner.                                                     *)
(***************************************************************************)
Statuses == {"editable", "confirmed", "duplicate_found", "rejected"}
LinkStatuses == {"active", "inactive", "revoked"}

(***************************************************************************)
(* entity is the company made for the check, confirmed stands for          *)
(* confirmed_bitrix_company_id and confirmed_company_id, which are always  *)
(* written together.                                                       *)
(***************************************************************************)
RequestRow ==
    [partner : Partner \cup {None}, status : Statuses \cup {"none"}, check : Statuses \cup {"none"},
     entity : Company \cup {None}, linked : Company \cup {None}, confirmed : Company \cup {None}]

NoRequest ==
    [partner |-> None, status |-> "none", check |-> "none", entity |-> None, linked |-> None,
     confirmed |-> None]

(***************************************************************************)
(* row is the request as the transaction has written it, seen whether it   *)
(* has found the link, which it inserts otherwise.                         *)
(***************************************************************************)
Txns ==
    [kind : {"none", "edit", "decision", "draft"}, request : Request \cup {None},
     company : Company \cup {None}, row : RequestRow, seen : BOOLEAN]

Idle == [kind |-> "none", request |-> None, company |-> None, row |-> NoRequest, seen |-> FALSE]

\* final_partner_client_company_id.
Final(row) == IF row.linked # None THEN row.linked ELSE row.confirmed

TypeOK ==
    /\ request \in [Request -> RequestRow]
    /\ link \in [Partner -> [Company -> LinkStatuses \cup {"none"}]]
    /\ made \in SUBSET Company
    /\ draft \in SUBSET (Request \X Company)
    /\ audit \in SUBSET ((Request \cup Partner) \X Company)
    /\ txn \in [Txn -> Txns]
    /\ \A r \in Request :
          /\ request[r].entity # None => request[r].entity \in made
          /\ request[r].linked # None => request[r].confirmed = request[r].linked

Init ==
    /\ request = [r \in Request |-> NoRequest]
    /\ link = [p \in Partner |-> [c \in Company |-> "none"]]
    /\ made = {}
    /\ draft = {}
    /\ audit = {}
    /\ txn = [t \in Txn |-> Idle]

-----------------------------------------------------------------------------
LoopFree == txn[Loop].kind = "none"

\* The row lock of a request, from the UPDATE of a decision to its commit.
Locked(r) == \E t \in Thread : txn[t].kind = "decision" /\ txn[t].request = r

\* A transaction that has found no link inserts one: unless it is there by now.
MayLink(t, p, c) == txn[t].seen \/ link[p][c] = "none"

Activate(p, c) == [link EXCEPT ![p][c] = "active"]

-----------------------------------------------------------------------------
(***************************************************************************)
(* POST /partner/clients.  Bitrix24 makes a company, or fails with or      *)
(* without having made one, while the row is not committed and nobody can  *)
(* see it: what remains is the commit.                                     *)
(***************************************************************************)
CreateRequest(r, p) ==
    /\ request[r].status = "none"
    /\ \/ \E c \in Company \ made :
             /\ made' = made \cup {c}
             /\ \E e \in {c, None} :
                   request' = [request EXCEPT ![r] =
                       [NoRequest EXCEPT !.partner = p, !.status = "editable", !.check = "editable",
                                         !.entity = e]]
       \/ /\ request' = [request EXCEPT ![r] =
                 [NoRequest EXCEPT !.partner = p, !.status = "editable", !.check = "editable"]]
          /\ UNCHANGED made
    /\ UNCHANGED <<link, draft, audit, txn>>

\* The portal crashes before the commit, and the company stays in Bitrix24.
LoseRequest ==
    /\ \E c \in Company \ made : made' = made \cup {c}
    /\ UNCHANGED <<request, link, draft, audit, txn>>

(***************************************************************************)
(* PATCH /partner/clients/{id}: the status is not compared again in the    *)
(* UPDATE.                                                                 *)
(***************************************************************************)
BeginEdit(t, r) ==
    /\ txn[t].kind = "none"
    /\ request[r].status = "editable"
    /\ txn' = [txn EXCEPT ![t] = [Idle EXCEPT !.kind = "edit", !.request = r]]
    /\ UNCHANGED <<request, link, made, draft, audit>>

FinishEdit(t) ==
    /\ txn[t].kind = "edit"
    /\ ~Locked(txn[t].request)
    /\ request' = [request EXCEPT ![txn[t].request].status = "editable"]
    /\ txn' = [txn EXCEPT ![t] = Idle]
    /\ UNCHANGED <<link, made, draft, audit>>

-----------------------------------------------------------------------------
\* A decision that links no company keeps the one linked before.
BugDecided(row, status, linked, company) ==
    [row EXCEPT !.status = status, !.check = status,
                !.linked = IF linked = None THEN @ ELSE linked,
                !.confirmed = IF company = None THEN @ ELSE company]

Decided(row, status, linked, company) ==
    [row EXCEPT !.status = status, !.check = status, !.linked = linked,
                !.confirmed = IF company = None THEN @ ELSE company]

(***************************************************************************)
(* PATCH /admin/partner-clients/{id}/status: any decision after any other, *)
(* with a company linked, confirmed, both or neither.  "linked_to_existing"*)
(* is stored as confirmed.  UPDATE, and the SELECT of the link.            *)
(***************************************************************************)
Decide(t, r, status, linked, confirmed) ==
    LET c == IF linked # None THEN linked ELSE confirmed IN
    /\ txn[t].kind = "none"
    /\ request[r].status # "none"
    /\ ~Locked(r)
    /\ status = "confirmed" => c # None
    /\ txn' = [txn EXCEPT ![t] =
                  [kind |-> "decision", request |-> r, company |-> c,
                   row |-> Decided(request[r], status, linked, c),
                   seen |-> c # None /\ link[request[r].partner][c] # "none"]]
    /\ UNCHANGED <<request, link, made, draft, audit>>

FinishDecision(t) ==
    LET r == txn[t].request
        c == txn[t].company
        p == request[r].partner
    IN
    /\ txn[t].kind = "decision"
    /\ request' = [request EXCEPT ![r] = txn[t].row]
    /\ IF txn[t].row.status = "confirmed"
       THEN /\ MayLink(t, p, c)
            /\ link' = Activate(p, c)
            /\ audit' = audit \cup {<<r, c>>}
       ELSE UNCHANGED <<link, audit>>
    /\ txn' = [txn EXCEPT ![t] = Idle]
    /\ UNCHANGED <<made, draft>>

\* The company a check was made for is confirmed, also when it was linked.
BugConfirmed(entity, linked) == entity

\* final_company_id of the webhook.
Confirmed(entity, linked) == IF linked # None THEN linked ELSE entity

(***************************************************************************)
(* The status to store and the linked company.  With "duplicate_found" and *)
(* a linked company, or with "linked_to_existing", which needs one, the    *)
(* status stored is confirmed; otherwise a linked company is not used.     *)
(***************************************************************************)
Notifications == {n \in Statuses \X (Company \cup {None}) : n[2] # None => n[1] = "confirmed"}

(***************************************************************************)
(* Webhook partner-client-check-status.                                    *)
(***************************************************************************)
Webhook(r, status, linked) ==
    LET row == request[r]
        c == Confirmed(row.entity, linked)
    IN
    /\ LoopFree
    /\ row.status # "none" /\ row.entity # None
    /\ ~Locked(r)
    /\ request' = [request EXCEPT ![r] =
          [row EXCEPT !.status = status, !.check = status,
                      !.linked = IF status = "rejected" THEN @ ELSE linked,
                      !.confirmed = IF status = "confirmed" THEN c ELSE @]]
    /\ IF status = "confirmed"
       THEN link' = Activate(row.partner, c) /\ audit' = audit \cup {<<r, c>>}
       ELSE UNCHANGED <<link, audit>>
    /\ UNCHANGED <<made, draft, txn>>

-----------------------------------------------------------------------------
\* The company is not compared with the one of the request.
BugAllowed(row, c) == row.status = "confirmed" /\ row.check = "confirmed"

Allowed(row, c) == row.status = "confirmed" /\ row.check = "confirmed" /\ Final(row) = c

(***************************************************************************)
(* require_confirmed_partner_client_request and the draft of an            *)
(* application.  If the rest of the draft is not valid, the link is        *)
(* committed and the draft is not.                                         *)
(***************************************************************************)
BeginDraft(r, c) ==
    /\ LoopFree
    /\ Allowed(request[r], c)
    /\ txn' = [txn EXCEPT ![Loop] =
                  [Idle EXCEPT !.kind = "draft", !.request = r, !.company = c]]
    /\ UNCHANGED <<request, link, made, draft, audit>>

FinishDraft ==
    LET r == txn[Loop].request
        c == txn[Loop].company
    IN
    /\ txn[Loop].kind = "draft"
    /\ link' = Activate(request[r].partner, c)
    /\ draft' \in {draft, draft \cup {<<r, c>>}}
    /\ txn' = [txn EXCEPT ![Loop] = Idle]
    /\ UNCHANGED <<request, made, audit>>

-----------------------------------------------------------------------------
(***************************************************************************)
(* POST /admin/partners/{id}/client-links.                                 *)
(***************************************************************************)
CreateLink(p, c, status) ==
    /\ link[p][c] = "none"
    /\ status \in LinkStatuses \ {"revoked"}
    /\ link' = [link EXCEPT ![p][c] = status]
    /\ audit' = IF status = "active" THEN audit \cup {<<p, c>>} ELSE audit
    /\ UNCHANGED <<request, made, draft, txn>>

\* POST /admin/partner-client-links/{id}/revoke.
RevokeLink(p, c) ==
    /\ link[p][c] \notin {"none", "revoked"}
    /\ link' = [link EXCEPT ![p][c] = "revoked"]
    /\ UNCHANGED <<request, made, draft, audit, txn>>

\* An exception, a unique index or a crash.
Abort(t) ==
    /\ txn[t].kind # "none"
    /\ txn' = [txn EXCEPT ![t] = Idle]
    /\ UNCHANGED <<request, link, made, draft, audit>>

-----------------------------------------------------------------------------
Next ==
    \/ \E r \in Request, p \in Partner : CreateRequest(r, p)
    \/ LoseRequest
    \/ \E t \in Thread, r \in Request : BeginEdit(t, r)
    \/ \E t \in Thread : FinishEdit(t)
    \/ \E t \in Thread, r \in Request, s \in Statuses, l, c \in Company \cup {None} :
          Decide(t, r, s, l, c)
    \/ \E t \in Thread : FinishDecision(t)
    \/ \E r \in Request, n \in Notifications : Webhook(r, n[1], n[2])
    \/ \E r \in Request, c \in Company : BeginDraft(r, c)
    \/ FinishDraft
    \/ \E p \in Partner, c \in Company, s \in LinkStatuses : CreateLink(p, c, s)
    \/ \E p \in Partner, c \in Company : RevokeLink(p, c)
    \/ \E t \in Txn : Abort(t)

Spec == Init /\ [][Next]_vars

-----------------------------------------------------------------------------
Owner(x) == IF x \in Partner THEN x ELSE request[x].partner

(***************************************************************************)
(* Step 6 of docs/project-architecture-and-business-logic.md:214: only     *)
(* after "confirmed" is a link made or activated.  Whatever was decided,   *)
(* linked, edited and revoked in between, an active link goes back to a    *)
(* confirmation of that very company for that very partner, or to a        *)
(* superadmin's making the link active.                                    *)
(***************************************************************************)
LinksConfirmed ==
    \A p \in Partner, c \in Company :
        link[p][c] = "active" => \E e \in audit : Owner(e[1]) = p /\ e[2] = c

(***************************************************************************)
(* Step 7 (:215): an application is for a company that was confirmed for   *)
(* the request it names, although the request is read without a lock and   *)
(* may be decided anew while the draft is saved.                           *)
(***************************************************************************)
DraftsConfirmed == draft \subseteq audit

(***************************************************************************)
(* A confirmed request is of use: its check is confirmed as well, it has a *)
(* company, and the partner has a link to that company, whichever of       *)
(* superadmin and Bitrix24 decided last and whatever was linked before.    *)
(***************************************************************************)
ConfirmedOfUse ==
    \A r \in Request :
        LET row == request[r] IN
        row.status = "confirmed" =>
            /\ row.check = "confirmed"
            /\ Final(row) # None
            /\ <<r, Final(row)>> \in audit
            /\ link[row.partner][Final(row)] # "none"
=============================================================================
