--------------------------- MODULE AccessPolicies ---------------------------
(***************************************************************************)
(* What app/security/policies.py decides, for one user, one application    *)
(* and its documents, from the rows that are committed.                    *)
(*                                                                         *)
(* A world w is what the functions read of them: the user, the rows of     *)
(* user_company_roles of the user, the user's partner_client_links row for *)
(* the application's company, whether an active delegation gives the user  *)
(* the application, and the application.  Queries that expect one row at   *)
(* most (scalar_one_or_none) end in an exception when there are two:       *)
(* "error".                                                                *)
(*                                                                         *)
(* An operator named Bug... is a plausible mistake in the one after it.    *)
(***************************************************************************)
EXTENDS Integers, FiniteSets

CONSTANTS
    Row,      \* rows of user_company_roles
    Company,  \* companies of Bitrix24
    System,   \* company 1817, SYSTEM_BITRIX_COMPANY_IDS
    Nobody    \* no company, no row

ASSUME PolicyAssumption ==
    /\ IsFiniteSet(Row)
    /\ System \in Company
    /\ Nobody \notin Company \cup Row

CLIENT_ROLES == {"client_executor", "client_admin", "client_viewer"}
WRITER_ROLES == {"client_executor", "client_admin"}

(***************************************************************************)
(* "closed" stands for revoked and rejected.  Company 1817 never gets into *)
(* the access of a client, whichever way a row comes about                 *)
(* (docs/knowledge-base/bitrix24-field-mapping.md:67-71).                  *)
(***************************************************************************)
RoleRow ==
    [status : {"none", "pending", "active", "closed"},
     company : (Company \ {System}) \cup {Nobody}, code : CLIENT_ROLES]

(***************************************************************************)
(* link is "none" for every status that shows a partner nothing.  own: the *)
(* application has no creator, or this one; shown: it is this partner's    *)
(* and not is_hidden_from_partner.                                         *)
(***************************************************************************)
Worlds(rows) ==
    [type : {"client", "partner"}, active : BOOLEAN, superadmin : BOOLEAN, role : {rows},
     link : {"none", "active", "another_partner"}, delegated : BOOLEAN,
     company : Company \ {System}, own : BOOLEAN, shown : BOOLEAN]

COMPANY_ACTIONS == {"read", "create_application", "approve_application", "manage_users"}

COMPANY_ACTION_ROLES(action) ==
    IF action = "read" THEN CLIENT_ROLES
    ELSE IF action = "create_application" THEN WRITER_ROLES
    ELSE IF action = "approve_application" THEN {"client_admin"}
    ELSE {}

APPLICATION_WRITES ==
    {"create", "edit_draft", "submit", "upload_document", "request_policy_email",
     "request_policy_telegram", "request_cancellation", "request_change"}

APPROVALS == {"approve", "reject", "return_for_revision"}
APPLICATION_ACTIONS == {"read"} \cup APPLICATION_WRITES \cup APPROVALS

\* A viewer may upload documents.
BugAPPLICATION_ACTION_ROLES(action) ==
    IF action \in {"read", "upload_document"} THEN CLIENT_ROLES
    ELSE IF action \in APPLICATION_WRITES THEN WRITER_ROLES
    ELSE {"client_admin"}

APPLICATION_ACTION_ROLES(action) ==
    IF action = "read" THEN CLIENT_ROLES
    ELSE IF action \in APPLICATION_WRITES THEN WRITER_ROLES
    ELSE {"client_admin"}

DOCUMENT_ACTIONS == {"upload", "read_metadata", "download", "request_send"}

DOCUMENT_ACTION_ROLES(action) ==
    IF action = "read_metadata" THEN CLIENT_ROLES ELSE WRITER_ROLES

POLICY_ACTIONS == {"read", "request_send", "download"}
POLICY_ACTION_ROLES(action) == IF action = "read" THEN CLIENT_ROLES ELSE WRITER_ROLES

PARTNER_APPLICATION_ACTIONS == {"read", "create", "submit", "upload_document"}
PARTNER_DOCUMENT_ACTIONS == {"upload", "read_metadata"}
PARTNER_VISIBLE_LINK_STATUSES == {"active", "another_partner"}

DELEGATED_ACTIONS ==
    {"read", "upload_document", "request_policy_email", "request_policy_telegram",
     "request_cancellation", "request_change"}

-----------------------------------------------------------------------------
IsSuperadmin(w) == w.active /\ w.superadmin
IsPartner(w) == w.active /\ w.type = "partner"
IsClient(w) == w.active /\ w.type = "client"

ActiveRows(w, c) == {r \in Row : w.role[r].status = "active" /\ w.role[r].company = c}

Matching(w, c, codes) == {r \in ActiveRows(w, c) : w.role[r].code \in codes}

Outcome(granted) == IF granted THEN "allow" ELSE "deny"

\* _company_role_exists.
RoleExists(w, c, codes) ==
    IF Cardinality(Matching(w, c, codes)) > 1
    THEN "error"
    ELSE Outcome(Matching(w, c, codes) # {})

(***************************************************************************)
(* can_access_company, of the application's company c.                     *)
(***************************************************************************)
CompanyAccess(w, c, action) ==
    IF IsSuperadmin(w) THEN "allow"
    ELSE IF IsClient(w) THEN RoleExists(w, c, COMPANY_ACTION_ROLES(action))
    ELSE Outcome(action = "read" /\ IsPartner(w) /\ w.link = "active")

\* _company_role_for_action and _executor_owns_application.
OwnRole(w, codes) ==
    \E r \in Matching(w, w.company, codes) : w.role[r].code = "client_executor" => w.own

PartnerMay(w, action) ==
    /\ w.shown
    /\ \/ w.link = "active" /\ action \in PARTNER_APPLICATION_ACTIONS
       \/ (w.link \in PARTNER_VISIBLE_LINK_STATUSES /\ action = "read")

(***************************************************************************)
(* require_application_access.                                             *)
(***************************************************************************)
ApplicationAccess(w, action) ==
    LET roles == APPLICATION_ACTION_ROLES(action) IN
    IF IsSuperadmin(w) THEN "allow"
    ELSE IF IsPartner(w) THEN Outcome(PartnerMay(w, action))
    ELSE IF ~IsClient(w) THEN "deny"
    ELSE IF Cardinality(Matching(w, w.company, roles)) > 1 THEN "error"
    ELSE Outcome(OwnRole(w, roles) \/ (w.delegated /\ action \in DELEGATED_ACTIONS))

(***************************************************************************)
(* require_policy_access.                                                  *)
(***************************************************************************)
PolicyAccess(w, action) ==
    LET application ==
            ApplicationAccess(w, IF action = "read" THEN "read" ELSE "request_policy_email")
    IN
    IF IsPartner(w) /\ action \in {"request_send", "download"} THEN "deny"
    ELSE IF application # "allow" \/ IsPartner(w) \/ IsSuperadmin(w) THEN application
    ELSE RoleExists(w, w.company, POLICY_ACTION_ROLES(action))

\* An executor's role is enough for every document of the company.
BugDocumentRole(w, codes) == Matching(w, w.company, codes) # {}

DocumentRole(w, codes) == OwnRole(w, codes)

(***************************************************************************)
(* require_document_access, of a document that is a policy file or not.    *)
(***************************************************************************)
DocumentAccess(w, policyFile, action) ==
    LET codes == DOCUMENT_ACTION_ROLES(action) IN
    IF IsPartner(w)
    THEN Outcome(/\ ~policyFile
                 /\ action \in PARTNER_DOCUMENT_ACTIONS
                 /\ w.shown
                 /\ w.link = "active")
    ELSE IF IsSuperadmin(w) THEN "allow"
    ELSE IF ~IsClient(w) THEN "deny"
    ELSE IF Cardinality(Matching(w, w.company, codes)) > 1 THEN "error"
    ELSE Outcome(DocumentRole(w, codes))

-----------------------------------------------------------------------------
(***************************************************************************)
(* get_accessible_company_ids, get_accessible_application_filter and       *)
(* get_accessible_document_filter, on which lists and searches rest.  A    *)
(* superadmin's companies are those of any user.                           *)
(***************************************************************************)
CompanyListed(w, c) ==
    /\ w.active
    /\ c # System
    /\ IF w.superadmin
       THEN \E r \in Row : w.role[r].status # "none" /\ w.role[r].company = c
       ELSE IF IsPartner(w)
       THEN w.link = "active" /\ c = w.company
       ELSE ActiveRows(w, c) # {}

\* A list shows a partner what an active link shows, only.
BugApplicationListed(w) ==
    IF IsSuperadmin(w) THEN TRUE
    ELSE IF IsPartner(w) THEN w.shown /\ w.link = "active"
    ELSE CompanyListed(w, w.company)

ApplicationListed(w) ==
    IF IsSuperadmin(w) THEN TRUE
    ELSE IF IsPartner(w) THEN w.shown /\ w.link \in PARTNER_VISIBLE_LINK_STATUSES
    ELSE CompanyListed(w, w.company)

DocumentListed(w, policyFile) ==
    ApplicationListed(w) /\ (IsPartner(w) => ~policyFile)

-----------------------------------------------------------------------------
(***************************************************************************)
(* What the check of an object grants, the lists show: they are different  *)
(* queries for each type of user.  A delegated application is not listed.  *)
(***************************************************************************)
GrantedIsListed(w) ==
    /\ CompanyAccess(w, w.company, "read") = "allow" /\ ~IsSuperadmin(w) =>
          CompanyListed(w, w.company)
    /\ ApplicationAccess(w, "read") = "allow" /\ ~w.delegated => ApplicationListed(w)
    /\ \A f \in BOOLEAN :
          DocumentAccess(w, f, "read_metadata") = "allow" => DocumentListed(w, f)

(***************************************************************************)
(* Nobody gets at a document or a policy without being able to read its    *)
(* application, and whoever may write may read, if the check of reading    *)
(* does not break off because the user has two roles in the company.       *)
(***************************************************************************)
ObjectsFollowApplication(w) ==
    \/ ApplicationAccess(w, "read") # "deny"
    \/ /\ \A a \in APPLICATION_ACTIONS : ApplicationAccess(w, a) = "deny"
       /\ \A a \in POLICY_ACTIONS : PolicyAccess(w, a) = "deny"
       /\ \A a \in DOCUMENT_ACTIONS, f \in BOOLEAN : DocumentAccess(w, f, a) = "deny"

(***************************************************************************)
(* docs/access-control-matrix.md:10-54, of clients and partners.  The      *)
(* actions that no line names count with their like: cancellation and      *)
(* change with the requests of a policy, rejection with approval, create   *)
(* of a partner with submit.                                               *)
(***************************************************************************)
HasRole(w, codes) ==
    \E r \in Row : /\ w.role[r].status = "active"
                  /\ w.role[r].company = w.company
                  /\ w.role[r].code \in codes

RoleInMatrix(w, codes) == IsClient(w) /\ HasRole(w, codes)

PartnerSees(w) == IsPartner(w) /\ w.shown /\ w.link # "none"
PartnerActs(w) == PartnerSees(w) /\ w.link = "active"

InMatrix(w, a) ==
    \/ a = "read" /\ (RoleInMatrix(w, CLIENT_ROLES) \/ PartnerSees(w))
    \/ a \in APPLICATION_WRITES /\ RoleInMatrix(w, WRITER_ROLES)
    \/ a \in APPROVALS /\ RoleInMatrix(w, {"client_admin"})
    \/ a \in {"create", "submit", "upload_document"} /\ PartnerActs(w)

PolicyInMatrix(w, a) ==
    \/ RoleInMatrix(w, IF a = "read" THEN CLIENT_ROLES ELSE WRITER_ROLES)
    \/ a = "read" /\ PartnerSees(w)

DocumentInMatrix(w, policyFile, a) ==
    \/ RoleInMatrix(w, IF a = "read_metadata" THEN CLIENT_ROLES ELSE WRITER_ROLES)
    \/ a \in {"upload", "read_metadata"} /\ ~policyFile /\ PartnerActs(w)

(***************************************************************************)
(* The code does exceed the matrix.  A delegate without a role gets at the *)
(* application (policies.py:450), where docs/access-control-matrix.md      *)
(* 55-59 grants nothing; a superadmin may do everything, where line 48     *)
(* names reading.  There is no third excess, and a delegation exceeds the  *)
(* matrix neither in what creates, edits, submits or decides an            *)
(* application nor in its policy and documents.                            *)
(***************************************************************************)
ExcessIsDelegated(w) ==
    \/ IsSuperadmin(w)
    \/ /\ \A a \in APPLICATION_ACTIONS : ApplicationAccess(w, a) = "allow" =>
             \/ InMatrix(w, a)
             \/ /\ IsClient(w) /\ w.delegated
                /\ a \notin APPROVALS \cup {"create", "edit_draft", "submit"}
       /\ \A a \in POLICY_ACTIONS : PolicyAccess(w, a) = "allow" => PolicyInMatrix(w, a)
       /\ \A a \in DOCUMENT_ACTIONS, f \in BOOLEAN :
             DocumentAccess(w, f, a) = "allow" => DocumentInMatrix(w, f, a)
=============================================================================
