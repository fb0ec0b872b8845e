------------------------ MODULE CompanyAccessProofs ------------------------
(***************************************************************************)
(* First, what app/security/policies.py decides, in any world: whatever    *)
(* companies and rows there are, and in whatever states the rows are.      *)
(* Then the rows of user_company_roles: they keep their unique index and   *)
(* stay revoked under any number of handlers and one synchronisation, and  *)
(* whatever they are, only superadmins and delegates exceed the matrix.    *)
(***************************************************************************)
EXTENDS CompanyAccess, FiniteSetTheorems, TLAPS

\* The fields of a world that the proofs need.
LEMMA WorldFields ==
    ASSUME NEW rows, NEW w \in Worlds(rows)
    PROVE  /\ w.type \in {"client", "partner"}
           /\ w.active \in BOOLEAN /\ w.superadmin \in BOOLEAN
           /\ w.delegated \in BOOLEAN /\ w.own \in BOOLEAN /\ w.shown \in BOOLEAN
           /\ w.link \in {"none", "active", "another_partner"}
           /\ w.company # System
BY DEF Worlds

\* The two outcomes of a condition.
LEMMA OutcomeAllows ==
    ASSUME NEW granted, Outcome(granted) = "allow"
    PROVE  granted
BY DEF Outcome

LEMMA OutcomeDenies ==
    ASSUME NEW granted, ~granted
    PROVE  Outcome(granted) = "deny"
BY DEF Outcome

\* More rows match when more roles are asked for.
LEMMA MatchingGrows ==
    ASSUME NEW w, NEW c, NEW A, NEW B, A \subseteq B
    PROVE  Matching(w, c, A) \subseteq Matching(w, c, B)
BY DEF Matching

\* When one row at most matches, so it does when fewer roles are asked for.
LEMMA MatchingCounts ==
    ASSUME NEW w, NEW c, NEW A, NEW B, A \subseteq B,
           ~(Cardinality(Matching(w, c, B)) > 1)
    PROVE  ~(Cardinality(Matching(w, c, A)) > 1)
<1>1. IsFiniteSet(Matching(w, c, B))
  <2>1. Matching(w, c, B) \subseteq Row
    BY DEF Matching, ActiveRows
  <2> QED
    BY <2>1, PolicyAssumption, FS_Subset
<1>2. /\ Cardinality(Matching(w, c, A)) \in Nat
      /\ Cardinality(Matching(w, c, B)) \in Nat
      /\ Cardinality(Matching(w, c, A)) <= Cardinality(Matching(w, c, B))
  BY <1>1, MatchingGrows, FS_Subset, FS_CardinalityType
<1> QED
  BY <1>2

\* An own role is a role.
LEMMA OwnRoleMatches ==
    ASSUME NEW w, NEW codes, OwnRole(w, codes)
    PROVE  Matching(w, w.company, codes) # {}
BY DEF OwnRole

LEMMA OwnRoleGrows ==
    ASSUME NEW w, NEW A, NEW B, A \subseteq B, OwnRole(w, A)
    PROVE  OwnRole(w, B)
BY DEF OwnRole, Matching

LEMMA MatchingIsRole ==
    ASSUME NEW w, NEW codes, Matching(w, w.company, codes) # {}
    PROVE  HasRole(w, codes)
BY DEF HasRole, Matching, ActiveRows

-----------------------------------------------------------------------------
(***************************************************************************)
(* When the check of an application lets somebody do something.            *)
(***************************************************************************)
LEMMA ApplicationAllowed ==
    ASSUME NEW w, NEW action, ApplicationAccess(w, action) = "allow"
    PROVE  \/ IsSuperadmin(w)
           \/ IsPartner(w) /\ PartnerMay(w, action)
           \/ /\ IsClient(w)
              /\ \/ OwnRole(w, APPLICATION_ACTION_ROLES(action))
                 \/ w.delegated /\ action \in DELEGATED_ACTIONS
<1>1. CASE IsSuperadmin(w)
  BY <1>1
<1>2. CASE ~IsSuperadmin(w) /\ IsPartner(w)
  <2>1. Outcome(PartnerMay(w, action)) = "allow"
    BY <1>2 DEF ApplicationAccess
  <2> QED
    BY <1>2, <2>1, OutcomeAllows
<1>3. CASE ~IsSuperadmin(w) /\ ~IsPartner(w)
  <2> DEFINE own == \/ OwnRole(w, APPLICATION_ACTION_ROLES(action))
                    \/ w.delegated /\ action \in DELEGATED_ACTIONS
  <2>1. IsClient(w) /\ Outcome(own) = "allow"
    BY <1>3 DEF ApplicationAccess
  <2>2. own
    BY <2>1, OutcomeAllows
  <2> QED
    BY <2>1, <2>2
<1> QED
  BY <1>1, <1>2, <1>3

(***************************************************************************)
(* When the check of reading an application says no, and is not broken off *)
(* by two roles in the company.                                            *)
(***************************************************************************)
LEMMA ReadDenied ==
    ASSUME NEW w, ApplicationAccess(w, "read") = "deny"
    PROVE  /\ ~IsSuperadmin(w)
           /\ IsPartner(w) => ~PartnerMay(w, "read")
           /\ IsClient(w) /\ ~IsPartner(w) =>
                 /\ ~(Cardinality(Matching(w, w.company, CLIENT_ROLES)) > 1)
                 /\ ~OwnRole(w, CLIENT_ROLES)
                 /\ ~w.delegated
<1>1. ~IsSuperadmin(w)
  BY DEF ApplicationAccess
<1>2. ASSUME IsPartner(w)
      PROVE  ~PartnerMay(w, "read")
  BY <1>1, <1>2 DEF ApplicationAccess, Outcome
<1>3. ASSUME IsClient(w), ~IsPartner(w)
      PROVE  /\ ~(Cardinality(Matching(w, w.company, CLIENT_ROLES)) > 1)
             /\ ~OwnRole(w, CLIENT_ROLES)
             /\ ~w.delegated
  <2>1. APPLICATION_ACTION_ROLES("read") = CLIENT_ROLES /\ "read" \in DELEGATED_ACTIONS
    BY DEF APPLICATION_ACTION_ROLES, DELEGATED_ACTIONS
  <2> QED
    BY <1>1, <1>3, <2>1 DEF ApplicationAccess, Outcome
<1> QED
  BY <1>1, <1>2, <1>3

LEMMA RolesAreClientRoles ==
    /\ WRITER_ROLES \subseteq CLIENT_ROLES
    /\ {"client_admin"} \subseteq CLIENT_ROLES
    /\ \A a \in APPLICATION_ACTIONS : APPLICATION_ACTION_ROLES(a) \subseteq CLIENT_ROLES
    /\ \A a \in DOCUMENT_ACTIONS : DOCUMENT_ACTION_ROLES(a) \subseteq CLIENT_ROLES
BY DEF WRITER_ROLES, CLIENT_ROLES, APPLICATION_ACTION_ROLES, DOCUMENT_ACTION_ROLES

-----------------------------------------------------------------------------
(***************************************************************************)
(* In no world does a check grant what the lists do not show, delegated    *)
(* applications aside.                                                     *)
(***************************************************************************)
THEOREM GrantsAreListed ==
    ASSUME NEW rows, NEW w \in Worlds(rows)
    PROVE  GrantedIsListed(w)
<1> USE WorldFields
<1>1. ASSUME CompanyAccess(w, w.company, "read") = "allow", ~IsSuperadmin(w)
      PROVE  CompanyListed(w, w.company)
  <2>1. CASE IsClient(w)
    <3>1. RoleExists(w, w.company, COMPANY_ACTION_ROLES("read")) = "allow"
      BY <1>1, <2>1 DEF CompanyAccess
    <3>2. Matching(w, w.company, COMPANY_ACTION_ROLES("read")) # {}
      BY <3>1 DEF RoleExists, Outcome
    <3>3. ActiveRows(w, w.company) # {}
      BY <3>2 DEF Matching
    <3> QED
      BY <1>1, <2>1, <3>3 DEF CompanyListed, IsSuperadmin, IsClient, IsPartner
  <2>2. CASE ~IsClient(w)
    <3>1. IsPartner(w) /\ w.link = "active"
      BY <1>1, <2>2 DEF CompanyAccess, Outcome
    <3> QED
      BY <1>1, <3>1 DEF CompanyListed, IsSuperadmin, IsPartner
  <2> QED
    BY <2>1, <2>2
<1>2. ASSUME NEW codes, Matching(w, w.company, codes) # {}, IsClient(w), ~IsSuperadmin(w)
      PROVE  ApplicationListed(w)
  <2>1. ActiveRows(w, w.company) # {}
    BY <1>2 DEF Matching
  <2> QED
    BY <1>2, <2>1 DEF ApplicationListed, CompanyListed, IsSuperadmin, IsClient, IsPartner
<1>3. ASSUME ApplicationAccess(w, "read") = "allow", ~w.delegated
      PROVE  ApplicationListed(w)
  <2>1. CASE IsSuperadmin(w)
    BY <2>1 DEF ApplicationListed
  <2>2. CASE ~IsSuperadmin(w) /\ IsPartner(w)
    <3>1. PartnerMay(w, "read")
      BY <1>3, <2>2, ApplicationAllowed DEF IsPartner, IsClient
    <3> QED
      BY <2>2, <3>1 DEF PartnerMay, ApplicationListed, PARTNER_VISIBLE_LINK_STATUSES
  <2>3. CASE ~IsSuperadmin(w) /\ ~IsPartner(w)
    <3>1. IsClient(w) /\ OwnRole(w, APPLICATION_ACTION_ROLES("read"))
      BY <1>3, <2>3, ApplicationAllowed
    <3> QED
      BY <1>2, <2>3, <3>1, OwnRoleMatches
  <2> QED
    BY <2>1, <2>2, <2>3
<1>4. ASSUME NEW f \in BOOLEAN, DocumentAccess(w, f, "read_metadata") = "allow"
      PROVE  DocumentListed(w, f)
  <2>1. CASE IsPartner(w)
    <3>1. ~f /\ w.shown /\ w.link = "active"
      BY <1>4, <2>1 DEF DocumentAccess, Outcome
    <3> QED
      BY <2>1, <3>1 DEF DocumentListed, ApplicationListed, PARTNER_VISIBLE_LINK_STATUSES
  <2>2. CASE ~IsPartner(w) /\ IsSuperadmin(w)
    BY <2>2 DEF DocumentListed, ApplicationListed
  <2>3. CASE ~IsPartner(w) /\ ~IsSuperadmin(w)
    <3>1. IsClient(w) /\ DocumentRole(w, DOCUMENT_ACTION_ROLES("read_metadata"))
      BY <1>4, <2>3 DEF DocumentAccess, Outcome
    <3>2. ApplicationListed(w)
      BY <1>2, <2>3, <3>1, OwnRoleMatches DEF DocumentRole
    <3> QED
      BY <2>3, <3>2 DEF DocumentListed
  <2> QED
    BY <2>1, <2>2, <2>3
<1> QED
  BY <1>1, <1>3, <1>4 DEF GrantedIsListed

(***************************************************************************)
(* In no world does somebody who may not read an application get at its    *)
(* documents or policies, or do anything else with it.                     *)
(***************************************************************************)
THEOREM ObjectsNeedApplication ==
    ASSUME NEW rows, NEW w \in Worlds(rows)
    PROVE  ObjectsFollowApplication(w)
<1> USE WorldFields
<1> SUFFICES ASSUME ApplicationAccess(w, "read") = "deny"
             PROVE  /\ \A a \in APPLICATION_ACTIONS : ApplicationAccess(w, a) = "deny"
                    /\ \A a \in POLICY_ACTIONS : PolicyAccess(w, a) = "deny"
                    /\ \A a \in DOCUMENT_ACTIONS, f \in BOOLEAN :
                          DocumentAccess(w, f, a) = "deny"
  BY DEF ObjectsFollowApplication
<1>0. ASSUME NEW codes, codes \subseteq CLIENT_ROLES, IsClient(w), ~IsPartner(w)
      PROVE  /\ ~(Cardinality(Matching(w, w.company, codes)) > 1)
             /\ ~OwnRole(w, codes)
  BY <1>0, ReadDenied, MatchingCounts, OwnRoleGrows
<1>1. ASSUME NEW a \in APPLICATION_ACTIONS
      PROVE  ApplicationAccess(w, a) = "deny"
  <2>1. CASE IsPartner(w)
    <3>1. ~PartnerMay(w, a)
      BY <2>1, ReadDenied DEF PartnerMay, PARTNER_APPLICATION_ACTIONS,
                              PARTNER_VISIBLE_LINK_STATUSES
    <3> QED
      BY <2>1, <3>1, ReadDenied, OutcomeDenies DEF ApplicationAccess
  <2>2. CASE ~IsPartner(w) /\ IsClient(w)
    <3> DEFINE roles == APPLICATION_ACTION_ROLES(a)
    <3>1. ~(Cardinality(Matching(w, w.company, roles)) > 1) /\ ~OwnRole(w, roles)
      BY <1>0, <2>2, RolesAreClientRoles
    <3>2. ~(OwnRole(w, roles) \/ (w.delegated /\ a \in DELEGATED_ACTIONS))
      BY <2>2, <3>1, ReadDenied
    <3> QED
      BY <2>2, <3>1, <3>2, ReadDenied DEF ApplicationAccess, Outcome
  <2>3. CASE ~IsPartner(w) /\ ~IsClient(w)
    BY <2>3, ReadDenied DEF ApplicationAccess
  <2> QED
    BY <2>1, <2>2, <2>3
<1>2. ASSUME NEW a \in POLICY_ACTIONS
      PROVE  PolicyAccess(w, a) = "deny"
  <2>1. (IF a = "read" THEN "read" ELSE "request_policy_email") \in APPLICATION_ACTIONS
    BY DEF APPLICATION_ACTIONS, APPLICATION_WRITES
  <2>2. ApplicationAccess(w, IF a = "read" THEN "read" ELSE "request_policy_email") = "deny"
    BY <1>1, <2>1
  <2> QED
    BY <2>2 DEF PolicyAccess
<1>3. ASSUME NEW a \in DOCUMENT_ACTIONS, NEW f \in BOOLEAN
      PROVE  DocumentAccess(w, f, a) = "deny"
  <2>1. CASE IsPartner(w)
    <3>1. ~(w.shown /\ w.link = "active")
      BY <2>1, ReadDenied DEF PartnerMay, PARTNER_VISIBLE_LINK_STATUSES
    <3> QED
      BY <2>1, <3>1 DEF DocumentAccess, Outcome
  <2>2. CASE ~IsPartner(w) /\ IsClient(w)
    <3>1. /\ ~(Cardinality(Matching(w, w.company, DOCUMENT_ACTION_ROLES(a))) > 1)
          /\ ~DocumentRole(w, DOCUMENT_ACTION_ROLES(a))
      BY <1>0, <2>2, RolesAreClientRoles DEF DocumentRole
    <3> QED
      BY <2>2, <3>1, ReadDenied DEF DocumentAccess, Outcome
  <2>3. CASE ~IsPartner(w) /\ ~IsClient(w)
    BY <2>3, ReadDenied DEF DocumentAccess
  <2> QED
    BY <2>1, <2>2, <2>3
<1> QED
  BY <1>1, <1>2, <1>3

(***************************************************************************)
(* In no world does anybody but a superadmin get beyond                    *)
(* docs/access-control-matrix.md without an active delegation, and with    *)
(* one nobody gets to create, edit, submit or decide an application, or to *)
(* its policy and documents.  A role of another company, a pending or      *)
(* closed row, or a link of a partner never exceeds it.                    *)
(***************************************************************************)
THEOREM OnlyDelegationExceeds ==
    ASSUME NEW rows, NEW w \in Worlds(rows)
    PROVE  ExcessIsDelegated(w)
<1> USE WorldFields
<1> SUFFICES ASSUME ~IsSuperadmin(w)
             PROVE  ExcessIsDelegated(w)
  BY DEF ExcessIsDelegated
<1>0. ASSUME NEW codes, OwnRole(w, codes)
      PROVE  HasRole(w, codes)
  BY <1>0, OwnRoleMatches, MatchingIsRole
<1>1. ASSUME NEW a \in APPLICATION_ACTIONS, ApplicationAccess(w, a) = "allow"
      PROVE  \/ InMatrix(w, a)
             \/ /\ IsClient(w) /\ w.delegated
                /\ a \notin APPROVALS \cup {"create", "edit_draft", "submit"}
  <2>1. CASE IsPartner(w) /\ PartnerMay(w, a)
    BY <2>1 DEF PartnerMay, PARTNER_APPLICATION_ACTIONS, PARTNER_VISIBLE_LINK_STATUSES,
                InMatrix, PartnerSees, PartnerActs
  <2>2. CASE IsClient(w) /\ w.delegated /\ a \in DELEGATED_ACTIONS
    BY <2>2 DEF DELEGATED_ACTIONS, APPROVALS
  <2>3. CASE IsClient(w) /\ OwnRole(w, APPLICATION_ACTION_ROLES(a))
    <3>1. RoleInMatrix(w, APPLICATION_ACTION_ROLES(a))
      BY <1>0, <2>3 DEF RoleInMatrix
    <3>2. \/ a = "read" /\ APPLICATION_ACTION_ROLES(a) = CLIENT_ROLES
          \/ a \in APPLICATION_WRITES /\ APPLICATION_ACTION_ROLES(a) = WRITER_ROLES
          \/ a \in APPROVALS /\ APPLICATION_ACTION_ROLES(a) = {"client_admin"}
      BY DEF APPLICATION_ACTION_ROLES, APPLICATION_ACTIONS
    <3> QED
      BY <3>1, <3>2 DEF InMatrix
  <2> QED
    BY <1>1, <2>1, <2>2, <2>3, ApplicationAllowed
<1>2. ASSUME NEW a \in POLICY_ACTIONS, PolicyAccess(w, a) = "allow"
      PROVE  PolicyInMatrix(w, a)
  <2>1. CASE IsPartner(w)
    <3>1. a = "read" /\ ApplicationAccess(w, "read") = "allow"
      BY <1>2, <2>1 DEF PolicyAccess, POLICY_ACTIONS
    <3>2. PartnerMay(w, "read")
      BY <2>1, <3>1, ApplicationAllowed DEF IsPartner, IsClient
    <3> QED
      BY <2>1, <3>1, <3>2
         DEF PartnerMay, PARTNER_VISIBLE_LINK_STATUSES, PolicyInMatrix, PartnerSees
  <2>2. CASE ~IsPartner(w)
    <3> DEFINE read == IF a = "read" THEN "read" ELSE "request_policy_email"
    <3>1. /\ ApplicationAccess(w, read) = "allow"
          /\ RoleExists(w, w.company, POLICY_ACTION_ROLES(a)) = "allow"
      BY <1>2, <2>2 DEF PolicyAccess
    <3>2. Matching(w, w.company, POLICY_ACTION_ROLES(a)) # {}
      BY <3>1 DEF RoleExists, Outcome
    <3>3. IsClient(w)
      BY <2>2, <3>1, ApplicationAllowed
    <3> QED
      BY <3>2, <3>3, MatchingIsRole DEF POLICY_ACTION_ROLES, PolicyInMatrix, RoleInMatrix
  <2> QED
    BY <2>1, <2>2
<1>3. ASSUME NEW a \in DOCUMENT_ACTIONS, NEW f \in BOOLEAN, DocumentAccess(w, f, a) = "allow"
      PROVE  DocumentInMatrix(w, f, a)
  <2>1. CASE IsPartner(w)
    BY <1>3, <2>1 DEF DocumentAccess, Outcome, PARTNER_DOCUMENT_ACTIONS, DocumentInMatrix,
                      PartnerSees, PartnerActs
  <2>2. CASE ~IsPartner(w)
    <3>1. IsClient(w) /\ DocumentRole(w, DOCUMENT_ACTION_ROLES(a))
      BY <1>3, <2>2 DEF DocumentAccess, Outcome
    <3>2. HasRole(w, DOCUMENT_ACTION_ROLES(a))
      BY <1>0, <3>1 DEF DocumentRole
    <3> QED
      BY <3>1, <3>2 DEF DOCUMENT_ACTION_ROLES, DocumentInMatrix, RoleInMatrix
  <2> QED
    BY <2>1, <2>2
<1> QED
  BY <1>1, <1>2, <1>3 DEF ExcessIsDelegated

-----------------------------------------------------------------------------
(***************************************************************************)
(* What a synchronisation will commit satisfies the index, too, and has    *)
(* changed the status of no row that was there: nobody else writes a row   *)
(* that it has written.  No handler has company 1817 in hand.              *)
(***************************************************************************)
DirtyKeepsStatus ==
    \A r \in dirty : role[r].status = "none" \/ pending[r].status = role[r].status

CompaniesInHand ==
    \A k \in Call :
        /\ call[k].company # System
        /\ System \notin call[k].todo
        /\ call[k].kind = "move" => call[k].row \in Row
        /\ call[k].kind = "none" => call[k].company = Nobody

IInv ==
    /\ TypeOK
    /\ UniqueRoles(Committed)
    /\ DirtyKeepsStatus
    /\ CompaniesInHand

-----------------------------------------------------------------------------
LEMMA NoRoleIsRow == NoRole \in RoleRow
BY DEF NoRole, RoleRow, CLIENT_ROLES

LEMMA IdleIsCall == Idle \in Calls
BY DEF Idle, Calls, Kinds, CLIENT_ROLES

LEMMA SameKeySymmetric ==
    ASSUME NEW a, NEW b
    PROVE  SameKey(a, b) <=> SameKey(b, a)
BY DEF SameKey

LEMMA SeenIsRow ==
    ASSUME TypeOK, NEW r \in Row
    PROVE  Seen(r) \in RoleRow
BY DEF Seen, TypeOK

\* The one row that a handler writes is free of the others, seen or committed.
LEMMA WaitsAndTaken ==
    ASSUME NEW r \in Row, NEW row, ~Waits(r, row), ~Taken(r, row)
    PROVE  /\ r \notin dirty
           /\ \A q \in Row \ {r} : ~SameKey(role[q], row)
           /\ \A q \in Row \ {r} : ~SameKey(Seen(q), row)
BY DEF Waits, Taken, Seen

(***************************************************************************)
(* A handler that is not the synchronisation writes one row.               *)
(***************************************************************************)
LEMMA PutKeeps ==
    ASSUME IInv, NEW r \in Row, NEW row \in RoleRow, Put(r, row), UNCHANGED <<dirty, pending>>,
           r \notin dirty,
           \A q \in Row \ {r} : ~SameKey(role[q], row),
           \A q \in Row \ {r} : ~SameKey(Seen(q), row)
    PROVE  /\ role' \in [Row -> RoleRow]
           /\ UniqueRoles(role)'
           /\ UniqueRoles(Committed)'
           /\ DirtyKeepsStatus'
<1>1. role' = [role EXCEPT ![r] = row] /\ role \in [Row -> RoleRow]
  BY DEF Put, IInv, TypeOK
<1>2. role' \in [Row -> RoleRow]
  BY <1>1
<1>3. role'[r] = row /\ \A q \in Row \ {r} : role'[q] = role[q]
  BY <1>1
<1>4. UniqueRoles(role)'
  BY <1>3, SameKeySymmetric DEF UniqueRoles, IInv, TypeOK
<1>5. Committed'[r] = row /\ \A q \in Row \ {r} : Committed'[q] = Seen(q) /\ Committed[q] = Seen(q)
  BY <1>3 DEF Committed, Seen
<1>6. UniqueRoles(Committed)'
  BY <1>5, SameKeySymmetric DEF UniqueRoles, IInv
<1>7. DirtyKeepsStatus'
  BY <1>3 DEF DirtyKeepsStatus, IInv, TypeOK
<1> QED
  BY <1>2, <1>4, <1>6, <1>7

\* A call that ends leaves the others as they are.
LEMMA EndKeeps ==
    ASSUME IInv, NEW k \in Call, End(k)
    PROVE  /\ call' \in [Call -> Calls]
           /\ \A j \in Call \ {k} : call'[j] = call[j]
           /\ call'[k] = Idle
           /\ \A i, j \in Call : call'[i].kind = "sync" /\ call'[j].kind = "sync" => i = j
           /\ CompaniesInHand'
<1>1. /\ call' = [call EXCEPT ![k] = Idle] /\ call \in [Call -> Calls]
  BY DEF End, IInv, TypeOK
<1>2. /\ call' \in [Call -> Calls]
      /\ \A j \in Call \ {k} : call'[j] = call[j]
      /\ call'[k] = Idle
  BY <1>1, IdleIsCall
<1>3. Idle.kind = "none" /\ Idle.company = Nobody /\ Idle.todo = {}
  BY DEF Idle
<1>4. CompaniesInHand'
  BY <1>2, <1>3, PolicyAssumption DEF CompaniesInHand, IInv
<1> QED
  BY <1>2, <1>3, <1>4 DEF IInv, TypeOK

\* With nothing written, the rows are what is committed.
LEMMA SameRows ==
    ASSUME IInv, UNCHANGED <<role, dirty, pending>>
    PROVE  /\ UniqueRoles(role)' /\ UniqueRoles(Committed)' /\ DirtyKeepsStatus'
           /\ role' \in [Row -> RoleRow] /\ dirty' \in SUBSET Row /\ pending' \in [Row -> RoleRow]
<1>1. Committed' = Committed
  BY DEF Committed, Seen
<1> QED
  BY <1>1 DEF IInv, TypeOK, UniqueRoles, DirtyKeepsStatus, SameKey

\* A call that begins, or that the synchronisation goes on with.
LEMMA CallChanges ==
    ASSUME IInv, NEW k \in Call, NEW new \in Calls, call' = [call EXCEPT ![k] = new],
           new.company # System, System \notin new.todo, new.kind # "none",
           new.kind = "move" => new.row \in Row,
           new.kind = "sync" => \A j \in Call \ {k} : call[j].kind # "sync",
           call[k].kind = "sync" => new.kind = "sync"
    PROVE  /\ call' \in [Call -> Calls]
           /\ \A i, j \in Call : call'[i].kind = "sync" /\ call'[j].kind = "sync" => i = j
           /\ CompaniesInHand'
           /\ (\E j \in Call : call[j].kind = "sync") => \E j \in Call : call'[j].kind = "sync"
<1>1. call \in [Call -> Calls]
  BY DEF IInv, TypeOK
<1>2. call' \in [Call -> Calls] /\ call'[k] = new /\ \A j \in Call \ {k} : call'[j] = call[j]
  BY <1>1
<1>3. CompaniesInHand'
  BY <1>2 DEF CompaniesInHand, IInv
<1>4. \A i, j \in Call : call'[i].kind = "sync" /\ call'[j].kind = "sync" => i = j
  BY <1>2 DEF IInv, TypeOK
<1>5. ASSUME NEW j \in Call, call[j].kind = "sync"
      PROVE  call'[j].kind = "sync"
  BY <1>2, <1>5
<1> QED
  BY <1>2, <1>3, <1>4, <1>5

-----------------------------------------------------------------------------
THEOREM RolesInitial == Init => IInv
<1> SUFFICES ASSUME Init PROVE IInv
  OBVIOUS
<1>1. TypeOK
  <2>1. UniqueRoles(role)
    BY DEF Init, UniqueRoles, SameKey, Open, NoRole
  <2> QED
    BY <2>1, NoRoleIsRow, IdleIsCall DEF Init, TypeOK, Idle
<1>2. UniqueRoles(Committed)
  BY DEF Init, UniqueRoles, Committed, Seen, SameKey, Open, NoRole
<1>3. DirtyKeepsStatus /\ CompaniesInHand
  BY PolicyAssumption DEF Init, DirtyKeepsStatus, CompaniesInHand, Idle
<1> QED
  BY <1>1, <1>2, <1>3 DEF IInv

(***************************************************************************)
(* The invariant of the rows is inductive: one step for each handler.      *)
(***************************************************************************)
THEOREM RolesInductive == IInv /\ [Next]_vars => IInv'
<1> SUFFICES ASSUME IInv, [Next]_vars PROVE IInv'
  OBVIOUS
<1> USE DEF IInv
<1>1. ASSUME NEW k \in Call, NEW kind \in {"assign", "create"}, NEW c \in Company,
             NEW code \in CLIENT_ROLES, BeginInsert(k, kind, c, code)
      PROVE  IInv'
  <2> DEFINE new == [Idle EXCEPT !.kind = kind, !.company = c, !.code = code]
  <2>1. new \in Calls /\ new.company = c /\ new.todo = {} /\ new.kind = kind
    BY DEF Idle, Calls, Kinds
  <2>2. call' = [call EXCEPT ![k] = new] /\ c # System /\ call[k].kind = "none"
    BY <1>1 DEF BeginInsert
  <2> HIDE DEF new
  <2>3. /\ call' \in [Call -> Calls]
        /\ \A i, j \in Call : call'[i].kind = "sync" /\ call'[j].kind = "sync" => i = j
        /\ CompaniesInHand'
        /\ (\E j \in Call : call[j].kind = "sync") => \E j \in Call : call'[j].kind = "sync"
    BY <2>1, <2>2, CallChanges
  <2> QED
    BY <1>1, <2>3, SameRows DEF BeginInsert, TypeOK
<1>2. ASSUME NEW k \in Call, NEW r \in Row, NEW status \in {"active", "pending", "closed"},
             FinishInsert(k, r, status)
      PROVE  IInv'
  <2> DEFINE row == [status |-> status, company |-> call[k].company, code |-> call[k].code]
  <2>1. row \in RoleRow
    BY DEF TypeOK, Calls, CompaniesInHand, RoleRow
  <2>2. /\ call[k].kind # "sync" /\ ~Waits(r, row) /\ ~Taken(r, row) /\ Put(r, row) /\ End(k)
        /\ UNCHANGED <<dirty, pending>>
    BY <1>2 DEF FinishInsert
  <2> HIDE DEF row
  <2>3. role' \in [Row -> RoleRow] /\ UniqueRoles(role)' /\ UniqueRoles(Committed)' /\ DirtyKeepsStatus'
    BY <2>1, <2>2, WaitsAndTaken, PutKeeps
  <2> QED
    BY <2>2, <2>3, EndKeeps DEF TypeOK
<1>3. ASSUME NEW r \in Row, NEW code \in CLIENT_ROLES, UpdateLinkRole(r, code)
      PROVE  IInv'
  <2> DEFINE row == [role[r] EXCEPT !.code = code, !.status = "active"]
  <2>1. row \in RoleRow
    BY DEF TypeOK, RoleRow
  <2>2. /\ ~Waits(r, row) /\ ~Taken(r, row) /\ Put(r, row)
        /\ UNCHANGED <<dirty, pending, call>>
    BY <1>3 DEF UpdateLinkRole
  <2> HIDE DEF row
  <2>3. role' \in [Row -> RoleRow] /\ UniqueRoles(role)' /\ UniqueRoles(Committed)' /\ DirtyKeepsStatus'
    BY <2>1, <2>2, WaitsAndTaken, PutKeeps
  <2> QED
    BY <2>2, <2>3 DEF TypeOK, CompaniesInHand
<1>4. ASSUME NEW k \in Call, NEW r \in Row, NEW c \in Company, BeginMove(k, r, c)
      PROVE  IInv'
  <2> DEFINE new == [Idle EXCEPT !.kind = "move", !.company = c, !.row = r]
  <2>1. new \in Calls /\ new.company = c /\ new.todo = {} /\ new.kind = "move" /\ new.row = r
    BY DEF Idle, Calls, Kinds, CLIENT_ROLES
  <2>2. call' = [call EXCEPT ![k] = new] /\ c # System /\ call[k].kind = "none"
    BY <1>4 DEF BeginMove
  <2> HIDE DEF new
  <2>3. /\ call' \in [Call -> Calls]
        /\ \A i, j \in Call : call'[i].kind = "sync" /\ call'[j].kind = "sync" => i = j
        /\ CompaniesInHand'
        /\ (\E j \in Call : call[j].kind = "sync") => \E j \in Call : call'[j].kind = "sync"
    BY <2>1, <2>2, CallChanges
  <2> QED
    BY <1>4, <2>3, SameRows DEF BeginMove, TypeOK
<1>5. ASSUME NEW k \in Call, FinishMove(k)
      PROVE  IInv'
  <2> DEFINE r == call[k].row
             row == [role[r] EXCEPT !.company = call[k].company]
  <2>1. r \in Row /\ row \in RoleRow
    BY <1>5 DEF FinishMove, TypeOK, Calls, CompaniesInHand, RoleRow
  <2>2. /\ call[k].kind # "sync" /\ ~Waits(r, row) /\ ~Taken(r, row) /\ Put(r, row) /\ End(k)
        /\ UNCHANGED <<dirty, pending>>
    BY <1>5 DEF FinishMove
  <2> HIDE DEF r, row
  <2>3. role' \in [Row -> RoleRow] /\ UniqueRoles(role)' /\ UniqueRoles(Committed)' /\ DirtyKeepsStatus'
    BY <2>1, <2>2, WaitsAndTaken, PutKeeps
  <2> QED
    BY <2>2, <2>3, EndKeeps DEF TypeOK
<1>6. ASSUME NEW r \in Row, Revoke(r)
      PROVE  IInv'
  <2> DEFINE row == [role[r] EXCEPT !.status = "closed"]
  <2>1. row \in RoleRow /\ row.status = "closed"
    BY DEF TypeOK, RoleRow
  <2>2. r \notin dirty /\ Put(r, row) /\ UNCHANGED <<dirty, pending, call>>
    BY <1>6 DEF Revoke
  <2> HIDE DEF row
  <2>3. \A q : ~SameKey(q, row)
    BY <2>1 DEF SameKey, Open
  <2>4. role' \in [Row -> RoleRow] /\ UniqueRoles(role)' /\ UniqueRoles(Committed)' /\ DirtyKeepsStatus'
    BY <2>1, <2>2, <2>3, PutKeeps
  <2> QED
    BY <2>2, <2>4 DEF TypeOK, CompaniesInHand
<1>7. ASSUME NEW k \in Call, NEW code \in CLIENT_ROLES, NEW bindings \in SUBSET Company,
             NEW fallback \in Company \cup {Nobody}, NEW failed \in BOOLEAN,
             BeginSync(k, code, bindings, fallback, failed)
      PROVE  IInv'
  <2> DEFINE ids == CompanyIds(bindings, fallback, failed)
             new == [Idle EXCEPT !.kind = "sync", !.code = code, !.todo = ids]
  <2>1. ids \subseteq Company /\ System \notin ids
    BY DEF CompanyIds
  <2>2. new \in Calls /\ new.company = Nobody /\ new.todo = ids /\ new.kind = "sync"
    BY <2>1 DEF Idle, Calls, Kinds
  <2>3. call' = [call EXCEPT ![k] = new] /\ \A j \in Call : call[j].kind # "sync"
    BY <1>7 DEF BeginSync
  <2> HIDE DEF new, ids
  <2>4. /\ call' \in [Call -> Calls]
        /\ \A i, j \in Call : call'[i].kind = "sync" /\ call'[j].kind = "sync" => i = j
        /\ CompaniesInHand'
        /\ (\E j \in Call : call[j].kind = "sync") => \E j \in Call : call'[j].kind = "sync"
    BY <2>1, <2>2, <2>3, CallChanges, PolicyAssumption
  <2> QED
    BY <1>7, <2>4, SameRows DEF BeginSync, TypeOK
<1>8. ASSUME NEW k \in Call, NEW c \in Company, Look(k, c)
      PROVE  IInv'
  <2> DEFINE one == CHOOSE r \in Row \cup {Nobody} :
                        IF Found(c) = {} THEN r = Nobody ELSE r \in Found(c)
             new == [call[k] EXCEPT !.company = c, !.todo = @ \ {c}, !.row = one]
  <2>1. one \in Row \cup {Nobody}
    <3>1. \E r \in Row \cup {Nobody} : IF Found(c) = {} THEN r = Nobody ELSE r \in Found(c)
      BY DEF Found
    <3> QED
      BY <3>1
  <2> HIDE DEF one
  <2>2. /\ new \in Calls /\ new.company = c /\ new.todo \subseteq call[k].todo
        /\ new.kind = call[k].kind
    BY <2>1 DEF TypeOK, Calls
  <2>3. /\ call[k].kind = "sync" /\ c # System /\ System \notin call[k].todo
        /\ \A j \in Call \ {k} : call[j].kind # "sync"
    BY <1>8 DEF Look, TypeOK, CompaniesInHand
  <2>4. call' = [call EXCEPT ![k] = new]
    <3>1. call' = [call EXCEPT ![k].company = c, ![k].todo = @ \ {c}, ![k].row = one]
      BY <1>8 DEF Look, one
    <3>2. k \in DOMAIN call /\ call[k] \in Calls
      BY DEF TypeOK
    <3> QED
      BY <3>1, <3>2 DEF Calls
  <2> HIDE DEF new
  <2>5. /\ call' \in [Call -> Calls]
        /\ \A i, j \in Call : call'[i].kind = "sync" /\ call'[j].kind = "sync" => i = j
        /\ CompaniesInHand'
        /\ (\E j \in Call : call[j].kind = "sync") => \E j \in Call : call'[j].kind = "sync"
    BY <2>2, <2>3, <2>4, CallChanges
  <2> QED
    BY <1>8, <2>5, SameRows DEF Look, TypeOK
<1>9. ASSUME NEW k \in Call, NEW r \in Row, NEW status \in {"active", "pending"},
             WriteRole(k, r, status)
      PROVE  IInv'
  <2> DEFINE found == call[k].row # Nobody
             row == IF found
                    THEN Synced(Seen(r), call[k].code)
                    ELSE [status |-> status, company |-> call[k].company, code |-> call[k].code]
             new == [call[k] EXCEPT !.company = Nobody, !.row = Nobody]
  <2>1. /\ row \in RoleRow
        /\ Seen(r).status = "none" \/ row.status = Seen(r).status
    <3>1. Seen(r) \in RoleRow
      BY SeenIsRow
    <3>2. CASE found
      BY <3>1, <3>2 DEF Synced, RoleRow, TypeOK, Calls
    <3>3. CASE ~found
      BY <1>9, <3>1, <3>3 DEF WriteRole, RoleRow, TypeOK, Calls, CompaniesInHand
    <3> QED
      BY <3>2, <3>3
  <2>2. /\ call[k].kind = "sync"
        /\ \A q \in Row \ {r} : ~SameKey(Seen(q), row)
        /\ dirty' = dirty \cup {r}
        /\ pending' = [pending EXCEPT ![r] = row]
        /\ role' = role
    BY <1>9 DEF WriteRole
  <2> HIDE DEF row
  <2>3. new \in Calls /\ new.company = Nobody /\ new.todo = call[k].todo /\ new.kind = "sync"
    BY <2>2 DEF TypeOK, Calls
  <2>4. call' = [call EXCEPT ![k] = new]
    BY <1>9 DEF WriteRole, TypeOK
  <2>5. /\ System # Nobody /\ System \notin call[k].todo
        /\ \A j \in Call \ {k} : call[j].kind # "sync"
    BY <2>2, PolicyAssumption DEF TypeOK, CompaniesInHand
  <2> HIDE DEF new
  <2>6. /\ call' \in [Call -> Calls]
        /\ \A i, j \in Call : call'[i].kind = "sync" /\ call'[j].kind = "sync" => i = j
        /\ CompaniesInHand'
        /\ \E j \in Call : call'[j].kind = "sync"
    BY <2>2, <2>3, <2>4, <2>5, CallChanges
  <2>7. /\ pending' \in [Row -> RoleRow] /\ dirty' \in SUBSET Row /\ pending'[r] = row
        /\ \A q \in Row \ {r} : pending'[q] = pending[q] /\ (q \in dirty' <=> q \in dirty)
    BY <2>1, <2>2 DEF TypeOK
  <2>8. UniqueRoles(Committed)'
    <3>1. Committed'[r] = row /\ \A q \in Row \ {r} : Committed'[q] = Seen(q) /\ Committed[q] = Seen(q)
      BY <2>2, <2>7 DEF Committed, Seen
    <3> QED
      BY <2>2, <3>1, SameKeySymmetric DEF UniqueRoles
  <2>9. DirtyKeepsStatus'
    <3>1. role[r].status = "none" \/ pending'[r].status = role[r].status
      BY <2>1, <2>7 DEF Seen, DirtyKeepsStatus
    <3> QED
      BY <2>2, <2>7, <3>1 DEF DirtyKeepsStatus, TypeOK
  <2>10. UniqueRoles(role)'
    BY <2>2 DEF UniqueRoles, TypeOK
  <2> QED
    BY <2>2, <2>6, <2>7, <2>8, <2>9, <2>10 DEF TypeOK
<1>10. ASSUME NEW k \in Call, FinishSync(k)
       PROVE  IInv'
  <2>1. /\ role' = Committed /\ dirty' = {} /\ pending' = [r \in Row |-> NoRole] /\ End(k)
    BY <1>10 DEF FinishSync
  <2>2. role' \in [Row -> RoleRow] /\ pending' \in [Row -> RoleRow]
    BY <2>1, SeenIsRow, NoRoleIsRow DEF Committed
  <2>3. Committed' = role' /\ UniqueRoles(role)'
    BY <2>1, <2>2 DEF Committed, Seen, UniqueRoles, SameKey
  <2>4. UniqueRoles(Committed)' /\ DirtyKeepsStatus'
    BY <2>1, <2>3 DEF UniqueRoles, DirtyKeepsStatus
  <2> QED
    BY <2>1, <2>2, <2>3, <2>4, EndKeeps DEF TypeOK
<1>11. ASSUME NEW k \in Call, Abort(k)
       PROVE  IInv'
  <2>1. End(k) /\ role' = role
    BY <1>11 DEF Abort
  <2>2. CASE call[k].kind = "sync"
    <3>1. dirty' = {} /\ pending' = [r \in Row |-> NoRole]
      BY <1>11, <2>2 DEF Abort
    <3>2. UniqueRoles(role)' /\ pending' \in [Row -> RoleRow] /\ DirtyKeepsStatus'
      BY <2>1, <3>1, NoRoleIsRow DEF UniqueRoles, TypeOK, DirtyKeepsStatus
    <3>3. Committed' = role'
      BY <2>1, <3>1 DEF Committed, Seen, TypeOK
    <3>4. UniqueRoles(Committed)'
      BY <3>2, <3>3 DEF UniqueRoles
    <3> QED
      BY <2>1, <3>1, <3>2, <3>4, EndKeeps DEF TypeOK
  <2>3. CASE call[k].kind # "sync"
    <3>1. UNCHANGED <<role, dirty, pending>>
      BY <1>11, <2>3 DEF Abort
    <3> QED
      BY <2>1, <2>3, <3>1, EndKeeps, SameRows DEF TypeOK
  <2> QED
    BY <2>2, <2>3
<1>12. CASE UNCHANGED vars
  BY <1>12, SameRows DEF vars, TypeOK, CompaniesInHand
<1> QED
  BY <1>1, <1>2, <1>3, <1>4, <1>5, <1>6, <1>7, <1>8, <1>9, <1>10, <1>11, <1>12 DEF Next

THEOREM RolesInvariant == Spec => []IInv
BY RolesInitial, RolesInductive, PTL DEF Spec

(***************************************************************************)
(* Types, the unique index and company 1817.                               *)
(***************************************************************************)
THEOREM RolesTypeCorrect == Spec => []TypeOK
<1>1. IInv => TypeOK
  BY DEF IInv
<1> QED
  BY <1>1, RolesInvariant, PTL

(***************************************************************************)
(* Only a superadmin opens a row again that was revoked.                   *)
(***************************************************************************)
THEOREM RevocationsStay == Spec => RevokedRowsStay
<1> DEFINE Stays == \A r \in Row :
                        role[r].status = "closed" /\ role'[r].status # "closed" =>
                            \E code \in CLIENT_ROLES : UpdateLinkRole(r, code)
<1>1. IInv /\ [Next]_vars => [Stays]_vars
  <2> SUFFICES ASSUME IInv, Next, NEW r \in Row,
                      role[r].status = "closed", role'[r].status # "closed"
               PROVE  \E code \in CLIENT_ROLES : UpdateLinkRole(r, code)
    OBVIOUS
  <2> USE DEF IInv
  <2>1. role \in [Row -> RoleRow]
    BY DEF TypeOK
  <2>2. ASSUME NEW k \in Call, NEW q \in Row, NEW status, FinishInsert(k, q, status)
        PROVE  FALSE
    BY <2>1, <2>2 DEF FinishInsert, Put
  <2>3. ASSUME NEW q \in Row, NEW code \in CLIENT_ROLES, UpdateLinkRole(q, code)
        PROVE  \E d \in CLIENT_ROLES : UpdateLinkRole(r, d)
    <3>1. q = r
      BY <2>1, <2>3 DEF UpdateLinkRole, Put
    <3> QED
      BY <2>3, <3>1
  <2>4. ASSUME NEW k \in Call, FinishMove(k)
        PROVE  FALSE
    <3>1. call[k].row \in Row
      BY <2>4 DEF FinishMove, CompaniesInHand
    <3> QED
      BY <2>1, <2>4, <3>1 DEF FinishMove, Put, RoleRow
  <2>5. ASSUME NEW q \in Row, Revoke(q)
        PROVE  FALSE
    BY <2>1, <2>5 DEF Revoke, Put, RoleRow
  <2>6. ASSUME NEW k \in Call, FinishSync(k)
        PROVE  FALSE
    BY <2>6 DEF FinishSync, Committed, Seen, DirtyKeepsStatus
  <2> QED
    BY <2>2, <2>3, <2>4, <2>5, <2>6
       DEF Next, BeginInsert, BeginMove, BeginSync, Look, WriteRole, Abort
<1> QED
  BY <1>1, RolesInvariant, PTL DEF Spec, RevokedRowsStay

-----------------------------------------------------------------------------
(***************************************************************************)
(* The policies on whatever rows the handlers leave.                       *)
(***************************************************************************)
THEOREM AlwaysListed == Spec => []AllGrantedIsListed
<1>1. AllGrantedIsListed
  BY GrantsAreListed DEF AllGrantedIsListed
<1> QED
  BY <1>1, PTL

THEOREM AlwaysFollow == Spec => []AllObjectsFollowApplication
<1>1. AllObjectsFollowApplication
  BY ObjectsNeedApplication DEF AllObjectsFollowApplication
<1> QED
  BY <1>1, PTL

THEOREM AlwaysOnlyDelegation == Spec => []AllExcessIsDelegated
<1>1. AllExcessIsDelegated
  BY OnlyDelegationExceeds DEF AllExcessIsDelegated
<1> QED
  BY <1>1, PTL
=============================================================================
