------------------------- MODULE PartnerClientsProofs -------------------------
(***************************************************************************)
(* What PartnerClients keeps true for every set of partners, requests,     *)
(* companies and threads, proved from an inductive invariant.              *)
(***************************************************************************)
EXTENDS PartnerClients, TLAPS

\* Nothing is logged of a request before it is there, so its partner is known.
LoggedExists == \A r \in Request, c \in Company : <<r, c>> \in audit => request[r].status # "none"

\* A request that is there belongs to a partner.
RequestsAreOwned == \A r \in Request : request[r].status # "none" => request[r].partner \in Partner

(***************************************************************************)
(* What a transaction has in hand.  A decision holds the row of its        *)
(* request, so that its partner is still the one it has read; a draft is   *)
(* for a company that was confirmed when the loop read the request.        *)
(***************************************************************************)
TxnsAreConsistent ==
    \A t \in Txn :
        /\ txn[t].kind # "none" =>
               txn[t].request \in Request /\ request[txn[t].request].status # "none"
        /\ txn[t].kind = "decision" =>
               /\ t \in Thread
               /\ txn[t].row.partner = request[txn[t].request].partner
               /\ txn[t].row.entity = request[txn[t].request].entity
               /\ txn[t].row.status # "none"
               /\ txn[t].row.linked # None => txn[t].row.confirmed = txn[t].row.linked
               /\ txn[t].row.status = "confirmed" =>
                      /\ txn[t].company \in Company
                      /\ txn[t].row.check = "confirmed"
                      /\ Final(txn[t].row) = txn[t].company
        /\ txn[t].kind = "draft" =>
               txn[t].company \in Company /\ <<txn[t].request, txn[t].company>> \in audit

\* Two decisions on one request exclude each other.
OneDecider ==
    \A t, u \in Thread :
        txn[t].kind = "decision" /\ txn[u].kind = "decision" /\ txn[t].request = txn[u].request =>
            t = u

IInv ==
    /\ TypeOK
    /\ LinksConfirmed
    /\ DraftsConfirmed
    /\ ConfirmedOfUse
    /\ LoggedExists
    /\ RequestsAreOwned
    /\ TxnsAreConsistent
    /\ OneDecider

-----------------------------------------------------------------------------
\* The row of no request, and the transaction that is not there.
LEMMA Nothing ==
    /\ NoRequest \in RequestRow /\ Idle \in Txns /\ Idle.kind = "none"
    /\ NoRequest.status = "none" /\ NoRequest.entity = None /\ NoRequest.linked = None
    BY DEF NoRequest, RequestRow, Idle, Txns, Statuses

(***************************************************************************)
(* Initially there is nothing.                                             *)
(***************************************************************************)
LEMMA Initially == Init => IInv
<1> SUFFICES ASSUME Init
             PROVE  IInv
  OBVIOUS
<1>1. TypeOK
  BY Nothing DEF Init, TypeOK
<1>2. LinksConfirmed /\ DraftsConfirmed /\ LoggedExists
  BY DEF Init, LinksConfirmed, DraftsConfirmed, LoggedExists
<1>3. ConfirmedOfUse /\ RequestsAreOwned
  BY Nothing DEF Init, ConfirmedOfUse, RequestsAreOwned
<1>4. TxnsAreConsistent /\ OneDecider
  BY Nothing DEF Init, TxnsAreConsistent, OneDecider, Txn, Idle
<1> QED
  BY <1>1, <1>2, <1>3, <1>4 DEF IInv

(***************************************************************************)
(* A transaction ends and nothing is written, or one begins.               *)
(***************************************************************************)
LEMMA TxnChanges ==
    ASSUME IInv, NEW t \in Txn, NEW x \in Txns,
           txn' = [txn EXCEPT ![t] = x],
           \* what the other transactions rest on stays
           \A u \in Txn \ {t} : txn[u].kind # "none" =>
               /\ request'[txn[u].request].status # "none"
               /\ txn[u].kind = "decision" => request'[txn[u].request] = request[txn[u].request]
               /\ txn[u].kind = "draft" => audit \subseteq audit',
           x.kind # "none" =>
               x.request \in Request /\ request'[x.request].status # "none",
           x.kind = "decision" =>
               /\ t \in Thread
               /\ \A u \in Thread \ {t} : txn[u].kind = "decision" => txn[u].request # x.request
               /\ x.row.partner = request'[x.request].partner
               /\ x.row.entity = request'[x.request].entity
               /\ x.row.status # "none"
               /\ x.row.linked # None => x.row.confirmed = x.row.linked
               /\ x.row.status = "confirmed" =>
                      /\ x.company \in Company
                      /\ x.row.check = "confirmed"
                      /\ Final(x.row) = x.company,
           x.kind = "draft" =>
               x.company \in Company /\ <<x.request, x.company>> \in audit'
    PROVE  txn' \in [Txn -> Txns] /\ TxnsAreConsistent' /\ OneDecider'
<1>1. txn \in [Txn -> Txns]
  BY DEF IInv, TypeOK
<1>2. \A u \in Txn : txn'[u] = IF u = t THEN x ELSE txn[u]
  BY <1>1
<1>3. txn' \in [Txn -> Txns]
  BY <1>1
<1>4. TxnsAreConsistent'
  <2> SUFFICES ASSUME NEW u \in Txn
               PROVE  /\ txn'[u].kind # "none" =>
                             /\ txn'[u].request \in Request
                             /\ request'[txn'[u].request].status # "none"
                      /\ txn'[u].kind = "decision" =>
                             /\ u \in Thread
                             /\ txn'[u].row.partner = request'[txn'[u].request].partner
                             /\ txn'[u].row.entity = request'[txn'[u].request].entity
                             /\ txn'[u].row.status # "none"
                             /\ txn'[u].row.linked # None =>
                                    txn'[u].row.confirmed = txn'[u].row.linked
                             /\ txn'[u].row.status = "confirmed" =>
                                    /\ txn'[u].company \in Company
                                    /\ txn'[u].row.check = "confirmed"
                                    /\ Final(txn'[u].row) = txn'[u].company
                      /\ txn'[u].kind = "draft" =>
                             /\ txn'[u].company \in Company
                             /\ <<txn'[u].request, txn'[u].company>> \in audit'
    BY DEF TxnsAreConsistent, Final
  <2>1. CASE u = t
    BY <1>2, <2>1
  <2>2. CASE u # t
    BY <1>2, <2>2 DEF IInv, TxnsAreConsistent
  <2> QED
    BY <2>1, <2>2
<1>5. OneDecider'
  <2>1. Thread \subseteq Txn
    BY DEF Txn
  <2> QED
    BY <1>2, <2>1 DEF IInv, OneDecider
<1> QED
  BY <1>3, <1>4, <1>5

\* A transaction is over.
LEMMA TxnEnds ==
    ASSUME IInv, NEW t \in Txn,
           txn' = [txn EXCEPT ![t] = Idle],
           \A u \in Txn \ {t} : txn[u].kind # "none" =>
               /\ request'[txn[u].request].status # "none"
               /\ txn[u].kind = "decision" => request'[txn[u].request] = request[txn[u].request]
               /\ txn[u].kind = "draft" => audit \subseteq audit'
    PROVE  txn' \in [Txn -> Txns] /\ TxnsAreConsistent' /\ OneDecider'
<1>1. Idle \in Txns /\ Idle.kind # "decision" /\ Idle.kind # "draft" /\ Idle.kind = "none"
  BY Nothing
<1> QED
  BY <1>1, TxnChanges

\* What holds of the requests, the links and the log if none of them changes.
LEMMA SameRows ==
    ASSUME IInv, UNCHANGED <<request, link, audit>>
    PROVE  LinksConfirmed' /\ ConfirmedOfUse' /\ LoggedExists' /\ RequestsAreOwned'
<1>1. LinksConfirmed' /\ LoggedExists' /\ RequestsAreOwned'
  BY DEF IInv, LinksConfirmed, LoggedExists, RequestsAreOwned, Owner
<1>2. ConfirmedOfUse'
  BY DEF IInv, ConfirmedOfUse, Final
<1> QED
  BY <1>1, <1>2

\* The same for an operation that has no transaction of its own.
LEMMA SameTxns ==
    ASSUME IInv, txn' = txn,
           \A u \in Txn : txn[u].kind # "none" =>
               /\ request'[txn[u].request].status # "none"
               /\ txn[u].kind = "decision" => request'[txn[u].request] = request[txn[u].request]
               /\ txn[u].kind = "draft" => audit \subseteq audit'
    PROVE  TxnsAreConsistent' /\ OneDecider'
<1>1. OneDecider'
  BY DEF IInv, OneDecider
<1>2. TxnsAreConsistent'
  BY DEF IInv, TxnsAreConsistent, Final
<1> QED
  BY <1>1, <1>2

(***************************************************************************)
(* A link that becomes active needs an entry of the log; those that are    *)
(* active keep theirs, as long as no request changes hands.                *)
(***************************************************************************)
LEMMA LinksStay ==
    ASSUME IInv, audit \subseteq audit',
           \A r \in Request : request[r].status # "none" => request'[r].partner = request[r].partner,
           \A p \in Partner, c \in Company :
               link'[p][c] = "active" /\ link[p][c] # "active" =>
                   \E e \in audit' : Owner(e[1])' = p /\ e[2] = c
    PROVE  LinksConfirmed'
<1> SUFFICES ASSUME NEW p \in Partner, NEW c \in Company, link'[p][c] = "active",
                    link[p][c] = "active"
             PROVE  \E e \in audit' : Owner(e[1])' = p /\ e[2] = c
  BY DEF LinksConfirmed
<1>1. PICK e \in audit : Owner(e[1]) = p /\ e[2] = c
  BY DEF IInv, LinksConfirmed
<1>2. e[1] \in Request \cup Partner /\ e = <<e[1], e[2]>> /\ e[2] \in Company
  BY DEF IInv, TypeOK
<1>3. e[1] \in Request => request[e[1]].status # "none"
  BY <1>2 DEF IInv, LoggedExists
<1>4. Owner(e[1])' = Owner(e[1])
  BY <1>2, <1>3 DEF Owner
<1> QED
  BY <1>1, <1>4

(***************************************************************************)
(* A request that is confirmed stays of use while links are not removed.   *)
(***************************************************************************)
LEMMA UseStays ==
    ASSUME IInv, audit \subseteq audit',
           \A p \in Partner, c \in Company : link[p][c] # "none" => link'[p][c] # "none",
           \A r \in Request :
               \/ request'[r] = request[r]
               \/ request'[r].status # "confirmed"
               \/ /\ request'[r].check = "confirmed"
                  /\ Final(request'[r]) # None
                  /\ <<r, Final(request'[r])>> \in audit'
                  /\ link'[request'[r].partner][Final(request'[r])] # "none"
    PROVE  ConfirmedOfUse'
<1> SUFFICES ASSUME NEW r \in Request, request'[r].status = "confirmed"
             PROVE  /\ request'[r].check = "confirmed"
                    /\ Final(request'[r]) # None
                    /\ <<r, Final(request'[r])>> \in audit'
                    /\ link'[request'[r].partner][Final(request'[r])] # "none"
  BY DEF ConfirmedOfUse, Final
<1>1. CASE request'[r] = request[r]
  <2>1. request[r].partner \in Partner /\ Final(request[r]) \in Company \cup {None}
    BY <1>1 DEF IInv, RequestsAreOwned, TypeOK, RequestRow, Final
  <2>2. /\ request[r].check = "confirmed" /\ Final(request[r]) # None
        /\ <<r, Final(request[r])>> \in audit
        /\ link[request[r].partner][Final(request[r])] # "none"
    BY <1>1 DEF IInv, ConfirmedOfUse
  <2> QED
    BY <1>1, <2>1, <2>2
<1>2. CASE request'[r] # request[r]
  BY <1>2
<1> QED
  BY <1>1, <1>2

-----------------------------------------------------------------------------
(***************************************************************************)
(* A request is made, with or without a company in Bitrix24.               *)
(***************************************************************************)
LEMMA CreateRequestKeeps ==
    ASSUME IInv, NEW r \in Request, NEW p \in Partner, CreateRequest(r, p)
    PROVE  IInv'
<1>1. made \subseteq made' /\ made' \in SUBSET Company
  BY DEF CreateRequest, IInv, TypeOK
<1>2. PICK new \in RequestRow :
          /\ request' = [request EXCEPT ![r] = new]
          /\ new.partner = p /\ new.status = "editable" /\ new.linked = None
          /\ new.entity # None => new.entity \in made'
  <2> DEFINE with(e) ==
                 [NoRequest EXCEPT !.partner = p, !.status = "editable", !.check = "editable",
                                   !.entity = e]
             without ==
                 [NoRequest EXCEPT !.partner = p, !.status = "editable", !.check = "editable"]
  <2>1. ASSUME NEW e \in Company \cup {None}
        PROVE  /\ with(e) \in RequestRow /\ with(e).partner = p /\ with(e).status = "editable"
               /\ with(e).entity = e /\ with(e).linked = None
    BY DEF NoRequest, RequestRow, Statuses
  <2>2. /\ without \in RequestRow /\ without.partner = p /\ without.status = "editable"
        /\ without.entity = None /\ without.linked = None
    BY DEF NoRequest, RequestRow, Statuses
  <2>3. \/ \E c \in Company : \E e \in {c, None} :
               c \in made' /\ request' = [request EXCEPT ![r] = with(e)]
        \/ request' = [request EXCEPT ![r] = without]
    BY DEF CreateRequest
  <2> HIDE DEF with, without
  <2> QED
    BY <2>1, <2>2, <2>3
<1>3. request' = [request EXCEPT ![r] = new] /\ request[r].status = "none"
      /\ UNCHANGED <<link, draft, audit, txn>>
  BY <1>2 DEF CreateRequest
<1>4. \A q \in Request : request'[q] = IF q = r THEN new ELSE request[q]
  BY <1>3 DEF IInv, TypeOK
<1>5. TypeOK'
  BY <1>1, <1>2, <1>3, <1>4 DEF IInv, TypeOK
<1>6. TxnsAreConsistent' /\ OneDecider'
  <2>1. \A u \in Txn : txn[u].kind # "none" =>
            txn[u].request \in Request /\ txn[u].request # r
    BY <1>3 DEF IInv, TxnsAreConsistent
  <2>2. \A u \in Txn : txn[u].kind # "none" =>
            /\ request'[txn[u].request] = request[txn[u].request]
            /\ request'[txn[u].request].status # "none"
    BY <1>4, <2>1 DEF IInv, TxnsAreConsistent
  <2> QED
    BY <1>3, <2>2, SameTxns
<1>7. LinksConfirmed'
  BY <1>3, <1>4, LinksStay
<1>8. ConfirmedOfUse'
  BY <1>2, <1>3, <1>4, UseStays
<1>9. DraftsConfirmed' /\ LoggedExists' /\ RequestsAreOwned'
  BY <1>2, <1>3, <1>4 DEF IInv, DraftsConfirmed, LoggedExists, RequestsAreOwned
<1> QED
  BY <1>5, <1>6, <1>7, <1>8, <1>9 DEF IInv

\* A company is made for a request that is lost.
LEMMA LoseRequestKeeps ==
    ASSUME IInv, LoseRequest
    PROVE  IInv'
<1>1. made \subseteq made' /\ made' \subseteq Company
      /\ UNCHANGED <<request, link, draft, audit, txn>>
  BY DEF LoseRequest, IInv, TypeOK
<1>2. TypeOK'
  BY <1>1 DEF IInv, TypeOK
<1>3. TxnsAreConsistent' /\ OneDecider'
  BY <1>1, SameTxns DEF IInv, TxnsAreConsistent
<1> QED
  BY <1>1, <1>2, <1>3, SameRows DEF IInv, DraftsConfirmed

(***************************************************************************)
(* A partner edits a request: whatever was decided is open again.          *)
(***************************************************************************)
LEMMA BeginEditKeeps ==
    ASSUME IInv, NEW t \in Thread, NEW r \in Request, BeginEdit(t, r)
    PROVE  IInv'
<1> DEFINE new == [Idle EXCEPT !.kind = "edit", !.request = r]
<1>1. new \in Txns /\ new.kind = "edit" /\ new.request = r
  BY Nothing DEF Idle, Txns
<1>2. /\ t \in Txn /\ txn' = [txn EXCEPT ![t] = new] /\ request[r].status # "none"
      /\ UNCHANGED <<request, link, made, draft, audit>>
  BY DEF BeginEdit, Txn
<1> HIDE DEF new
<1>3. txn' \in [Txn -> Txns] /\ TxnsAreConsistent' /\ OneDecider'
  BY <1>1, <1>2, TxnChanges DEF IInv, TxnsAreConsistent
<1> QED
  BY <1>2, <1>3, SameRows DEF IInv, TypeOK, DraftsConfirmed

LEMMA FinishEditKeeps ==
    ASSUME IInv, NEW t \in Thread, FinishEdit(t)
    PROVE  IInv'
<1> DEFINE r == txn[t].request
           new == [request[r] EXCEPT !.status = "editable"]
<1>1. /\ t \in Txn /\ r \in Request /\ request[r].status # "none"
      /\ request[r] \in RequestRow
  BY DEF FinishEdit, Txn, IInv, TxnsAreConsistent, TypeOK
<1>2. /\ new \in RequestRow /\ new.partner = request[r].partner /\ new.status = "editable"
      /\ new.entity = request[r].entity /\ new.linked = request[r].linked
      /\ new.confirmed = request[r].confirmed
  BY <1>1 DEF RequestRow, Statuses
<1>3. /\ request' = [request EXCEPT ![r] = new]
      /\ txn' = [txn EXCEPT ![t] = Idle]
      /\ UNCHANGED <<link, made, draft, audit>>
  BY DEF FinishEdit, IInv, TypeOK
<1>4. \A u \in Txn : txn[u].kind = "decision" => txn[u].request # r
  BY DEF FinishEdit, Locked, IInv, TxnsAreConsistent
<1> HIDE DEF new
<1>5. \A q \in Request : request'[q] = IF q = r THEN new ELSE request[q]
  BY <1>3 DEF IInv, TypeOK
<1>6. txn' \in [Txn -> Txns] /\ TxnsAreConsistent' /\ OneDecider'
  <2>1. \A u \in Txn \ {t} : txn[u].kind # "none" =>
            /\ request'[txn[u].request].status # "none"
            /\ txn[u].kind = "decision" => request'[txn[u].request] = request[txn[u].request]
            /\ txn[u].kind = "draft" => audit \subseteq audit'
    <3>1. \A u \in Txn : txn[u].kind # "none" =>
              txn[u].request \in Request /\ request[txn[u].request].status # "none"
      BY DEF IInv, TxnsAreConsistent
    <3>2. new.status # "none" /\ audit' = audit
      BY <1>2, <1>3
    <3> HIDE DEF r
    <3> QED
      BY <1>1, <1>4, <1>5, <3>1, <3>2
  <2>2. t \in Txn /\ txn' = [txn EXCEPT ![t] = Idle]
    BY <1>1, <1>3
  <2> QED
    BY <2>1, <2>2, TxnEnds
<1>7. TypeOK'
  BY <1>2, <1>3, <1>5, <1>6 DEF IInv, TypeOK
<1>8. LinksConfirmed'
  BY <1>2, <1>3, <1>5, LinksStay
<1>9. ConfirmedOfUse'
  BY <1>2, <1>3, <1>5, UseStays
<1>10. DraftsConfirmed' /\ LoggedExists' /\ RequestsAreOwned'
  BY <1>1, <1>2, <1>3, <1>5 DEF IInv, DraftsConfirmed, LoggedExists, RequestsAreOwned
<1> QED
  BY <1>6, <1>7, <1>8, <1>9, <1>10 DEF IInv

-----------------------------------------------------------------------------
(***************************************************************************)
(* A request is decided, by whomever: what is confirmed is logged and has  *)
(* its link.                                                               *)
(***************************************************************************)
LEMMA DecisionKeepsRows ==
    ASSUME IInv, NEW r \in Request, NEW new \in RequestRow, NEW c,
           request[r].status # "none", new.status # "none",
           new.partner = request[r].partner, new.entity = request[r].entity,
           new.linked # None => new.confirmed = new.linked,
           new.status = "confirmed" =>
               c \in Company /\ new.check = "confirmed" /\ Final(new) = c,
           request' = [request EXCEPT ![r] = new],
           new.status = "confirmed" =>
               link' = Activate(new.partner, c) /\ audit' = audit \cup {<<r, c>>},
           new.status # "confirmed" => link' = link /\ audit' = audit,
           UNCHANGED <<made, draft>>
    PROVE  /\ txn' \in [Txn -> Txns] => TypeOK'
           /\ LinksConfirmed' /\ DraftsConfirmed' /\ ConfirmedOfUse'
           /\ LoggedExists' /\ RequestsAreOwned'
           /\ audit \subseteq audit'
           /\ \A q \in Request : request'[q] = IF q = r THEN new ELSE request[q]
<1>1. \A q \in Request : request'[q] = IF q = r THEN new ELSE request[q]
  BY DEF IInv, TypeOK
<1>2. request[r].partner \in Partner
  BY DEF IInv, RequestsAreOwned
<1>3. /\ link' \in [Partner -> [Company -> LinkStatuses \cup {"none"}]]
      /\ \A p \in Partner, d \in Company : link[p][d] # "none" => link'[p][d] # "none"
      /\ \A p \in Partner, d \in Company :
             link'[p][d] # link[p][d] =>
                 /\ p = new.partner /\ d = c
                 /\ new.status = "confirmed"
      /\ new.status = "confirmed" => link'[new.partner][c] = "active"
  <2>1. CASE new.status = "confirmed"
    BY <1>2, <2>1 DEF Activate, IInv, TypeOK, LinkStatuses
  <2>2. CASE new.status # "confirmed"
    BY <2>2 DEF IInv, TypeOK
  <2> QED
    BY <2>1, <2>2
<1>4. audit \subseteq audit' /\ audit' \in SUBSET ((Request \cup Partner) \X Company)
      /\ (new.status = "confirmed" => <<r, c>> \in audit')
      /\ \A q \in Request, d \in Company : <<q, d>> \in audit' /\ <<q, d>> \notin audit => q = r
  BY DEF IInv, TypeOK
<1>5. txn' \in [Txn -> Txns] => TypeOK'
  BY <1>1, <1>3, <1>4 DEF IInv, TypeOK
<1>6. LinksConfirmed'
  <2>1. \A p \in Partner, d \in Company :
            link'[p][d] = "active" /\ link[p][d] # "active" =>
                \E e \in audit' : Owner(e[1])' = p /\ e[2] = d
    <3> SUFFICES ASSUME NEW p \in Partner, NEW d \in Company,
                        link'[p][d] = "active", link[p][d] # "active"
                 PROVE  \E e \in audit' : Owner(e[1])' = p /\ e[2] = d
      OBVIOUS
    <3>1. p = new.partner /\ d = c /\ <<r, c>> \in audit'
      BY <1>3, <1>4
    <3>2. Owner(r)' = new.partner
      BY <1>1, ConstantsAssumption DEF Owner
    <3> QED
      BY <3>1, <3>2
  <2>2. \A q \in Request : request[q].status # "none" => request'[q].partner = request[q].partner
    BY <1>1
  <2> QED
    BY <1>4, <2>1, <2>2, LinksStay
<1>7. ConfirmedOfUse'
  <2>1. \A q \in Request :
            \/ request'[q] = request[q]
            \/ request'[q].status # "confirmed"
            \/ /\ request'[q].check = "confirmed"
               /\ Final(request'[q]) # None
               /\ <<q, Final(request'[q])>> \in audit'
               /\ link'[request'[q].partner][Final(request'[q])] # "none"
    BY <1>1, <1>3, <1>4, ConstantsAssumption
  <2> QED
    BY <1>3, <1>4, <2>1, UseStays
<1>8. DraftsConfirmed' /\ LoggedExists' /\ RequestsAreOwned'
  BY <1>1, <1>2, <1>4 DEF IInv, DraftsConfirmed, LoggedExists, RequestsAreOwned
<1> QED
  BY <1>1, <1>4, <1>5, <1>6, <1>7, <1>8

-----------------------------------------------------------------------------
\* A decision that confirms has a company, and what it links it confirms.
LEMMA DecidedRow ==
    ASSUME NEW row \in RequestRow, NEW status \in Statuses, NEW l \in Company \cup {None},
           NEW c \in Company \cup {None}, l # None => c = l,
           row.linked # None => row.confirmed = row.linked
    PROVE  LET new == Decided(row, status, l, c) IN
           /\ new \in RequestRow
           /\ new.partner = row.partner /\ new.entity = row.entity
           /\ new.status = status /\ new.check = status
           /\ new.linked # None => new.confirmed = new.linked
           /\ c # None => Final(new) = c
<1> DEFINE new == Decided(row, status, l, c)
           last == IF c = None THEN row.confirmed ELSE c
<1>1. last \in Company \cup {None}
  BY DEF RequestRow
<1>2. new = [row EXCEPT !.status = status, !.check = status, !.linked = l, !.confirmed = last]
  BY DEF Decided
<1> HIDE DEF last, new
<1>3. /\ new \in RequestRow
      /\ new.partner = row.partner /\ new.entity = row.entity
      /\ new.status = status /\ new.check = status
      /\ new.linked = l /\ new.confirmed = last
  BY <1>1, <1>2 DEF RequestRow
<1> QED
  BY <1>3 DEF Final, last, new

(***************************************************************************)
(* A superadmin decides: the row as it will be, kept under its lock.       *)
(***************************************************************************)
LEMMA DecideKeeps ==
    ASSUME IInv, NEW t \in Thread, NEW r \in Request, NEW status \in Statuses,
           NEW l \in Company \cup {None}, NEW d \in Company \cup {None},
           Decide(t, r, status, l, d)
    PROVE  IInv'
<1> DEFINE c == IF l # None THEN l ELSE d
           row == Decided(request[r], status, l, c)
           new == [kind |-> "decision", request |-> r, company |-> c, row |-> row,
                   seen |-> c # None /\ link[request[r].partner][c] # "none"]
<1>1. request[r] \in RequestRow /\ request[r].status # "none"
      /\ (request[r].linked # None => request[r].confirmed = request[r].linked)
  BY DEF Decide, IInv, TypeOK
<1>2. /\ row \in RequestRow
      /\ row.partner = request[r].partner /\ row.entity = request[r].entity
      /\ row.status = status /\ row.check = status
      /\ row.linked # None => row.confirmed = row.linked
      /\ c # None => Final(row) = c
  <2>1. c \in Company \cup {None} /\ (l # None => c = l)
    OBVIOUS
  <2> HIDE DEF c
  <2> QED
    BY <1>1, <2>1, DecidedRow
<1>3. status = "confirmed" => c # None
  BY DEF Decide
<1>4. /\ t \in Txn /\ txn' = [txn EXCEPT ![t] = new]
      /\ UNCHANGED <<request, link, made, draft, audit>>
  BY DEF Decide, Txn
<1>5. \A u \in Thread : txn[u].kind = "decision" => txn[u].request # r
  BY DEF Decide, Locked
<1> HIDE DEF row
<1>6. /\ new \in Txns /\ new.kind = "decision" /\ new.request = r /\ new.company = c
      /\ new.row = row /\ c \in Company \cup {None}
  BY <1>2 DEF Txns
<1> HIDE DEF new, c
<1>7. \A u \in Txn \ {t} : txn[u].kind # "none" =>
          /\ request'[txn[u].request].status # "none"
          /\ txn[u].kind = "decision" => request'[txn[u].request] = request[txn[u].request]
          /\ txn[u].kind = "draft" => audit \subseteq audit'
  BY <1>4 DEF IInv, TxnsAreConsistent
<1>8. status # "none"
  BY DEF Statuses
<1>9. txn' \in [Txn -> Txns] /\ TxnsAreConsistent' /\ OneDecider'
  BY <1>1, <1>2, <1>3, <1>4, <1>5, <1>6, <1>7, <1>8, TxnChanges
<1> QED
  BY <1>4, <1>9, SameRows DEF IInv, TypeOK, DraftsConfirmed

\* The commit of a decision, and of the link that it makes.
LEMMA FinishDecisionKeeps ==
    ASSUME IInv, NEW t \in Thread, FinishDecision(t)
    PROVE  IInv'
<1> DEFINE r == txn[t].request
           c == txn[t].company
           p == request[r].partner
           new == txn[t].row
<1>1. /\ t \in Txn /\ r \in Request /\ request[r].status # "none" /\ p \in Partner
      /\ new \in RequestRow /\ new.partner = p /\ new.entity = request[r].entity
      /\ new.status # "none"
      /\ new.linked # None => new.confirmed = new.linked
      /\ new.status = "confirmed" =>
             c \in Company /\ new.check = "confirmed" /\ Final(new) = c
  BY DEF FinishDecision, Txn, IInv, TxnsAreConsistent, TypeOK, RequestsAreOwned, Txns
<1>2. /\ request' = [request EXCEPT ![r] = new]
      /\ txn' = [txn EXCEPT ![t] = Idle]
      /\ UNCHANGED <<made, draft>>
      /\ new.status = "confirmed" => link' = Activate(p, c) /\ audit' = audit \cup {<<r, c>>}
      /\ new.status # "confirmed" => link' = link /\ audit' = audit
  BY DEF FinishDecision
<1>3. \A u \in Txn \ {t} : txn[u].kind = "decision" => txn[u].request # r
  BY DEF FinishDecision, IInv, OneDecider, TxnsAreConsistent
<1>4. \A u \in Txn : txn[u].kind # "none" =>
          txn[u].request \in Request /\ request[txn[u].request].status # "none"
  BY DEF IInv, TxnsAreConsistent
<1> HIDE DEF r, c, p, new
<1>5. /\ txn' \in [Txn -> Txns] => TypeOK'
      /\ LinksConfirmed' /\ DraftsConfirmed' /\ ConfirmedOfUse'
      /\ LoggedExists' /\ RequestsAreOwned'
      /\ audit \subseteq audit'
      /\ \A q \in Request : request'[q] = IF q = r THEN new ELSE request[q]
  BY <1>1, <1>2, DecisionKeepsRows DEF p
<1>6. \A u \in Txn \ {t} : txn[u].kind # "none" =>
          /\ request'[txn[u].request].status # "none"
          /\ txn[u].kind = "decision" => request'[txn[u].request] = request[txn[u].request]
          /\ txn[u].kind = "draft" => audit \subseteq audit'
  BY <1>1, <1>3, <1>4, <1>5
<1>7. txn' \in [Txn -> Txns] /\ TxnsAreConsistent' /\ OneDecider'
  BY <1>1, <1>2, <1>6, TxnEnds
<1> QED
  BY <1>5, <1>7 DEF IInv

(***************************************************************************)
(* A notification of Bitrix24, whatever was decided before it.             *)
(***************************************************************************)
LEMMA WebhookKeeps ==
    ASSUME IInv, NEW r \in Request, NEW n \in Notifications, Webhook(r, n[1], n[2])
    PROVE  IInv'
<1> DEFINE status == n[1]
           linked == n[2]
           row == request[r]
           c == Confirmed(row.entity, linked)
           new == [row EXCEPT !.status = status, !.check = status,
                              !.linked = IF status = "rejected" THEN @ ELSE linked,
                              !.confirmed = IF status = "confirmed" THEN c ELSE @]
<1>1. /\ status \in Statuses /\ linked \in Company \cup {None}
      /\ linked # None => status = "confirmed"
  BY DEF Notifications
<1>2. /\ row \in RequestRow /\ row.status # "none" /\ row.entity \in Company
      /\ row.partner \in Partner
      /\ row.linked # None => row.confirmed = row.linked
  BY DEF Webhook, IInv, TypeOK, RequestRow, RequestsAreOwned
<1>3. c \in Company /\ (linked # None => c = linked)
  BY <1>1, <1>2 DEF Confirmed
<1>4. /\ request' = [request EXCEPT ![r] = new]
      /\ UNCHANGED <<made, draft, txn>>
      /\ status = "confirmed" =>
             link' = Activate(row.partner, c) /\ audit' = audit \cup {<<r, c>>}
      /\ status # "confirmed" => link' = link /\ audit' = audit
  BY DEF Webhook
<1>5. \A u \in Txn : txn[u].kind = "decision" => txn[u].request # r
  BY DEF Webhook, Locked, IInv, TxnsAreConsistent
<1>6. \A u \in Txn : txn[u].kind # "none" =>
          txn[u].request \in Request /\ request[txn[u].request].status # "none"
  BY DEF IInv, TxnsAreConsistent
<1> HIDE DEF c, status, linked
<1>7. /\ new \in RequestRow /\ new.partner = row.partner /\ new.entity = row.entity
      /\ new.status = status /\ new.check = status
      /\ new.linked = (IF status = "rejected" THEN row.linked ELSE linked)
      /\ new.confirmed = (IF status = "confirmed" THEN c ELSE row.confirmed)
  BY <1>1, <1>2, <1>3 DEF RequestRow
<1>8. /\ new.linked # None => new.confirmed = new.linked
      /\ status = "confirmed" => Final(new) = c
      /\ status # "none"
  BY <1>1, <1>2, <1>3, <1>7 DEF Final, Statuses
<1> HIDE DEF new
<1>9. /\ txn' \in [Txn -> Txns] => TypeOK'
      /\ LinksConfirmed' /\ DraftsConfirmed' /\ ConfirmedOfUse'
      /\ LoggedExists' /\ RequestsAreOwned'
      /\ audit \subseteq audit'
      /\ \A q \in Request : request'[q] = IF q = r THEN new ELSE request[q]
  BY <1>2, <1>3, <1>4, <1>7, <1>8, DecisionKeepsRows
<1>10. \A u \in Txn : txn[u].kind # "none" =>
          /\ request'[txn[u].request].status # "none"
          /\ txn[u].kind = "decision" => request'[txn[u].request] = request[txn[u].request]
          /\ txn[u].kind = "draft" => audit \subseteq audit'
  BY <1>5, <1>6, <1>7, <1>8, <1>9
<1>11. txn' \in [Txn -> Txns] /\ TxnsAreConsistent' /\ OneDecider'
  BY <1>4, <1>10, SameTxns DEF IInv, TypeOK
<1> QED
  BY <1>9, <1>11 DEF IInv

-----------------------------------------------------------------------------
(***************************************************************************)
(* A draft is saved for the company of a request that is confirmed.        *)
(***************************************************************************)
LEMMA BeginDraftKeeps ==
    ASSUME IInv, NEW r \in Request, NEW c \in Company, BeginDraft(r, c)
    PROVE  IInv'
<1> DEFINE new == [Idle EXCEPT !.kind = "draft", !.request = r, !.company = c]
<1>1. new \in Txns /\ new.kind = "draft" /\ new.request = r /\ new.company = c
  BY Nothing DEF Idle, Txns
<1>2. request[r].status = "confirmed" /\ <<r, c>> \in audit
  BY DEF BeginDraft, Allowed, IInv, ConfirmedOfUse
<1>3. /\ Loop \in Txn /\ txn' = [txn EXCEPT ![Loop] = new]
      /\ UNCHANGED <<request, link, made, draft, audit>>
  BY DEF BeginDraft, Txn
<1> HIDE DEF new
<1>4. \A u \in Txn \ {Loop} : txn[u].kind # "none" =>
          /\ request'[txn[u].request].status # "none"
          /\ txn[u].kind = "decision" => request'[txn[u].request] = request[txn[u].request]
          /\ txn[u].kind = "draft" => audit \subseteq audit'
  BY <1>3 DEF IInv, TxnsAreConsistent
<1>5. txn' \in [Txn -> Txns] /\ TxnsAreConsistent' /\ OneDecider'
  BY <1>1, <1>2, <1>3, <1>4, TxnChanges
<1> QED
  BY <1>3, <1>5, SameRows DEF IInv, TypeOK, DraftsConfirmed

LEMMA FinishDraftKeeps ==
    ASSUME IInv, FinishDraft
    PROVE  IInv'
<1>0. /\ Loop \in Txn
      /\ txn[Loop].request \in Request /\ txn[Loop].company \in Company
      /\ <<txn[Loop].request, txn[Loop].company>> \in audit
      /\ request[txn[Loop].request].status # "none"
      /\ request[txn[Loop].request].partner \in Partner
  BY DEF FinishDraft, Txn, IInv, TxnsAreConsistent, RequestsAreOwned
<1>1. PICK r \in Request, c \in Company, p \in Partner :
          /\ r = txn[Loop].request /\ c = txn[Loop].company /\ p = request[r].partner
          /\ <<r, c>> \in audit
  BY <1>0
<1>2. /\ link' = Activate(p, c) /\ draft' \in {draft, draft \cup {<<r, c>>}}
      /\ txn' = [txn EXCEPT ![Loop] = Idle]
      /\ UNCHANGED <<request, made, audit>>
  BY <1>1 DEF FinishDraft
<1>3. Owner(r)' = p
  BY <1>1, <1>2, ConstantsAssumption DEF Owner
<1>4. /\ link' \in [Partner -> [Company -> LinkStatuses \cup {"none"}]]
      /\ \A q \in Partner, d \in Company : link[q][d] # "none" => link'[q][d] # "none"
      /\ \A q \in Partner, d \in Company : link'[q][d] # link[q][d] => q = p /\ d = c
  BY <1>1, <1>2 DEF Activate, IInv, TypeOK, LinkStatuses
<1>5. txn' \in [Txn -> Txns] /\ TxnsAreConsistent' /\ OneDecider'
  <2>1. \A u \in Txn \ {Loop} : txn[u].kind # "none" =>
            /\ request'[txn[u].request].status # "none"
            /\ txn[u].kind = "decision" => request'[txn[u].request] = request[txn[u].request]
            /\ txn[u].kind = "draft" => audit \subseteq audit'
    BY <1>2 DEF IInv, TxnsAreConsistent
  <2> QED
    BY <1>0, <1>2, <2>1, TxnEnds
<1>6. draft' \in SUBSET (Request \X Company) /\ DraftsConfirmed'
  BY <1>1, <1>2 DEF IInv, TypeOK, DraftsConfirmed
<1>7. TypeOK'
  BY <1>2, <1>4, <1>5, <1>6 DEF IInv, TypeOK
<1>8. LinksConfirmed'
  <2>1. \A q \in Partner, d \in Company :
            link'[q][d] = "active" /\ link[q][d] # "active" =>
                \E e \in audit' : Owner(e[1])' = q /\ e[2] = d
    BY <1>1, <1>2, <1>3, <1>4
  <2> QED
    BY <1>2, <2>1, LinksStay
<1>9. ConfirmedOfUse'
  BY <1>2, <1>4, UseStays
<1>10. LoggedExists' /\ RequestsAreOwned'
  BY <1>2 DEF IInv, LoggedExists, RequestsAreOwned
<1> QED
  BY <1>5, <1>6, <1>7, <1>8, <1>9, <1>10 DEF IInv

(***************************************************************************)
(* A superadmin makes a link or revokes one; only a link that is made      *)
(* active is logged as the reason of its being active.                     *)
(***************************************************************************)
LEMMA SetLinkKeeps ==
    ASSUME IInv, NEW p \in Partner, NEW c \in Company, NEW status \in LinkStatuses,
           link' = [link EXCEPT ![p][c] = status],
           status = "active" => audit' = audit \cup {<<p, c>>},
           status # "active" => audit' = audit,
           UNCHANGED <<request, made, draft, txn>>
    PROVE  IInv'
<1>1. /\ link' \in [Partner -> [Company -> LinkStatuses \cup {"none"}]]
      /\ \A q \in Partner, d \in Company : link[q][d] # "none" => link'[q][d] # "none"
      /\ \A q \in Partner, d \in Company :
             link'[q][d] # link[q][d] => q = p /\ d = c /\ link'[q][d] = status
  BY DEF IInv, TypeOK, LinkStatuses
<1>2. /\ audit \subseteq audit' /\ audit' \in SUBSET ((Request \cup Partner) \X Company)
      /\ status = "active" => <<p, c>> \in audit'
      /\ \A r \in Request, d \in Company : <<r, d>> \in audit' => <<r, d>> \in audit
  BY ConstantsAssumption DEF IInv, TypeOK
<1>3. TypeOK'
  BY <1>1, <1>2 DEF IInv, TypeOK
<1>4. TxnsAreConsistent' /\ OneDecider'
  BY <1>2, SameTxns DEF IInv, TxnsAreConsistent
<1>5. LinksConfirmed'
  <2>1. Owner(p)' = p
    BY DEF Owner
  <2>2. \A q \in Partner, d \in Company :
            link'[q][d] = "active" /\ link[q][d] # "active" =>
                \E e \in audit' : Owner(e[1])' = q /\ e[2] = d
    BY <1>1, <1>2, <2>1
  <2> QED
    BY <1>2, <2>2, LinksStay
<1>6. ConfirmedOfUse'
  BY <1>1, <1>2, UseStays
<1>7. DraftsConfirmed' /\ LoggedExists' /\ RequestsAreOwned'
  BY <1>2 DEF IInv, DraftsConfirmed, LoggedExists, RequestsAreOwned
<1> QED
  BY <1>3, <1>4, <1>5, <1>6, <1>7 DEF IInv

LEMMA AbortKeeps ==
    ASSUME IInv, NEW t \in Txn, Abort(t)
    PROVE  IInv'
<1>1. \A u \in Txn \ {t} : txn[u].kind # "none" =>
          /\ request'[txn[u].request].status # "none"
          /\ txn[u].kind = "decision" => request'[txn[u].request] = request[txn[u].request]
          /\ txn[u].kind = "draft" => audit \subseteq audit'
  BY DEF Abort, IInv, TxnsAreConsistent
<1>2. txn' \in [Txn -> Txns] /\ TxnsAreConsistent' /\ OneDecider'
  BY <1>1, TxnEnds DEF Abort
<1> QED
  BY <1>2, SameRows DEF Abort, IInv, TypeOK, DraftsConfirmed

-----------------------------------------------------------------------------
(***************************************************************************)
(* Every operation of partners, superadmins, the loop and Bitrix24 keeps   *)
(* the invariant.                                                          *)
(***************************************************************************)
THEOREM PartnersInductive == IInv /\ [Next]_vars => IInv'
<1> SUFFICES ASSUME IInv, [Next]_vars
             PROVE  IInv'
  OBVIOUS
<1>1. ASSUME NEW p \in Partner, NEW c \in Company, NEW s \in LinkStatuses, CreateLink(p, c, s)
      PROVE  IInv'
  <2>1. /\ s \in LinkStatuses /\ link' = [link EXCEPT ![p][c] = s]
        /\ s = "active" => audit' = audit \cup {<<p, c>>}
        /\ s # "active" => audit' = audit
        /\ UNCHANGED <<request, made, draft, txn>>
    BY <1>1 DEF CreateLink
  <2> QED
    BY <2>1, SetLinkKeeps
<1>2. ASSUME NEW p \in Partner, NEW c \in Company, RevokeLink(p, c)
      PROVE  IInv'
  <2>1. /\ "revoked" \in LinkStatuses /\ link' = [link EXCEPT ![p][c] = "revoked"]
        /\ "revoked" # "active" /\ audit' = audit
        /\ UNCHANGED <<request, made, draft, txn>>
    BY <1>2 DEF RevokeLink, LinkStatuses
  <2> QED
    BY <2>1, SetLinkKeeps
<1>3. CASE UNCHANGED vars
  <2>1. UNCHANGED <<request, link, made, draft, audit, txn>>
    BY <1>3 DEF vars
  <2>2. TxnsAreConsistent' /\ OneDecider'
    BY <2>1, SameTxns DEF IInv, TxnsAreConsistent
  <2> QED
    BY <2>1, <2>2, SameRows DEF IInv, TypeOK, DraftsConfirmed
<1> QED
  BY <1>1, <1>2, <1>3, CreateRequestKeeps, LoseRequestKeeps, BeginEditKeeps, FinishEditKeeps,
     DecideKeeps, FinishDecisionKeeps, WebhookKeeps, BeginDraftKeeps, FinishDraftKeeps, AbortKeeps
     DEF Next

\* The invariant holds of every state of the system.
THEOREM PartnersInvariant == Spec => []IInv
BY Initially, PartnersInductive, PTL DEF Spec

\* The types hold; a company that was linked is the one that was confirmed.
THEOREM PartnersTypeCorrect == Spec => []TypeOK
<1>1. IInv => TypeOK
  BY DEF IInv
<1> QED
  BY <1>1, PartnersInvariant, PTL

(***************************************************************************)
(* An active link goes back to a confirmation of its company for its       *)
(* partner, or to a superadmin's making it active.                         *)
(***************************************************************************)
THEOREM ActiveIsConfirmed == Spec => []LinksConfirmed
<1>1. IInv => LinksConfirmed
  BY DEF IInv
<1> QED
  BY <1>1, PartnersInvariant, PTL

\* An application is for a company that was confirmed for its request.
THEOREM ApplicationsAreConfirmed == Spec => []DraftsConfirmed
<1>1. IInv => DraftsConfirmed
  BY DEF IInv
<1> QED
  BY <1>1, PartnersInvariant, PTL

(***************************************************************************)
(* A confirmed request has its check confirmed, a company, its confirmation*)
(* in the log and a link of the partner to that company.                   *)
(***************************************************************************)
THEOREM ConfirmedIsOfUse == Spec => []ConfirmedOfUse
<1>1. IInv => ConfirmedOfUse
  BY DEF IInv
<1> QED
  BY <1>1, PartnersInvariant, PTL
=============================================================================
