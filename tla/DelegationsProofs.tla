-------------------------- MODULE DelegationsProofs --------------------------
(***************************************************************************)
(* What Delegations keeps true for every set of delegations, applications, *)
(* users and threads, and any limits, proved from an inductive invariant;  *)
(* and that it implements AccessGrants.                                    *)
(***************************************************************************)
EXTENDS Delegations, TLAPS

(***************************************************************************)
(* A row as its transaction leaves it: its open items are in its own       *)
(* state, and it was validated.                                            *)
(***************************************************************************)
Coherent(row) ==
    /\ row.status = "none" => \A a \in Application : row.items[a] = "none"
    /\ row.status # "none" => row.ends > row.starts /\ row.from # row.to
    /\ \A a \in Application : IsOpen(row.items[a]) => row.items[a] = row.status

(***************************************************************************)
(* Row r comes after row s: items are activated or closed, none is added   *)
(* and none opened again, however often a transaction writes the row.      *)
(***************************************************************************)
Later(s, r) ==
    \A a \in Application :
        \/ r.items[a] = s.items[a]
        \/ s.items[a] = "scheduled" /\ r.items[a] = "active"
        \/ IsOpen(s.items[a]) /\ r.items[a] \notin {"none", "scheduled", "active"}

(***************************************************************************)
(* The row of a creation is the only one its transaction has, its items    *)
(* are open, and nothing that was committed since its conflict check       *)
(* conflicts with it.                                                      *)
(***************************************************************************)
Created(d) ==
    /\ holder[d] = Loop
    /\ deleg[d].status = "none"
    /\ \A c \in Delegation : holder[c] = Loop => c = d
    /\ \A a \in Application : pending[d].items[a] = "none" \/ IsOpen(pending[d].items[a])
    /\ \A c \in Delegation \ {d}, a \in Application :
          IsOpen(pending[d].items[a]) => ~IsOpen(deleg[c].items[a])

\* What a transaction has written and not committed.
HeldRow(d) ==
    holder[d] # None =>
        /\ txn[holder[d]].pc # "idle"
        /\ pending[d].status # "none"
        /\ Coherent(pending[d])
        /\ IF txn[holder[d]].kind = "create"
           THEN Created(d)
           ELSE deleg[d].status # "none" /\ Later(deleg[d], pending[d])

(***************************************************************************)
(* A transaction works on rows that exist, and the status it is about to   *)
(* write is one that its kind writes.                                      *)
(***************************************************************************)
InOrder(t) ==
    /\ txn[t].kind = "create" => t = Loop /\ txn[t].pc = "finishing"
    /\ txn[t].pc = "updating" =>
          txn[t].target \in {"active", "failed", "expired", "cancelled", "terminated"}
    /\ txn[t].pc = "updating" /\ txn[t].target = "cancelled" => txn[t].kind = "close"
    /\ txn[t].pc = "closing" => txn[t].target \in {"expired", "terminated"}
    /\ \A d \in txn[t].todo \cup txn[t].row : deleg[d].status # "none"

IInv ==
    /\ TypeOK
    /\ OneOpenItem
    /\ \A d \in Delegation : Coherent(deleg[d]) /\ HeldRow(d)
    /\ \A t \in Txn : InOrder(t)

-----------------------------------------------------------------------------
ClosedStatuses == {"failed", "expired", "cancelled", "terminated"}

\* Activation takes the scheduled items with it and leaves the others.
LEMMA ActivatedIsLater ==
    ASSUME NEW row \in Rows, Coherent(row), row.status # "none"
    PROVE  /\ Activated(row) \in Rows /\ Activated(row).status # "none"
           /\ Coherent(Activated(row)) /\ Later(row, Activated(row))
<1>1. /\ row.items \in [Application -> DelegationStatuses \cup {"none"}]
      /\ row.ends > row.starts /\ row.from # row.to
  BY DEF Rows, Coherent
<1> DEFINE I == [a \in Application |->
                    IF row.items[a] = "scheduled" THEN "active" ELSE row.items[a]]
<1>2. /\ I \in [Application -> DelegationStatuses \cup {"none"}]
      /\ \A a \in Application :
            I[a] = IF row.items[a] = "scheduled" THEN "active" ELSE row.items[a]
  BY <1>1 DEF DelegationStatuses
<1>3. Activated(row) = [row EXCEPT !.status = "active", !.items = I]
  BY DEF Activated
<1> HIDE DEF I
<1>4. /\ Activated(row) \in Rows /\ Activated(row).status = "active"
      /\ Activated(row).items = I
      /\ Activated(row).starts = row.starts /\ Activated(row).ends = row.ends
      /\ Activated(row).from = row.from /\ Activated(row).to = row.to
  BY <1>2, <1>3 DEF Rows, DelegationStatuses
<1> QED
  BY <1>1, <1>2, <1>4 DEF Coherent, Later, IsOpen, OPEN_DELEGATION_ITEM_STATUSES

\* Closing leaves no item open and the closed ones as they are.
LEMMA ClosedIsLater ==
    ASSUME NEW row \in Rows, Coherent(row), row.status # "none", NEW s \in ClosedStatuses
    PROVE  /\ Closed(row, s) \in Rows /\ Closed(row, s).status # "none"
           /\ Coherent(Closed(row, s)) /\ Later(row, Closed(row, s))
<1>1. /\ row.items \in [Application -> DelegationStatuses \cup {"none"}]
      /\ row.ends > row.starts /\ row.from # row.to
  BY DEF Rows, Coherent
<1>2. s \in DelegationStatuses /\ s \notin {"none", "scheduled", "active"} /\ ~IsOpen(s)
  BY DEF ClosedStatuses, DelegationStatuses, IsOpen, OPEN_DELEGATION_ITEM_STATUSES
<1> DEFINE I == [a \in Application |-> IF IsOpen(row.items[a]) THEN s ELSE row.items[a]]
<1>3. /\ I \in [Application -> DelegationStatuses \cup {"none"}]
      /\ \A a \in Application : I[a] = IF IsOpen(row.items[a]) THEN s ELSE row.items[a]
  BY <1>1, <1>2
<1>4. Closed(row, s) = [row EXCEPT !.status = s, !.items = I]
  BY DEF Closed
<1> HIDE DEF I
<1>5. /\ Closed(row, s) \in Rows /\ Closed(row, s).status = s
      /\ Closed(row, s).items = I
      /\ Closed(row, s).starts = row.starts /\ Closed(row, s).ends = row.ends
      /\ Closed(row, s).from = row.from /\ Closed(row, s).to = row.to
  BY <1>2, <1>3, <1>4 DEF Rows
<1> QED
  BY <1>1, <1>2, <1>3, <1>5 DEF Coherent, Later

LEMMA LaterTransitive ==
    ASSUME NEW q, NEW r, NEW s, Later(q, r), Later(r, s)
    PROVE  Later(q, s)
BY DEF Later, IsOpen, OPEN_DELEGATION_ITEM_STATUSES

LEMMA LaterReflexive == \A r : Later(r, r)
BY DEF Later

LEMMA OpenIsLaterOpen ==
    ASSUME NEW s, NEW r, Later(s, r), NEW a \in Application, IsOpen(r.items[a])
    PROVE  IsOpen(s.items[a])
BY DEF Later, IsOpen, OPEN_DELEGATION_ITEM_STATUSES

LEMMA IdleIsTxn ==
    /\ Idle \in Txns
    /\ Idle.kind = "none" /\ Idle.pc = "idle" /\ Idle.todo = {} /\ Idle.row = {}
    /\ Idle.left = 0 /\ Idle.target = "none"
<1>1. 0 \in Time
  BY ConstantsAssumption DEF Time
<1> QED
  BY <1>1 DEF Idle, Txns, Kinds

\* What a transaction sees of a row is a row that somebody may have committed.
LEMMA VisibleIsCoherent ==
    ASSUME IInv, NEW t \in Txn, NEW d \in Delegation
    PROVE  /\ Visible(t, d) \in Rows /\ Coherent(Visible(t, d))
           /\ deleg[d].status # "none" => Visible(t, d).status # "none"
<1>1. t # None
  BY ConstantsAssumption DEF Txn
<1>2. CASE holder[d] = t
  BY <1>1, <1>2 DEF IInv, TypeOK, HeldRow, Visible
<1>3. CASE holder[d] # t
  BY <1>3 DEF IInv, TypeOK, Visible
<1> QED
  BY <1>2, <1>3

(***************************************************************************)
(* A step of a transaction that writes no row.                             *)
(***************************************************************************)
LEMMA TxnStep ==
    ASSUME IInv, NEW t \in Txn,
           UNCHANGED <<now, user, app, deleg, holder, pending>>,
           txn' \in [Txn -> Txns],
           \A k \in Txn \ {t} : txn'[k] = txn[k],
           txn[t].kind # "create", txn'[t].kind # "create",
           txn'[t].pc # "idle",
           InOrder(t)'
    PROVE  IInv'
<1>1. TypeOK'
  BY DEF IInv, TypeOK
<1>2. OneOpenItem'
  BY DEF IInv, OneOpenItem
<1>3. ASSUME NEW d \in Delegation
      PROVE  Coherent(deleg[d])' /\ HeldRow(d)'
  <2>1. Coherent(deleg[d]) /\ HeldRow(d)
    BY DEF IInv
  <2>2. Coherent(deleg[d])'
    BY <2>1 DEF Coherent
  <2>3. HeldRow(d)'
    <3> SUFFICES ASSUME holder[d] # None
                 PROVE  HeldRow(d)'
      BY DEF HeldRow
    <3>1. holder[d] \in Txn
      BY DEF IInv, TypeOK
    <3>2. txn'[holder[d]].pc # "idle" /\ pending[d].status # "none" /\ Coherent(pending[d])
      BY <2>1, <3>1 DEF HeldRow
    <3>3. txn'[holder[d]].kind = "create" <=> txn[holder[d]].kind = "create"
      BY <3>1
    <3>4. CASE txn[holder[d]].kind = "create"
      BY <2>1, <3>2, <3>3, <3>4 DEF HeldRow, Created, Coherent
    <3>5. CASE txn[holder[d]].kind # "create"
      BY <2>1, <3>2, <3>3, <3>5 DEF HeldRow, Later, Coherent
    <3> QED
      BY <3>4, <3>5
  <2> QED
    BY <2>2, <2>3
<1>4. ASSUME NEW k \in Txn
      PROVE  InOrder(k)'
  <2>1. CASE k = t
    BY <2>1
  <2>2. CASE k # t
    <3>1. InOrder(k) /\ txn'[k] = txn[k]
      BY <2>2 DEF IInv
    <3> QED
      BY <3>1 DEF InOrder
  <2> QED
    BY <2>1, <2>2
<1> QED
  BY <1>1, <1>2, <1>3, <1>4 DEF IInv

\* A step of nobody's transaction.
LEMMA OutsideStep ==
    ASSUME IInv, UNCHANGED <<deleg, holder, pending, txn>>,
           now' \in Time,
           user' \in [User -> [status : {"active", "blocked"}, role : {"client_executor", "none"}]],
           app' \in [Application -> User \cup {None}]
    PROVE  IInv'
<1>1. TypeOK'
  BY DEF IInv, TypeOK
<1>2. OneOpenItem'
  BY DEF IInv, OneOpenItem
<1>3. ASSUME NEW d \in Delegation
      PROVE  Coherent(deleg[d])' /\ HeldRow(d)'
  <2>1. Coherent(deleg[d]) /\ HeldRow(d)
    BY DEF IInv
  <2> QED
    BY <2>1 DEF Coherent, HeldRow, Created, Later
<1>4. ASSUME NEW k \in Txn
      PROVE  InOrder(k)'
  <2>1. InOrder(k)
    BY DEF IInv
  <2> QED
    BY <2>1 DEF InOrder
<1> QED
  BY <1>1, <1>2, <1>3, <1>4 DEF IInv

-----------------------------------------------------------------------------
\* The transaction of the loop, and what is typed of every transaction.
LEMMA LoopIsTxn == Loop \in Txn /\ Thread \subseteq Txn /\ Loop \notin Thread
BY ConstantsAssumption DEF Txn

LEMMA TxnFacts ==
    ASSUME IInv, NEW t \in Txn
    PROVE  /\ txn \in [Txn -> Txns] /\ txn[t] \in Txns /\ InOrder(t)
           /\ txn[t].kind \in Kinds
           /\ txn[t].left \in Nat /\ txn[t].user \in User \cup {None} /\ txn[t].at \in Time
           /\ txn[t].todo \subseteq Delegation /\ txn[t].row \subseteq Delegation
           /\ txn[t].target \in DelegationStatuses \cup {"none"}
BY DEF IInv, TypeOK, Txns

LEMMA BeginCloseKeeps ==
    ASSUME IInv, NEW d \in Delegation, NEW s \in {"cancelled", "terminated"}, BeginClose(d, s)
    PROVE  IInv'
<1> DEFINE r == [Idle EXCEPT !.kind = "close", !.pc = "updating", !.row = {d}, !.target = s]
<1>1. /\ r \in Txns /\ r.kind = "close" /\ r.pc = "updating" /\ r.todo = {} /\ r.row = {d}
      /\ r.target = s
  BY IdleIsTxn DEF Txns, Kinds, DelegationStatuses
<1>2. txn' = [txn EXCEPT ![Loop] = r] /\ UNCHANGED <<now, user, app, deleg, holder, pending>>
  BY DEF BeginClose
<1>3. txn[Loop].kind # "create" /\ deleg[d].status # "none"
  BY LoopIsTxn, TxnFacts DEF BeginClose, InOrder, IsOpen, OPEN_DELEGATION_ITEM_STATUSES
<1> HIDE DEF r
<1>4. /\ txn' \in [Txn -> Txns] /\ txn'[Loop] = r
      /\ \A k \in Txn \ {Loop} : txn'[k] = txn[k]
  BY <1>1, <1>2, LoopIsTxn, TxnFacts
<1>5. InOrder(Loop)'
  BY <1>1, <1>2, <1>3, <1>4 DEF InOrder
<1> QED
  BY <1>1, <1>2, <1>3, <1>4, <1>5, LoopIsTxn, TxnStep

LEMMA BeginWorkKeeps ==
    ASSUME IInv, BeginWork
    PROVE  IInv'
<1> DEFINE due == {d \in Delegation : deleg[d].status = "scheduled" /\ deleg[d].starts <= now}
           r == [Idle EXCEPT !.kind = "work", !.pc = "activating", !.todo = due, !.at = now]
<1>1. now \in Time
  BY DEF IInv, TypeOK
<1>2. /\ r \in Txns /\ r.kind = "work" /\ r.pc = "activating" /\ r.todo = due /\ r.row = {}
  BY <1>1, IdleIsTxn DEF Txns, Kinds
<1>3. txn' = [txn EXCEPT ![Loop] = r] /\ UNCHANGED <<now, user, app, deleg, holder, pending>>
  BY DEF BeginWork
<1>4. txn[Loop].kind # "create" /\ \A d \in due : deleg[d].status # "none"
  BY LoopIsTxn, TxnFacts DEF BeginWork, InOrder
<1> HIDE DEF r
<1>5. /\ txn' \in [Txn -> Txns] /\ txn'[Loop] = r
      /\ \A k \in Txn \ {Loop} : txn'[k] = txn[k]
  BY <1>2, <1>3, LoopIsTxn, TxnFacts
<1>6. InOrder(Loop)'
  BY <1>2, <1>3, <1>4, <1>5 DEF InOrder
<1> QED
  BY <1>2, <1>3, <1>4, <1>5, <1>6, LoopIsTxn, TxnStep

LEMMA ExamineKeeps ==
    ASSUME IInv, NEW d \in Delegation, Examine(d)
    PROVE  IInv'
<1>1. /\ txn[Loop].pc = "activating" /\ d \in txn[Loop].todo
      /\ UNCHANGED <<now, user, app, deleg, holder, pending>>
  BY DEF Examine
<1>2. /\ Loop \in Txn /\ txn[Loop] \in Txns /\ InOrder(Loop) /\ txn \in [Txn -> Txns]
      /\ txn[Loop].kind # "create"
  BY <1>1, LoopIsTxn, TxnFacts DEF InOrder
<1>3. /\ txn'[Loop] \in Txns
      /\ txn' \in [Txn -> Txns] /\ \A k \in Txn \ {Loop} : txn'[k] = txn[k]
      /\ txn'[Loop].kind = txn[Loop].kind
      /\ txn'[Loop].todo = txn[Loop].todo \ {d}
      /\ \/ txn'[Loop].pc = "activating" /\ txn'[Loop].row = txn[Loop].row
         \/ /\ txn'[Loop].pc = "updating" /\ txn'[Loop].row = {d}
            /\ txn'[Loop].target \in {"failed", "active"}
  <2> DEFINE r == [txn[Loop] EXCEPT !.todo = @ \ {d}]
  <2>1. /\ r \in Txns /\ r.kind = txn[Loop].kind /\ r.todo = txn[Loop].todo \ {d}
        /\ r.pc = "activating" /\ r.row = txn[Loop].row
    BY <1>1, <1>2 DEF Txns
  <2>2. ASSUME NEW s \in {"failed", "active"}
        PROVE  LET q == [txn[Loop] EXCEPT !.todo = @ \ {d}, !.pc = "updating", !.row = {d},
                                          !.target = s]
               IN  /\ q \in Txns /\ q.kind = txn[Loop].kind /\ q.todo = txn[Loop].todo \ {d}
                   /\ q.pc = "updating" /\ q.row = {d} /\ q.target = s
    BY <1>1, <1>2 DEF Txns, DelegationStatuses
  <2>3. \/ txn' = [txn EXCEPT ![Loop] = r]
        \/ \E s \in {"failed", "active"} :
              txn' = [txn EXCEPT ![Loop] =
                         [txn[Loop] EXCEPT !.todo = @ \ {d}, !.pc = "updating", !.row = {d},
                                           !.target = s]]
    BY <1>2 DEF Examine
  <2> QED
    BY <1>2, <2>1, <2>2, <2>3
<1>4. InOrder(Loop)'
  BY <1>1, <1>2, <1>3 DEF InOrder
<1> QED
  BY <1>1, <1>2, <1>3, <1>4, TxnStep

\* A row that is seen with a status has one.
LEMMA SeenExists ==
    ASSUME IInv, NEW t \in Txn, NEW d \in Delegation,
           txn[t].kind # "create", Visible(t, d).status # "none"
    PROVE  deleg[d].status # "none"
<1>1. HeldRow(d) /\ t # None
  BY ConstantsAssumption DEF IInv, Txn
<1> QED
  BY <1>1 DEF HeldRow, Visible

LEMMA BeginExpireKeeps ==
    ASSUME IInv, BeginExpire
    PROVE  IInv'
<1> DEFINE over == {d \in Delegation : /\ Visible(Loop, d).status = "active"
                                       /\ Visible(Loop, d).ends <= txn[Loop].at}
           r == [txn[Loop] EXCEPT !.pc = "closing", !.target = "expired", !.todo = over]
<1>1. /\ txn[Loop].pc = "activating"
      /\ txn' = [txn EXCEPT ![Loop] = r] /\ UNCHANGED <<now, user, app, deleg, holder, pending>>
  BY DEF BeginExpire
<1>2. /\ Loop \in Txn /\ txn[Loop] \in Txns /\ InOrder(Loop) /\ txn \in [Txn -> Txns]
      /\ txn[Loop].kind # "create"
  BY <1>1, LoopIsTxn, TxnFacts DEF InOrder
<1>3. \A d \in over : deleg[d].status # "none"
  BY <1>2, SeenExists
<1>4. over \subseteq Delegation
  OBVIOUS
<1> HIDE DEF over
<1>5. /\ r \in Txns /\ r.kind = txn[Loop].kind /\ r.pc = "closing" /\ r.target = "expired"
      /\ r.todo = over /\ r.row = txn[Loop].row
  BY <1>2, <1>4 DEF Txns, DelegationStatuses
<1> HIDE DEF r
<1>6. /\ txn' \in [Txn -> Txns] /\ txn'[Loop] = r
      /\ \A k \in Txn \ {Loop} : txn'[k] = txn[k]
  BY <1>1, <1>2, <1>5
<1>7. InOrder(Loop)'
  BY <1>1, <1>2, <1>3, <1>5, <1>6 DEF InOrder
<1> QED
  BY <1>1, <1>2, <1>5, <1>6, <1>7, TxnStep

LEMMA CheckRowKeeps ==
    ASSUME IInv, NEW t \in Txn, NEW d \in Delegation, CheckRow(t, d)
    PROVE  IInv'
<1>1. /\ txn[t].pc = "closing" /\ d \in txn[t].todo
      /\ UNCHANGED <<now, user, app, deleg, holder, pending>>
  BY DEF CheckRow
<1>2. /\ txn[t] \in Txns /\ InOrder(t) /\ txn \in [Txn -> Txns]
      /\ txn[t].kind # "create" /\ txn[t].target \in {"expired", "terminated"}
  BY <1>1, TxnFacts DEF InOrder
<1>3. /\ txn'[t] \in Txns
      /\ txn' \in [Txn -> Txns] /\ \A k \in Txn \ {t} : txn'[k] = txn[k]
      /\ txn'[t].kind = txn[t].kind /\ txn'[t].target = txn[t].target
      /\ txn'[t].todo = txn[t].todo \ {d}
      /\ \/ txn'[t].pc = "closing" /\ txn'[t].row = txn[t].row
         \/ txn'[t].pc = "updating" /\ txn'[t].row = {d}
  <2> DEFINE r == [txn[t] EXCEPT !.todo = @ \ {d}]
             q == [txn[t] EXCEPT !.todo = @ \ {d}, !.pc = "updating", !.row = {d}]
  <2>1. /\ r \in Txns /\ r.kind = txn[t].kind /\ r.todo = txn[t].todo \ {d}
        /\ r.pc = "closing" /\ r.row = txn[t].row /\ r.target = txn[t].target
    BY <1>1, <1>2 DEF Txns
  <2>2. /\ q \in Txns /\ q.kind = txn[t].kind /\ q.todo = txn[t].todo \ {d}
        /\ q.pc = "updating" /\ q.row = {d} /\ q.target = txn[t].target
    BY <1>1, <1>2 DEF Txns
  <2>3. txn' = [txn EXCEPT ![t] = r] \/ txn' = [txn EXCEPT ![t] = q]
    BY <1>2 DEF CheckRow
  <2> QED
    BY <1>2, <2>1, <2>2, <2>3
<1>4. InOrder(t)'
  BY <1>1, <1>2, <1>3 DEF InOrder
<1> QED
  BY <1>1, <1>2, <1>3, <1>4, TxnStep

LEMMA SelectKeeps ==
    ASSUME IInv, NEW t \in Txn, Select(t)
    PROVE  IInv'
<1> DEFINE hers == {d \in Delegation : /\ IsOpen(Visible(t, d).status)
                                       /\ txn[t].user \in {Visible(t, d).from, Visible(t, d).to}}
           r == [txn[t] EXCEPT !.pc = "closing", !.target = "terminated", !.left = @ - 1,
                               !.todo = hers]
<1>1. /\ txn[t].pc \in {"select", "closing"} /\ txn[t].left > 0
      /\ txn' = [txn EXCEPT ![t] = r] /\ UNCHANGED <<now, user, app, deleg, holder, pending>>
  BY DEF Select
<1>2. /\ txn[t] \in Txns /\ InOrder(t) /\ txn \in [Txn -> Txns] /\ txn[t].left \in Nat
      /\ txn[t].kind # "create"
  BY <1>1, TxnFacts DEF InOrder
<1>3. \A d \in hers : deleg[d].status # "none"
  <2>1. \A d \in hers : d \in Delegation /\ Visible(t, d).status # "none"
    BY DEF IsOpen, OPEN_DELEGATION_ITEM_STATUSES
  <2> QED
    BY <1>2, <2>1, SeenExists
<1>4. hers \subseteq Delegation /\ txn[t].left - 1 \in Nat
  BY <1>1, <1>2
<1> HIDE DEF hers
<1>5. /\ r \in Txns /\ r.kind = txn[t].kind /\ r.pc = "closing" /\ r.target = "terminated"
      /\ r.todo = hers /\ r.row = txn[t].row
  BY <1>2, <1>4 DEF Txns, DelegationStatuses
<1> HIDE DEF r
<1>6. /\ txn' \in [Txn -> Txns] /\ txn'[t] = r
      /\ \A k \in Txn \ {t} : txn'[k] = txn[k]
  BY <1>1, <1>2, <1>5
<1>7. InOrder(t)'
  BY <1>1, <1>2, <1>3, <1>5, <1>6 DEF InOrder
<1> QED
  BY <1>1, <1>2, <1>5, <1>6, <1>7, TxnStep

\* A superadmin begins: nothing is selected yet.
LEMMA BeginThreadKeeps ==
    ASSUME IInv, NEW t \in Thread, NEW u \in User, BeginBlock(t, u) \/ BeginRevoke(t, u)
    PROVE  IInv'
<1>1. /\ t \in Txn /\ txn \in [Txn -> Txns] /\ txn[t].pc = "idle" /\ txn[t].kind # "create"
      /\ UNCHANGED <<now, user, app, deleg, holder, pending>>
  BY LoopIsTxn, TxnFacts DEF BeginBlock, BeginRevoke, InOrder
<1>2. PICK k \in {"block", "revoke"}, n \in {1, 2} :
         txn' = [txn EXCEPT ![t] =
                    [Idle EXCEPT !.kind = k, !.pc = "select", !.user = u, !.left = n]]
  BY DEF BeginBlock, BeginRevoke
<1> DEFINE r == [Idle EXCEPT !.kind = k, !.pc = "select", !.user = u, !.left = n]
<1>3. r \in Txns /\ r.kind = k /\ r.pc = "select" /\ r.todo = {} /\ r.row = {}
  <2>1. n \in Nat /\ k \in Kinds /\ u \in User \cup {None}
    BY DEF Kinds
  <2> QED
    BY <2>1, IdleIsTxn DEF Txns
<1>4. txn' = [txn EXCEPT ![t] = r]
  BY <1>2
<1> HIDE DEF r
<1>5. /\ txn' \in [Txn -> Txns] /\ txn'[t] = r
      /\ \A j \in Txn \ {t} : txn'[j] = txn[j]
  BY <1>1, <1>3, <1>4
<1>6. InOrder(t)'
  BY <1>3, <1>5 DEF InOrder
<1> QED
  BY <1>1, <1>3, <1>5, <1>6, TxnStep

LEMMA OutsideKeeps ==
    ASSUME IInv,
           \/ \E u \in User : Unblock(u) \/ GiveRole(u) \/ MoveLink(u)
           \/ \E a \in Application : Finish(a)
           \/ Tick
           \/ UNCHANGED vars
    PROVE  IInv'
<1>1. /\ now \in Time
      /\ user \in [User -> [status : {"active", "blocked"}, role : {"client_executor", "none"}]]
      /\ app \in [Application -> User \cup {None}]
  BY DEF IInv, TypeOK
<1>2. ASSUME NEW u \in User, Unblock(u) \/ GiveRole(u) \/ MoveLink(u)
      PROVE  IInv'
  BY <1>1, <1>2, OutsideStep DEF Unblock, GiveRole, MoveLink
<1>3. ASSUME NEW a \in Application, Finish(a)
      PROVE  IInv'
  BY <1>1, <1>3, OutsideStep DEF Finish
<1>4. CASE Tick
  <2>1. now' \in Time
    BY <1>1, <1>4, ConstantsAssumption DEF Tick, Time
  <2> QED
    BY <1>1, <1>4, <2>1, OutsideStep DEF Tick
<1>5. CASE UNCHANGED vars
  BY <1>1, <1>5, OutsideStep DEF vars
<1> QED
  BY <1>2, <1>3, <1>4, <1>5

-----------------------------------------------------------------------------
(***************************************************************************)
(* A creation inserts a row that conflicts with none, and the loop has no  *)
(* other row.                                                              *)
(***************************************************************************)
LEMMA BeginCreateKeeps ==
    ASSUME IInv, NEW d \in Delegation, NEW row \in Rows, BeginCreate(d, row)
    PROVE  IInv'
<1> DEFINE r == [Idle EXCEPT !.kind = "create", !.pc = "finishing"]
<1>1. /\ txn[Loop].pc = "idle" /\ deleg[d].status = "none"
      /\ row.status = IF row.starts <= now THEN "active" ELSE "scheduled"
      /\ \A a \in Application : row.items[a] \in {"none", row.status}
      /\ Valid(Loop, d, row)
      /\ holder' = [holder EXCEPT ![d] = Loop] /\ pending' = [pending EXCEPT ![d] = row]
      /\ txn' = [txn EXCEPT ![Loop] = r]
      /\ UNCHANGED <<now, user, app, deleg>>
  BY DEF BeginCreate, Write
<1>2. r \in Txns /\ r.kind = "create" /\ r.pc = "finishing" /\ r.todo = {} /\ r.row = {}
  BY IdleIsTxn DEF Txns, Kinds
<1> HIDE DEF r
<1>3. /\ TypeOK /\ Loop \in Txn /\ Loop # None
      /\ holder \in [Delegation -> Txn \cup {None}] /\ pending \in [Delegation -> Rows]
      /\ txn \in [Txn -> Txns]
  BY LoopIsTxn, ConstantsAssumption DEF IInv, TypeOK
<1>4. /\ holder'[d] = Loop /\ pending'[d] = row /\ txn'[Loop] = r
      /\ \A c \in Delegation \ {d} : holder'[c] = holder[c] /\ pending'[c] = pending[c]
      /\ \A k \in Txn \ {Loop} : txn'[k] = txn[k]
  BY <1>1, <1>3
<1>5. \A c \in Delegation : holder[c] # Loop
  BY <1>1, <1>3 DEF IInv, HeldRow
<1>6. TypeOK'
  BY <1>1, <1>2, <1>3 DEF TypeOK
<1>7. OneOpenItem' /\ \A c \in Delegation : Coherent(deleg[c])'
  BY <1>1 DEF IInv, OneOpenItem, Coherent
<1>8. HeldRow(d)'
  <2>1. Coherent(row) /\ row.status # "none"
    BY <1>1 DEF Coherent, Valid, IsOpen, OPEN_DELEGATION_ITEM_STATUSES
  <2>2. Created(d)'
    <3>1. \A c \in Delegation : holder'[c] = Loop => c = d
      BY <1>4, <1>5
    <3>2. ASSUME NEW c \in Delegation \ {d}, NEW a \in Application, IsOpen(row.items[a])
          PROVE  ~IsOpen(deleg[c].items[a])
      <4>1. a \in Selected(row)
        BY <3>2 DEF Selected, IsOpen, OPEN_DELEGATION_ITEM_STATUSES
      <4>2. ~Conflict(Loop, d, a)
        BY <1>1, <4>1 DEF Valid
      <4>3. Visible(Loop, c) = deleg[c] /\ Coherent(deleg[c])
        BY <1>5 DEF Visible, IInv
      <4>4. ~(IsOpen(deleg[c].status) /\ IsOpen(deleg[c].items[a]))
        BY <4>2, <4>3 DEF Conflict
      <4> QED
        BY <4>3, <4>4 DEF Coherent
    <3>3. \A a \in Application : row.items[a] = "none" \/ IsOpen(row.items[a])
      BY <1>1 DEF IsOpen, OPEN_DELEGATION_ITEM_STATUSES
    <3> QED
      BY <1>1, <1>4, <3>1, <3>2, <3>3 DEF Created
  <2> QED
    BY <1>2, <1>4, <2>1, <2>2 DEF HeldRow, Coherent
<1>9. ASSUME NEW c \in Delegation \ {d}
      PROVE  HeldRow(c)'
  <2> SUFFICES ASSUME holder[c] # None
               PROVE  HeldRow(c)'
    BY <1>4 DEF HeldRow
  <2>1. /\ HeldRow(c) /\ holder[c] \in Txn \ {Loop} /\ txn'[holder[c]] = txn[holder[c]]
        /\ txn[holder[c]].kind # "create"
    BY <1>3, <1>4, <1>5 DEF IInv, InOrder
  <2> QED
    BY <1>1, <1>4, <2>1 DEF HeldRow, Later, Coherent
<1>10. ASSUME NEW k \in Txn
       PROVE  InOrder(k)'
  <2>1. CASE k = Loop
    BY <1>2, <1>4, <2>1 DEF InOrder
  <2>2. CASE k # Loop
    <3>1. InOrder(k) /\ txn'[k] = txn[k]
      BY <1>4, <2>2 DEF IInv
    <3> QED
      BY <1>1, <3>1 DEF InOrder
  <2> QED
    BY <2>1, <2>2
<1> QED
  BY <1>6, <1>7, <1>8, <1>9, <1>10 DEF IInv

\* Its inputs are rows.
LEMMA CreateKeeps ==
    ASSUME IInv, NEW d \in Delegation, Create(d)
    PROVE  IInv'
<1>1. PICK u \in User, v \in User, A \in SUBSET Application, s \in Time, e \in 0 .. MaxTime + 1 :
         LET status == IF s <= now THEN "active" ELSE "scheduled" IN
         BeginCreate(d, [status |-> status, from |-> u, to |-> v, starts |-> s, ends |-> e,
                         items |-> [a \in Application |-> IF a \in A THEN status ELSE "none"]])
  BY DEF Create
<1> DEFINE status == IF s <= now THEN "active" ELSE "scheduled"
           I == [a \in Application |-> IF a \in A THEN status ELSE "none"]
           row == [status |-> status, from |-> u, to |-> v, starts |-> s, ends |-> e, items |-> I]
<1>2. status \in DelegationStatuses
  BY DEF DelegationStatuses
<1> HIDE DEF status
<1>3. I \in [Application -> DelegationStatuses \cup {"none"}]
  BY <1>2
<1> HIDE DEF I
<1>4. e \in Nat
  BY ConstantsAssumption
<1>5. row \in Rows
  BY <1>2, <1>3, <1>4 DEF Rows
<1>6. BeginCreate(d, row)
  BY <1>1 DEF status, I
<1> QED
  BY <1>5, <1>6, BeginCreateKeeps

(***************************************************************************)
(* An UPDATE takes a row forward from what its transaction sees of it,     *)
(* which is what is committed or comes after it.                           *)
(***************************************************************************)
LEMMA UpdateRowKeeps ==
    ASSUME IInv, NEW t \in Txn, NEW d \in Delegation, UpdateRow(t, d)
    PROVE  IInv'
<1> DEFINE s == txn[t].target
           row == IF s = "active" THEN Activated(Visible(t, d)) ELSE Closed(Visible(t, d), s)
<1>1. /\ txn[t].pc = "updating" /\ d \in txn[t].row /\ holder[d] \in {t, None}
      /\ holder' = [holder EXCEPT ![d] = t] /\ pending' = [pending EXCEPT ![d] = row]
      /\ UNCHANGED <<now, user, app, deleg>>
  BY DEF UpdateRow, Write, Free
<1>2. /\ TypeOK /\ t # None
      /\ holder \in [Delegation -> Txn \cup {None}] /\ pending \in [Delegation -> Rows]
      /\ txn \in [Txn -> Txns] /\ txn[t] \in Txns
  BY TxnFacts, ConstantsAssumption DEF IInv, TypeOK, Txn
<1>3. /\ s \in {"active", "failed", "expired", "cancelled", "terminated"}
      /\ s = "cancelled" => txn[t].kind = "close"
      /\ txn[t].kind # "create" /\ deleg[d].status # "none"
  BY <1>1, TxnFacts DEF InOrder
<1>4. /\ Visible(t, d) \in Rows /\ Coherent(Visible(t, d)) /\ Visible(t, d).status # "none"
      /\ Later(deleg[d], Visible(t, d))
  <2>1. Later(deleg[d], Visible(t, d))
    <3>1. CASE holder[d] = t
      BY <1>2, <1>3, <3>1 DEF IInv, HeldRow, Visible
    <3>2. CASE holder[d] # t
      BY <3>2, LaterReflexive DEF Visible
    <3> QED
      BY <3>1, <3>2
  <2> QED
    BY <1>3, <2>1, VisibleIsCoherent
<1>5. row \in Rows /\ Coherent(row) /\ row.status # "none" /\ Later(deleg[d], row)
  <2>1. row \in Rows /\ Coherent(row) /\ row.status # "none" /\ Later(Visible(t, d), row)
    <3>1. CASE s = "active"
      BY <1>4, <3>1, ActivatedIsLater
    <3>2. CASE s # "active"
      <4>1. s \in ClosedStatuses
        BY <1>3, <3>2 DEF ClosedStatuses
      <4> QED
        BY <1>4, <3>2, <4>1, ClosedIsLater
    <3> QED
      BY <3>1, <3>2
  <2> QED
    BY <1>4, <2>1, LaterTransitive
<1> HIDE DEF row
<1>6. PICK p \in {"activating", "finishing", "closing"} :
         /\ txn' = [txn EXCEPT ![t].row = {}, ![t].pc = p]
         /\ p = "closing" => s \in {"expired", "terminated"}
  <2> DEFINE q == CASE s \in {"active", "failed"} -> "activating"
                    [] txn[t].kind = "close"      -> "finishing"
                    [] OTHER                      -> "closing"
  <2>1. txn' = [txn EXCEPT ![t].row = {}, ![t].pc = q]
    BY DEF UpdateRow
  <2>2. q \in {"activating", "finishing", "closing"}
    OBVIOUS
  <2>3. q = "closing" => s \in {"expired", "terminated"}
    BY <1>3
  <2> HIDE DEF q
  <2> QED
    BY <2>1, <2>2, <2>3
<1>7. /\ txn'[t] \in Txns /\ txn'[t].pc = p /\ txn'[t].row = {}
      /\ txn'[t].kind = txn[t].kind /\ txn'[t].todo = txn[t].todo /\ txn'[t].target = s
      /\ txn' \in [Txn -> Txns]
      /\ \A k \in Txn \ {t} : txn'[k] = txn[k]
  BY <1>2, <1>6 DEF Txns
<1>8. /\ holder'[d] = t /\ pending'[d] = row
      /\ \A c \in Delegation \ {d} : holder'[c] = holder[c] /\ pending'[c] = pending[c]
  BY <1>1, <1>2
<1>9. TypeOK'
  BY <1>1, <1>2, <1>5, <1>7 DEF TypeOK
<1>10. OneOpenItem' /\ \A c \in Delegation : Coherent(deleg[c])'
  BY <1>1 DEF IInv, OneOpenItem, Coherent
<1>11. HeldRow(d)'
  BY <1>1, <1>3, <1>5, <1>6, <1>7, <1>8 DEF HeldRow, Coherent, Later
<1>12. ASSUME NEW c \in Delegation \ {d}
       PROVE  HeldRow(c)'
  <2> SUFFICES ASSUME holder[c] # None
               PROVE  HeldRow(c)'
    BY <1>8 DEF HeldRow
  <2>1. /\ HeldRow(c) /\ holder[c] \in Txn
        /\ txn'[holder[c]].kind = txn[holder[c]].kind /\ txn'[holder[c]].pc # "idle"
    BY <1>2, <1>6, <1>7 DEF IInv, HeldRow
  <2>2. CASE txn[holder[c]].kind = "create"
    <3>1. Created(c) /\ t # Loop
      BY <1>3, <2>1, <2>2 DEF HeldRow, Created
    <3>2. Created(c)'
      BY <1>1, <1>8, <3>1 DEF Created
    <3> QED
      BY <1>8, <2>1, <2>2, <3>2 DEF HeldRow, Coherent
  <2>3. CASE txn[holder[c]].kind # "create"
    BY <1>1, <1>8, <2>1, <2>3 DEF HeldRow, Later, Coherent
  <2> QED
    BY <2>2, <2>3
<1>13. ASSUME NEW k \in Txn
       PROVE  InOrder(k)'
  <2>1. InOrder(k)
    BY DEF IInv
  <2>2. CASE k = t
    BY <1>1, <1>3, <1>6, <1>7, <2>1, <2>2 DEF InOrder
  <2>3. CASE k # t
    BY <1>1, <1>7, <2>1, <2>3 DEF InOrder
  <2> QED
    BY <2>2, <2>3
<1> QED
  BY <1>9, <1>10, <1>11, <1>12, <1>13 DEF IInv

-----------------------------------------------------------------------------
(***************************************************************************)
(* The end of a transaction: it holds nothing, and others hold what they   *)
(* held.                                                                   *)
(***************************************************************************)
LEMMA ReleaseFrees ==
    ASSUME IInv, NEW t \in Txn, Release(t)
    PROVE  /\ holder' \in [Delegation -> Txn \cup {None}]
           /\ pending' \in [Delegation -> Rows]
           /\ txn' \in [Txn -> Txns]
           /\ \A d \in Delegation :
                 /\ holder'[d] # t
                 /\ holder[d] = t => holder'[d] = None
                 /\ holder[d] # t => holder'[d] = holder[d] /\ pending'[d] = pending[d]
           /\ txn'[t] = Idle /\ \A k \in Txn \ {t} : txn'[k] = txn[k]
<1>1. /\ holder \in [Delegation -> Txn \cup {None}] /\ pending \in [Delegation -> Rows]
      /\ txn \in [Txn -> Txns] /\ t # None
  BY ConstantsAssumption DEF IInv, TypeOK, Txn
<1>2. NoRow \in Rows
  <2>1. 0 \in Time /\ 0 \in Nat
    BY ConstantsAssumption DEF Time
  <2>2. [a \in Application |-> "none"] \in [Application -> DelegationStatuses \cup {"none"}]
    OBVIOUS
  <2> QED
    BY <2>1, <2>2 DEF NoRow, Rows
<1>3. /\ holder' = [d \in Delegation |-> IF holder[d] = t THEN None ELSE holder[d]]
      /\ pending' = [d \in Delegation |-> IF holder[d] = t THEN NoRow ELSE pending[d]]
      /\ txn' = [txn EXCEPT ![t] = Idle]
  BY DEF Release
<1> QED
  BY <1>1, <1>2, <1>3, IdleIsTxn

\* What becomes of the order of the transactions when one ends.
LEMMA ReleaseKeepsOrder ==
    ASSUME IInv, NEW t \in Txn,
           txn'[t] = Idle, \A k \in Txn \ {t} : txn'[k] = txn[k],
           \A d \in Delegation : deleg[d].status # "none" => deleg'[d].status # "none"
    PROVE  \A k \in Txn : InOrder(k)'
<1> SUFFICES ASSUME NEW k \in Txn
             PROVE  InOrder(k)'
  OBVIOUS
<1>1. CASE k = t
  BY <1>1, IdleIsTxn DEF InOrder
<1>2. CASE k # t
  <2>1. /\ InOrder(k) /\ txn'[k] = txn[k]
        /\ txn[k].todo \subseteq Delegation /\ txn[k].row \subseteq Delegation
    BY <1>2, TxnFacts DEF IInv
  <2> QED
    BY <2>1 DEF InOrder
<1> QED
  BY <1>1, <1>2

\* What a superadmin's transaction changes besides keeps the types.
LEMMA EffectIsTyped ==
    ASSUME IInv, NEW t \in Txn, Effect(t)
    PROVE  /\ user' \in [User -> [status : {"active", "blocked"},
                                  role : {"client_executor", "none"}]]
           /\ app' \in [Application -> User \cup {None}]
<1>1. /\ user \in [User -> [status : {"active", "blocked"}, role : {"client_executor", "none"}]]
      /\ app \in [Application -> User \cup {None}]
  BY DEF IInv, TypeOK
<1>2. CASE txn[t].kind = "block"
  <2>1. user' = [user EXCEPT ![txn[t].user].status = "blocked"]
    BY <1>2 DEF Effect
  <2>2. PICK v \in User \cup {None} : app' = Hands(txn[t].user, v)
    BY <1>2 DEF Effect
  <2>3. user' \in [User -> [status : {"active", "blocked"}, role : {"client_executor", "none"}]]
    BY <1>1, <2>1
  <2> QED
    BY <1>1, <2>2, <2>3 DEF Hands
<1>3. CASE txn[t].kind = "revoke"
  BY <1>1, <1>3 DEF Effect
<1>4. CASE txn[t].kind \notin {"block", "revoke"}
  BY <1>1, <1>4 DEF Effect
<1> QED
  BY <1>2, <1>3, <1>4

(***************************************************************************)
(* What a commit makes of the committed rows: the row of a creation is     *)
(* new, every other row comes after itself.                                *)
(***************************************************************************)
LEMMA CommitAdvances ==
    ASSUME IInv, NEW t \in Txn, Commit(t), NEW d \in Delegation
    PROVE  /\ deleg'[d] \in Rows /\ Coherent(deleg'[d])
           /\ deleg[d].status # "none" => deleg'[d].status # "none"
           /\ holder[d] # t => deleg'[d] = deleg[d]
           /\ \/ Later(deleg[d], deleg'[d])
              \/ /\ Created(d) /\ t = Loop /\ txn[t].kind = "create"
                 /\ deleg'[d] = pending[d]
<1>1. deleg'[d] = Visible(t, d)
  BY DEF Commit
<1>2. CASE holder[d] # t
  BY <1>1, <1>2, VisibleIsCoherent, LaterReflexive DEF Visible
<1>3. CASE holder[d] = t
  <2>1. HeldRow(d) /\ t # None /\ deleg'[d] = pending[d]
    BY <1>1, <1>3, ConstantsAssumption DEF IInv, Txn, Visible
  <2>2. \/ Later(deleg[d], pending[d])
        \/ Created(d) /\ t = Loop /\ txn[t].kind = "create"
    BY <1>3, <2>1 DEF HeldRow, Created
  <2> QED
    BY <1>1, <1>3, <2>1, <2>2, VisibleIsCoherent
<1> QED
  BY <1>2, <1>3

LEMMA CommitKeeps ==
    ASSUME IInv, NEW t \in Txn, Commit(t)
    PROVE  IInv'
<1>1. /\ deleg' = [d \in Delegation |-> Visible(t, d)]
      /\ Effect(t) /\ Release(t) /\ now' = now
  BY DEF Commit
<1>2. /\ \A d \in Delegation :
            /\ deleg'[d] \in Rows /\ Coherent(deleg'[d])
            /\ deleg[d].status # "none" => deleg'[d].status # "none"
            /\ holder[d] # t => deleg'[d] = deleg[d]
  BY CommitAdvances
<1>3. /\ holder' \in [Delegation -> Txn \cup {None}]
      /\ pending' \in [Delegation -> Rows]
      /\ txn' \in [Txn -> Txns]
      /\ \A d \in Delegation :
            /\ holder'[d] # t
            /\ holder[d] = t => holder'[d] = None
            /\ holder[d] # t => holder'[d] = holder[d] /\ pending'[d] = pending[d]
      /\ txn'[t] = Idle /\ \A k \in Txn \ {t} : txn'[k] = txn[k]
  BY <1>1, ReleaseFrees
<1>4. TypeOK'
  <2>1. deleg' \in [Delegation -> Rows]
    BY <1>1, <1>2
  <2>2. now' \in Time
    BY <1>1 DEF IInv, TypeOK
  <2>3. \A d \in Delegation :
           deleg'[d].status # "none" =>
              deleg'[d].ends > deleg'[d].starts /\ deleg'[d].from # deleg'[d].to
    BY <1>2 DEF Coherent
  <2> QED
    BY <1>1, <1>3, <2>1, <2>2, <2>3, EffectIsTyped DEF TypeOK
<1>5. \A d \in Delegation, a \in Application :
         IsOpen(deleg'[d].items[a]) =>
            \/ IsOpen(deleg[d].items[a])
            \/ Created(d) /\ t = Loop /\ txn[t].kind = "create" /\ deleg'[d] = pending[d]
  BY CommitAdvances, OpenIsLaterOpen
<1>6. OneOpenItem'
  <2> SUFFICES ASSUME NEW a \in Application, NEW c \in Delegation, NEW d \in Delegation,
                      IsOpen(deleg'[c].items[a]), IsOpen(deleg'[d].items[a]), c # d
               PROVE  FALSE
    BY DEF OneOpenItem
  <2>1. ASSUME NEW e \in Delegation, NEW f \in Delegation \ {e},
               Created(e), t = Loop, deleg'[e] = pending[e],
               IsOpen(deleg'[e].items[a]), IsOpen(deleg'[f].items[a])
        PROVE  FALSE
    <3>1. holder[f] # t /\ ~IsOpen(deleg[f].items[a])
      BY <2>1 DEF Created
    <3> QED
      BY <1>2, <2>1, <3>1
  <2>2. CASE IsOpen(deleg[c].items[a]) /\ IsOpen(deleg[d].items[a])
    BY <2>2 DEF IInv, OneOpenItem
  <2>3. CASE ~IsOpen(deleg[c].items[a])
    BY <1>5, <2>1, <2>3
  <2>4. CASE ~IsOpen(deleg[d].items[a])
    BY <1>5, <2>1, <2>4
  <2> QED
    BY <2>2, <2>3, <2>4
<1>7. ASSUME NEW d \in Delegation
      PROVE  HeldRow(d)'
  <2> SUFFICES ASSUME holder'[d] # None
               PROVE  HeldRow(d)'
    BY DEF HeldRow
  <2>1. /\ holder[d] # t /\ holder'[d] = holder[d] /\ pending'[d] = pending[d]
        /\ deleg'[d] = deleg[d]
        /\ HeldRow(d) /\ holder[d] \in Txn \ {t} /\ txn'[holder[d]] = txn[holder[d]]
    BY <1>2, <1>3 DEF IInv, TypeOK
  <2>2. CASE txn[holder[d]].kind = "create"
    <3>1. Created(d) /\ t # Loop
      BY <2>1, <2>2 DEF HeldRow, Created
    <3>2. Created(d)'
      <4>1. \A c \in Delegation : holder'[c] = Loop => c = d
        BY <1>3, <3>1, LoopIsTxn, ConstantsAssumption DEF Created
      <4>2. \A c \in Delegation \ {d}, a \in Application :
               IsOpen(pending'[d].items[a]) => ~IsOpen(deleg'[c].items[a])
        BY <1>5, <2>1, <3>1 DEF Created
      <4> QED
        BY <2>1, <3>1, <4>1, <4>2 DEF Created
    <3> QED
      BY <2>1, <2>2, <3>2 DEF HeldRow, Coherent
  <2>3. CASE txn[holder[d]].kind # "create"
    BY <2>1, <2>3 DEF HeldRow, Later, Coherent
  <2> QED
    BY <2>2, <2>3
<1>8. \A k \in Txn : InOrder(k)'
  BY <1>2, <1>3, ReleaseKeepsOrder
<1>9. \A d \in Delegation : Coherent(deleg[d])'
  BY <1>2 DEF Coherent
<1> QED
  BY <1>4, <1>6, <1>7, <1>8, <1>9 DEF IInv

LEMMA AbortKeeps ==
    ASSUME IInv, NEW t \in Txn, Abort(t)
    PROVE  IInv'
<1>1. Release(t) /\ UNCHANGED <<now, user, app, deleg>>
  BY DEF Abort
<1>2. /\ holder' \in [Delegation -> Txn \cup {None}]
      /\ pending' \in [Delegation -> Rows]
      /\ txn' \in [Txn -> Txns]
      /\ \A d \in Delegation :
            /\ holder'[d] # t
            /\ holder[d] = t => holder'[d] = None
            /\ holder[d] # t => holder'[d] = holder[d] /\ pending'[d] = pending[d]
      /\ txn'[t] = Idle /\ \A k \in Txn \ {t} : txn'[k] = txn[k]
  BY <1>1, ReleaseFrees
<1>3. TypeOK'
  BY <1>1, <1>2 DEF IInv, TypeOK
<1>4. OneOpenItem' /\ \A d \in Delegation : Coherent(deleg[d])'
  BY <1>1 DEF IInv, OneOpenItem, Coherent
<1>5. ASSUME NEW d \in Delegation
      PROVE  HeldRow(d)'
  <2> SUFFICES ASSUME holder'[d] # None
               PROVE  HeldRow(d)'
    BY DEF HeldRow
  <2>1. /\ holder'[d] = holder[d] /\ pending'[d] = pending[d]
        /\ HeldRow(d) /\ holder[d] \in Txn \ {t} /\ txn'[holder[d]] = txn[holder[d]]
    BY <1>2 DEF IInv, TypeOK
  <2>2. CASE txn[holder[d]].kind = "create"
    <3>1. Created(d) /\ t # Loop
      BY <2>1, <2>2 DEF HeldRow, Created
    <3>2. \A c \in Delegation : holder'[c] = Loop => c = d
      BY <1>2, <3>1, LoopIsTxn, ConstantsAssumption DEF Created
    <3> QED
      BY <1>1, <2>1, <2>2, <3>1, <3>2 DEF HeldRow, Created, Coherent
  <2>3. CASE txn[holder[d]].kind # "create"
    BY <1>1, <2>1, <2>3 DEF HeldRow, Later, Coherent
  <2> QED
    BY <2>2, <2>3
<1>6. \A k \in Txn : InOrder(k)'
  BY <1>1, <1>2, ReleaseKeepsOrder
<1> QED
  BY <1>3, <1>4, <1>5, <1>6 DEF IInv

-----------------------------------------------------------------------------
\* Initially there is no delegation and no transaction.
LEMMA Initially == Init => IInv
<1> SUFFICES ASSUME Init
             PROVE  IInv
  OBVIOUS
<1>1. /\ \A d \in Delegation : deleg[d] = NoRow /\ holder[d] = None
      /\ \A t \in Txn : txn[t] = Idle
  BY DEF Init
<1>2. 0 \in Time /\ 0 \in Nat
  BY ConstantsAssumption DEF Time
<1>3. NoRow \in Rows /\ NoRow.status = "none" /\ \A a \in Application : NoRow.items[a] = "none"
  <2>1. [a \in Application |-> "none"] \in [Application -> DelegationStatuses \cup {"none"}]
    OBVIOUS
  <2> QED
    BY <1>2, <2>1 DEF NoRow, Rows
<1>4. ~IsOpen("none")
  BY DEF IsOpen, OPEN_DELEGATION_ITEM_STATUSES
<1>5. TypeOK
  BY <1>1, <1>2, <1>3, IdleIsTxn DEF Init, TypeOK
<1>6. OneOpenItem
  BY <1>1, <1>3, <1>4 DEF OneOpenItem
<1>7. \A d \in Delegation : Coherent(deleg[d]) /\ HeldRow(d)
  BY <1>1, <1>3, <1>4 DEF Coherent, HeldRow
<1>8. \A t \in Txn : InOrder(t)
  BY <1>1, IdleIsTxn DEF InOrder
<1> QED
  BY <1>5, <1>6, <1>7, <1>8 DEF IInv

LEMMA Steps == IInv /\ [Next]_vars => IInv'
<1> SUFFICES ASSUME IInv, [Next]_vars
             PROVE  IInv'
  OBVIOUS
<1>1. ASSUME NEW d \in Delegation, Create(d) \/ Examine(d)
      PROVE  IInv'
  BY <1>1, CreateKeeps, ExamineKeeps
<1>2. ASSUME NEW d \in Delegation, NEW s \in {"cancelled", "terminated"}, BeginClose(d, s)
      PROVE  IInv'
  BY <1>2, BeginCloseKeeps
<1>3. CASE BeginWork \/ BeginExpire
  BY <1>3, BeginWorkKeeps, BeginExpireKeeps
<1>4. ASSUME NEW t \in Thread, NEW u \in User, BeginBlock(t, u) \/ BeginRevoke(t, u)
      PROVE  IInv'
  BY <1>4, BeginThreadKeeps
<1>5. ASSUME NEW t \in Txn, Step(t)
      PROVE  IInv'
  <2>1. ASSUME NEW d \in Delegation, UpdateRow(t, d) \/ CheckRow(t, d)
        PROVE  IInv'
    BY <2>1, UpdateRowKeeps, CheckRowKeeps
  <2>2. CASE Select(t) \/ Commit(t) \/ Abort(t)
    BY <2>2, SelectKeeps, CommitKeeps, AbortKeeps
  <2> QED
    BY <1>5, <2>1, <2>2 DEF Step
<1>6. CASE \/ \E u \in User : Unblock(u) \/ GiveRole(u) \/ MoveLink(u)
           \/ \E a \in Application : Finish(a)
           \/ Tick
           \/ UNCHANGED vars
  BY <1>6, OutsideKeeps
<1> QED
  BY <1>1, <1>2, <1>3, <1>4, <1>5, <1>6 DEF Next

(***************************************************************************)
(* The invariant of the delegations.                                       *)
(***************************************************************************)
THEOREM DelegationsInvariant == Spec => []IInv
<1>1. IInv /\ [Next]_vars => IInv'
  BY Steps
<1> QED
  BY Initially, <1>1, PTL DEF Spec

(***************************************************************************)
(* Type correctness; and every stored delegation has a period and two      *)
(* different users (TypeOK).                                               *)
(***************************************************************************)
THEOREM DelegationsTypeCorrect == Spec => []TypeOK
<1>1. IInv => TypeOK
  BY DEF IInv
<1> QED
  BY DelegationsInvariant, <1>1, PTL

(***************************************************************************)
(* The conflict check keeps the open items of an application to one,       *)
(* although superadmins' threads commit between the check and the insert   *)
(* (OneOpenItem).                                                          *)
(***************************************************************************)
THEOREM OpenItemsExclude == Spec => []OneOpenItem
<1>1. IInv => OneOpenItem
  BY DEF IInv
<1> QED
  BY DelegationsInvariant, <1>1, PTL

(***************************************************************************)
(* Whoever writes a delegation, an open item is in the state of its        *)
(* delegation (ItemsFollow).                                               *)
(***************************************************************************)
THEOREM ItemsFollowDelegation == Spec => []ItemsFollow
<1>1. IInv => ItemsFollow
  BY DEF IInv, ItemsFollow, Coherent
<1> QED
  BY DelegationsInvariant, <1>1, PTL

-----------------------------------------------------------------------------
(***************************************************************************)
(* The access that an item gives, as AccessGrants calls it.                *)
(***************************************************************************)
GrantOf(row, a) ==
    IF row.items[a] \in {"none", "scheduled", "active"} THEN row.items[a] ELSE "closed"

\* A row that comes after another moves each grant forward.
LEMMA LaterMovesForward ==
    ASSUME NEW s, NEW r, Later(s, r), NEW a \in Application
    PROVE  GrantOf(r, a) = GrantOf(s, a) \/ <<GrantOf(s, a), GrantOf(r, a)>> \in Grants!Moves
<1>1. /\ <<"scheduled", "active">> \in Grants!Moves
      /\ <<"scheduled", "closed">> \in Grants!Moves /\ <<"active", "closed">> \in Grants!Moves
  BY DEF Grants!Moves
<1>2. CASE r.items[a] = s.items[a]
  BY <1>2 DEF GrantOf
<1>3. CASE s.items[a] = "scheduled" /\ r.items[a] = "active"
  BY <1>1, <1>3 DEF GrantOf
<1>4. CASE IsOpen(s.items[a]) /\ r.items[a] \notin {"none", "scheduled", "active"}
  BY <1>1, <1>4 DEF GrantOf, IsOpen, OPEN_DELEGATION_ITEM_STATUSES
<1> QED
  BY <1>2, <1>3, <1>4 DEF Later

\* The row of a creation gives the first grants of its delegation.
LEMMA CreationMovesForward ==
    ASSUME IInv, NEW d \in Delegation, Created(d), NEW a \in Application
    PROVE  \/ GrantOf(pending[d], a) = GrantOf(deleg[d], a)
           \/ <<GrantOf(deleg[d], a), GrantOf(pending[d], a)>> \in Grants!Moves
<1>1. deleg[d].items[a] = "none"
  BY DEF Created, IInv, Coherent
<1>2. pending[d].items[a] \in {"none", "scheduled", "active"}
  BY DEF Created, IsOpen, OPEN_DELEGATION_ITEM_STATUSES
<1>3. <<"none", "scheduled">> \in Grants!Moves /\ <<"none", "active">> \in Grants!Moves
  BY DEF Grants!Moves
<1> QED
  BY <1>1, <1>2, <1>3 DEF GrantOf

\* Only a commit changes a grant, and it moves every grant forward or keeps it.
LEMMA StepsMoveForward ==
    ASSUME IInv, [Next]_vars
    PROVE  \/ deleg' = deleg
           \/ \A d \in Delegation, a \in Application :
                 \/ GrantOf(deleg'[d], a) = GrantOf(deleg[d], a)
                 \/ <<GrantOf(deleg[d], a), GrantOf(deleg'[d], a)>> \in Grants!Moves
<1>1. CASE \E t \in Txn : Commit(t)
  <2> SUFFICES ASSUME NEW t \in Txn, Commit(t), NEW d \in Delegation, NEW a \in Application
               PROVE  \/ GrantOf(deleg'[d], a) = GrantOf(deleg[d], a)
                      \/ <<GrantOf(deleg[d], a), GrantOf(deleg'[d], a)>> \in Grants!Moves
    BY <1>1
  <2>1. CASE Later(deleg[d], deleg'[d])
    BY <2>1, LaterMovesForward
  <2>2. CASE Created(d) /\ deleg'[d] = pending[d]
    BY <2>2, CreationMovesForward
  <2> QED
    BY <2>1, <2>2, CommitAdvances
<1>2. CASE ~\E t \in Txn : Commit(t)
  <2>1. ASSUME NEW d \in Delegation, Create(d) \/ Examine(d)
        PROVE  deleg' = deleg
    <3>1. \A row : BeginCreate(d, row) => deleg' = deleg
      BY DEF BeginCreate
    <3>2. Create(d) => \E row : BeginCreate(d, row)
      BY Zenon DEF Create
    <3>3. Examine(d) => deleg' = deleg
      BY DEF Examine
    <3> QED
      BY <2>1, <3>1, <3>2, <3>3
  <2>2. ASSUME NEW d \in Delegation, NEW s \in {"cancelled", "terminated"}, BeginClose(d, s)
        PROVE  deleg' = deleg
    BY <2>2 DEF BeginClose
  <2>3. CASE BeginWork \/ BeginExpire
    BY <2>3 DEF BeginWork, BeginExpire
  <2>4. ASSUME NEW t \in Thread, NEW u \in User, BeginBlock(t, u) \/ BeginRevoke(t, u)
        PROVE  deleg' = deleg
    BY <2>4 DEF BeginBlock, BeginRevoke
  <2>5. ASSUME NEW t \in Txn, Step(t)
        PROVE  deleg' = deleg
    BY <1>2, <2>5 DEF Step, UpdateRow, CheckRow, Select, Abort
  <2>6. CASE \/ \E u \in User : Unblock(u) \/ GiveRole(u) \/ MoveLink(u)
             \/ \E a \in Application : Finish(a)
             \/ Tick
             \/ UNCHANGED vars
    BY <2>6 DEF Unblock, GiveRole, MoveLink, Finish, Tick, vars
  <2> QED
    BY <2>1, <2>2, <2>3, <2>4, <2>5, <2>6 DEF Next
<1> QED
  BY <1>1, <1>2

(***************************************************************************)
(* Delegating implements AccessGrants: access that was taken back is not   *)
(* given again by the same delegation, and never by two at a time          *)
(* (GrantsMoveForward).                                                    *)
(***************************************************************************)
THEOREM ImplementsAccessGrants == Spec => GrantsMoveForward
<1> DEFINE G == [d \in Delegation |-> [a \in Application |-> GrantOf(deleg[d], a)]]
<1>1. Init => Grants!Init
  <2> SUFFICES ASSUME Init
               PROVE  Grants!Init
    OBVIOUS
  <2>1. \A d \in Delegation, a \in Application : deleg[d].items[a] = "none"
    BY DEF Init, NoRow
  <2> QED
    BY <2>1 DEF Grants!Init
<1>2. IInv /\ IInv' /\ [Next]_vars => [Grants!Next]_[d \in Delegation |-> [a \in Application |->
                          IF deleg[d].items[a] \in {"none", "scheduled", "active"}
                          THEN deleg[d].items[a]
                          ELSE "closed"]]
  <2> SUFFICES ASSUME IInv, IInv', [Next]_vars
               PROVE  Grants!Next \/ G' = G
    BY DEF GrantOf
  <2>1. CASE deleg' = deleg
    BY <2>1 DEF GrantOf
  <2>2. CASE \A d \in Delegation, a \in Application :
                 \/ GrantOf(deleg'[d], a) = GrantOf(deleg[d], a)
                 \/ <<GrantOf(deleg[d], a), GrantOf(deleg'[d], a)>> \in Grants!Moves
    <3>1. \A d \in Delegation, a \in Application : GrantOf(deleg'[d], a) \in Grants!States
      BY DEF GrantOf, Grants!States
    <3>2. Grants!Exclusive(G')
      <4>1. OneOpenItem'
        BY DEF IInv
      <4>2. \A d \in Delegation, a \in Application :
               G'[d][a] \in {"scheduled", "active"} => IsOpen(deleg'[d].items[a])
        BY DEF GrantOf, IsOpen, OPEN_DELEGATION_ITEM_STATUSES
      <4> HIDE DEF G
      <4> QED
        BY <4>1, <4>2 DEF Grants!Exclusive, Grants!Open, OneOpenItem
    <3> QED
      BY <2>2, <3>1, <3>2 DEF Grants!Next, GrantOf
  <2> QED
    BY <2>1, <2>2, StepsMoveForward
<1> QED
  BY <1>1, <1>2, DelegationsInvariant, PTL DEF Spec, GrantsMoveForward, Grants!Spec
=============================================================================
