---------------------------- MODULE DealSyncProofs ----------------------------
(***************************************************************************)
(* What DealSync keeps true for every set of applications, calls, numbers  *)
(* and files, proved from an inductive invariant.                          *)
(***************************************************************************)
EXTENDS DealSync, TLAPS

\* The policy that a deal, or the reply with it, names.
Named(d) == [number |-> d.number, file |-> d.file]

\* What a deal names now is one of the policies that it has named.
DealsAreLogged ==
    \A a \in Application : deal[a].number # None => Named(deal[a]) \in past[a]

(***************************************************************************)
(* What a call has in hand: an application and the status that was read    *)
(* with it, and a reply that was the deal of that application once.        *)
(***************************************************************************)
CallsAreConsistent ==
    \A k \in Call :
        /\ call[k].reply # NoReply => call[k].app # None
        /\ call[k].app # None => call[k].read \in Status
        /\ call[k].reply \notin {NoReply, Failure} =>
               /\ call[k].reply \in Deal
               /\ call[k].reply.number # None => Named(call[k].reply) \in past[call[k].app]

IInv ==
    /\ TypeOK
    /\ IssuedHasPolicy
    /\ PolicyOfOneReply
    /\ DealsAreLogged
    /\ CallsAreConsistent

-----------------------------------------------------------------------------
\* Nothing that is no reply is a deal.
LEMMA RepliesDiffer ==
    /\ NoReply \notin Deal /\ Failure \notin Deal /\ NoReply # Failure
    /\ Idle \in Calls /\ Idle.app = None /\ Idle.reply = NoReply
    BY DEF NoReply, Failure, Deal, Stage, Idle, Calls

\* A stage has a status of the portal or none, and every status is one of them.
LEMMA StatusIsMapped ==
    ASSUME NEW read \in Status, NEW reply \in Deal
    PROVE  Mapped(read, reply) \in Status /\ StatusAfter(read, reply) \in Status
BY DEF Mapped, StageMapping, StatusAfter, Status, ACTIVE_SYNC_STATUSES

(***************************************************************************)
(* A step of one call that leaves the applications and the policies alone. *)
(***************************************************************************)
LEMMA CallStep ==
    ASSUME IInv, NEW k \in Call, NEW c \in Calls,
           call' = [call EXCEPT ![k] = c],
           UNCHANGED <<deal, app, policy, doc, past, moves>>,
           c.reply # NoReply => c.app # None,
           c.app # None => c.read \in Status,
           c.reply \notin {NoReply, Failure} =>
               /\ c.reply \in Deal
               /\ c.reply.number # None => Named(c.reply) \in past[c.app]
    PROVE  IInv'
<1>1. TypeOK'
  BY DEF IInv, TypeOK
<1>2. IssuedHasPolicy' /\ PolicyOfOneReply' /\ DealsAreLogged'
  BY DEF IInv, IssuedHasPolicy, PolicyOfOneReply, DealsAreLogged
<1>3. CallsAreConsistent'
  <2>1. \A j \in Call : call'[j] = IF j = k THEN c ELSE call[j]
    BY DEF IInv, TypeOK
  <2> QED
    BY <2>1 DEF IInv, CallsAreConsistent
<1> QED
  BY <1>1, <1>2, <1>3 DEF IInv

-----------------------------------------------------------------------------
(***************************************************************************)
(* At first no application is issued and no deal names a policy.           *)
(***************************************************************************)
LEMMA Initially == Init => IInv
<1> SUFFICES ASSUME Init
             PROVE  IInv
  OBVIOUS
<1>1. TypeOK
  <2>1. deal \in [Application -> Deal]
    BY DEF Init, Deal, Stage
  <2>2. doc \in [Application -> [File -> {"none", "uploaded", "policy_file"}]]
    BY DEF Init
  <2>3. call \in [Call -> Calls]
    BY RepliesDiffer DEF Init
  <2> QED
    BY <2>1, <2>2, <2>3, ConstantsAssumption DEF Init, TypeOK, Status
<1>2. IssuedHasPolicy /\ PolicyOfOneReply
  BY DEF Init, IssuedHasPolicy, PolicyOfOneReply
<1>3. DealsAreLogged
  BY DEF Init, DealsAreLogged
<1>4. CallsAreConsistent
  BY RepliesDiffer DEF Init, CallsAreConsistent
<1> QED
  BY <1>1, <1>2, <1>3, <1>4 DEF IInv

(***************************************************************************)
(* The staff change a deal: what it names is added to what it has named.   *)
(***************************************************************************)
LEMMA WorkKeeps ==
    ASSUME IInv, NEW a \in Application, NEW d \in Deal, Work(a, d)
    PROVE  IInv'
<1>1. past' \in [Application -> SUBSET Policy] /\ \A b \in Application : past[b] \subseteq past'[b]
  BY DEF IInv, TypeOK, Work
<1>2. TypeOK'
  BY <1>1, ConstantsAssumption DEF IInv, TypeOK, Work
<1>3. IssuedHasPolicy' /\ PolicyOfOneReply'
  BY <1>1 DEF IInv, IssuedHasPolicy, PolicyOfOneReply, Work
<1>4. DealsAreLogged'
  <2> SUFFICES ASSUME NEW b \in Application, deal'[b].number # None
               PROVE  Named(deal'[b]) \in past'[b]
    BY DEF DealsAreLogged
  <2>1. CASE b = a
    <3>1. deal'[a] = d /\ past'[a] =
              past[a] \cup {p \in Policy : p.number = d.number /\ p.file = d.file}
      BY DEF Work, IInv, TypeOK
    <3>2. Named(d) \in Policy
      BY <2>1, <3>1 DEF Named, Deal, Policy
    <3> QED
      BY <2>1, <3>1, <3>2 DEF Named
  <2>2. CASE b # a
    BY <1>1, <2>2 DEF Work, IInv, TypeOK, DealsAreLogged
  <2> QED
    BY <2>1, <2>2
<1>5. CallsAreConsistent'
  <2> SUFFICES ASSUME NEW k \in Call
               PROVE  /\ call[k].reply # NoReply => call[k].app # None
                      /\ call[k].app # None => call[k].read \in Status
                      /\ call[k].reply \notin {NoReply, Failure} =>
                             /\ call[k].reply \in Deal
                             /\ call[k].reply.number # None =>
                                    Named(call[k].reply) \in past'[call[k].app]
    BY DEF CallsAreConsistent, Work
  <2>1. call[k].app \in Application \cup {None}
    BY DEF IInv, TypeOK, Calls
  <2> QED
    BY <1>1, <2>1 DEF IInv, CallsAreConsistent
<1> QED
  BY <1>2, <1>3, <1>4, <1>5 DEF IInv

\* The application gets its deal.
LEMMA LinkKeeps ==
    ASSUME IInv, NEW a \in Application, Link(a)
    PROVE  IInv'
<1>1. TypeOK'
  <2>1. /\ app[a] \in [status : Status, sync : {"pending", "synced", "failed"}, warning : BOOLEAN]
        /\ app' = [app EXCEPT ![a] = [app[a] EXCEPT !.status = "received", !.sync = "synced"]]
    BY DEF IInv, TypeOK, Link
  <2>2. app'[a] \in [status : Status, sync : {"pending", "synced", "failed"}, warning : BOOLEAN]
    BY <2>1 DEF IInv, TypeOK, Status, ACTIVE_SYNC_STATUSES
  <2>3. app' \in [Application -> [status : Status, sync : {"pending", "synced", "failed"},
                                  warning : BOOLEAN]]
    BY <2>1, <2>2 DEF IInv, TypeOK
  <2> QED
    BY <2>3 DEF IInv, TypeOK, Link
<1>2. IssuedHasPolicy'
  BY DEF IInv, TypeOK, Link, IssuedHasPolicy
<1>3. PolicyOfOneReply' /\ DealsAreLogged' /\ CallsAreConsistent'
  BY DEF IInv, Link, PolicyOfOneReply, DealsAreLogged, CallsAreConsistent
<1> QED
  BY <1>1, <1>2, <1>3 DEF IInv

(***************************************************************************)
(* A call that goes on with the rest of its list has nothing in hand.      *)
(***************************************************************************)
LEMMA ContinueIsConsistent ==
    ASSUME IInv, NEW k \in Call, past' = past,
           call' = [call EXCEPT ![k] = [Idle EXCEPT !.todo = Rest(k)]]
    PROVE  call' \in [Call -> Calls] /\ CallsAreConsistent'
<1> DEFINE new == [Idle EXCEPT !.todo = Rest(k)]
<1>1. new \in Calls /\ new.app = None /\ new.reply = NoReply
  <2>1. call[k].todo \subseteq Application
    BY DEF IInv, TypeOK, Calls
  <2> QED
    BY <2>1 DEF Idle, Calls, Rest
<1> HIDE DEF new
<1>2. \A j \in Call : call'[j] = IF j = k THEN new ELSE call[j]
  BY DEF IInv, TypeOK, new
<1> QED
  BY <1>1, <1>2 DEF IInv, TypeOK, CallsAreConsistent, new

(***************************************************************************)
(* What is written at the end of a synchronisation: issued only with the   *)
(* policy of this reply and its document.                                  *)
(***************************************************************************)
LEMMA FinishKeeps ==
    ASSUME IInv, NEW k \in Call, Finish(k)
    PROVE  IInv'
<1> DEFINE a == call[k].app
           read == call[k].read
           reply == call[k].reply
           new == Named(reply)
<1>1. /\ a \in Application /\ read \in Status /\ reply \in Deal
      /\ reply.number # None => new \in past[a] /\ new \in Policy
  <2>1. reply \notin {NoReply, Failure}
    BY DEF Finish
  <2>2. a \in Application /\ read \in Status /\ reply \in Deal
    BY <2>1 DEF IInv, TypeOK, Calls, CallsAreConsistent
  <2>3. reply.number # None => new \in past[a]
    BY <2>1 DEF IInv, CallsAreConsistent
  <2> QED
    BY <2>2, <2>3 DEF Deal, Policy, Named
<1>2. StatusAfter(read, reply) \in Status
  BY <1>1, StatusIsMapped
<1>3. /\ policy' \in [Application -> SUBSET Policy]
      /\ doc' \in [Application -> [File -> {"none", "uploaded", "policy_file"}]]
      /\ \A b \in Application : \A p, q \in policy'[b] : p = q
      /\ \A b \in Application : policy'[b] \subseteq past[b]
      /\ \A b \in Application \ {a} : policy'[b] = policy[b] /\ doc'[b] = doc[b]
      /\ Issues(read, reply) => \E p \in policy'[a] : doc'[a][p.file] = "policy_file"
  <2>1. CASE Issues(read, reply)
    <3>1. reply.number # None
      BY <2>1 DEF Issues, PolicyComplete
    <3>2. /\ policy' = [policy EXCEPT ![a] = {new}]
          /\ doc' = [doc EXCEPT ![a][reply.file] = "policy_file"]
      BY <2>1 DEF Finish, Upserted, Named
    <3>3. new \in past[a] /\ new \in Policy /\ new.file = reply.file /\ reply.file \in File
      BY <1>1, <3>1 DEF Named, Deal
    <3> HIDE DEF new
    <3>4. /\ policy' \in [Application -> SUBSET Policy]
          /\ \A b \in Application : \A p, q \in policy'[b] : p = q
          /\ \A b \in Application : policy'[b] \subseteq past[b]
      BY <1>1, <3>2, <3>3 DEF IInv, TypeOK, PolicyOfOneReply
    <3>5. /\ doc' \in [Application -> [File -> {"none", "uploaded", "policy_file"}]]
          /\ doc'[a][reply.file] = "policy_file"
      BY <1>1, <3>2, <3>3 DEF IInv, TypeOK
    <3>6. \A b \in Application \ {a} : policy'[b] = policy[b] /\ doc'[b] = doc[b]
      BY <3>2 DEF IInv, TypeOK
    <3>7. new \in policy'[a]
      BY <1>1, <3>2 DEF IInv, TypeOK
    <3> QED
      BY <3>3, <3>4, <3>5, <3>6, <3>7
  <2>2. CASE ~Issues(read, reply)
    BY <2>2 DEF Finish, IInv, TypeOK, PolicyOfOneReply
  <2> QED
    BY <2>1, <2>2
<1>4. /\ app' \in [Application -> [status : Status, sync : {"pending", "synced", "failed"},
                                  warning : BOOLEAN]]
      /\ app'[a].status = StatusAfter(read, reply)
      /\ \A b \in Application \ {a} : app'[b] = app[b]
  BY <1>1, <1>2 DEF Finish, IInv, TypeOK
<1>5. /\ call' = [call EXCEPT ![k] = [Idle EXCEPT !.todo = Rest(k)]]
      /\ UNCHANGED <<deal, past, moves>>
  BY DEF Finish, Continue
<1>6. TypeOK' /\ CallsAreConsistent'
  <2>1. call' \in [Call -> Calls] /\ CallsAreConsistent'
    BY <1>5, ContinueIsConsistent
  <2> QED
    BY <1>3, <1>4, <1>5, <2>1 DEF IInv, TypeOK
<1>7. IssuedHasPolicy'
  <2> SUFFICES ASSUME NEW b \in Application, app'[b].status = "policy_issued"
               PROVE  \E p \in policy'[b] : doc'[b][p.file] = "policy_file"
    BY DEF IssuedHasPolicy
  <2>1. CASE b = a
    <3>1. Issues(read, reply)
      BY <1>4, <2>1 DEF StatusAfter, Issues, POLICY_ISSUED_STATUSES
    <3> QED
      BY <1>3, <2>1, <3>1
  <2>2. CASE b # a
    BY <1>3, <1>4, <2>2 DEF IInv, IssuedHasPolicy
  <2> QED
    BY <2>1, <2>2
<1>8. PolicyOfOneReply' /\ DealsAreLogged'
  BY <1>3, <1>5 DEF IInv, PolicyOfOneReply, DealsAreLogged
<1> QED
  BY <1>6, <1>7, <1>8 DEF IInv

\* A failed request leaves what is there and is counted as failed.
LEMMA FinishFailedKeeps ==
    ASSUME IInv, NEW k \in Call, FinishFailed(k)
    PROVE  IInv'
<1> DEFINE a == call[k].app
<1>1. /\ app' = [app EXCEPT ![a] = [app[a] EXCEPT !.sync = "failed"]]
      /\ call' = [call EXCEPT ![k] = [Idle EXCEPT !.todo = Rest(k)]]
      /\ UNCHANGED <<deal, policy, doc, past, moves>>
  BY DEF FinishFailed, Continue, IInv, TypeOK
<1>2. a \in Application
  BY RepliesDiffer DEF FinishFailed, IInv, TypeOK, Calls, CallsAreConsistent
<1>3. call' \in [Call -> Calls] /\ CallsAreConsistent'
  BY <1>1, ContinueIsConsistent
<1>4. /\ app' \in [Application -> [status : Status, sync : {"pending", "synced", "failed"},
                                  warning : BOOLEAN]]
      /\ \A b \in Application : app'[b].status = app[b].status
  <2> DEFINE Row == [status : Status, sync : {"pending", "synced", "failed"}, warning : BOOLEAN]
             failed == [app[a] EXCEPT !.sync = "failed"]
  <2>1. app \in [Application -> Row]
    BY DEF IInv, TypeOK
  <2>2. failed \in Row /\ failed.status = app[a].status
    BY <1>2, <2>1
  <2>3. app' = [app EXCEPT ![a] = failed]
    BY <1>1
  <2> HIDE DEF failed, Row
  <2>4. app' \in [Application -> Row] /\ \A b \in Application : app'[b].status = app[b].status
    BY <1>2, <2>1, <2>2, <2>3
  <2> QED
    BY <2>4 DEF Row
<1>5. TypeOK'
  BY <1>1, <1>3, <1>4 DEF IInv, TypeOK
<1>6. IssuedHasPolicy' /\ PolicyOfOneReply' /\ DealsAreLogged'
  BY <1>1, <1>4 DEF IInv, IssuedHasPolicy, PolicyOfOneReply, DealsAreLogged
<1> QED
  BY <1>3, <1>5, <1>6 DEF IInv

-----------------------------------------------------------------------------
(***************************************************************************)
(* Every step of the portal, of Bitrix24 and of the staff keeps the        *)
(* invariant.                                                              *)
(***************************************************************************)
THEOREM SyncInductive == IInv /\ [Next]_vars => IInv'
<1> SUFFICES ASSUME IInv, [Next]_vars
             PROVE  IInv'
  OBVIOUS
<1>1. ASSUME NEW k \in Call, NEW A \in SUBSET Application, Begin(k, A)
      PROVE  IInv'
  <2>1. [Idle EXCEPT !.todo = A] \in Calls
    BY DEF Idle, Calls
  <2>2. call' = [call EXCEPT ![k] = [Idle EXCEPT !.todo = A]]
    BY <1>1 DEF Begin, IInv, TypeOK
  <2>3. [Idle EXCEPT !.todo = A].app = None /\ [Idle EXCEPT !.todo = A].reply = NoReply
    BY DEF Idle
  <2> QED
    BY <1>1, <2>1, <2>2, <2>3, CallStep DEF Begin
<1>2. ASSUME NEW k \in Call, NEW a \in Application, Ask(k, a)
      PROVE  IInv'
  <2> DEFINE asked == [call[k] EXCEPT !.app = a, !.read = app[a].status]
             skipped == [call[k] EXCEPT !.todo = @ \ {a}]
  <2>1. call[k] \in Calls /\ call[k].app = None /\ call[k].reply = NoReply
    BY <1>2 DEF Ask, IInv, TypeOK, CallsAreConsistent
  <2>2. app[a].status \in Status
    BY DEF IInv, TypeOK
  <2>3. CASE Linked(a)
    <3>1. /\ asked \in Calls /\ asked.app = a /\ a # None
          /\ asked.read \in Status /\ asked.reply = NoReply
      BY <2>1, <2>2, ConstantsAssumption DEF Calls
    <3>2. call' = [call EXCEPT ![k] = asked]
      BY <1>2, <2>3 DEF Ask, IInv, TypeOK
    <3> HIDE DEF asked
    <3> QED
      BY <1>2, <3>1, <3>2, CallStep DEF Ask
  <2>4. CASE ~Linked(a)
    <3>1. skipped \in Calls /\ skipped.app = None /\ skipped.reply = NoReply
      BY <2>1 DEF Calls
    <3>2. call' = [call EXCEPT ![k] = skipped]
      BY <1>2, <2>4 DEF Ask, IInv, TypeOK
    <3> HIDE DEF skipped
    <3> QED
      BY <1>2, <3>1, <3>2, CallStep DEF Ask
  <2> QED
    BY <2>3, <2>4
<1>3. ASSUME NEW k \in Call, Answer(k)
      PROVE  IInv'
  <2>1. /\ call[k].app \in Application /\ call[k] \in Calls /\ call[k].read \in Status
        /\ call[k].app # None
    BY <1>3 DEF Answer, IInv, TypeOK, Calls, CallsAreConsistent
  <2>2. PICK reply \in {deal[call[k].app], Failure} : call' = [call EXCEPT ![k].reply = reply]
    BY <1>3 DEF Answer
  <2> DEFINE new == [call[k] EXCEPT !.reply = reply]
  <2>3. reply \in Deal \cup {Failure}
    BY <2>1, <2>2 DEF IInv, TypeOK
  <2>4. /\ new \in Calls /\ new.reply = reply /\ new.app = call[k].app
        /\ new.read = call[k].read
    BY <2>1, <2>3 DEF Calls
  <2>5. call' = [call EXCEPT ![k] = new]
    BY <2>2 DEF IInv, TypeOK
  <2>6. new.reply \notin {NoReply, Failure} =>
            /\ new.reply \in Deal
            /\ new.reply.number # None => Named(new.reply) \in past[new.app]
    BY <2>1, <2>2, <2>3, <2>4 DEF IInv, DealsAreLogged
  <2> HIDE DEF new
  <2> QED
    BY <1>3, <2>1, <2>4, <2>5, <2>6, CallStep DEF Answer
<1>4. ASSUME NEW k \in Call, Abort(k)
      PROVE  IInv'
  BY <1>4, CallStep, RepliesDiffer DEF Abort
<1>5. CASE UNCHANGED vars
  BY <1>5 DEF vars, IInv, TypeOK, IssuedHasPolicy, PolicyOfOneReply, DealsAreLogged,
              CallsAreConsistent
<1> QED
  BY <1>1, <1>2, <1>3, <1>4, <1>5, WorkKeeps, LinkKeeps, FinishKeeps, FinishFailedKeeps
     DEF Next, Step, BeginOne, BeginActive

\* The invariant holds of every state of the system.
THEOREM SyncInvariant == Spec => []IInv
BY Initially, SyncInductive, PTL DEF Spec

(***************************************************************************)
(* The types hold, and an application has one policy at most although no   *)
(* unique index says so.                                                   *)
(***************************************************************************)
THEOREM SyncTypeCorrect == Spec => []TypeOK
<1>1. IInv => TypeOK
  BY DEF IInv
<1> QED
  BY <1>1, SyncInvariant, PTL

(***************************************************************************)
(* What is shown as issued has its policy and the document of it, however  *)
(* synchronisations overlap, fail or are broken off.                       *)
(***************************************************************************)
THEOREM IssuedIsBacked == Spec => []IssuedHasPolicy
<1>1. IInv => IssuedHasPolicy
  BY DEF IInv
<1> QED
  BY <1>1, SyncInvariant, PTL

(***************************************************************************)
(* A policy is never put together from two states of the deal.             *)
(***************************************************************************)
THEOREM PoliciesAreWhole == Spec => []PolicyOfOneReply
<1>1. IInv => PolicyOfOneReply
  BY DEF IInv
<1> QED
  BY <1>1, SyncInvariant, PTL
=============================================================================
