---------------------- MODULE ApplicationSubmitProofs ----------------------
(***************************************************************************)
(* What ApplicationSubmit guarantees for any number of applications,       *)
(* documents, requests and processes, any retry limit and any faults.      *)
(***************************************************************************)
EXTENDS ApplicationSubmit, TLAPS

(***************************************************************************)
(* Attempts numbered 1 .. n are followed by attempt n + 1: the maximum     *)
(* that _next_attempt_no reads exists.                                     *)
(***************************************************************************)
LEMMA NextOfInterval ==
    ASSUME NEW T, NEW n \in Nat, {t.no : t \in T} = 1 .. n
    PROVE  NumberAfter(T) = n + 1
<1>1. CASE T = {}
  <2>1. 1 .. n = {}
    BY <1>1
  <2>2. n = 0
    BY <2>1
  <2> QED
    BY <1>1, <2>2 DEF NumberAfter
<1>2. CASE T # {}
  <2> DEFINE S == {t.no : t \in T}
             c == CHOOSE m \in S : \A t \in T : t.no <= m
  <2>1. n \in S /\ \A t \in T : t.no <= n
    <3>1. \A t \in T : t.no \in 1 .. n
      OBVIOUS
    <3>2. 1 .. n # {}
      BY <1>2, <3>1
    <3> QED
      BY <3>1, <3>2
  <2>2. c \in S /\ \A t \in T : t.no <= c
    BY <2>1
  <2>3. c = n
    <3>1. c \in 1 .. n
      BY <2>2
    <3>2. n <= c
      BY <2>1, <2>2
    <3> QED
      BY <3>1, <3>2
  <2> QED
    BY <1>2, <2>3 DEF NumberAfter
<1> QED
  BY <1>1, <1>2

(***************************************************************************)
(* The initial states satisfy the inductive invariant.                     *)
(***************************************************************************)
LEMMA InitIInv == Init => IInv
<1> SUFFICES ASSUME Init
             PROVE  IInv
  OBVIOUS
<1> USE ConstantsAssumption
<1>1. TypeOK
  BY DEF Init, TypeOK, Rows, PortalStatuses, SUBMIT_ALLOWED_STATUSES, Attempts, Documents,
         TransferStatuses, Requests, IdleRequest, PCs, NoDeal, Calls
<1>2. \A a \in Application : NextAttemptNo(a) = 1 /\ attempts[a] = {}
  BY DEF Init, NextAttemptNo, NumberAfter
<1>3. AttemptLog
  BY <1>2 DEF AttemptLog, Init, NoDeal
<1>4. LinkedDealIsOwn /\ AnswersAgree /\ DocumentsFollowLink /\ OneSubmitter
  BY DEF Init, LinkedDealIsOwn, AnswersAgree, DocumentsFollowLink, OneSubmitter, IdleRequest,
         InTransaction, NoDeal
<1>5. RequestsKeepTheirOwn
  BY DEF Init, RequestsKeepTheirOwn, IdleRequest, InTransaction, NoDeal
<1>6. \A a \in Application : row[a].deal = NoDeal <=> row[a].status \in SUBMIT_ALLOWED_STATUSES
  BY DEF Init, SUBMIT_ALLOWED_STATUSES, NoDeal
<1> QED
  BY <1>1, <1>2, <1>3, <1>4, <1>5, <1>6 DEF IInv

(***************************************************************************)
(* What every step may use of the invariant about the request it belongs   *)
(* to: a request in a transaction holds an unlinked, submittable row.      *)
(***************************************************************************)
LEMMA InTransactionFacts ==
    ASSUME IInv, NEW r \in Request, req[r].pc \in InTransaction
    PROVE  /\ req[r].app \in Application
           /\ req[r].draft \in Draft
           /\ req[r].answer = NoDeal
           /\ req[r].no = NextAttemptNo(req[r].app)
           /\ req[r].no \in Nat \ {0}
           /\ lock[req[r].app] = r
           /\ row[req[r].app].deal = NoDeal
           /\ \A t \in attempts[req[r].app] : t.status # "succeeded" /\ t.no < req[r].no
           /\ \A q \in Request \ {r} : req[q].pc \in InTransaction => req[q].app # req[r].app
           /\ \A q \in Request : req[q].answer # NoDeal => req[q].app # req[r].app
<1> DEFINE a == req[r].app
<1>1. /\ a \in Application
      /\ req[r].draft \in Draft
      /\ req[r].answer = NoDeal
      /\ req[r].no = NextAttemptNo(a)
  BY DEF IInv, RequestsKeepTheirOwn, InTransaction
<1>2. lock[a] = r /\ row[a].deal = NoDeal
  BY DEF IInv, OneSubmitter
<1>3. NextAttemptNo(a) \in Nat \ {0}
  BY <1>1 DEF IInv
<1>4. ASSUME NEW t \in attempts[a]
      PROVE  t.status # "succeeded" /\ t.no < req[r].no
  <2>1. t.no \in 1 .. NextAttemptNo(a) - 1
    BY <1>1, <1>4 DEF IInv, AttemptLog
  <2>2. t.status # "succeeded"
    BY <1>1, <1>2, <1>4 DEF IInv, AttemptLog
  <2> QED
    BY <1>1, <1>3, <2>1, <2>2
<1>5. \A q \in Request \ {r} : req[q].pc \in InTransaction => req[q].app # a
  BY <1>2 DEF IInv, OneSubmitter
<1>6. \A q \in Request : req[q].answer # NoDeal => req[q].app # a
  BY <1>2 DEF IInv, AnswersAgree
<1> QED
  BY <1>1, <1>2, <1>3, <1>4, <1>5, <1>6

(***************************************************************************)
(* A call under way belongs to a request that has not forgotten it.        *)
(***************************************************************************)
LEMMA CallFacts ==
    ASSUME IInv, NEW c \in wire
    PROVE  /\ c \in Calls
           /\ c.req \in Request
           /\ c.app \in Application
           /\ c.draft \in Draft
           /\ req[c.req].pc # "idle"
           /\ req[c.req].app = c.app
<1>1. c \in Calls
  BY DEF IInv, TypeOK
<1> QED
  BY <1>1 DEF Calls, IInv, RequestsKeepTheirOwn

(***************************************************************************)
(* Closing an attempt keeps the log of its application gapless.            *)
(***************************************************************************)
LEMMA FinishAttemptLog ==
    ASSUME IInv, NEW r \in Request, req[r].pc \in InTransaction,
           NEW a, a = req[r].app, NEW n, n = req[r].no,
           NEW s \in {"succeeded", "retry_required"}, NEW d \in Nat,
           attempts' = FinishAttempt(a, n, s, d)
    PROVE  /\ attempts' \in [Application -> SUBSET Attempts]
           /\ \A b \in Application \ {a} : attempts'[b] = attempts[b]
           /\ attempts'[a] = attempts[a] \cup {[no |-> n, status |-> s, deal |-> d]}
           /\ {t.no : t \in attempts'[a]} = 1 .. n
           /\ NumberAfter(attempts'[a]) = n + 1
           /\ \A t, u \in attempts'[a] : t.no = u.no => t = u
<1> DEFINE new == [no |-> n, status |-> s, deal |-> d]
<1>1. a \in Application /\ n \in Nat \ {0} /\ n = NextAttemptNo(a)
  BY InTransactionFacts
<1>2. attempts \in [Application -> SUBSET Attempts]
  BY DEF IInv, TypeOK
<1>3. attempts' = [attempts EXCEPT ![a] = @ \cup {new}]
  BY DEF FinishAttempt
<1>4. attempts'[a] = attempts[a] \cup {new}
  BY <1>1, <1>2, <1>3
<1>5. \A b \in Application \ {a} : attempts'[b] = attempts[b]
  BY <1>1, <1>2, <1>3
<1>6. attempts' \in [Application -> SUBSET Attempts]
  <2>1. new \in Attempts
    BY <1>1 DEF Attempts
  <2> QED
    BY <1>1, <1>2, <1>3, <2>1
<1>7. {t.no : t \in attempts'[a]} = 1 .. n
  <2>1. {t.no : t \in attempts[a]} = 1 .. n - 1
    BY <1>1 DEF IInv, AttemptLog
  <2>2. {t.no : t \in attempts'[a]} = {t.no : t \in attempts[a]} \cup {n}
    <3>1. new.no = n
      OBVIOUS
    <3>2. ASSUME NEW t \in attempts'[a]
          PROVE  t.no \in {u.no : u \in attempts[a]} \cup {n}
      BY <1>4, <3>1, <3>2
    <3>3. ASSUME NEW m \in {u.no : u \in attempts[a]} \cup {n}
          PROVE  m \in {t.no : t \in attempts'[a]}
      BY <1>4, <3>1, <3>3
    <3> QED
      BY <3>2, <3>3
  <2>3. (1 .. n - 1) \cup {n} = 1 .. n
    BY <1>1
  <2> QED
    BY <2>1, <2>2, <2>3
<1>8. NumberAfter(attempts'[a]) = n + 1
  BY <1>1, <1>7, NextOfInterval
<1>9. \A t, u \in attempts'[a] : t.no = u.no => t = u
  <2>1. \A t \in attempts[a] : t.no < n
    BY InTransactionFacts
  <2>2. \A t, u \in attempts[a] : t.no = u.no => t = u
    BY <1>1 DEF IInv, AttemptLog
  <2>3. \A t \in attempts[a] : t.no # new.no
    <3>1. attempts[a] \subseteq Attempts
      BY <1>1, <1>2
    <3>2. \A t \in attempts[a] : t.no \in Nat
      BY <3>1 DEF Attempts
    <3> QED
      BY <1>1, <2>1, <3>2
  <2> QED
    BY <1>4, <2>2, <2>3
<1> QED
  BY <1>4, <1>5, <1>6, <1>7, <1>8, <1>9

(***************************************************************************)
(* A commit that links the application to one of its own deals, whether a  *)
(* lookup or the reply to crm.deal.add named it.                           *)
(***************************************************************************)
LEMMA CommitReceivedStep ==
    ASSUME IInv, NEW r \in Request, req[r].pc \in InTransaction,
           NEW d \in DealsOf(req[r].app), CommitReceived(r, d), UNCHANGED <<deals, wire>>
    PROVE  IInv'
<1>1. PICK a, n : a = req[r].app /\ n = req[r].no
  OBVIOUS
<1>2. /\ a \in Application
      /\ n \in Nat \ {0}
      /\ row[a].deal = NoDeal
      /\ lock[a] = r
      /\ \A t \in attempts[a] : t.status # "succeeded" /\ t.no < n
      /\ \A q \in Request \ {r} : req[q].pc \in InTransaction => req[q].app # a
      /\ \A q \in Request : req[q].answer # NoDeal => req[q].app # a
  BY <1>1, InTransactionFacts
<1>3. d \in DealsOf(a) /\ d \in Nat \ {0} /\ d # NoDeal
  BY <1>1 DEF DealsOf, IInv, TypeOK, NoDeal
<1>4. /\ row \in [Application -> Rows]
      /\ docs \in [Document -> Documents]
      /\ lock \in [Application -> Request \cup {None}]
      /\ req \in [Request -> Requests]
  BY DEF IInv, TypeOK
<1>5. /\ row' \in [Application -> Rows]
      /\ row'[a].deal = d
      /\ row'[a].status = "received"
      /\ \A b \in Application \ {a} : row'[b] = row[b]
  BY <1>1, <1>2, <1>3, <1>4 DEF CommitReceived, MarkReceived, Rows, PortalStatuses
<1>6. /\ docs' \in [Document -> Documents]
      /\ \A x \in Document :
            /\ docs'[x].app = docs[x].app
            /\ \/ docs'[x].deal = docs[x].deal
               \/ docs[x].app = a /\ docs'[x].deal = d
  BY <1>1, <1>3, <1>4 DEF CommitReceived, QueueApplicationDocuments, Documents
<1>7. /\ lock' \in [Application -> Request \cup {None}]
      /\ \A b \in Application \ {a} : lock'[b] = lock[b]
  BY <1>1, <1>4 DEF CommitReceived
<1>8. /\ req' \in [Request -> Requests]
      /\ req'[r].pc = "done"
      /\ req'[r].app = a
      /\ req'[r].answer = d
      /\ req'[r].reply = NoDeal
      /\ \A q \in Request \ {r} : req'[q] = req[q]
  BY <1>1, <1>2, <1>3, <1>4
     DEF CommitReceived, Answered, IdleRequest, Requests, PCs, NoDeal
<1>9. /\ attempts' \in [Application -> SUBSET Attempts]
      /\ \A b \in Application \ {a} : attempts'[b] = attempts[b]
      /\ attempts'[a] = attempts[a] \cup {[no |-> n, status |-> "succeeded", deal |-> d]}
      /\ {t.no : t \in attempts'[a]} = 1 .. n
      /\ NumberAfter(attempts'[a]) = n + 1
      /\ \A t, u \in attempts'[a] : t.no = u.no => t = u
  <2>1. attempts' = FinishAttempt(a, n, "succeeded", d)
    BY <1>1 DEF CommitReceived
  <2>2. d \in Nat /\ "succeeded" \in {"succeeded", "retry_required"}
    BY <1>3
  <2> QED
    BY <1>1, <2>1, <2>2, FinishAttemptLog
<1>10. \A b \in Application : DealsOf(b)' = DealsOf(b)
  BY DEF DealsOf
<1>11. TypeOK'
  BY <1>5, <1>6, <1>7, <1>8, <1>9 DEF IInv, TypeOK
<1>12. LinkedDealIsOwn'
  BY <1>3, <1>5, <1>10 DEF IInv, LinkedDealIsOwn
<1>13. AttemptLog'
  <2>1. ASSUME NEW b \in Application \ {a}
        PROVE  /\ {t.no : t \in attempts'[b]} = 1 .. NumberAfter(attempts'[b]) - 1
               /\ \A t, u \in attempts'[b] : t.no = u.no => t = u
               /\ row'[b].deal # NoDeal <=> \E t \in attempts'[b] : t.status = "succeeded"
               /\ \A t \in attempts'[b] :
                     t.status = "succeeded" =>
                        t.deal = row'[b].deal /\ \A u \in attempts'[b] : u.no <= t.no
    BY <1>5, <1>9 DEF IInv, AttemptLog, NextAttemptNo
  <2>2. {t.no : t \in attempts'[a]} = 1 .. NumberAfter(attempts'[a]) - 1
    BY <1>2, <1>9
  <2>3. /\ \E t \in attempts'[a] : t.status = "succeeded"
        /\ \A t \in attempts'[a] :
              t.status = "succeeded" =>
                 t.deal = row'[a].deal /\ \A u \in attempts'[a] : u.no <= t.no
    <3> DEFINE new == [no |-> n, status |-> "succeeded", deal |-> d]
    <3>1. new.no = n /\ new.status = "succeeded" /\ new.deal = d
      OBVIOUS
    <3>2. new \in attempts'[a] /\ \A t \in attempts'[a] : t.status = "succeeded" => t = new
      BY <1>2, <1>9
    <3>3. \A u \in attempts'[a] : u.no <= n
      <4>1. \A u \in attempts'[a] : u.no \in 1 .. n
        BY <1>9
      <4> QED
        BY <1>2, <4>1
    <3> QED
      BY <1>5, <3>1, <3>2, <3>3
  <2> QED
    BY <1>3, <1>5, <1>9, <2>1, <2>2, <2>3 DEF AttemptLog, NextAttemptNo
<1>14. OneSubmitter'
  BY <1>2, <1>5, <1>7, <1>8 DEF IInv, OneSubmitter, RequestsKeepTheirOwn, InTransaction
<1>15. AnswersAgree'
  BY <1>2, <1>5, <1>8 DEF IInv, AnswersAgree, RequestsKeepTheirOwn
<1>16. DocumentsFollowLink'
  <2>1. ASSUME NEW x \in Document, docs'[x].deal # NoDeal
        PROVE  docs'[x].deal = row'[docs'[x].app].deal
    <3>1. docs[x].app \in Application
      BY <1>4 DEF Documents
    <3> QED
      BY <1>2, <1>5, <1>6, <2>1, <3>1 DEF IInv, DocumentsFollowLink
  <2> QED
    BY <2>1 DEF DocumentsFollowLink
<1>17. RequestsKeepTheirOwn'
  <2>1. ASSUME NEW q \in Request \ {r}
        PROVE  /\ req'[q] = req[q]
               /\ req[q].pc \in InTransaction =>
                     req[q].no = NumberAfter(attempts'[req[q].app])
    <3>1. req[q].pc \in InTransaction =>
             /\ req[q].app \in Application \ {a}
             /\ req[q].no = NumberAfter(attempts[req[q].app])
      BY <1>2 DEF IInv, RequestsKeepTheirOwn, InTransaction, NextAttemptNo
    <3> QED
      BY <1>8, <1>9, <3>1
  <2>2. \A c \in wire' : req'[c.req].pc # "idle" /\ c.app = req'[c.req].app
    BY <1>1, <1>8, CallFacts
  <2> QED
    BY <1>2, <1>8, <2>1, <2>2 DEF IInv, RequestsKeepTheirOwn, InTransaction, NextAttemptNo, DealsOf
<1>18. \A b \in Application :
          /\ row'[b].deal = NoDeal <=> row'[b].status \in SUBMIT_ALLOWED_STATUSES
          /\ NumberAfter(attempts'[b]) \in Nat \ {0}
  <2>1. \A b \in Application \ {a} :
           /\ row'[b].deal = NoDeal <=> row'[b].status \in SUBMIT_ALLOWED_STATUSES
           /\ NumberAfter(attempts'[b]) \in Nat \ {0}
    BY <1>5, <1>9 DEF IInv, NextAttemptNo
  <2>2. /\ row'[a].deal # NoDeal
        /\ row'[a].status \notin SUBMIT_ALLOWED_STATUSES
        /\ NumberAfter(attempts'[a]) \in Nat \ {0}
    BY <1>2, <1>3, <1>5, <1>9 DEF SUBMIT_ALLOWED_STATUSES
  <2> QED
    BY <2>1, <2>2
<1> QED
  BY <1>11, <1>12, <1>13, <1>14, <1>15, <1>16, <1>17, <1>18
     DEF IInv, NextAttemptNo

(***************************************************************************)
(* A commit that records a failed attempt, of the lookup or of the call    *)
(* that was to create the deal.                                            *)
(***************************************************************************)
LEMMA CommitFailureStep ==
    ASSUME IInv, NEW r \in Request, req[r].pc \in InTransaction,
           CommitFailure(r), deals' = deals, wire' \subseteq wire
    PROVE  IInv'
<1>1. PICK a, n : a = req[r].app /\ n = req[r].no
  OBVIOUS
<1>2. /\ a \in Application
      /\ n \in Nat \ {0}
      /\ row[a].deal = NoDeal
      /\ lock[a] = r
      /\ \A t \in attempts[a] : t.status # "succeeded" /\ t.no < n
      /\ \A q \in Request \ {r} : req[q].pc \in InTransaction => req[q].app # a
      /\ \A q \in Request : req[q].answer # NoDeal => req[q].app # a
  BY <1>1, InTransactionFacts
<1>3. docs' = docs
  BY DEF CommitFailure
<1>4. /\ row \in [Application -> Rows]
      /\ lock \in [Application -> Request \cup {None}]
      /\ req \in [Request -> Requests]
  BY DEF IInv, TypeOK
<1>5. /\ row' \in [Application -> Rows]
      /\ row'[a].deal = NoDeal
      /\ row'[a].status = "submit_error"
      /\ \A b \in Application \ {a} : row'[b] = row[b]
  BY <1>1, <1>2, <1>4
     DEF CommitFailure, MarkSubmitError, Rows, PortalStatuses, SUBMIT_ALLOWED_STATUSES
<1>6. DocumentsFollowLink'
  <2>1. ASSUME NEW x \in Document, docs[x].deal # NoDeal
        PROVE  docs[x].deal = row'[docs[x].app].deal
    BY <1>2, <1>5, <2>1 DEF IInv, TypeOK, Documents, DocumentsFollowLink
  <2> QED
    BY <1>3, <2>1 DEF DocumentsFollowLink
<1>7. /\ lock' \in [Application -> Request \cup {None}]
      /\ \A b \in Application \ {a} : lock'[b] = lock[b]
  BY <1>1, <1>4 DEF CommitFailure
<1>8. /\ req' \in [Request -> Requests]
      /\ req'[r].pc = "done"
      /\ req'[r].app = a
      /\ req'[r].answer = NoDeal
      /\ req'[r].reply = NoDeal
      /\ \A q \in Request \ {r} : req'[q] = req[q]
  BY <1>1, <1>2, <1>4
     DEF CommitFailure, Answered, IdleRequest, Requests, PCs, NoDeal
<1>9. /\ attempts' \in [Application -> SUBSET Attempts]
      /\ \A b \in Application \ {a} : attempts'[b] = attempts[b]
      /\ attempts'[a] = attempts[a] \cup {[no |-> n, status |-> "retry_required", deal |-> NoDeal]}
      /\ {t.no : t \in attempts'[a]} = 1 .. n
      /\ NumberAfter(attempts'[a]) = n + 1
      /\ \A t, u \in attempts'[a] : t.no = u.no => t = u
  <2>1. attempts' = FinishAttempt(a, n, "retry_required", NoDeal)
    BY <1>1 DEF CommitFailure
  <2>2. NoDeal \in Nat /\ "retry_required" \in {"succeeded", "retry_required"}
    BY DEF NoDeal
  <2> QED
    BY <1>1, <2>1, <2>2, FinishAttemptLog
<1>10. \A b \in Application : DealsOf(b)' = DealsOf(b)
  BY DEF DealsOf
<1>11. TypeOK'
  BY <1>3, <1>5, <1>7, <1>8, <1>9 DEF IInv, TypeOK
<1>12. LinkedDealIsOwn'
  BY <1>5, <1>10 DEF IInv, LinkedDealIsOwn
<1>13. AttemptLog'
  <2>1. ASSUME NEW b \in Application \ {a}
        PROVE  /\ {t.no : t \in attempts'[b]} = 1 .. NumberAfter(attempts'[b]) - 1
               /\ \A t, u \in attempts'[b] : t.no = u.no => t = u
               /\ row'[b].deal # NoDeal <=> \E t \in attempts'[b] : t.status = "succeeded"
               /\ \A t \in attempts'[b] :
                     t.status = "succeeded" =>
                        t.deal = row'[b].deal /\ \A u \in attempts'[b] : u.no <= t.no
    BY <1>5, <1>9 DEF IInv, AttemptLog, NextAttemptNo
  <2>2. {t.no : t \in attempts'[a]} = 1 .. NumberAfter(attempts'[a]) - 1
    BY <1>2, <1>9
  <2>3. \A t \in attempts'[a] : t.status # "succeeded"
    BY <1>2, <1>9
  <2> QED
    BY <1>5, <1>9, <2>1, <2>2, <2>3 DEF AttemptLog, NextAttemptNo
<1>14. OneSubmitter'
  BY <1>2, <1>5, <1>7, <1>8 DEF IInv, OneSubmitter, RequestsKeepTheirOwn, InTransaction
<1>15. AnswersAgree'
  BY <1>2, <1>5, <1>8 DEF IInv, AnswersAgree, RequestsKeepTheirOwn
<1>16. RequestsKeepTheirOwn'
  <2>1. ASSUME NEW q \in Request \ {r}
        PROVE  /\ req'[q] = req[q]
               /\ req[q].pc \in InTransaction =>
                     req[q].no = NumberAfter(attempts'[req[q].app])
    <3>1. req[q].pc \in InTransaction =>
             /\ req[q].app \in Application \ {a}
             /\ req[q].no = NumberAfter(attempts[req[q].app])
      BY <1>2 DEF IInv, RequestsKeepTheirOwn, InTransaction, NextAttemptNo
    <3> QED
      BY <1>8, <1>9, <3>1
  <2>2. ASSUME NEW c \in wire'
        PROVE  req'[c.req].pc # "idle" /\ c.app = req'[c.req].app
    BY <1>1, <1>8, CallFacts
  <2> QED
    BY <1>2, <1>8, <2>1, <2>2 DEF IInv, RequestsKeepTheirOwn, InTransaction, NextAttemptNo, DealsOf
<1>17. \A b \in Application :
          /\ row'[b].deal = NoDeal <=> row'[b].status \in SUBMIT_ALLOWED_STATUSES
          /\ NumberAfter(attempts'[b]) \in Nat \ {0}
  <2>1. \A b \in Application \ {a} :
           /\ row'[b].deal = NoDeal <=> row'[b].status \in SUBMIT_ALLOWED_STATUSES
           /\ NumberAfter(attempts'[b]) \in Nat \ {0}
    BY <1>5, <1>9 DEF IInv, NextAttemptNo
  <2>2. /\ row'[a].deal = NoDeal
        /\ row'[a].status \in SUBMIT_ALLOWED_STATUSES
        /\ NumberAfter(attempts'[a]) \in Nat \ {0}
    BY <1>2, <1>5, <1>9 DEF SUBMIT_ALLOWED_STATUSES
  <2> QED
    BY <2>1, <2>2
<1> QED
  BY <1>6, <1>11, <1>12, <1>13, <1>14, <1>15, <1>16, <1>17
     DEF IInv, NextAttemptNo

(***************************************************************************)
(* A step that writes neither the application's row nor its attempts       *)
(* leaves most of the invariant alone.                                     *)
(***************************************************************************)
LEMMA RequestStep ==
    ASSUME IInv, UNCHANGED <<row, attempts, deals>>, TypeOK', DocumentsFollowLink',
           OneSubmitter', AnswersAgree', RequestsKeepTheirOwn'
    PROVE  IInv'
<1>1. LinkedDealIsOwn'
  BY DEF IInv, LinkedDealIsOwn, DealsOf
<1>2. AttemptLog'
  BY DEF IInv, AttemptLog, NextAttemptNo
<1>3. \A a \in Application :
         /\ row'[a].deal = NoDeal <=> row'[a].status \in SUBMIT_ALLOWED_STATUSES
         /\ NumberAfter(attempts'[a]) \in Nat \ {0}
  BY DEF IInv, NextAttemptNo
<1> QED
  BY <1>1, <1>2, <1>3 DEF IInv, NextAttemptNo

(***************************************************************************)
(* A request arrives, to submit an application or to edit its draft.       *)
(***************************************************************************)
LEMMA ArriveStep ==
    ASSUME IInv, NEW r \in Request, NEW a \in Application, NEW pc \in Synchronous,
           NEW d \in Draft, req[r].pc = "idle",
           req' = [req EXCEPT ![r] = [IdleRequest EXCEPT !.pc = pc, !.app = a, !.draft = d]],
           UNCHANGED <<row, attempts, docs, lock, deals, wire>>
    PROVE  IInv'
<1>1. /\ req' \in [Request -> Requests]
      /\ req'[r].pc = pc /\ pc \notin {"idle", "done"} /\ pc \notin InTransaction
      /\ req'[r].app = a
      /\ req'[r].draft = d
      /\ req'[r].answer = NoDeal
      /\ req'[r].reply = NoDeal
      /\ \A q \in Request \ {r} : req'[q] = req[q]
  BY DEF IInv, TypeOK, Requests, IdleRequest, Synchronous, InTransaction, PCs, NoDeal
<1>2. TypeOK'
  BY <1>1 DEF IInv, TypeOK
<1>3. DocumentsFollowLink'
  BY DEF IInv, DocumentsFollowLink
<1>4. OneSubmitter'
  BY <1>1 DEF IInv, OneSubmitter
<1>5. AnswersAgree'
  BY <1>1 DEF IInv, AnswersAgree
<1>6. RequestsKeepTheirOwn'
  <2>1. ASSUME NEW c \in wire'
        PROVE  req'[c.req].pc # "idle" /\ c.app = req'[c.req].app
    BY <1>1, CallFacts
  <2> QED
    BY <1>1, <2>1 DEF IInv, RequestsKeepTheirOwn, NextAttemptNo, DealsOf
<1> QED
  BY <1>2, <1>3, <1>4, <1>5, <1>6, RequestStep

(***************************************************************************)
(* A submit of a linked application queues its documents again and answers *)
(* with the deal it finds.                                                 *)
(***************************************************************************)
LEMMA AnswerAtOnceStep ==
    ASSUME IInv, NEW r \in Request, AnswerAtOnce(r)
    PROVE  IInv'
<1>1. PICK a : a = req[r].app
  OBVIOUS
<1>2. a \in Application
  BY <1>1 DEF AnswerAtOnce, IInv, RequestsKeepTheirOwn
<1>3. /\ req' \in [Request -> Requests]
      /\ req'[r].pc = "done"
      /\ req'[r].app = a
      /\ req'[r].answer = row[a].deal
      /\ req'[r].reply = NoDeal
      /\ \A q \in Request \ {r} : req'[q] = req[q]
  BY <1>1, <1>2
     DEF AnswerAtOnce, Answered, IInv, TypeOK, Rows, Requests, IdleRequest, PCs, NoDeal
<1>4. /\ docs' \in [Document -> Documents]
      /\ \A x \in Document :
            /\ docs'[x].app = docs[x].app
            /\ \/ docs'[x].deal = docs[x].deal
               \/ docs[x].app = a /\ docs'[x].deal = row[a].deal
  BY <1>1, <1>2
     DEF AnswerAtOnce, QueueApplicationDocuments, IInv, TypeOK, Rows, Documents
<1>5. UNCHANGED <<row, attempts, lock, deals, wire>>
  BY DEF AnswerAtOnce
<1>6. TypeOK'
  BY <1>3, <1>4, <1>5 DEF IInv, TypeOK
<1>7. DocumentsFollowLink'
  BY <1>4, <1>5 DEF IInv, DocumentsFollowLink
<1>8. OneSubmitter'
  BY <1>3, <1>5 DEF IInv, OneSubmitter, InTransaction
<1>9. AnswersAgree'
  BY <1>3, <1>5 DEF IInv, AnswersAgree
<1>10. RequestsKeepTheirOwn'
  <2>1. ASSUME NEW c \in wire'
        PROVE  req'[c.req].pc # "idle" /\ c.app = req'[c.req].app
    BY <1>1, <1>3, <1>5, CallFacts
  <2> QED
    BY <1>2, <1>3, <1>5, <2>1
       DEF IInv, RequestsKeepTheirOwn, InTransaction, NextAttemptNo, DealsOf
<1> QED
  BY <1>5, <1>6, <1>7, <1>8, <1>9, <1>10, RequestStep

(***************************************************************************)
(* The lock excludes: nobody else is in a transaction on the application.  *)
(***************************************************************************)
LEMMA StartAttemptStep ==
    ASSUME IInv, NEW r \in Request, StartAttempt(r)
    PROVE  IInv'
<1>1. PICK a : a = req[r].app
  OBVIOUS
<1>2. /\ a \in Application
      /\ lock[a] = None
      /\ req[r].pc = "locking"
      /\ row[a].deal = NoDeal
      /\ req[r].draft \in Draft
      /\ req[r].answer = NoDeal
  BY <1>1 DEF StartAttempt, Unlocked, IInv, RequestsKeepTheirOwn
<1>3. NextAttemptNo(a) \in Nat
  BY <1>2 DEF IInv
<1>4. /\ req' \in [Request -> Requests]
      /\ req'[r].pc \in {"lookup", "create"}
      /\ req'[r].app = a
      /\ req'[r].draft = req[r].draft
      /\ req'[r].no = NextAttemptNo(a)
      /\ req'[r].answer = req[r].answer
      /\ req'[r].reply = req[r].reply
      /\ \A q \in Request \ {r} : req'[q] = req[q]
  <2>1. PICK pc \in {"lookup", "create"} :
           req' = [req EXCEPT ![r].no = NextAttemptNo(a), ![r].pc = pc]
    <3>1. (IF HasPreviousAttempt(a) THEN "lookup" ELSE "create") \in {"lookup", "create"}
      OBVIOUS
    <3> QED
      BY <1>1, <3>1 DEF StartAttempt
  <2>2. req \in [Request -> Requests] /\ pc \in PCs
    BY DEF IInv, TypeOK, PCs
  <2> QED
    BY <1>1, <1>3, <2>1, <2>2 DEF Requests
<1>5. UNCHANGED <<row, attempts, docs, deals, wire>>
  BY DEF StartAttempt
<1>6. /\ lock' \in [Application -> Request \cup {None}]
      /\ lock'[a] = r
      /\ \A b \in Application \ {a} : lock'[b] = lock[b]
  BY <1>1, <1>2 DEF StartAttempt, IInv, TypeOK
<1>7. TypeOK'
  BY <1>4, <1>5, <1>6 DEF IInv, TypeOK
<1>8. DocumentsFollowLink'
  BY <1>5 DEF IInv, DocumentsFollowLink
<1>9. OneSubmitter'
  <2>1. ASSUME NEW q \in Request \ {r}, req[q].pc \in InTransaction
        PROVE  req[q].app \in Application \ {a}
    <3>1. lock[req[q].app] = q /\ q # None
      BY <2>1, ConstantsAssumption DEF IInv, OneSubmitter
    <3>2. req[q].app \in Application
      BY <2>1 DEF IInv, RequestsKeepTheirOwn, InTransaction
    <3> QED
      BY <1>2, <3>1, <3>2
  <2> QED
    BY <1>2, <1>4, <1>5, <1>6, <2>1 DEF IInv, OneSubmitter
<1>10. AnswersAgree'
  BY <1>2, <1>4, <1>5 DEF IInv, AnswersAgree
<1>11. RequestsKeepTheirOwn'
  <2>1. ASSUME NEW c \in wire'
        PROVE  req'[c.req].pc # "idle" /\ c.app = req'[c.req].app
    BY <1>1, <1>2, <1>4, <1>5, CallFacts
  <2>2. req[r].reply = NoDeal
    BY <1>2 DEF IInv, RequestsKeepTheirOwn
  <2> QED
    BY <1>2, <1>4, <1>5, <2>1, <2>2
       DEF IInv, RequestsKeepTheirOwn, InTransaction, NextAttemptNo, DealsOf
<1> QED
  BY <1>5, <1>7, <1>8, <1>9, <1>10, <1>11, RequestStep

(***************************************************************************)
(* The steps inside a transaction that commit nothing: the lookup missed,  *)
(* crm.deal.add is sent, or sent again after a failure.                    *)
(***************************************************************************)
LEMMA CallStep ==
    ASSUME IInv, NEW r \in Request, req[r].pc \in InTransaction,
           NEW pc \in InTransaction, NEW n \in Nat,
           req' = [req EXCEPT ![r].pc = pc, ![r].posts = n, ![r].reply = NoDeal],
           wire' \in SUBSET Calls,
           \A c \in wire' : c \in wire \/ (c.req = r /\ c.app = req[r].app),
           UNCHANGED <<row, attempts, docs, lock, deals>>
    PROVE  IInv'
<1>1. /\ req' \in [Request -> Requests]
      /\ req'[r].pc = pc
      /\ req'[r].app = req[r].app
      /\ req'[r].draft = req[r].draft
      /\ req'[r].no = req[r].no
      /\ req'[r].answer = req[r].answer
      /\ req'[r].reply = NoDeal
      /\ \A q \in Request \ {r} : req'[q] = req[q]
  <2>1. req \in [Request -> Requests] /\ pc \in PCs /\ NoDeal \in Nat
    BY DEF IInv, TypeOK, PCs, InTransaction, NoDeal
  <2> QED
    BY <2>1 DEF Requests
<1>2. TypeOK'
  BY <1>1 DEF IInv, TypeOK
<1>3. DocumentsFollowLink'
  BY DEF IInv, DocumentsFollowLink
<1>4. OneSubmitter'
  BY <1>1 DEF IInv, OneSubmitter
<1>5. AnswersAgree'
  BY <1>1 DEF IInv, AnswersAgree
<1>6. RequestsKeepTheirOwn'
  <2>1. ASSUME NEW c \in wire'
        PROVE  req'[c.req].pc # "idle" /\ c.app = req'[c.req].app
    BY <1>1, CallFacts DEF InTransaction
  <2>2. /\ req[r].app \in Application
        /\ req[r].draft \in Draft
        /\ req[r].answer = NoDeal
        /\ req[r].no = NumberAfter(attempts[req[r].app])
    BY InTransactionFacts DEF NextAttemptNo
  <2>3. ASSUME NEW q \in Request
        PROVE  /\ req'[q].pc # "idle" => req'[q].app \in Application
               /\ req'[q].pc \notin {"idle", "done"} => req'[q].draft \in Draft
               /\ req'[q].pc # "done" => req'[q].answer = NoDeal
               /\ req'[q].pc \in InTransaction =>
                     req'[q].no = NumberAfter(attempts'[req'[q].app])
               /\ req'[q].reply # NoDeal =>
                     /\ req'[q].pc = "waiting"
                     /\ req'[q].reply \in {e \in DOMAIN deals' : deals'[e].app = req'[q].app}
    <3>1. CASE q = r
      BY <1>1, <2>2, <3>1
    <3>2. CASE q # r
      BY <1>1, <3>2 DEF IInv, RequestsKeepTheirOwn, NextAttemptNo, DealsOf
    <3> QED
      BY <3>1, <3>2
  <2> QED
    BY <2>1, <2>3 DEF RequestsKeepTheirOwn, NextAttemptNo, DealsOf
<1> QED
  BY <1>2, <1>3, <1>4, <1>5, <1>6, RequestStep

(***************************************************************************)
(* crm.deal.list finds nothing and the request goes on to crm.deal.add: an *)
(* instance of CallStep with an unchanged wire.                            *)
(***************************************************************************)
LEMMA LookupMissesStep ==
    ASSUME IInv, NEW r \in Request, LookupMisses(r)
    PROVE  IInv'
<1>1. req \in [Request -> Requests] /\ req[r].posts \in Nat /\ req[r].reply = NoDeal
  BY DEF LookupMisses, IInv, TypeOK, Requests, RequestsKeepTheirOwn
<1>2. req' = [req EXCEPT ![r].pc = "create", ![r].posts = req[r].posts, ![r].reply = NoDeal]
  BY <1>1 DEF LookupMisses, Requests
<1>3. req[r].pc \in InTransaction /\ "create" \in InTransaction
  BY DEF LookupMisses, InTransaction
<1>4. UNCHANGED <<row, attempts, docs, lock, deals, wire>> /\ wire \in SUBSET Calls
  BY DEF LookupMisses, IInv, TypeOK
<1> QED
  BY <1>1, <1>2, <1>3, <1>4, CallStep

(***************************************************************************)
(* crm.deal.add is sent: the call put on the wire is the request's own.    *)
(***************************************************************************)
LEMMA PostStep ==
    ASSUME IInv, NEW r \in Request, Post(r)
    PROVE  IInv'
<1>1. /\ req \in [Request -> Requests]
      /\ req[r].posts \in Nat /\ req[r].posts + 1 \in Nat
      /\ req[r].reply = NoDeal
  BY DEF Post, IInv, TypeOK, Requests, RequestsKeepTheirOwn
<1>2. req' = [req EXCEPT ![r].pc = "waiting", ![r].posts = req[r].posts + 1, ![r].reply = NoDeal]
  BY <1>1 DEF Post, Requests
<1>3. req[r].pc \in InTransaction /\ "waiting" \in InTransaction
  BY DEF Post, InTransaction
<1>4. Call(r, req[r].posts + 1) \in Calls
  BY <1>1, <1>3, InTransactionFacts DEF Call, Calls
<1>5. /\ wire' \in SUBSET Calls
      /\ \A c \in wire' : c \in wire \/ (c.req = r /\ c.app = req[r].app)
  BY <1>4 DEF Post, Call, IInv, TypeOK
<1>6. UNCHANGED <<row, attempts, docs, lock, deals>>
  BY DEF Post
<1> QED
  BY <1>1, <1>2, <1>3, <1>5, <1>6, CallStep

(***************************************************************************)
(* A failed call is given up or left on the wire, and the request goes back *)
(* to sending it.                                                          *)
(***************************************************************************)
LEMMA RetryCallStep ==
    ASSUME IInv, NEW r \in Request, RetryCall(r)
    PROVE  IInv'
<1>1. req \in [Request -> Requests] /\ req[r].posts \in Nat
  BY DEF IInv, TypeOK, Requests
<1>2. req' = [req EXCEPT ![r].pc = "create", ![r].posts = req[r].posts, ![r].reply = NoDeal]
  BY <1>1 DEF RetryCall, Requests
<1>3. req[r].pc \in InTransaction /\ "create" \in InTransaction
  BY DEF RetryCall, CallFails, InTransaction
<1>4. wire' \subseteq wire /\ wire \in SUBSET Calls
  BY DEF RetryCall, CallFails, IInv, TypeOK
<1>5. UNCHANGED <<row, attempts, docs, lock, deals>>
  BY DEF RetryCall
<1> QED
  BY <1>1, <1>2, <1>3, <1>4, <1>5, CallStep

(***************************************************************************)
(* Bitrix24 appends a deal: those that exist keep their IDs, and a reply   *)
(* names the new one, which belongs to the application of the call.        *)
(***************************************************************************)
LEMMA BitrixAddsDealStep ==
    ASSUME IInv, NEW c \in wire, BitrixAddsDeal(c)
    PROVE  IInv'
<1>1. /\ deals \in Seq(Deals)
      /\ deals' = Append(deals, [app |-> c.app, draft |-> c.draft])
      /\ wire' = wire \ {c}
      /\ UNCHANGED <<row, attempts, docs, lock>>
  BY DEF BitrixAddsDeal, IInv, TypeOK
<1>2. PICK d : d = Len(deals) + 1
  OBVIOUS
<1>3. /\ deals' \in Seq(Deals)
      /\ d \in Nat \ {0}
      /\ d \in DOMAIN deals' /\ deals'[d].app = c.app
      /\ \A e \in DOMAIN deals : e \in DOMAIN deals' /\ deals'[e] = deals[e]
  BY <1>1, <1>2, CallFacts DEF Deals
<1>4. /\ req' \in [Request -> Requests]
      /\ \A q \in Request :
            /\ req'[q].pc = req[q].pc
            /\ req'[q].app = req[q].app
            /\ req'[q].draft = req[q].draft
            /\ req'[q].no = req[q].no
            /\ req'[q].answer = req[q].answer
            /\ \/ req'[q].reply = req[q].reply
               \/ req'[q].reply = d /\ req[q].pc = "waiting" /\ req[q].app = c.app
  <2>1. req \in [Request -> Requests]
    BY DEF IInv, TypeOK
  <2>2. CASE req[c.req].pc = "waiting" /\ req[c.req].posts = c.n
    <3>1. req' = [req EXCEPT ![c.req].reply = d]
      BY <1>2, <2>2 DEF BitrixAddsDeal
    <3>2. c.req \in Request /\ req[c.req].app = c.app
      BY CallFacts
    <3>3. d \in Nat
      BY <1>3
    <3>4. req' \in [Request -> Requests]
      BY <2>1, <3>1, <3>2, <3>3 DEF Requests
    <3>5. \A q \in Request \ {c.req} : req'[q] = req[q]
      BY <2>1, <3>1
    <3>6. req'[c.req] = [req[c.req] EXCEPT !.reply = d]
      BY <2>1, <3>1, <3>2
    <3>7. /\ req'[c.req].pc = req[c.req].pc
          /\ req'[c.req].app = req[c.req].app
          /\ req'[c.req].draft = req[c.req].draft
          /\ req'[c.req].no = req[c.req].no
          /\ req'[c.req].answer = req[c.req].answer
          /\ req'[c.req].reply = d
      BY <2>1, <3>2, <3>6 DEF Requests
    <3> QED
      BY <2>2, <3>2, <3>4, <3>5, <3>7
  <2>3. CASE ~(req[c.req].pc = "waiting" /\ req[c.req].posts = c.n)
    <3>1. req' = req
      BY <2>3 DEF BitrixAddsDeal
    <3> QED
      BY <2>1, <3>1
  <2> QED
    BY <2>2, <2>3
<1>5. TypeOK'
  BY <1>1, <1>3, <1>4 DEF IInv, TypeOK
<1>6. \A a : DealsOf(a) \subseteq {e \in DOMAIN deals' : deals'[e].app = a}
  BY <1>3 DEF DealsOf
<1>7. LinkedDealIsOwn'
  BY <1>1, <1>6 DEF IInv, LinkedDealIsOwn, DealsOf
<1>8. AttemptLog'
  BY <1>1 DEF IInv, AttemptLog, NextAttemptNo
<1>9. OneSubmitter' /\ AnswersAgree' /\ DocumentsFollowLink'
  BY <1>1, <1>4 DEF IInv, OneSubmitter, AnswersAgree, DocumentsFollowLink
<1>10. RequestsKeepTheirOwn'
  <2>1. ASSUME NEW e \in wire'
        PROVE  req'[e.req].pc # "idle" /\ e.app = req'[e.req].app
    BY <1>1, <1>4, CallFacts
  <2>2. ASSUME NEW q \in Request, req'[q].reply # NoDeal
        PROVE  req'[q].pc = "waiting" /\ req'[q].reply \in {e \in DOMAIN deals' : deals'[e].app = req'[q].app}
    BY <1>3, <1>4, <1>6, <2>2 DEF IInv, RequestsKeepTheirOwn
  <2>3. ASSUME NEW q \in Request
        PROVE  /\ req'[q].pc # "idle" => req'[q].app \in Application
               /\ req'[q].pc \notin {"idle", "done"} => req'[q].draft \in Draft
               /\ req'[q].pc # "done" => req'[q].answer = NoDeal
               /\ req'[q].pc \in InTransaction =>
                     req'[q].no = NumberAfter(attempts'[req'[q].app])
    BY <1>1, <1>4 DEF IInv, RequestsKeepTheirOwn, NextAttemptNo
  <2> QED
    BY <2>1, <2>2, <2>3 DEF RequestsKeepTheirOwn, NextAttemptNo, DealsOf
<1>11. \A a \in Application :
          /\ row'[a].deal = NoDeal <=> row'[a].status \in SUBMIT_ALLOWED_STATUSES
          /\ NumberAfter(attempts'[a]) \in Nat \ {0}
  BY <1>1 DEF IInv, NextAttemptNo
<1> QED
  BY <1>5, <1>7, <1>8, <1>9, <1>10, <1>11 DEF IInv, NextAttemptNo

(***************************************************************************)
(* A draft update writes the draft and nothing else of the row, whatever   *)
(* has happened to the application since its status was checked.           *)
(***************************************************************************)
LEMMA CommitEditStep ==
    ASSUME IInv, NEW r \in Request, CommitEdit(r)
    PROVE  IInv'
<1>1. PICK a : a = req[r].app
  OBVIOUS
<1>2. a \in Application /\ req[r].draft \in Draft
  BY <1>1 DEF CommitEdit, IInv, RequestsKeepTheirOwn
<1>3. /\ row' \in [Application -> Rows]
      /\ \A b \in Application : row'[b].deal = row[b].deal /\ row'[b].status = row[b].status
  BY <1>1, <1>2 DEF CommitEdit, IInv, TypeOK, Rows
<1>4. /\ req' \in [Request -> Requests]
      /\ req'[r].pc = "done"
      /\ req'[r].app = a
      /\ req'[r].answer = NoDeal
      /\ req'[r].reply = NoDeal
      /\ \A q \in Request \ {r} : req'[q] = req[q]
  BY <1>1, <1>2 DEF CommitEdit, Answered, IInv, TypeOK, Requests, IdleRequest, PCs, NoDeal
<1>5. UNCHANGED <<attempts, docs, lock, deals, wire>>
  BY DEF CommitEdit
<1>6. TypeOK'
  BY <1>3, <1>4, <1>5 DEF IInv, TypeOK
<1>7. LinkedDealIsOwn' /\ AttemptLog' /\ DocumentsFollowLink'
  <2>1. LinkedDealIsOwn'
    BY <1>3, <1>5 DEF IInv, LinkedDealIsOwn, DealsOf
  <2>2. AttemptLog'
    BY <1>3, <1>5 DEF IInv, AttemptLog, NextAttemptNo
  <2>3. DocumentsFollowLink'
    BY <1>3, <1>5 DEF IInv, TypeOK, Documents, DocumentsFollowLink
  <2> QED
    BY <2>1, <2>2, <2>3
<1>8. OneSubmitter'
  BY <1>3, <1>4, <1>5 DEF IInv, OneSubmitter, RequestsKeepTheirOwn, InTransaction
<1>9. AnswersAgree'
  <2>1. ASSUME NEW q \in Request \ {r}, req[q].answer # NoDeal
        PROVE  row'[req[q].app].deal = req[q].answer
    <3>1. req[q].app \in Application
      BY <2>1 DEF IInv, RequestsKeepTheirOwn
    <3> QED
      BY <1>3, <2>1, <3>1 DEF IInv, AnswersAgree
  <2> QED
    BY <1>4, <2>1 DEF AnswersAgree
<1>10. RequestsKeepTheirOwn'
  <2>1. ASSUME NEW c \in wire'
        PROVE  req'[c.req].pc # "idle" /\ c.app = req'[c.req].app
    BY <1>1, <1>4, <1>5, CallFacts
  <2> QED
    BY <1>2, <1>4, <1>5, <2>1
       DEF IInv, RequestsKeepTheirOwn, InTransaction, NextAttemptNo, DealsOf
<1>11. \A b \in Application :
          /\ row'[b].deal = NoDeal <=> row'[b].status \in SUBMIT_ALLOWED_STATUSES
          /\ NumberAfter(attempts'[b]) \in Nat \ {0}
  BY <1>3, <1>5 DEF IInv, NextAttemptNo
<1> QED
  BY <1>6, <1>7, <1>8, <1>9, <1>10, <1>11 DEF IInv, NextAttemptNo

(***************************************************************************)
(* The stage of a deal never makes its application submittable again.      *)
(***************************************************************************)
LEMMA SyncStageStep ==
    ASSUME IInv, NEW a \in Application, NEW s \in StageStatuses, SyncStage(a, s)
    PROVE  IInv'
<1>1. s \notin SUBMIT_ALLOWED_STATUSES /\ s \in PortalStatuses
  BY ConstantsAssumption DEF PortalStatuses
<1>2. /\ row' \in [Application -> Rows]
      /\ row'[a].status = s
      /\ \A b \in Application : row'[b].deal = row[b].deal
      /\ \A b \in Application \ {a} : row'[b].status = row[b].status
  BY <1>1 DEF SyncStage, IInv, TypeOK, Rows
<1>3. UNCHANGED <<attempts, docs, lock, req, deals, wire>> /\ row[a].deal # NoDeal
  BY DEF SyncStage
<1>4. TypeOK'
  BY <1>2, <1>3 DEF IInv, TypeOK
<1>5. LinkedDealIsOwn'
  BY <1>2, <1>3 DEF IInv, LinkedDealIsOwn, DealsOf
<1>6. AttemptLog'
  BY <1>2, <1>3 DEF IInv, AttemptLog, NextAttemptNo
<1>7. DocumentsFollowLink'
  BY <1>2, <1>3 DEF IInv, TypeOK, Documents, DocumentsFollowLink
<1>8. OneSubmitter'
  BY <1>2, <1>3 DEF IInv, OneSubmitter, RequestsKeepTheirOwn, InTransaction
<1>9. AnswersAgree'
  <2>1. ASSUME NEW q \in Request, req[q].answer # NoDeal
        PROVE  row'[req[q].app].deal = req[q].answer
    <3>1. req[q].app \in Application
      BY <2>1 DEF IInv, RequestsKeepTheirOwn
    <3> QED
      BY <1>2, <2>1, <3>1 DEF IInv, AnswersAgree
  <2> QED
    BY <1>3, <2>1 DEF AnswersAgree
<1>10. RequestsKeepTheirOwn'
  BY <1>3 DEF IInv, RequestsKeepTheirOwn, NextAttemptNo, DealsOf
<1>11. \A b \in Application :
          /\ row'[b].deal = NoDeal <=> row'[b].status \in SUBMIT_ALLOWED_STATUSES
          /\ NumberAfter(attempts'[b]) \in Nat \ {0}
  BY <1>1, <1>2, <1>3 DEF IInv, NextAttemptNo
<1> QED
  BY <1>4, <1>5, <1>6, <1>7, <1>8, <1>9, <1>10, <1>11 DEF IInv, NextAttemptNo

(***************************************************************************)
(* A crash releases the locks of the requests it ends and of no other.     *)
(***************************************************************************)
LEMMA CrashStep ==
    ASSUME IInv, NEW w \in Worker, Crash(w)
    PROVE  IInv'
<1> DEFINE dead == {r \in Request : WorkerOf[r] = w /\ req[r].pc \notin {"idle", "done"}}
<1>1. PICK D : D = dead
  OBVIOUS
<1>2. D \subseteq Request /\ \A r \in D : req[r].pc \notin {"idle", "done"}
  BY <1>1
<1>3. /\ req' \in [Request -> Requests]
      /\ \A r \in Request \ D : req'[r] = req[r]
      /\ \A r \in D :
            /\ req'[r].pc = "done"
            /\ req'[r].app = req[r].app
            /\ req'[r].answer = NoDeal
            /\ req'[r].reply = NoDeal
  <2>1. req' = [r \in Request |->
                  IF r \in D
                  THEN [IdleRequest EXCEPT !.pc = "done", !.app = req[r].app]
                  ELSE req[r]]
    BY <1>1 DEF Crash
  <2>2. req \in [Request -> Requests]
    BY DEF IInv, TypeOK
  <2> QED
    BY <1>2, <2>1, <2>2 DEF IdleRequest, Requests, PCs, NoDeal
<1>4. /\ lock' \in [Application -> Request \cup {None}]
      /\ \A a \in Application : lock[a] \notin D => lock'[a] = lock[a]
  BY <1>1 DEF Crash, IInv, TypeOK
<1>5. UNCHANGED <<row, attempts, docs, deals, wire>>
  BY DEF Crash
<1>6. TypeOK'
  BY <1>3, <1>4, <1>5 DEF IInv, TypeOK
<1>7. DocumentsFollowLink'
  BY <1>5 DEF IInv, DocumentsFollowLink
<1>8. OneSubmitter'
  <2>1. ASSUME NEW r \in Request, req'[r].pc \in InTransaction
        PROVE  lock'[req'[r].app] = r /\ row'[req'[r].app].deal = NoDeal
    <3>1. r \notin D /\ req'[r] = req[r]
      BY <1>2, <1>3, <2>1 DEF InTransaction
    <3>2. req[r].app \in Application /\ lock[req[r].app] = r /\ row[req[r].app].deal = NoDeal
      BY <2>1, <3>1, InTransactionFacts
    <3> QED
      BY <1>4, <1>5, <3>1, <3>2
  <2> QED
    BY <2>1 DEF OneSubmitter
<1>9. AnswersAgree'
  BY <1>3, <1>5 DEF IInv, AnswersAgree
<1>10. RequestsKeepTheirOwn'
  <2>1. ASSUME NEW c \in wire'
        PROVE  req'[c.req].pc # "idle" /\ c.app = req'[c.req].app
    BY <1>2, <1>3, <1>5, CallFacts
  <2>2. \A r \in D : req[r].app \in Application
    BY <1>2 DEF IInv, RequestsKeepTheirOwn
  <2> QED
    BY <1>3, <1>5, <2>1, <2>2
       DEF IInv, RequestsKeepTheirOwn, InTransaction, NextAttemptNo, DealsOf
<1> QED
  BY <1>5, <1>6, <1>7, <1>8, <1>9, <1>10, RequestStep

-----------------------------------------------------------------------------
(***************************************************************************)
(* Every step, of whichever action, keeps the inductive invariant.         *)
(***************************************************************************)
LEMMA NextIInv == IInv /\ [Next]_vars => IInv'
<1> SUFFICES ASSUME IInv, [Next]_vars
             PROVE  IInv'
  OBVIOUS
<1>1. ASSUME NEW r \in Request, NEW a \in Application, BeginSubmit(r, a)
      PROVE  IInv'
  <2>1. row[a].draft \in Draft /\ "locking" \in Synchronous
    BY DEF IInv, TypeOK, Rows, Synchronous
  <2> QED
    BY <1>1, <2>1, ArriveStep DEF BeginSubmit
<1>2. ASSUME NEW r \in Request, NEW a \in Application, NEW d \in Draft, BeginEdit(r, a, d)
      PROVE  IInv'
  <2>1. "editing" \in Synchronous
    BY DEF Synchronous
  <2> QED
    BY <1>2, <2>1, ArriveStep DEF BeginEdit
<1>3. ASSUME NEW r \in Request, HandlerStep(r)
      PROVE  IInv'
  <2>1. CASE AnswerAtOnce(r)
    BY <2>1, AnswerAtOnceStep
  <2>2. CASE StartAttempt(r)
    BY <2>2, StartAttemptStep
  <2>3. CASE LookupFails(r)
    BY <2>3, CommitFailureStep DEF LookupFails, InTransaction
  <2>4. CASE LookupFinds(r)
    <3>1. PICK d \in DealsOf(req[r].app) : CommitReceived(r, d)
      BY <2>4 DEF LookupFinds, FindDeal
    <3> QED
      BY <2>4, <3>1, CommitReceivedStep DEF LookupFinds, InTransaction
  <2>5. CASE LookupMisses(r)
    BY <2>5, LookupMissesStep
  <2>6. CASE Post(r)
    BY <2>6, PostStep
  <2>7. CASE ReceiveReply(r)
    <3>1. req[r].reply \in DealsOf(req[r].app) /\ req[r].pc \in InTransaction
      BY <2>7 DEF ReceiveReply, IInv, RequestsKeepTheirOwn, InTransaction
    <3> QED
      BY <2>7, <3>1, CommitReceivedStep DEF ReceiveReply
  <2>8. CASE RetryCall(r)
    BY <2>8, RetryCallStep
  <2>9. CASE CreateFails(r)
    BY <2>9, CommitFailureStep DEF CreateFails, CallFails, InTransaction
  <2>10. CASE CommitEdit(r)
    BY <2>10, CommitEditStep
  <2> QED
    BY <1>3, <2>1, <2>2, <2>3, <2>4, <2>5, <2>6, <2>7, <2>8, <2>9, <2>10 DEF HandlerStep
<1>4. ASSUME NEW c \in wire, BitrixAddsDeal(c)
      PROVE  IInv'
  BY <1>4, BitrixAddsDealStep
<1>5. ASSUME NEW a \in Application, NEW s \in StageStatuses, SyncStage(a, s)
      PROVE  IInv'
  BY <1>5, SyncStageStep
<1>6. ASSUME NEW w \in Worker, Crash(w)
      PROVE  IInv'
  BY <1>6, CrashStep
<1>7. CASE UNCHANGED vars
  <2>1. TypeOK' /\ DocumentsFollowLink' /\ OneSubmitter' /\ AnswersAgree'
    BY <1>7 DEF vars, IInv, TypeOK, DocumentsFollowLink, OneSubmitter, AnswersAgree
  <2>2. RequestsKeepTheirOwn'
    BY <1>7 DEF vars, IInv, RequestsKeepTheirOwn, NextAttemptNo, DealsOf
  <2> QED
    BY <1>7, <2>1, <2>2, RequestStep DEF vars
<1> QED
  BY <1>1, <1>2, <1>3, <1>4, <1>5, <1>6, <1>7 DEF Next

(***************************************************************************)
(* The invariants that submit_safety checks hold for any number of         *)
(* applications, documents, requests and processes, any number of retries  *)
(* and any of the faults.                                                  *)
(***************************************************************************)
THEOREM Inductive == Spec => []IInv
<1>1. Init => IInv
  BY InitIInv
<1>2. IInv /\ [Next]_vars => IInv'
  BY NextIInv
<1> QED
  BY <1>1, <1>2, PTL DEF Spec

(***************************************************************************)
(* Every variable keeps its type.                                          *)
(***************************************************************************)
THEOREM TypeCorrect == Spec => []TypeOK
<1>1. IInv => TypeOK
  BY DEF IInv
<1> QED
  BY <1>1, Inductive, PTL

(***************************************************************************)
(* No crm.deal.add for an application that has a deal, and never two       *)
(* requests at a time that could send one for the same application.        *)
(***************************************************************************)
THEOREM SubmitExcludes == Spec => []OneSubmitter
<1>1. IInv => OneSubmitter
  BY DEF IInv
<1> QED
  BY <1>1, Inductive, PTL

(***************************************************************************)
(* An application is linked to a deal created for it and to no other.      *)
(***************************************************************************)
THEOREM LinkIsOwn == Spec => []LinkedDealIsOwn
<1>1. IInv => LinkedDealIsOwn
  BY DEF IInv
<1> QED
  BY <1>1, Inductive, PTL

(***************************************************************************)
(* The attempts are numbered without gap or repetition and tell whether    *)
(* and to what the application is linked.                                  *)
(***************************************************************************)
THEOREM LogTellsTheLink == Spec => []AttemptLog
<1>1. IInv => AttemptLog
  BY DEF IInv
<1> QED
  BY <1>1, Inductive, PTL

(***************************************************************************)
(* First and repeated submits answer with the deal the application has.    *)
(***************************************************************************)
THEOREM RepeatedAnswersAgree == Spec => []AnswersAgree
<1>1. IInv => AnswersAgree
  BY DEF IInv
<1> QED
  BY <1>1, Inductive, PTL

(***************************************************************************)
(* No failure and no crash strands an application: without a deal it can   *)
(* be submitted again.                                                     *)
(***************************************************************************)
THEOREM NeverStranded == Spec => []AlwaysResubmittable
<1>1. IInv => AlwaysResubmittable
  BY DEF IInv, AlwaysResubmittable
<1> QED
  BY <1>1, Inductive, PTL

-----------------------------------------------------------------------------
(***************************************************************************)
(* How a step changes the link, the failures and the answers: it decides a *)
(* link, answers with the link it finds, records a failure, or none of     *)
(* these.                                                                  *)
(***************************************************************************)
LEMMA CommitReceivedDecides ==
    ASSUME IInv, NEW r \in Request, req[r].pc \in InTransaction,
           NEW d \in DealsOf(req[r].app), CommitReceived(r, d)
    PROVE  \E a \in Application : Link!Decide(r, a)
<1>1. PICK a : a = req[r].app
  OBVIOUS
<1>2. a \in Application /\ row[a].deal = 0 /\ req[r].answer = 0
  BY <1>1, InTransactionFacts DEF NoDeal
<1>3. d \in Nat \ {0} /\ deals[d].app = a
  BY <1>1 DEF DealsOf, IInv, TypeOK
<1>4. \A b \in Application : row[b].deal # d
  BY <1>2, <1>3 DEF IInv, LinkedDealIsOwn, DealsOf, NoDeal
<1>5. row \in [Application -> Rows] /\ req \in [Request -> Requests]
  BY DEF IInv, TypeOK
<1>6. /\ row'[a].deal = d
      /\ row'[a].status = "received"
      /\ \A b \in Application \ {a} : row'[b] = row[b]
  BY <1>1, <1>2, <1>5 DEF CommitReceived, MarkReceived, Rows
<1>7. req'[r].answer = d /\ \A q \in Request \ {r} : req'[q] = req[q]
  BY <1>1, <1>5 DEF CommitReceived, Answered, IdleRequest
<1>8. [b \in Application |-> row'[b].deal]
        = [[b \in Application |-> row[b].deal] EXCEPT ![a] = d]
  BY <1>2, <1>6
<1>9. [q \in Request |-> req'[q].answer]
        = [[q \in Request |-> req[q].answer] EXCEPT ![r] = d]
  BY <1>7
<1>10. {b \in Application : row'[b].status = "submit_error"}
         = {b \in Application : row[b].status = "submit_error"} \ {a}
  BY <1>2, <1>6
<1>11. [b \in Application |-> row'[b].deal][a] = d
  BY <1>2, <1>6
<1>12. Link!Decide(r, a)
  BY <1>2, <1>3, <1>4, <1>8, <1>9, <1>10, <1>11 DEF Link!Decide
<1> QED
  BY <1>2, <1>12

(***************************************************************************)
(* A transaction that commits submit_error is a Fail of DealLink.          *)
(***************************************************************************)
LEMMA CommitFailureFails ==
    ASSUME IInv, NEW r \in Request, req[r].pc \in InTransaction, CommitFailure(r)
    PROVE  \E a \in Application : Link!Fail(a)
<1>1. PICK a : a = req[r].app
  OBVIOUS
<1>2. a \in Application /\ row[a].deal = 0 /\ req[r].answer = 0
  BY <1>1, InTransactionFacts DEF NoDeal
<1>3. row \in [Application -> Rows] /\ req \in [Request -> Requests]
  BY DEF IInv, TypeOK
<1>4. /\ row'[a].deal = row[a].deal
      /\ row'[a].status = "submit_error"
      /\ \A b \in Application \ {a} : row'[b] = row[b]
  BY <1>1, <1>2, <1>3 DEF CommitFailure, MarkSubmitError, Rows
<1>5. req'[r].answer = 0 /\ \A q \in Request \ {r} : req'[q] = req[q]
  BY <1>1, <1>3 DEF CommitFailure, Answered, IdleRequest, NoDeal
<1>6. [b \in Application |-> row'[b].deal] = [b \in Application |-> row[b].deal]
  BY <1>2, <1>4
<1>7. [q \in Request |-> req'[q].answer] = [q \in Request |-> req[q].answer]
  BY <1>2, <1>5
<1>8. {b \in Application : row'[b].status = "submit_error"}
        = {b \in Application : row[b].status = "submit_error"} \cup {a}
  BY <1>2, <1>4
<1>9. Link!Fail(a)
  BY <1>2, <1>6, <1>7, <1>8 DEF Link!Fail
<1> QED
  BY <1>2, <1>9

(***************************************************************************)
(* A request that finds the application linked is a Return of DealLink.    *)
(***************************************************************************)
LEMMA AnswerAtOnceReturns ==
    ASSUME IInv, NEW r \in Request, AnswerAtOnce(r)
    PROVE  \E a \in Application : Link!Return(r, a)
<1>1. PICK a : a = req[r].app
  OBVIOUS
<1>2. a \in Application /\ req[r].answer = 0
  BY <1>1 DEF AnswerAtOnce, IInv, RequestsKeepTheirOwn, NoDeal
<1>3. row[a].deal # 0
  BY <1>1, <1>2 DEF AnswerAtOnce, IInv, NoDeal
<1>4. row' = row /\ req \in [Request -> Requests]
  BY DEF AnswerAtOnce, IInv, TypeOK
<1>5. req'[r].answer = row[a].deal /\ \A q \in Request \ {r} : req'[q] = req[q]
  BY <1>1, <1>4 DEF AnswerAtOnce, Answered, IdleRequest
<1>6. [q \in Request |-> req'[q].answer]
        = [[q \in Request |-> req[q].answer] EXCEPT ![r] = row[a].deal]
  BY <1>5
<1>7. Link!Return(r, a)
  BY <1>2, <1>3, <1>4, <1>6 DEF Link!Return
<1> QED
  BY <1>2, <1>7

(***************************************************************************)
(* Every other step leaves the link, the failures and the answers alone.   *)
(***************************************************************************)
LEMMA Stutters ==
    ASSUME IInv,
           \A a \in Application :
              /\ row'[a].deal = row[a].deal
              /\ row'[a].status = "submit_error" <=> row[a].status = "submit_error",
           \A r \in Request : req'[r].answer = req[r].answer
    PROVE  UNCHANGED Link!linkVars
<1>1. [a \in Application |-> row'[a].deal] = [a \in Application |-> row[a].deal]
  OBVIOUS
<1>2. {a \in Application : row'[a].status = "submit_error"}
        = {a \in Application : row[a].status = "submit_error"}
  OBVIOUS
<1>3. [r \in Request |-> req'[r].answer] = [r \in Request |-> req[r].answer]
  OBVIOUS
<1> QED
  BY <1>1, <1>2, <1>3 DEF Link!linkVars

(***************************************************************************)
(* A step that moves one request and keeps its answer is a stutter of      *)
(* DealLink.                                                               *)
(***************************************************************************)
LEMMA OwnAnswerStutters ==
    ASSUME IInv, row' = row, NEW r \in Request, NEW q,
           req' = [req EXCEPT ![r] = q], q.answer = req[r].answer
    PROVE  UNCHANGED Link!linkVars
<1>1. req \in [Request -> Requests]
  BY DEF IInv, TypeOK
<1>2. \A p \in Request : req'[p].answer = req[p].answer
  BY <1>1
<1> QED
  BY <1>2, Stutters

(***************************************************************************)
(* The linking protocol implements the write-once register of DealLink.    *)
(***************************************************************************)
THEOREM ImplementsDealLink == Spec => LinksOnce
<1>1. Init => Link!Init
  <2> SUFFICES ASSUME Init
               PROVE  Link!Init
    OBVIOUS
  <2>1. /\ \A a \in Application : row[a].deal = 0 /\ row[a].status = "draft"
        /\ \A r \in Request : req[r].answer = 0
    BY DEF Init, IdleRequest, NoDeal
  <2> QED
    BY <2>1 DEF Link!Init
<1>2. IInv /\ [Next]_vars => [Link!Next]_(Link!linkVars)
  <2> SUFFICES ASSUME IInv, [Next]_vars
               PROVE  Link!Next \/ UNCHANGED Link!linkVars
    OBVIOUS
  <2>0. req \in [Request -> Requests]
    BY DEF IInv, TypeOK
  <2>1. ASSUME NEW r \in Request, NEW a \in Application, BeginSubmit(r, a)
        PROVE  UNCHANGED Link!linkVars
    <3>1. req[r].answer = 0
      BY <2>1 DEF BeginSubmit, IInv, RequestsKeepTheirOwn, NoDeal
    <3> QED
      BY <2>1, <3>1, OwnAnswerStutters DEF BeginSubmit, IdleRequest, NoDeal
  <2>2. ASSUME NEW r \in Request, NEW a \in Application, NEW d \in Draft, BeginEdit(r, a, d)
        PROVE  UNCHANGED Link!linkVars
    <3>1. req[r].answer = 0
      BY <2>2 DEF BeginEdit, IInv, RequestsKeepTheirOwn, NoDeal
    <3> QED
      BY <2>2, <3>1, OwnAnswerStutters DEF BeginEdit, IdleRequest, NoDeal
  <2>3. ASSUME NEW r \in Request, HandlerStep(r)
        PROVE  Link!Next \/ UNCHANGED Link!linkVars
    <3>1. CASE AnswerAtOnce(r)
      BY <3>1, AnswerAtOnceReturns DEF Link!Next
    <3>2. CASE StartAttempt(r) \/ LookupMisses(r) \/ Post(r) \/ RetryCall(r)
      <4>1. row' = row
        BY <3>2 DEF StartAttempt, LookupMisses, Post, RetryCall
      <4>2. \A q \in Request : req'[q].answer = req[q].answer
        BY <2>0, <3>2 DEF StartAttempt, LookupMisses, Post, RetryCall, Requests
      <4> QED
        BY <4>1, <4>2, Stutters
    <3>3. CASE LookupFails(r) \/ CreateFails(r)
      <4>1. req[r].pc \in InTransaction /\ CommitFailure(r)
        BY <3>3 DEF LookupFails, CreateFails, CallFails, InTransaction
      <4> QED
        BY <4>1, CommitFailureFails DEF Link!Next
    <3>4. CASE LookupFinds(r) \/ ReceiveReply(r)
      <4>1. req[r].pc \in InTransaction
        BY <3>4 DEF LookupFinds, ReceiveReply, InTransaction
      <4>2. \E d \in DealsOf(req[r].app) : CommitReceived(r, d)
        BY <3>4 DEF LookupFinds, FindDeal, ReceiveReply, IInv, RequestsKeepTheirOwn
      <4> QED
        BY <4>1, <4>2, CommitReceivedDecides DEF Link!Next
    <3>5. CASE CommitEdit(r)
      <4>1. req[r].answer = 0 /\ req[r].app \in Application
        BY <3>5 DEF CommitEdit, IInv, RequestsKeepTheirOwn, NoDeal
      <4>2. \A a \in Application : row'[a].deal = row[a].deal /\ row'[a].status = row[a].status
        BY <3>5, <4>1 DEF CommitEdit, IInv, TypeOK, Rows
      <4>3. \A q \in Request : req'[q].answer = req[q].answer
        BY <2>0, <3>5, <4>1 DEF CommitEdit, Answered, IdleRequest, NoDeal
      <4> QED
        BY <4>2, <4>3, Stutters
    <3> QED
      BY <2>3, <3>1, <3>2, <3>3, <3>4, <3>5 DEF HandlerStep
  <2>4. ASSUME NEW c \in wire, BitrixAddsDeal(c)
        PROVE  UNCHANGED Link!linkVars
    <3>1. \A q \in Request : req'[q].answer = req[q].answer
      BY <2>0, <2>4 DEF BitrixAddsDeal, Requests
    <3> QED
      BY <2>4, <3>1, Stutters DEF BitrixAddsDeal
  <2>5. ASSUME NEW a \in Application, NEW s \in StageStatuses, SyncStage(a, s)
        PROVE  UNCHANGED Link!linkVars
    <3>1. row[a].status # "submit_error" /\ s # "submit_error"
      BY <2>5, ConstantsAssumption DEF SyncStage, IInv, SUBMIT_ALLOWED_STATUSES
    <3>2. /\ row'[a].deal = row[a].deal
          /\ row'[a].status = s
          /\ \A b \in Application \ {a} : row'[b] = row[b]
      BY <2>5 DEF SyncStage, IInv, TypeOK, Rows
    <3> QED
      BY <2>5, <3>1, <3>2, Stutters DEF SyncStage
  <2>6. ASSUME NEW w \in Worker, Crash(w)
        PROVE  UNCHANGED Link!linkVars
    <3>1. \A q \in Request : req'[q].answer = req[q].answer
      <4>1. \A q \in Request : req[q].pc # "done" => req[q].answer = 0
        BY DEF IInv, RequestsKeepTheirOwn, NoDeal
      <4> QED
        BY <2>0, <2>6, <4>1 DEF Crash, IdleRequest, NoDeal
    <3> QED
      BY <2>6, <3>1, Stutters DEF Crash
  <2>7. CASE UNCHANGED vars
    BY <2>7, Stutters DEF vars
  <2> QED
    BY <2>1, <2>2, <2>3, <2>4, <2>5, <2>6, <2>7 DEF Next
<1> QED
  BY <1>1, <1>2, Inductive, PTL DEF Spec, LinksOnce, Link!Spec

(***************************************************************************)
(* A link is never lost, never replaced, and what is linked is never       *)
(* submittable again.                                                      *)
(***************************************************************************)
THEOREM LinkIsForGood == Spec => LinkedForGood
<1>1. IInv /\ IInv' /\ [Link!Next]_(Link!linkVars) => KeepsLink
  <2> SUFFICES ASSUME IInv, IInv', Link!Next \/ UNCHANGED Link!linkVars,
                      NEW a \in Application, row[a].deal # NoDeal
               PROVE  row'[a].deal = row[a].deal /\ row'[a].status \notin SUBMIT_ALLOWED_STATUSES
    BY DEF KeepsLink
  <2>1. row'[a].deal = row[a].deal
    <3>1. [b \in Application |-> row'[b].deal][a] = [b \in Application |-> row[b].deal][a]
      BY DEF Link!Next, Link!Decide, Link!Return, Link!Fail, Link!linkVars, NoDeal
    <3> QED
      BY <3>1
  <2> QED
    BY <2>1 DEF IInv
<1> QED
  BY <1>1, Inductive, ImplementsDealLink, PTL DEF LinkedForGood, LinksOnce, Link!Spec

(***************************************************************************)
(* Documents are queued for the deal of their own application and for no   *)
(* other, also when several requests submit the application.               *)
(***************************************************************************)
THEOREM DocumentsFollow == Spec => []DocumentsFollowLink
<1>1. IInv => DocumentsFollowLink
  BY DEF IInv
<1> QED
  BY <1>1, Inductive, PTL
=============================================================================
