--------------------------- MODULE EmailQueueProofs ---------------------------
(***************************************************************************)
(* What EmailQueue keeps true for every set of messages and of runs, and   *)
(* any number of attempts, manual retries and crashes, proved from an      *)
(* inductive invariant.                                                    *)
(***************************************************************************)
EXTENDS EmailQueue, FiniteSetTheorems, TLAPS

\* A message that is due has an attempt left, or a manual retry more.
DueHaveAttempts ==
    \A m \in Mail : mail[m].status \in DUE_STATUSES => mail[m].attempts < MaxAttempts + manual

(***************************************************************************)
(* What a run has read was due then; what it is sending is as the run has  *)
(* claimed it, since nobody else writes to it.                             *)
(***************************************************************************)
ReadsAreConsistent ==
    \A w \in Run :
        /\ \A m \in run[w].todo :
               /\ run[w].read[m].status \in DUE_STATUSES
               /\ run[w].read[m].attempts < MaxAttempts + manual
        /\ run[w].now # None =>
               /\ run[w].now \notin run[w].todo
               /\ mail[run[w].now].attempts = run[w].read[run[w].now].attempts + 1

(***************************************************************************)
(* How far the server has got with a message that leaves no doubt: it has  *)
(* it exactly when it was sent, or the run that sends it has been told so. *)
(***************************************************************************)
DeliveryFollowsStatus ==
    /\ \A m \in Mail \ doubted :
           mail[m].status \notin {"processing", "sent"} => delivered[m] = 0
    /\ \A w \in Run :
           /\ run[w].pc = "claimed" /\ run[w].now \notin doubted => delivered[run[w].now] = 0
           /\ run[w].pc = "accepted" => delivered[run[w].now] > 0

\* The messages that nobody will send again.
StrandedMail == {m \in Mail : Stranded(m)}

IInv ==
    /\ TypeOK
    /\ ClaimIsExclusive
    /\ ExactlyOnce
    /\ StrandedByCrash
    /\ IsFiniteSet(StrandedMail)
    /\ DueHaveAttempts
    /\ ReadsAreConsistent
    /\ DeliveryFollowsStatus

-----------------------------------------------------------------------------
\* Nothing is stranded unless a run dies.
LEMMA NothingStranded ==
    ASSUME IInv, StrandedMail' \subseteq StrandedMail, crashes' = crashes
    PROVE  IsFiniteSet(StrandedMail)' /\ StrandedByCrash'
<1>1. IsFiniteSet(StrandedMail') /\ Cardinality(StrandedMail') <= Cardinality(StrandedMail)
  BY FS_Subset DEF IInv
<1>2. Cardinality(StrandedMail) \in Nat /\ Cardinality(StrandedMail') \in Nat
  BY <1>1, FS_CardinalityType DEF IInv
<1>3. Cardinality(StrandedMail) <= crashes /\ crashes \in Nat
  BY ConstantsAssumption DEF IInv, StrandedByCrash, StrandedMail, TypeOK
<1>4. Cardinality(StrandedMail') <= crashes'
  BY <1>1, <1>2, <1>3
<1> QED
  BY <1>1, <1>4 DEF StrandedByCrash, StrandedMail

\* The state of a run that has nothing in hand.
LEMMA RestingIsRun ==
    Resting \in Runs /\ Resting.pc = "idle" /\ Resting.todo = {} /\ Resting.now = None
BY DEF Resting, Runs, Rows, NoRow

(***************************************************************************)
(* Initially no message is stored and no run is under way.                 *)
(***************************************************************************)
LEMMA Initially == Init => IInv
<1> SUFFICES ASSUME Init
             PROVE  IInv
  OBVIOUS
<1>1. \A m \in Mail : mail[m] = NoRow /\ delivered[m] = 0
  BY DEF Init
<1>2. \A w \in Run : run[w] = Resting
  BY DEF Init
<1>3. TypeOK
  BY <1>1, <1>2, RestingIsRun, ConstantsAssumption DEF Init, TypeOK, Rows, NoRow
<1>4. ClaimIsExclusive /\ ReadsAreConsistent
  BY <1>2, RestingIsRun DEF ClaimIsExclusive, ReadsAreConsistent
<1>5. ExactlyOnce /\ DueHaveAttempts /\ DeliveryFollowsStatus
  BY <1>1, <1>2, RestingIsRun
     DEF ExactlyOnce, SentIsDelivered, AtMostOnce, DueHaveAttempts, DeliveryFollowsStatus,
         NoRow, DUE_STATUSES
<1>6. StrandedMail = {}
  BY <1>1 DEF StrandedMail, Stranded, NoRow
<1>7. IsFiniteSet(StrandedMail) /\ StrandedByCrash
  BY <1>6, FS_EmptySet DEF StrandedByCrash, StrandedMail, Init
<1> QED
  BY <1>3, <1>4, <1>5, <1>7 DEF IInv

(***************************************************************************)
(* A step of the portal on a message that no run is sending: it is neither *)
(* being processed nor sent, before and after.                             *)
(***************************************************************************)
LEMMA QuietMailStep ==
    ASSUME IInv, NEW m \in Mail, NEW row \in Rows,
           mail' = [mail EXCEPT ![m] = row],
           mail[m].status \notin {"processing", "sent"},
           row.status \notin {"processing", "sent"},
           row.attempts < MaxAttempts + manual',
           manual' \in 0 .. MaxManual, manual <= manual',
           UNCHANGED <<run, delivered, doubted, crashes>>
    PROVE  IInv'
<1>1. \A x \in Mail : mail'[x] = IF x = m THEN row ELSE mail[x]
  BY DEF IInv, TypeOK
<1>2. \A w \in Run : run[w].now # m
  BY ConstantsAssumption DEF IInv, ClaimIsExclusive
<1>3. /\ manual \in Nat /\ manual' \in Nat /\ MaxAttempts \in Nat
      /\ \A x \in Mail : mail[x].attempts \in Nat /\ row.attempts \in Nat
      /\ \A w \in Run, x \in Mail : run[w].read[x].attempts \in Nat
      /\ \A w \in Run : run[w].todo \subseteq Mail
  BY ConstantsAssumption DEF IInv, TypeOK, Rows, Runs
<1>4. TypeOK'
  <2>1. \A x \in Mail : mail'[x].attempts <= MaxAttempts + manual'
    BY <1>1, <1>3 DEF IInv, TypeOK
  <2> QED
    BY <2>1 DEF IInv, TypeOK
<1>5. ClaimIsExclusive'
  BY <1>1, <1>2 DEF IInv, ClaimIsExclusive, TypeOK, Runs
<1>6. ExactlyOnce'
  BY <1>1 DEF IInv, ExactlyOnce, SentIsDelivered, AtMostOnce
<1>7. DueHaveAttempts'
  BY <1>1, <1>3 DEF IInv, DueHaveAttempts
<1>8. ReadsAreConsistent'
  <2>1. \A w \in Run : run[w].now # None => mail'[run[w].now] = mail[run[w].now]
    BY <1>1, <1>2 DEF IInv, TypeOK, Runs
  <2>2. \A w \in Run : \A x \in run[w].todo : run[w].read[x].attempts < MaxAttempts + manual'
    BY <1>3 DEF IInv, ReadsAreConsistent
  <2> QED
    BY <2>1, <2>2 DEF IInv, ReadsAreConsistent
<1>9. DeliveryFollowsStatus'
  BY <1>1 DEF IInv, DeliveryFollowsStatus
<1>10. StrandedMail' \subseteq StrandedMail
  BY <1>1 DEF StrandedMail, Stranded
<1> QED
  BY <1>4, <1>5, <1>6, <1>7, <1>8, <1>9, <1>10, NothingStranded DEF IInv

(***************************************************************************)
(* A step of a run that is not sending: it has selected, skipped or ended. *)
(***************************************************************************)
LEMMA QuietRunStep ==
    ASSUME IInv, NEW w \in Run, NEW x \in Runs,
           run' = [run EXCEPT ![w] = x],
           run[w].now = None, x.now = None, x.pc \in {"idle", "batch"},
           \A m \in x.todo : /\ x.read[m].status \in DUE_STATUSES
                             /\ x.read[m].attempts < MaxAttempts + manual,
           UNCHANGED <<mail, delivered, doubted, manual, crashes>>
    PROVE  IInv'
<1>1. \A v \in Run : run'[v] = IF v = w THEN x ELSE run[v]
  BY DEF IInv, TypeOK
<1>2. TypeOK'
  BY <1>1 DEF IInv, TypeOK
<1>3. ClaimIsExclusive' /\ ReadsAreConsistent'
  BY <1>1 DEF IInv, ClaimIsExclusive, ReadsAreConsistent
<1>4. ExactlyOnce' /\ DueHaveAttempts' /\ DeliveryFollowsStatus'
  BY <1>1 DEF IInv, ExactlyOnce, SentIsDelivered, AtMostOnce, DueHaveAttempts,
              DeliveryFollowsStatus
<1>5. StrandedMail' \subseteq StrandedMail
  BY <1>1, ConstantsAssumption DEF StrandedMail, Stranded
<1> QED
  BY <1>2, <1>3, <1>4, <1>5, NothingStranded DEF IInv

-----------------------------------------------------------------------------
(***************************************************************************)
(* A message is claimed: the run that does so is the only one that has it. *)
(***************************************************************************)
LEMMA ClaimKeeps ==
    ASSUME IInv, NEW w \in Run, NEW m \in Mail, Claim(w, m)
    PROVE  IInv'
<1> DEFINE row == [mail[m] EXCEPT !.status = "processing", !.attempts = run[w].read[m].attempts + 1]
           x == [run[w] EXCEPT !.pc = "claimed", !.todo = @ \ {m}, !.now = m]
<1>1. /\ run[w] \in Runs /\ mail[m] \in Rows /\ m \in run[w].todo /\ run[w].pc = "batch"
      /\ run[w].now = None /\ m # None
      /\ mail[m].status \in DUE_STATUSES
      /\ run[w].read[m].attempts \in Nat
      /\ run[w].read[m].attempts < MaxAttempts + manual
      /\ manual \in Nat /\ MaxAttempts \in Nat
  BY ConstantsAssumption DEF Claim, StillAsRead, IInv, TypeOK, Runs, Rows, ReadsAreConsistent
<1>2. /\ row \in Rows /\ row.status = "processing"
      /\ row.attempts = run[w].read[m].attempts + 1
      /\ row.attempts <= MaxAttempts + manual
  <2> DEFINE next == run[w].read[m].attempts + 1
  <2>1. next \in Nat /\ next <= MaxAttempts + manual
    BY <1>1
  <2>2. row = [mail[m] EXCEPT !.status = "processing", !.attempts = next]
    OBVIOUS
  <2> HIDE DEF row, next
  <2>3. row \in Rows /\ row.status = "processing" /\ row.attempts = next
    BY <1>1, <2>1, <2>2 DEF Rows, EMAIL_STATUSES
  <2> QED
    BY <2>1, <2>3 DEF next
<1>3. /\ x \in Runs /\ x.pc = "claimed" /\ x.now = m /\ x.todo = run[w].todo \ {m}
      /\ x.read = run[w].read
  BY <1>1 DEF Runs
<1>4. /\ mail' = [mail EXCEPT ![m] = row] /\ run' = [run EXCEPT ![w] = x]
      /\ UNCHANGED <<delivered, doubted, manual, crashes>>
  BY DEF Claim, IInv, TypeOK
<1> HIDE DEF row, x
<1>5. /\ \A y \in Mail : mail'[y] = IF y = m THEN row ELSE mail[y]
      /\ \A v \in Run : run'[v] = IF v = w THEN x ELSE run[v]
  BY <1>4 DEF IInv, TypeOK
<1>6. \A v \in Run : run[v].now # m /\ run[v].now \in Mail \cup {None}
  BY <1>1 DEF IInv, ClaimIsExclusive, DUE_STATUSES, TypeOK, Runs
<1>7. TypeOK'
  BY <1>1, <1>2, <1>3, <1>4, <1>5 DEF IInv, TypeOK
<1>8. ClaimIsExclusive'
  BY <1>2, <1>3, <1>5, <1>6 DEF IInv, ClaimIsExclusive
<1>9. ReadsAreConsistent'
  BY <1>2, <1>3, <1>4, <1>5, <1>6 DEF IInv, ReadsAreConsistent
<1>10. ExactlyOnce'
  BY <1>2, <1>4, <1>5 DEF IInv, ExactlyOnce, SentIsDelivered, AtMostOnce
<1>11. DueHaveAttempts'
  BY <1>2, <1>4, <1>5 DEF IInv, DueHaveAttempts, DUE_STATUSES
<1>12. DeliveryFollowsStatus'
  <2>1. m \notin doubted => delivered[m] = 0
    BY <1>1 DEF IInv, DeliveryFollowsStatus, DUE_STATUSES
  <2> QED
    BY <1>2, <1>3, <1>4, <1>5, <1>6, <2>1 DEF IInv, DeliveryFollowsStatus
<1>13. StrandedMail' \subseteq StrandedMail
  BY <1>1, <1>3, <1>5, ConstantsAssumption DEF StrandedMail, Stranded
<1> QED
  BY <1>4, <1>7, <1>8, <1>9, <1>10, <1>11, <1>12, <1>13, NothingStranded DEF IInv

(***************************************************************************)
(* An attempt is over, with whatever outcome: the run writes the row that  *)
(* it alone has, and the message is not being processed any more.          *)
(***************************************************************************)
LEMMA SettleKeeps ==
    ASSUME IInv, NEW w \in Run, NEW m \in Mail, NEW row \in Rows,
           run[w].pc \in {"claimed", "accepted"}, run[w].now = m,
           Settle(w, row),
           row.status # "processing",
           row.attempts = mail[m].attempts,
           row.status \in DUE_STATUSES => row.attempts < MaxAttempts,
           \* what the server has of it
           delivered' \in [Mail -> Nat],
           \A y \in Mail \ {m} : delivered'[y] = delivered[y],
           doubted' \in {doubted, doubted \cup {m}},
           row.status = "sent" => delivered'[m] > 0,
           m \notin doubted' => delivered'[m] <= 1,
           m \notin doubted' /\ row.status # "sent" => delivered'[m] = 0,
           UNCHANGED <<manual, crashes>>
    PROVE  IInv'
<1> DEFINE x == [run[w] EXCEPT !.pc = "batch", !.read[m] = NoRow, !.now = None]
<1>1. /\ run[w] \in Runs /\ mail[m] \in Rows /\ m # None
      /\ mail[m].attempts \in Nat /\ manual \in Nat /\ MaxAttempts \in Nat
      /\ mail[m].status = "processing"
  BY ConstantsAssumption DEF IInv, TypeOK, Rows, ClaimIsExclusive
<1>2. NoRow \in Rows
  BY DEF NoRow, Rows
<1>3. /\ x \in Runs /\ x.pc = "batch" /\ x.now = None /\ x.todo = run[w].todo
      /\ \A y \in Mail \ {m} : x.read[y] = run[w].read[y]
  BY <1>1, <1>2 DEF Runs
<1>4. /\ mail' = [mail EXCEPT ![m] = row] /\ run' = [run EXCEPT ![w] = x]
  BY DEF Settle, IInv, TypeOK
<1> HIDE DEF x
<1>5. /\ \A y \in Mail : mail'[y] = IF y = m THEN row ELSE mail[y]
      /\ \A v \in Run : run'[v] = IF v = w THEN x ELSE run[v]
  BY <1>4 DEF IInv, TypeOK
<1>6. \A v \in Run \ {w} : run[v].now # m /\ run[v].now \in Mail \cup {None}
  BY <1>1 DEF IInv, ClaimIsExclusive, TypeOK, Runs
<1>7. TypeOK'
  BY <1>1, <1>3, <1>4, <1>5 DEF IInv, TypeOK
<1>8. ClaimIsExclusive'
  BY <1>3, <1>5, <1>6 DEF IInv, ClaimIsExclusive
<1>9. ReadsAreConsistent'
  <2>1. m \notin run[w].todo /\ run[w].todo \subseteq Mail
    BY <1>1 DEF IInv, ReadsAreConsistent, Runs
  <2> QED
    BY <1>3, <1>4, <1>5, <1>6, <2>1 DEF IInv, ReadsAreConsistent
<1>10. ExactlyOnce'
  BY <1>5 DEF IInv, ExactlyOnce, SentIsDelivered, AtMostOnce
<1>11. DueHaveAttempts'
  BY <1>1, <1>5 DEF IInv, DueHaveAttempts
<1>12. DeliveryFollowsStatus'
  <2>1. \A y \in Mail \ doubted' :
            mail'[y].status \notin {"processing", "sent"} => delivered'[y] = 0
    BY <1>5 DEF IInv, DeliveryFollowsStatus
  <2>2. \A v \in Run \ {w} : run[v].pc \in {"claimed", "accepted"} =>
            run[v].now \in Mail \ {m} /\ delivered'[run[v].now] = delivered[run[v].now]
    BY <1>6 DEF IInv, TypeOK
  <2> QED
    BY <1>3, <1>5, <2>1, <2>2 DEF IInv, DeliveryFollowsStatus
<1>13. StrandedMail' \subseteq StrandedMail
  BY <1>1, <1>5 DEF StrandedMail, Stranded
<1> QED
  BY <1>7, <1>8, <1>9, <1>10, <1>11, <1>12, <1>13, NothingStranded DEF IInv

(***************************************************************************)
(* A run dies: the message that it was sending is stranded, and no other.  *)
(***************************************************************************)
LEMMA CrashKeeps ==
    ASSUME IInv, NEW w \in Run, Crash(w)
    PROVE  IInv'
<1>1. /\ \A v \in Run : run'[v] = IF v = w THEN Resting ELSE run[v]
      /\ run' = [run EXCEPT ![w] = Resting]
      /\ UNCHANGED <<mail, delivered, doubted, manual>>
      /\ crashes' = crashes + 1 /\ crashes \in Nat /\ crashes' \in 0 .. MaxCrashes
  BY ConstantsAssumption DEF Crash, IInv, TypeOK
<1>2. TypeOK'
  BY <1>1, RestingIsRun DEF IInv, TypeOK
<1>3. ClaimIsExclusive' /\ ReadsAreConsistent'
  BY <1>1, RestingIsRun DEF IInv, ClaimIsExclusive, ReadsAreConsistent
<1>4. ExactlyOnce' /\ DueHaveAttempts' /\ DeliveryFollowsStatus'
  BY <1>1, RestingIsRun DEF IInv, ExactlyOnce, SentIsDelivered, AtMostOnce, DueHaveAttempts,
                            DeliveryFollowsStatus
<1>5. IsFiniteSet(StrandedMail)' /\ StrandedByCrash'
  <2> DEFINE more == StrandedMail \cup {run[w].now}
  <2>1. StrandedMail' \subseteq more
    BY <1>1 DEF StrandedMail, Stranded
  <2>2. IsFiniteSet(StrandedMail) /\ Cardinality(StrandedMail) <= crashes
    BY DEF IInv, StrandedByCrash, StrandedMail
  <2>3. IsFiniteSet(more) /\ Cardinality(more) <= crashes + 1
    <3>1. Cardinality(StrandedMail) \in Nat
      BY <2>2, FS_CardinalityType
    <3>2. /\ IsFiniteSet(more)
          /\ Cardinality(more) = IF run[w].now \in StrandedMail
                                 THEN Cardinality(StrandedMail) ELSE Cardinality(StrandedMail) + 1
      BY <2>2, FS_AddElement
    <3> QED
      BY <1>1, <2>2, <3>1, <3>2
  <2> HIDE DEF more
  <2>4. IsFiniteSet(StrandedMail') /\ Cardinality(StrandedMail') <= Cardinality(more)
    BY <2>1, <2>3, FS_Subset
  <2>5. Cardinality(StrandedMail') \in Nat /\ Cardinality(more) \in Nat
    BY <2>3, <2>4, FS_CardinalityType
  <2>6. Cardinality(StrandedMail') <= crashes'
    BY <1>1, <2>3, <2>4, <2>5
  <2> QED
    BY <2>4, <2>6 DEF StrandedByCrash, StrandedMail
<1> QED
  BY <1>2, <1>3, <1>4, <1>5 DEF IInv, DueHaveAttempts

\* The server accepts the message, and the run knows.
LEMMA AcceptedKeeps ==
    ASSUME IInv, NEW w \in Run, Accepted(w)
    PROVE  IInv'
<1> DEFINE m == run[w].now
           x == [run[w] EXCEPT !.pc = "accepted"]
<1>1. /\ run[w] \in Runs /\ run[w].pc = "claimed" /\ m \in Mail /\ m # None
      /\ mail[m].status = "processing" /\ delivered[m] \in Nat
      /\ m \notin doubted => delivered[m] = 0
      /\ \A v \in Run \ {w} : run[v].now # m
  BY DEF Accepted, IInv, TypeOK, Runs, ClaimIsExclusive, DeliveryFollowsStatus
<1>2. /\ x \in Runs /\ x.pc = "accepted" /\ x.now = m /\ x.todo = run[w].todo
      /\ x.read = run[w].read
  BY <1>1 DEF Runs
<1>3. /\ delivered' = [delivered EXCEPT ![m] = @ + 1] /\ run' = [run EXCEPT ![w] = x]
      /\ UNCHANGED <<mail, doubted, manual, crashes>>
  BY DEF Accepted, IInv, TypeOK
<1> HIDE DEF x
<1>4. /\ \A v \in Run : run'[v] = IF v = w THEN x ELSE run[v]
      /\ \A y \in Mail : delivered'[y] = IF y = m THEN delivered[m] + 1 ELSE delivered[y]
  BY <1>3 DEF IInv, TypeOK
<1>5. delivered' \in [Mail -> Nat]
  BY <1>1, <1>3 DEF IInv, TypeOK
<1>6. TypeOK'
  BY <1>1, <1>2, <1>3, <1>4, <1>5 DEF IInv, TypeOK
<1>7. ClaimIsExclusive' /\ ReadsAreConsistent'
  BY <1>2, <1>3, <1>4 DEF IInv, ClaimIsExclusive, ReadsAreConsistent
<1>8. ExactlyOnce'
  BY <1>1, <1>3, <1>4 DEF IInv, TypeOK, ExactlyOnce, SentIsDelivered, AtMostOnce
<1>9. DueHaveAttempts'
  BY <1>3 DEF IInv, DueHaveAttempts
<1>10. DeliveryFollowsStatus'
  <2>1. \A v \in Run \ {w} : run[v].pc \in {"claimed", "accepted"} =>
            run[v].now \in Mail \ {m} /\ delivered'[run[v].now] = delivered[run[v].now]
    BY <1>1, <1>4 DEF IInv, TypeOK, Runs
  <2>2. delivered'[m] > 0
    BY <1>1, <1>4
  <2> QED
    BY <1>1, <1>2, <1>3, <1>4, <2>1, <2>2 DEF IInv, DeliveryFollowsStatus
<1>11. StrandedMail' \subseteq StrandedMail
  BY <1>2, <1>3, <1>4 DEF StrandedMail, Stranded
<1> QED
  BY <1>3, <1>6, <1>7, <1>8, <1>9, <1>10, <1>11, NothingStranded DEF IInv

\* The row after an attempt that failed.
LEMMA FailureRow ==
    ASSUME IInv, NEW w \in Run, run[w].pc = "claimed", NEW retryable \in BOOLEAN
    PROVE  LET row == AfterFailure(w, retryable) IN
           /\ row \in Rows /\ row.status \in {"retry_scheduled", "failed"}
           /\ row.attempts = mail[run[w].now].attempts
           /\ row.status = "retry_scheduled" => row.attempts < MaxAttempts
<1> DEFINE m == run[w].now
<1>1. /\ m \in Mail /\ mail[m] \in Rows
      /\ mail[m].attempts = run[w].read[m].attempts + 1
  BY DEF IInv, TypeOK, Runs, ReadsAreConsistent
<1> QED
  BY <1>1 DEF AfterFailure, MayRetry, Rows, EMAIL_STATUSES

(***************************************************************************)
(* Every step of the runs, the superadmin and the clock keeps the          *)
(* invariant.                                                              *)
(***************************************************************************)
THEOREM QueueInductive == IInv /\ [Next]_vars => IInv'
<1> SUFFICES ASSUME IInv, [Next]_vars
             PROVE  IInv'
  OBVIOUS
<1>0. MaxAttempts \in Nat \ {0} /\ manual \in 0 .. MaxManual /\ manual \in Nat /\ MaxManual \in Nat
  BY ConstantsAssumption DEF IInv, TypeOK
<1>1. ASSUME NEW m \in Mail, Enqueue(m)
      PROVE  IInv'
  <2> DEFINE row == [status |-> "pending", attempts |-> 0, due |-> TRUE]
  <2>1. row \in Rows /\ row.status = "pending" /\ row.attempts = 0
    BY DEF Rows, EMAIL_STATUSES
  <2>2. /\ mail' = [mail EXCEPT ![m] = row] /\ mail[m].status = "none"
        /\ UNCHANGED <<run, delivered, doubted, manual, crashes>>
    BY <1>1 DEF Enqueue
  <2> HIDE DEF row
  <2>3. /\ row.attempts < MaxAttempts + manual' /\ manual' \in 0 .. MaxManual
        /\ manual <= manual'
    BY <1>0, <2>1, <2>2
  <2> QED
    BY <2>1, <2>2, <2>3, QuietMailStep
<1>2. ASSUME NEW m \in Mail, ManualRetry(m)
      PROVE  IInv'
  <2> DEFINE row == [mail[m] EXCEPT !.status = "pending", !.due = TRUE]
  <2>1. mail[m] \in Rows /\ mail[m].attempts \in Nat /\ mail[m].attempts <= MaxAttempts + manual
    BY DEF IInv, TypeOK, Rows
  <2>2. row \in Rows /\ row.status = "pending" /\ row.attempts = mail[m].attempts
    BY <2>1 DEF Rows, EMAIL_STATUSES
  <2>3. /\ mail' = [mail EXCEPT ![m] = row] /\ mail[m].status = "failed"
        /\ manual' = manual + 1 /\ manual < MaxManual
        /\ UNCHANGED <<run, delivered, doubted, crashes>>
    BY <1>2 DEF ManualRetry, IInv, TypeOK
  <2> HIDE DEF row
  <2>4. /\ row.attempts < MaxAttempts + manual' /\ manual' \in 0 .. MaxManual
        /\ manual <= manual'
    BY <1>0, <2>1, <2>2, <2>3
  <2> QED
    BY <2>2, <2>3, <2>4, QuietMailStep
<1>3. ASSUME NEW m \in Mail, BecomesDue(m)
      PROVE  IInv'
  <2> DEFINE row == [mail[m] EXCEPT !.due = TRUE]
  <2>1. mail[m] \in Rows /\ mail[m].status = "retry_scheduled"
        /\ mail[m].attempts < MaxAttempts + manual
    BY <1>3 DEF BecomesDue, IInv, TypeOK, DueHaveAttempts, DUE_STATUSES
  <2>2. row \in Rows /\ row.status = "retry_scheduled" /\ row.attempts = mail[m].attempts
    BY <2>1 DEF Rows
  <2>3. /\ mail' = [mail EXCEPT ![m] = row]
        /\ UNCHANGED <<run, delivered, doubted, manual, crashes>>
    BY <1>3 DEF BecomesDue, IInv, TypeOK
  <2> HIDE DEF row
  <2>4. /\ row.attempts < MaxAttempts + manual' /\ manual' \in 0 .. MaxManual
        /\ manual <= manual'
    BY <1>0, <2>1, <2>2, <2>3
  <2> QED
    BY <2>1, <2>2, <2>3, <2>4, QuietMailStep
<1>4. ASSUME NEW w \in Run, SelectBatch(w)
      PROVE  IInv'
  <2> DEFINE read == [m \in Mail |-> IF m \in Due THEN mail[m] ELSE NoRow]
             x == [run[w] EXCEPT !.pc = "batch", !.todo = Due, !.read = read]
  <2>1. run[w] \in Runs /\ run[w].now = None
    BY <1>4 DEF SelectBatch, IInv, TypeOK
  <2>2. /\ read \in [Mail -> Rows] /\ Due \subseteq Mail
        /\ \A m \in Due : read[m] = mail[m]
    BY DEF IInv, TypeOK, Due, NoRow, Rows
  <2>3. run' = [run EXCEPT ![w] = x]
    BY <1>4 DEF SelectBatch, IInv, TypeOK
  <2> HIDE DEF read
  <2>4. /\ x \in Runs /\ x.now = None /\ x.pc = "batch" /\ x.todo = Due /\ x.read = read
    BY <2>1, <2>2 DEF Runs
  <2>5. \A m \in Due : /\ read[m].status \in DUE_STATUSES
                       /\ read[m].attempts < MaxAttempts + manual
    BY <2>2 DEF Due, IInv, DueHaveAttempts
  <2> HIDE DEF x
  <2> QED
    BY <1>4, <2>1, <2>3, <2>4, <2>5, QuietRunStep DEF SelectBatch
<1>5. ASSUME NEW w \in Run, EndBatch(w)
      PROVE  IInv'
  <2>1. run[w].now = None
    BY <1>5 DEF EndBatch, IInv, TypeOK
  <2> QED
    BY <1>5, <2>1, RestingIsRun, QuietRunStep DEF EndBatch
<1>6. ASSUME NEW w \in Run, NEW m \in Mail, Skip(w, m)
      PROVE  IInv'
  <2> DEFINE x == [run[w] EXCEPT !.todo = @ \ {m}, !.read[m] = NoRow]
  <2>1. run[w] \in Runs /\ run[w].now = None /\ run[w].pc = "batch" /\ run[w].todo \subseteq Mail
    BY <1>6 DEF Skip, IInv, TypeOK, Runs
  <2>2. /\ x \in Runs /\ x.now = None /\ x.pc = "batch" /\ x.todo = run[w].todo \ {m}
        /\ \A y \in Mail \ {m} : x.read[y] = run[w].read[y]
    BY <2>1 DEF Runs, NoRow, Rows
  <2>3. /\ run' = [run EXCEPT ![w] = x]
        /\ UNCHANGED <<mail, delivered, doubted, manual, crashes>>
    BY <1>6 DEF Skip, IInv, TypeOK
  <2> HIDE DEF x
  <2>4. \A y \in x.todo : /\ x.read[y].status \in DUE_STATUSES
                          /\ x.read[y].attempts < MaxAttempts + manual
    BY <2>1, <2>2 DEF IInv, ReadsAreConsistent
  <2> QED
    BY <2>1, <2>2, <2>3, <2>4, QuietRunStep
<1>7. ASSUME NEW w \in Run, Fails(w)
      PROVE  IInv'
  <2>1. PICK retryable \in BOOLEAN : Settle(w, AfterFailure(w, retryable))
    BY <1>7 DEF Fails
  <2> DEFINE row == AfterFailure(w, retryable)
  <2>2. /\ run[w].pc = "claimed" /\ run[w].now \in Mail
        /\ UNCHANGED <<delivered, doubted, manual, crashes>>
    BY <1>7 DEF Fails, IInv, TypeOK, Runs
  <2>3. PICK m \in Mail : m = run[w].now
    BY <2>2
  <2>4. /\ row \in Rows /\ row.status \in {"retry_scheduled", "failed"}
        /\ row.attempts = mail[m].attempts
        /\ row.status = "retry_scheduled" => row.attempts < MaxAttempts
    BY <2>2, <2>3, FailureRow
  <2>5. m \notin doubted => delivered[m] = 0
    BY <2>2, <2>3 DEF IInv, DeliveryFollowsStatus
  <2>6. delivered \in [Mail -> Nat]
    BY DEF IInv, TypeOK
  <2> HIDE DEF row
  <2> QED
    BY <2>1, <2>2, <2>3, <2>4, <2>5, <2>6, SettleKeeps DEF DUE_STATUSES, row
<1>8. ASSUME NEW w \in Run, FailsAfterAccept(w)
      PROVE  IInv'
  <2> DEFINE row == AfterFailure(w, TRUE)
  <2>1. run[w].now \in Mail /\ run[w].pc = "claimed"
    BY <1>8 DEF FailsAfterAccept, IInv, TypeOK, Runs
  <2>2. PICK m \in Mail : m = run[w].now
    BY <2>1
  <2>3. /\ delivered' = [delivered EXCEPT ![m] = @ + 1] /\ doubted' = doubted \cup {m}
        /\ Settle(w, row) /\ UNCHANGED <<manual, crashes>>
    BY <1>8, <2>2 DEF FailsAfterAccept
  <2>4. /\ row \in Rows /\ row.status \in {"retry_scheduled", "failed"}
        /\ row.attempts = mail[m].attempts
        /\ row.status = "retry_scheduled" => row.attempts < MaxAttempts
    BY <2>1, <2>2, FailureRow
  <2>5. delivered' \in [Mail -> Nat] /\ \A y \in Mail \ {m} : delivered'[y] = delivered[y]
    BY <2>3 DEF IInv, TypeOK
  <2> HIDE DEF row
  <2> QED
    BY <2>1, <2>2, <2>3, <2>4, <2>5, SettleKeeps DEF DUE_STATUSES
<1>9. ASSUME NEW w \in Run, RecordSent(w)
      PROVE  IInv'
  <2>1. run[w].now \in Mail /\ run[w].pc = "accepted"
    BY <1>9 DEF RecordSent, IInv, TypeOK, Runs
  <2>2. PICK m \in Mail : m = run[w].now
    BY <2>1
  <2> DEFINE row == [mail[m] EXCEPT !.status = "sent"]
  <2>3. row \in Rows /\ row.status = "sent" /\ row.attempts = mail[m].attempts
    BY DEF IInv, TypeOK, Rows, EMAIL_STATUSES
  <2>4. Settle(w, row) /\ UNCHANGED <<delivered, doubted, manual, crashes>>
    BY <1>9, <2>2 DEF RecordSent
  <2>5. /\ delivered \in [Mail -> Nat] /\ delivered[m] > 0
        /\ m \notin doubted => delivered[m] <= 1
    BY <2>1, <2>2 DEF IInv, TypeOK, DeliveryFollowsStatus, ExactlyOnce, AtMostOnce
  <2> HIDE DEF row
  <2> QED
    BY <2>1, <2>2, <2>3, <2>4, <2>5, SettleKeeps DEF DUE_STATUSES
<1>10. CASE UNCHANGED vars
  <2>1. UNCHANGED <<mail, run, delivered, doubted, manual, crashes>>
    BY <1>10 DEF vars
  <2>2. StrandedMail' = StrandedMail
    BY <2>1 DEF StrandedMail, Stranded
  <2> QED
    BY <2>1, <2>2 DEF IInv, TypeOK, ClaimIsExclusive, ExactlyOnce, SentIsDelivered, AtMostOnce,
                      StrandedByCrash, StrandedMail, DueHaveAttempts, ReadsAreConsistent,
                      DeliveryFollowsStatus
<1> QED
  BY <1>1, <1>2, <1>3, <1>4, <1>5, <1>6, <1>7, <1>8, <1>9, <1>10, ClaimKeeps, AcceptedKeeps,
     CrashKeeps DEF Next, Step

\* The invariant holds of every state of the queue.
THEOREM QueueInvariant == Spec => []IInv
BY Initially, QueueInductive, PTL DEF Spec

\* The types hold, and no message gets an attempt more than it is entitled to.
THEOREM QueueTypeCorrect == Spec => []TypeOK
<1>1. IInv => TypeOK
  BY DEF IInv
<1> QED
  BY <1>1, QueueInvariant, PTL

(***************************************************************************)
(* Comparing the status alone, and never the attempt number, suffices to   *)
(* give a message that is being sent one owner.                            *)
(***************************************************************************)
THEOREM ClaimsExclude == Spec => []ClaimIsExclusive
<1>1. IInv => ClaimIsExclusive
  BY DEF IInv
<1> QED
  BY <1>1, QueueInvariant, PTL

\* What is sent was delivered, once, unless the server left a doubt.
THEOREM DeliveredOnce == Spec => []ExactlyOnce
<1>1. IInv => ExactlyOnce
  BY DEF IInv
<1> QED
  BY <1>1, QueueInvariant, PTL

\* The messages nobody will send again are no more than the runs that died.
THEOREM CrashesStrand == Spec => []StrandedByCrash
<1>1. IInv => StrandedByCrash
  BY DEF IInv
<1> QED
  BY <1>1, QueueInvariant, PTL
==============================================================================
