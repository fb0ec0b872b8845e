----------------------------- MODULE EmailQueue -----------------------------
(***************************************************************************)
(* The outgoing mail queue (app/email_notifications.py): enqueue_email     *)
(* stores a message, runs of app/scripts/process_email_queue.py claim and  *)
(* send the due ones, and a superadmin may retry a failed one.             *)
(*                                                                         *)
(* A run reads its batch once and then claims row by row, with an UPDATE   *)
(* that compares the status it read; it commits the claim before it talks  *)
(* to the SMTP server and the outcome after.  Nothing keeps two runs from  *)
(* overlapping.  The batch limit of 20 is above the number of messages of  *)
(* the model.                                                              *)
(*                                                                         *)
(* An operator named Bug... is a plausible mistake in the one after it.    *)
(***************************************************************************)
EXTENDS Integers, FiniteSets

CONSTANTS
    Mail,         \* messages, each with its idempotency key
    Run,          \* runs of the script
    MaxAttempts,  \* max_attempts, 3 by default
    MaxManual,    \* bound of the model on the manual retries
    MaxCrashes,   \* bound of the model on the runs that die
    None          \* no message

ASSUME ConstantsAssumption ==
    /\ MaxAttempts \in Nat \ {0}
    /\ MaxManual \in Nat
    /\ MaxCrashes \in Nat
    /\ None \notin Mail

VARIABLES
    mail,       \* the committed row of each message: status, attempts, due (scheduled_at <= now)
    run,        \* the state of each run: pc, todo (the batch), read (its rows), now (the claim)
    delivered,  \* how often the SMTP server accepted each message
    doubted,    \* messages the server accepted although the run saw an error
    manual,     \* how many manual retries there were
    crashes     \* how many runs have died

vars == <<mail, run, delivered, doubted, manual, crashes>>

EMAIL_STATUSES == {"pending", "processing", "sent", "retry_scheduled", "failed"}
DUE_STATUSES == {"pending", "retry_scheduled"}

\* "none" is the status of a message that is not enqueued yet.
Rows == [status : EMAIL_STATUSES \cup {"none"}, attempts : Nat, due : BOOLEAN]

NoRow == [status |-> "none", attempts |-> 0, due |-> FALSE]
Resting == [pc |-> "idle", todo |-> {}, read |-> [m \in Mail |-> NoRow], now |-> None]

Runs ==
    [pc : {"idle", "batch", "claimed", "accepted"}, todo : SUBSET Mail, read : [Mail -> Rows],
     now : Mail \cup {None}]

TypeOK ==
    /\ mail \in [Mail -> Rows]
    /\ \A m \in Mail : mail[m].attempts <= MaxAttempts + manual
    /\ run \in [Run -> Runs]
    /\ \A w \in Run : (run[w].now = None) <=> run[w].pc \in {"idle", "batch"}
    /\ delivered \in [Mail -> Nat]
    /\ doubted \subseteq Mail
    /\ manual \in 0 .. MaxManual
    /\ crashes \in 0 .. MaxCrashes

Init ==
    /\ mail = [m \in Mail |-> NoRow]
    /\ run = [w \in Run |-> Resting]
    /\ delivered = [m \in Mail |-> 0]
    /\ doubted = {}
    /\ manual = 0
    /\ crashes = 0

-----------------------------------------------------------------------------
(***************************************************************************)
(* enqueue_email.  A second call with the key of a stored message changes  *)
(* nothing.                                                                *)
(***************************************************************************)
Enqueue(m) ==
    /\ mail[m].status = "none"
    /\ mail' = [mail EXCEPT ![m] = [status |-> "pending", attempts |-> 0, due |-> TRUE]]
    /\ UNCHANGED <<run, delivered, doubted, manual, crashes>>

\* Every message that has not been sent may be retried.
BugManualRetry(m) ==
    /\ mail[m].status \in EMAIL_STATUSES \ {"pending"}
    /\ manual < MaxManual
    /\ manual' = manual + 1
    /\ mail' = [mail EXCEPT ![m].status = "pending", ![m].due = TRUE]
    /\ UNCHANGED <<run, delivered, doubted, crashes>>

(***************************************************************************)
(* manual_retry_email: the attempts are not reset, and the message of a    *)
(* link that has expired is refused.                                       *)
(***************************************************************************)
ManualRetry(m) ==
    /\ mail[m].status = "failed"
    /\ manual < MaxManual
    /\ manual' = manual + 1
    /\ mail' = [mail EXCEPT ![m].status = "pending", ![m].due = TRUE]
    /\ UNCHANGED <<run, delivered, doubted, crashes>>

\* The delay of a retry passes.
BecomesDue(m) ==
    /\ mail[m].status = "retry_scheduled"
    /\ ~mail[m].due
    /\ mail' = [mail EXCEPT ![m].due = TRUE]
    /\ UNCHANGED <<run, delivered, doubted, manual, crashes>>

-----------------------------------------------------------------------------
\* Only new messages are looked for.
BugDue == {m \in Mail : mail[m].status = "pending" /\ mail[m].due}

Due == {m \in Mail : mail[m].status \in DUE_STATUSES /\ mail[m].due}

\* The whole batch is claimed at once.
BugSelectBatch(w) ==
    /\ run[w].pc = "idle"
    /\ Due # {}
    /\ mail' = [m \in Mail |-> IF m \in Due THEN [mail[m] EXCEPT !.status = "processing"]
                               ELSE mail[m]]
    /\ run' = [run EXCEPT ![w].pc = "batch",
                          ![w].todo = Due,
                          ![w].read = [m \in Mail |-> IF m \in Due THEN mail'[m] ELSE NoRow]]
    /\ UNCHANGED <<delivered, doubted, manual, crashes>>

SelectBatch(w) ==
    /\ run[w].pc = "idle"
    /\ Due # {}
    /\ run' = [run EXCEPT ![w].pc = "batch",
                          ![w].todo = Due,
                          ![w].read = [m \in Mail |-> IF m \in Due THEN mail[m] ELSE NoRow]]
    /\ UNCHANGED <<mail, delivered, doubted, manual, crashes>>

EndBatch(w) ==
    /\ run[w].pc = "batch"
    /\ run[w].todo = {}
    /\ run' = [run EXCEPT ![w] = Resting]
    /\ UNCHANGED <<mail, delivered, doubted, manual, crashes>>

\* The UPDATE does not compare the status.
BugStillAsRead(w, m) == TRUE

\* The condition of the UPDATE that claims a message: its status is the one that was read.
StillAsRead(w, m) == mail[m].status = run[w].read[m].status

(***************************************************************************)
(* The claim is committed at once.  Its attempt number comes from the row  *)
(* that was read with the batch.                                           *)
(***************************************************************************)
Claim(w, m) ==
    /\ run[w].pc = "batch"
    /\ m \in run[w].todo
    /\ StillAsRead(w, m)
    /\ mail' = [mail EXCEPT ![m].status = "processing",
                            ![m].attempts = run[w].read[m].attempts + 1]
    /\ run' = [run EXCEPT ![w].pc = "claimed", ![w].todo = @ \ {m}, ![w].now = m]
    /\ UNCHANGED <<delivered, doubted, manual, crashes>>

Skip(w, m) ==
    /\ run[w].pc = "batch"
    /\ m \in run[w].todo
    /\ ~StillAsRead(w, m)
    /\ run' = [run EXCEPT ![w].todo = @ \ {m}, ![w].read[m] = NoRow]
    /\ UNCHANGED <<mail, delivered, doubted, manual, crashes>>

Settle(w, row) ==
    /\ mail' = [mail EXCEPT ![run[w].now] = row]
    /\ run' = [run EXCEPT ![w].pc = "batch", ![w].read[run[w].now] = NoRow, ![w].now = None]

\* One attempt too many.
BugMayRetry(attempt) == attempt <= MaxAttempts

MayRetry(attempt) == attempt < MaxAttempts

(***************************************************************************)
(* The row after an EmailDeliveryError.  A missing recipient, an expired   *)
(* link or a bad template is not retried.                                  *)
(***************************************************************************)
AfterFailure(w, retryable) ==
    LET m == run[w].now IN
    IF retryable /\ MayRetry(run[w].read[m].attempts + 1)
    THEN [mail[m] EXCEPT !.status = "retry_scheduled", !.due = FALSE]
    ELSE [mail[m] EXCEPT !.status = "failed"]

Fails(w) ==
    /\ run[w].pc = "claimed"
    /\ \E retryable \in BOOLEAN : Settle(w, AfterFailure(w, retryable))
    /\ UNCHANGED <<delivered, doubted, manual, crashes>>

\* The server accepts the message and the connection breaks before the run knows.
FailsAfterAccept(w) ==
    /\ run[w].pc = "claimed"
    /\ delivered' = [delivered EXCEPT ![run[w].now] = @ + 1]
    /\ doubted' = doubted \cup {run[w].now}
    /\ Settle(w, AfterFailure(w, TRUE))
    /\ UNCHANGED <<manual, crashes>>

Accepted(w) ==
    /\ run[w].pc = "claimed"
    /\ delivered' = [delivered EXCEPT ![run[w].now] = @ + 1]
    /\ run' = [run EXCEPT ![w].pc = "accepted"]
    /\ UNCHANGED <<mail, doubted, manual, crashes>>

RecordSent(w) ==
    /\ run[w].pc = "accepted"
    /\ Settle(w, [mail[run[w].now] EXCEPT !.status = "sent"])
    /\ UNCHANGED <<delivered, doubted, manual, crashes>>

(***************************************************************************)
(* The run is killed, or an exception that is no EmailDeliveryError ends   *)
(* it: what it has claimed stays "processing".                             *)
(***************************************************************************)
Crash(w) ==
    /\ run[w].pc # "idle"
    /\ crashes < MaxCrashes
    /\ crashes' = crashes + 1
    /\ run' = [run EXCEPT ![w] = Resting]
    /\ UNCHANGED <<mail, delivered, doubted, manual>>

Step(w) ==
    \/ SelectBatch(w)
    \/ EndBatch(w)
    \/ \E m \in Mail : Claim(w, m) \/ Skip(w, m)
    \/ Fails(w)
    \/ FailsAfterAccept(w)
    \/ Accepted(w)
    \/ RecordSent(w)

Next ==
    \/ \E m \in Mail : Enqueue(m) \/ ManualRetry(m) \/ BecomesDue(m)
    \/ \E w \in Run : Step(w) \/ Crash(w)

Spec == Init /\ [][Next]_vars

(***************************************************************************)
(* The script is run again and again, a run that is not killed goes on,    *)
(* and time passes.                                                        *)
(***************************************************************************)
FairSpec ==
    /\ Spec
    /\ \A w \in Run : WF_vars(Step(w))
    /\ \A m \in Mail : WF_vars(BecomesDue(m))

-----------------------------------------------------------------------------
(***************************************************************************)
(* A message being sent has one run, and stays "processing" until that run *)
(* settles it: the unconditional UPDATE at the end of an attempt never     *)
(* overwrites what another run or a superadmin wrote.                      *)
(***************************************************************************)
ClaimIsExclusive ==
    /\ \A w \in Run : run[w].now # None => mail[run[w].now].status = "processing"
    /\ \A v, w \in Run : v # w /\ run[v].now # None => run[v].now # run[w].now

(***************************************************************************)
(* A message recorded as sent was accepted by the server.                  *)
(***************************************************************************)
SentIsDelivered ==
    \A m \in Mail : mail[m].status = "sent" => delivered[m] > 0

(***************************************************************************)
(* Overlapping runs, stale batches, crashes and manual retries never send  *)
(* a message twice; only a server that accepts it and fails to say so can  *)
(* make the queue do it.                                                   *)
(***************************************************************************)
AtMostOnce ==
    \A m \in Mail \ doubted : delivered[m] <= 1

(***************************************************************************)
(* A crash leaves at most the message it was sending as "processing", so   *)
(* the messages nobody will send again are no more than the crashes.       *)
(***************************************************************************)
Stranded(m) == mail[m].status = "processing" /\ \A w \in Run : run[w].now # m

StrandedByCrash ==
    Cardinality({m \in Mail : Stranded(m)}) <= crashes

\* What is recorded as sent was delivered, and delivered once.
ExactlyOnce == SentIsDelivered /\ AtMostOnce

(***************************************************************************)
(* Every message is sent or fails in the end, unless a run died with it.   *)
(***************************************************************************)
Settles ==
    \A m \in Mail :
        mail[m].status \in DUE_STATUSES ~> (mail[m].status \in {"sent", "failed"} \/ Stranded(m))
=============================================================================
