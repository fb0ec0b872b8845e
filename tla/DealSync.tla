------------------------------ MODULE DealSync ------------------------------
(***************************************************************************)
(* The deals of Bitrix24 brought back into the portal:                     *)
(* app/integrations/bitrix/sync.py and the handlers that run it            *)
(* (app/routers/admin_integrations.py).                                    *)
(*                                                                         *)
(* The handlers are `async def' in the one event loop of Dockerfile:17.    *)
(* A synchronisation reads the application without a lock, awaits the      *)
(* deal, and from the reply to its commit awaits nothing: one step.        *)
(* Meanwhile the staff of the insurer go on working on the deal.           *)
(*                                                                         *)
(* Once an application has its deal nothing but a synchronisation writes   *)
(* its status; how it comes by the deal is ApplicationSubmit, of which     *)
(* Link is the last step.  A category and a stage are one Stage here, and  *)
(* number stands for all that a policy needs besides the file: None if any *)
(* of it is missing or cannot be read.                                     *)
(*                                                                         *)
(* An operator named Bug... is a plausible mistake in the one after it.    *)
(***************************************************************************)
EXTENDS Integers

CONSTANTS
    Application,  \* rows of portal_applications
    Call,         \* handlers that may be under way at a time
    Number,       \* numbers, insurers, dates and premiums of policies
    File,         \* files of Bitrix24
    MaxMoves,     \* bound of the model on the changes that the staff make
    None          \* no application, number or status

ASSUME ConstantsAssumption ==
    /\ MaxMoves \in Nat
    /\ None \notin Application \cup Number \cup File

VARIABLES
    deal,    \* the deals as Bitrix24 has them
    app,     \* portal_applications
    policy,  \* portal_policies of each application
    doc,     \* document_transfer_logs of each application, by bitrix_file_id
    call,    \* the synchronisations under way
    past,    \* history: the policies that a deal has named
    moves    \* changes made by the staff so far

vars == <<deal, app, policy, doc, call, past, moves>>

(***************************************************************************)
(* One stage for each kind of status, and one that has no mapping.         *)
(***************************************************************************)
Stage == {"NEW", "WON", "LOSE", "unmapped"}

StageMapping(stage) ==
    IF stage = "NEW" THEN "received"
    ELSE IF stage = "WON" THEN "policy_issued"
    ELSE IF stage = "LOSE" THEN "rejected"
    ELSE None

ACTIVE_SYNC_STATUSES == {"received", "policy_issuing", "policy_issued"}
POLICY_ISSUED_STATUSES == {"policy_issued"}
Status == ACTIVE_SYNC_STATUSES \cup {"submitting", "rejected"}

Policy == [number : Number, file : File]
Deal == [stage : Stage, number : Number \cup {None}, file : File]

Failure == [stage |-> "error", number |-> None, file |-> None]
NoReply == [stage |-> "none", number |-> None, file |-> None]

\* The applications that a handler has still to do, and the one it is at.
Calls ==
    [todo : SUBSET Application, app : Application \cup {None}, read : Status \cup {None},
     reply : Deal \cup {Failure, NoReply}]

Idle == [todo |-> {}, app |-> None, read |-> None, reply |-> NoReply]

(***************************************************************************)
(* The types.  An application has one policy at most although no index     *)
(* says so: with two, one_or_none would fail every later synchronisation.  *)
(***************************************************************************)
TypeOK ==
    /\ deal \in [Application -> Deal]
    /\ app \in [Application -> [status : Status, sync : {"pending", "synced", "failed"},
                                warning : BOOLEAN]]
    /\ policy \in [Application -> SUBSET Policy]
    /\ doc \in [Application -> [File -> {"none", "uploaded", "policy_file"}]]
    /\ call \in [Call -> Calls]
    /\ past \in [Application -> SUBSET Policy]
    /\ moves \in 0 .. MaxMoves
    /\ \A a \in Application : \A p, q \in policy[a] : p = q

\* A file may be one that the portal has sent to Bitrix24 itself.
Init ==
    /\ deal \in [Application -> [stage : {"NEW"}, number : {None}, file : File]]
    /\ app = [a \in Application |->
                 [status |-> "submitting", sync |-> "pending", warning |-> FALSE]]
    /\ policy = [a \in Application |-> {}]
    /\ doc \in [Application -> {[f \in File |-> IF f \in S THEN "uploaded" ELSE "none"] :
                                    S \in SUBSET File}]
    /\ call = [k \in Call |-> Idle]
    /\ past = [a \in Application |-> {}]
    /\ moves = 0

Linked(a) == app[a].status # "submitting"

-----------------------------------------------------------------------------
\* The staff change a deal: its stage, its fields, or both.
Work(a, d) ==
    /\ moves < MaxMoves
    /\ d # deal[a]
    /\ deal' = [deal EXCEPT ![a] = d]
    /\ past' = [past EXCEPT ![a] =
                   @ \cup {p \in Policy : p.number = d.number /\ p.file = d.file}]
    /\ moves' = moves + 1
    /\ UNCHANGED <<app, policy, doc, call>>

Link(a) ==
    /\ ~Linked(a)
    /\ app' = [app EXCEPT ![a].status = "received", ![a].sync = "synced"]
    /\ UNCHANGED <<deal, policy, doc, call, past, moves>>

-----------------------------------------------------------------------------
Begin(k, A) ==
    /\ call[k] = Idle
    /\ call' = [call EXCEPT ![k].todo = A]
    /\ UNCHANGED <<deal, app, policy, doc, past, moves>>

\* POST /sync/applications/{id}.
BeginOne(k, a) == Begin(k, {a})

(***************************************************************************)
(* POST /sync/applications, with any limit: the ids are read at once.      *)
(***************************************************************************)
BeginActive(k, A) ==
    /\ A # {}
    /\ \A a \in A : Linked(a) /\ app[a].status \in ACTIVE_SYNC_STATUSES
    /\ Begin(k, A)

\* The next application is read and its deal asked for; without one, skipped.
Ask(k, a) ==
    /\ call[k].app = None
    /\ a \in call[k].todo
    /\ call' =
          IF Linked(a)
          THEN [call EXCEPT ![k].app = a, ![k].read = app[a].status]
          ELSE [call EXCEPT ![k].todo = @ \ {a}]
    /\ UNCHANGED <<deal, app, policy, doc, past, moves>>

\* Bitrix24 answers with what the deal is now; or it fails or is too late.
Answer(k) ==
    /\ call[k].app # None
    /\ call[k].reply = NoReply
    /\ \E reply \in {deal[call[k].app], Failure} : call' = [call EXCEPT ![k].reply = reply]
    /\ UNCHANGED <<deal, app, policy, doc, past, moves>>

-----------------------------------------------------------------------------
\* A stage without a mapping leaves the status that was read.
Mapped(read, reply) ==
    IF StageMapping(reply.stage) = None THEN read ELSE StageMapping(reply.stage)

\* _policy_payload is not None.
PolicyComplete(reply) == reply.number # None

Issues(read, reply) ==
    Mapped(read, reply) \in POLICY_ISSUED_STATUSES /\ PolicyComplete(reply)

\* An incomplete policy leaves a warning and the status of the stage.
BugStatusAfter(read, reply) == Mapped(read, reply)

StatusAfter(read, reply) ==
    IF Mapped(read, reply) \in POLICY_ISSUED_STATUSES /\ ~PolicyComplete(reply)
    THEN "policy_issuing"
    ELSE Mapped(read, reply)

\* The policy of an application is looked up by its number.
BugUpserted(rows, p) == {q \in rows : q.number # p.number} \cup {p}

\* The document of a policy that is there already is left alone.
BugReissued(rows, p) ==
    IF rows = {} THEN {p} ELSE {[number |-> p.number, file |-> q.file] : q \in rows}

\* _upsert_policy_cache: the one row there is gets every value anew.
Upserted(rows, p) == {p}

\* What failed is tried again at once.
BugRest(k) ==
    IF call[k].reply = Failure THEN call[k].todo ELSE call[k].todo \ {call[k].app}

Rest(k) == call[k].todo \ {call[k].app}

Continue(k) == call' = [call EXCEPT ![k] = [Idle EXCEPT !.todo = Rest(k)]]

\* The except branch: the status stays, and so does an earlier warning.
FinishFailed(k) ==
    /\ call[k].reply = Failure
    /\ app' = [app EXCEPT ![call[k].app].sync = "failed"]
    /\ Continue(k)
    /\ UNCHANGED <<deal, policy, doc, past, moves>>

(***************************************************************************)
(* From the reply to the commit: stage, policy file, policy, status.       *)
(***************************************************************************)
Finish(k) ==
    LET a == call[k].app
        read == call[k].read
        reply == call[k].reply
    IN
    /\ reply \notin {NoReply, Failure}
    /\ IF Issues(read, reply)
       THEN /\ \A p, q \in policy[a] : p = q
            /\ policy' = [policy EXCEPT ![a] =
                   Upserted(@, [number |-> reply.number, file |-> reply.file])]
            /\ doc' = [doc EXCEPT ![a][reply.file] = "policy_file"]
       ELSE UNCHANGED <<policy, doc>>
    /\ app' = [app EXCEPT ![a] =
           [status |-> StatusAfter(read, reply), sync |-> "synced",
            warning |-> StatusAfter(read, reply) # Mapped(read, reply)]]
    /\ Continue(k)
    /\ UNCHANGED <<deal, past, moves>>

\* The client goes away or the portal is restarted: what is committed stays.
Abort(k) ==
    /\ call[k] # Idle
    /\ call' = [call EXCEPT ![k] = Idle]
    /\ UNCHANGED <<deal, app, policy, doc, past, moves>>

-----------------------------------------------------------------------------
Step(k) == (\E a \in Application : Ask(k, a)) \/ Answer(k) \/ FinishFailed(k) \/ Finish(k)

Next ==
    \/ \E a \in Application, d \in Deal : Work(a, d)
    \/ \E a \in Application : Link(a)
    \/ \E k \in Call, a \in Application : BeginOne(k, a)
    \/ \E k \in Call, A \in SUBSET Application : BeginActive(k, A)
    \/ \E k \in Call : Step(k) \/ Abort(k)

Spec == Init /\ [][Next]_vars

(***************************************************************************)
(* The loop goes on with a handler when its request to Bitrix24 is         *)
(* answered or runs into the timeout of the client (client.py:244).        *)
(***************************************************************************)
FairSpec == Spec /\ \A k \in Call : WF_vars(Step(k))

-----------------------------------------------------------------------------
(***************************************************************************)
(* An application is shown as issued only if there is its policy, with the *)
(* document of it, marked as a policy file and no longer stored here       *)
(* (test_bitrix_reverse_sync.py:239): also when a synchronisation writes   *)
(* back a status that it read before others had written theirs.            *)
(***************************************************************************)
IssuedHasPolicy ==
    \A a \in Application :
        app[a].status = "policy_issued" =>
            \E p \in policy[a] : doc[a][p.file] = "policy_file"

(***************************************************************************)
(* A policy and its document come from one state of the deal: overlapping  *)
(* synchronisations never show the number of one with the file of another. *)
(***************************************************************************)
PolicyOfOneReply == \A a \in Application : policy[a] \subseteq past[a]

(***************************************************************************)
(* Every synchronisation ends, of one application or of all, however many  *)
(* of its requests fail.                                                   *)
(***************************************************************************)
SyncEnds == \A k \in Call : call[k] # Idle ~> call[k] = Idle
=============================================================================
