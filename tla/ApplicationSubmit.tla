------------------------- MODULE ApplicationSubmit -------------------------
(***************************************************************************)
(* Submitting an application to Bitrix24: app/application_submit.py, the   *)
(* request handlers that call it (app/routers/auto_applications.py and     *)
(* cargo_applications.py), the retries of app/integrations/bitrix/         *)
(* client.py and the Bitrix24 side as far as crm.deal.add and              *)
(* crm.deal.list show it.                                                  *)
(*                                                                         *)
(* PostgreSQL runs at READ COMMITTED.  `row', `attempts' and `docs' hold   *)
(* committed data only: what a transaction has written and not committed   *)
(* (the status "submitting", its attempt) lives in `req', the state of the *)
(* request that runs it, and disappears with it.  SELECT ... FOR UPDATE is *)
(* `lock'.  Every handler is an `async def' that calls the database        *)
(* synchronously, so a handler that waits for a row lock stops the event   *)
(* loop of its process: see LoopFree.                                      *)
(*                                                                         *)
(* An operator named Bug... is no part of the model: it is a plausible     *)
(* mistake in the operator defined after it, and PROJECT.json names the    *)
(* property that catches it.                                               *)
(***************************************************************************)
EXTENDS Integers, Sequences, FiniteSets

CONSTANTS
    Application,   \* rows of portal_applications
    Document,      \* rows of document_transfer_logs
    Request,       \* HTTP requests; each is served once
    Worker,        \* server processes, one event loop each
    WorkerOf,      \* the process that serves a request
    Draft,         \* contents of draft_data_json and the fields derived from it
    MaxRetries,    \* BITRIX24_MAX_RETRIES
    Faults,        \* what may go wrong: a subset of AllFaults
    StageStatuses, \* portal statuses that bitrix_stage_mappings can name
    None           \* no request, no application

AllFaults == {"lost_reply", "late_add", "crash"}

SUBMIT_ALLOWED_STATUSES == {"draft", "returned_for_revision", "submit_error"}
DRAFT_EDITABLE_STATUSES == {"draft", "returned_for_revision"}
QUEUE_STATUSES == {"uploaded", "retry_required"}

PortalStatuses ==
    SUBMIT_ALLOWED_STATUSES \cup StageStatuses \cup {"submitting", "received"}
TransferStatuses ==
    {"absent", "uploaded", "transferring", "sent", "failed", "retry_required", "expired",
     "deleted"}

ASSUME ConstantsAssumption ==
    /\ WorkerOf \in [Request -> Worker]
    /\ MaxRetries \in Nat
    /\ Faults \subseteq AllFaults
    /\ None \notin Application \cup Request \cup Draft
    /\ StageStatuses \cap SUBMIT_ALLOWED_STATUSES = {}

VARIABLES
    row,       \* portal_applications: status, deal (bitrix_deal_id) and draft
    attempts,  \* application_submit_attempts of each application
    docs,      \* document_transfer_logs: application, transfer_status, deal
               \*   (transfer_status is "absent" until the row is inserted)
    lock,      \* the request whose transaction holds the application's row
    req,       \* the state of each request
    deals,     \* the deals of Bitrix24, in the order of their IDs
    wire       \* crm.deal.add calls sent and not yet processed by Bitrix24

vars == <<row, attempts, docs, lock, req, deals, wire>>

(***************************************************************************)
(* A deal ID is positive; a NULL bitrix_deal_id is falsy, like 0.          *)
(***************************************************************************)
NoDeal == 0

Rows == [status : PortalStatuses, deal : Nat, draft : Draft]
Attempts == [no : Nat \ {0}, status : {"succeeded", "retry_required"}, deal : Nat]
Documents == [app : Application, status : TransferStatuses, deal : Nat]
Deals == [app : Application, draft : Draft]
Calls == [req : Request, n : Nat, app : Application, draft : Draft]

(***************************************************************************)
(* Where a request is: not yet arrived; about to take the row lock;        *)
(* awaiting crm.deal.list; about to call crm.deal.add; awaiting its reply; *)
(* about to update the draft; answered.                                    *)
(***************************************************************************)
PCs == {"idle", "locking", "lookup", "create", "waiting", "editing", "done"}
InTransaction == {"lookup", "create", "waiting"}
Synchronous == {"locking", "editing"}

Requests ==
    [pc : PCs, app : Application \cup {None}, draft : Draft \cup {None},
     no : Nat, posts : Nat, reply : Nat, answer : Nat]

IdleRequest ==
    [pc |-> "idle", app |-> None, draft |-> None, no |-> 0, posts |-> 0,
     reply |-> NoDeal, answer |-> NoDeal]

TypeOK ==
    /\ row \in [Application -> Rows]
    /\ attempts \in [Application -> SUBSET Attempts]
    /\ docs \in [Document -> Documents]
    /\ lock \in [Application -> Request \cup {None}]
    /\ req \in [Request -> Requests]
    /\ deals \in Seq(Deals)
    /\ wire \in SUBSET Calls

Init ==
    /\ row \in [Application -> [status : {"draft"}, deal : {NoDeal}, draft : Draft]]
    /\ attempts = [a \in Application |-> {}]
    /\ docs \in [Document -> [app : Application, status : {"uploaded"}, deal : {NoDeal}]]
    /\ lock = [a \in Application |-> None]
    /\ req = [r \in Request |-> IdleRequest]
    /\ deals = <<>>
    /\ wire = {}

-----------------------------------------------------------------------------
(***************************************************************************)
(* A coroutine gives its event loop up only at an await.  From its first   *)
(* read to the commit or the first await a handler keeps it, also while    *)
(* PostgreSQL makes it wait for a row lock.                                *)
(***************************************************************************)
LoopFree(r) ==
    \A q \in Request \ {r} :
        WorkerOf[q] = WorkerOf[r] => req[q].pc \notin Synchronous

\* A plain SELECT, which waits for nobody.
BugUnlocked(a) == TRUE

Unlocked(a) == lock[a] = None

NumberAfter(T) ==
    IF T = {} THEN 1
    ELSE 1 + (CHOOSE n \in {t.no : t \in T} : \A t \in T : t.no <= n)

\* The number of the last attempt, not of the next.
BugNextAttemptNo(a) == Cardinality(attempts[a])

\* Every attempt is the first.
BugFirstAttemptNo(a) == 1

NextAttemptNo(a) == NumberAfter(attempts[a])

HasPreviousAttempt(a) == attempts[a] # {}

\* The UPDATE without its application_id = ... condition.
BugQueueApplicationDocuments(a, d) ==
    [x \in Document |->
        IF docs[x].status \in QUEUE_STATUSES THEN [docs[x] EXCEPT !.deal = d] ELSE docs[x]]

QueueApplicationDocuments(a, d) ==
    [x \in Document |->
        IF docs[x].app = a /\ docs[x].status \in QUEUE_STATUSES
        THEN [docs[x] EXCEPT !.deal = d]
        ELSE docs[x]]

MarkReceived(a, d) == [row EXCEPT ![a].deal = d, ![a].status = "received"]

MarkSubmitError(a) == [row EXCEPT ![a].status = "submit_error"]

FinishAttempt(a, n, s, d) ==
    [attempts EXCEPT ![a] = @ \cup {[no |-> n, status |-> s, deal |-> d]}]

(***************************************************************************)
(* What the request itself keeps when its answer names deal d.             *)
(***************************************************************************)
Answered(r, d) ==
    [req EXCEPT ![r] = [IdleRequest EXCEPT !.pc = "done", !.app = req[r].app, !.answer = d]]

(***************************************************************************)
(* The two ways a transaction that tried to link the application commits.  *)
(***************************************************************************)
CommitReceived(r, d) ==
    LET a == req[r].app IN
    /\ row' = MarkReceived(a, d)
    /\ docs' = QueueApplicationDocuments(a, d)
    /\ attempts' = FinishAttempt(a, req[r].no, "succeeded", d)
    /\ lock' = [lock EXCEPT ![a] = None]
    /\ req' = Answered(r, d)

CommitFailure(r) ==
    LET a == req[r].app IN
    /\ row' = MarkSubmitError(a)
    /\ attempts' = FinishAttempt(a, req[r].no, "retry_required", NoDeal)
    /\ lock' = [lock EXCEPT ![a] = None]
    /\ req' = Answered(r, NoDeal)
    /\ UNCHANGED docs

-----------------------------------------------------------------------------
(***************************************************************************)
(* POST .../applications/{id}/submit up to the call of                     *)
(* submit_application_to_bitrix: the row is read without a lock and the    *)
(* deal's fields are built from what was read.                             *)
(***************************************************************************)
BeginSubmit(r, a) ==
    /\ req[r].pc = "idle"
    /\ LoopFree(r)
    /\ row[a].status \in SUBMIT_ALLOWED_STATUSES \/ row[a].deal # NoDeal
    /\ req' = [req EXCEPT ![r] =
                  [IdleRequest EXCEPT !.pc = "locking", !.app = a, !.draft = row[a].draft]]
    /\ UNCHANGED <<row, attempts, docs, lock, deals, wire>>

(***************************************************************************)
(* The row is locked and found linked, or not submittable any more: only   *)
(* the documents of a linked application change, and the lock is gone with *)
(* the commit.                                                             *)
(***************************************************************************)
AnswerAtOnce(r) ==
    LET a == req[r].app IN
    /\ req[r].pc = "locking"
    /\ Unlocked(a)
    /\ row[a].deal # NoDeal \/ row[a].status \notin SUBMIT_ALLOWED_STATUSES
    /\ docs' = IF row[a].deal # NoDeal
               THEN QueueApplicationDocuments(a, row[a].deal)
               ELSE docs
    /\ req' = Answered(r, row[a].deal)
    /\ UNCHANGED <<row, attempts, lock, deals, wire>>

\* The attempt and the status "submitting" are committed before the first await.
BugStartAttempt(r) ==
    LET a == req[r].app IN
    /\ req[r].pc = "locking"
    /\ Unlocked(a)
    /\ row[a].deal = NoDeal
    /\ row[a].status \in SUBMIT_ALLOWED_STATUSES
    /\ row' = [row EXCEPT ![a].status = "submitting"]
    /\ req' = [req EXCEPT ![r].no = NextAttemptNo(a), ![r].pc = "create"]
    /\ UNCHANGED <<attempts, docs, lock, deals, wire>>

(***************************************************************************)
(* The row is locked, the attempt and the status "submitting" are written  *)
(* and not committed; a lookup comes first when an attempt is recorded.    *)
(***************************************************************************)
StartAttempt(r) ==
    LET a == req[r].app IN
    /\ req[r].pc = "locking"
    /\ Unlocked(a)
    /\ row[a].deal = NoDeal
    /\ row[a].status \in SUBMIT_ALLOWED_STATUSES
    /\ lock' = [lock EXCEPT ![a] = r]
    /\ req' = [req EXCEPT ![r].no = NextAttemptNo(a),
                          ![r].pc = IF HasPreviousAttempt(a) THEN "lookup" ELSE "create"]
    /\ UNCHANGED <<row, attempts, docs, deals, wire>>

DealsOf(a) == {d \in DOMAIN deals : deals[d].app = a}

LookupFails(r) ==
    /\ req[r].pc = "lookup"
    /\ LoopFree(r)
    /\ CommitFailure(r)
    /\ UNCHANGED <<deals, wire>>

\* crm.deal.list without its filter.
BugFindDeal(a) == {d \in DOMAIN deals : \A e \in DOMAIN deals : d <= e}

(***************************************************************************)
(* crm.deal.list by the portal application ID, ordered by ID: the oldest.  *)
(***************************************************************************)
FindDeal(a) == {d \in DealsOf(a) : \A e \in DealsOf(a) : d <= e}

LookupFinds(r) ==
    /\ req[r].pc = "lookup"
    /\ LoopFree(r)
    /\ \E d \in FindDeal(req[r].app) : CommitReceived(r, d)
    /\ UNCHANGED <<deals, wire>>

LookupMisses(r) ==
    /\ req[r].pc = "lookup"
    /\ LoopFree(r)
    /\ FindDeal(req[r].app) = {}
    /\ req' = [req EXCEPT ![r].pc = "create"]
    /\ UNCHANGED <<row, attempts, docs, lock, deals, wire>>

(***************************************************************************)
(* The attempts of Bitrix24Client.call for crm.deal.add.  A call n of      *)
(* request r is on the wire until Bitrix24 processes or rejects it.        *)
(***************************************************************************)
Call(r, n) == [req |-> r, n |-> n, app |-> req[r].app, draft |-> req[r].draft]

CurrentCall(r) == Call(r, req[r].posts)

Post(r) ==
    /\ req[r].pc = "create"
    /\ LoopFree(r)
    /\ req' = [req EXCEPT ![r].pc = "waiting", ![r].posts = @ + 1]
    /\ wire' = wire \cup {Call(r, req[r].posts + 1)}
    /\ UNCHANGED <<row, attempts, docs, lock, deals>>

(***************************************************************************)
(* Bitrix24 creates the deal.  The reply reaches the portal only if the    *)
(* call is still the one its request waits for.                            *)
(***************************************************************************)
BitrixAddsDeal(c) ==
    /\ c \in wire
    /\ wire' = wire \ {c}
    /\ deals' = Append(deals, [app |-> c.app, draft |-> c.draft])
    /\ req' = IF req[c.req].pc = "waiting" /\ req[c.req].posts = c.n
              THEN [req EXCEPT ![c.req].reply = Len(deals) + 1]
              ELSE req
    /\ UNCHANGED <<row, attempts, docs, lock>>

ReceiveReply(r) ==
    /\ req[r].pc = "waiting"
    /\ LoopFree(r)
    /\ req[r].reply # NoDeal
    /\ CommitReceived(r, req[r].reply)
    /\ UNCHANGED <<deals, wire>>

\* httpx without a timeout: only what was answered can fail.
BugCallFails(r) ==
    /\ req[r].pc = "waiting"
    /\ LoopFree(r)
    /\ req[r].reply # NoDeal
    /\ "lost_reply" \in Faults
    /\ UNCHANGED wire

(***************************************************************************)
(* The call ends without a usable reply: rejected by Bitrix24, lost on the *)
(* way there, still under way when httpx times out (late_add), or answered *)
(* with a reply that never arrives (lost_reply).                           *)
(***************************************************************************)
CallFails(r) ==
    /\ req[r].pc = "waiting"
    /\ LoopFree(r)
    /\ \/ req[r].reply # NoDeal /\ "lost_reply" \in Faults /\ UNCHANGED wire
       \/ req[r].reply = NoDeal /\ wire' = wire \ {CurrentCall(r)}
       \/ req[r].reply = NoDeal /\ "late_add" \in Faults /\ UNCHANGED wire

(***************************************************************************)
(* A timeout, a transport error, 429 or 5xx is tried again, the same call  *)
(* with nothing to tell Bitrix24 that it is a repetition.                  *)
(***************************************************************************)
RetryCall(r) ==
    /\ CallFails(r)
    /\ req[r].posts <= MaxRetries
    /\ req' = [req EXCEPT ![r].pc = "create", ![r].reply = NoDeal]
    /\ UNCHANGED <<row, attempts, docs, lock, deals>>

(***************************************************************************)
(* Retries exhausted, or an error that is not retryable: BitrixError.      *)
(***************************************************************************)
CreateFails(r) ==
    /\ CallFails(r)
    /\ CommitFailure(r)
    /\ UNCHANGED deals

-----------------------------------------------------------------------------
(***************************************************************************)
(* PATCH .../applications/{id}/draft: the status is checked on an unlocked *)
(* read; the UPDATE waits for the row lock and does not check it again.    *)
(***************************************************************************)
BeginEdit(r, a, d) ==
    /\ req[r].pc = "idle"
    /\ LoopFree(r)
    /\ row[a].status \in DRAFT_EDITABLE_STATUSES
    /\ req' = [req EXCEPT ![r] =
                  [IdleRequest EXCEPT !.pc = "editing", !.app = a, !.draft = d]]
    /\ UNCHANGED <<row, attempts, docs, lock, deals, wire>>

CommitEdit(r) ==
    /\ req[r].pc = "editing"
    /\ Unlocked(req[r].app)
    /\ row' = [row EXCEPT ![req[r].app].draft = req[r].draft]
    /\ req' = Answered(r, NoDeal)
    /\ UNCHANGED <<attempts, docs, lock, deals, wire>>

(***************************************************************************)
(* What sync_application_from_bitrix does to the row: a linked application *)
(* takes the status its deal's stage maps to.                              *)
(***************************************************************************)
SyncStage(a, s) ==
    /\ row[a].deal # NoDeal
    /\ Unlocked(a)
    /\ row' = [row EXCEPT ![a].status = s]
    /\ UNCHANGED <<attempts, docs, lock, req, deals, wire>>

(***************************************************************************)
(* A process dies: its transactions roll back and its requests are never   *)
(* answered.  What it had sent to Bitrix24 stays under way.                *)
(***************************************************************************)
Crash(w) ==
    LET dead == {r \in Request : WorkerOf[r] = w /\ req[r].pc \notin {"idle", "done"}} IN
    /\ "crash" \in Faults
    /\ dead # {}
    /\ req' = [r \in Request |->
                  IF r \in dead
                  THEN [IdleRequest EXCEPT !.pc = "done", !.app = req[r].app]
                  ELSE req[r]]
    /\ lock' = [a \in Application |-> IF lock[a] \in dead THEN None ELSE lock[a]]
    /\ UNCHANGED <<row, attempts, docs, deals, wire>>

HandlerStep(r) ==
    \/ AnswerAtOnce(r)
    \/ StartAttempt(r)
    \/ LookupFails(r)
    \/ LookupFinds(r)
    \/ LookupMisses(r)
    \/ Post(r)
    \/ ReceiveReply(r)
    \/ RetryCall(r)
    \/ CreateFails(r)
    \/ CommitEdit(r)

Next ==
    \/ \E r \in Request, a \in Application : BeginSubmit(r, a)
    \/ \E r \in Request, a \in Application, d \in Draft : BeginEdit(r, a, d)
    \/ \E r \in Request : HandlerStep(r)
    \/ \E c \in wire : BitrixAddsDeal(c)
    \/ \E a \in Application, s \in StageStatuses : SyncStage(a, s)
    \/ \E w \in Worker : Crash(w)

Spec == Init /\ [][Next]_vars

(***************************************************************************)
(* A handler that can take its next step takes it: the event loop runs     *)
(* every ready coroutine, httpx bounds the wait for a reply, PostgreSQL    *)
(* grants a free row lock.  Nothing makes a request arrive, Bitrix24       *)
(* process a call or a process die.                                        *)
(***************************************************************************)
FairSpec == Spec /\ \A r \in Request : WF_vars(HandlerStep(r))

-----------------------------------------------------------------------------
(***************************************************************************)
(* A linked deal exists in Bitrix24 and was created for this application,  *)
(* whichever reply, lookup or retry the link came from (_mark_received,    *)
(* lines 208 and 279).                                                     *)
(***************************************************************************)
LinkedDealIsOwn ==
    \A a \in Application : row[a].deal # NoDeal => row[a].deal \in DealsOf(a)

(***************************************************************************)
(* The attempts of an application are numbered 1, 2, ... without a gap or  *)
(* a repetition (idempotency_key is unique), one succeeds exactly when the *)
(* application is linked, it names the linked deal and nothing follows it. *)
(***************************************************************************)
AttemptLog ==
    \A a \in Application :
        /\ {t.no : t \in attempts[a]} = 1 .. NextAttemptNo(a) - 1
        /\ \A t, u \in attempts[a] : t.no = u.no => t = u
        /\ row[a].deal # NoDeal <=> \E t \in attempts[a] : t.status = "succeeded"
        /\ \A t \in attempts[a] :
              t.status = "succeeded" =>
                 /\ t.deal = row[a].deal
                 /\ \A u \in attempts[a] : u.no <= t.no

(***************************************************************************)
(* At most one request is between its attempt and its commit for an        *)
(* application, it holds the row, and the application is not linked: no    *)
(* crm.deal.add is ever sent for an application that has a deal.           *)
(***************************************************************************)
OneSubmitter ==
    \A r \in Request :
        req[r].pc \in InTransaction =>
            /\ lock[req[r].app] = r
            /\ row[req[r].app].deal = NoDeal

(***************************************************************************)
(* Every request that was answered with a deal, first submit or repeated   *)
(* one, was answered with the deal the application still has.              *)
(***************************************************************************)
AnswersAgree ==
    \A r \in Request :
        req[r].answer # NoDeal => row[req[r].app].deal = req[r].answer

(***************************************************************************)
(* Documents are queued for the deal of their own application and for no   *)
(* other, also when the same application is submitted by several requests  *)
(* (document_transfer.py, queue_application_documents).                    *)
(***************************************************************************)
DocumentsFollowLink ==
    \A x \in Document : docs[x].deal # NoDeal => docs[x].deal = row[docs[x].app].deal

(***************************************************************************)
(* An application without a deal can be submitted again, whatever failed   *)
(* or died on the way: it is never left in "submitting", and the answer    *)
(* APPLICATION_SUBMIT_IN_PROGRESS (line 153) is never given.               *)
(***************************************************************************)
AlwaysResubmittable ==
    \A a \in Application :
        row[a].deal = NoDeal => row[a].status \in SUBMIT_ALLOWED_STATUSES

(***************************************************************************)
(* What the others rest on: a request keeps its application until it is    *)
(* answered and is answered once, the attempt it runs is the next one, the *)
(* reply it may have received names a deal of its application, and so does *)
(* every call that is still under way.                                     *)
(***************************************************************************)
RequestsKeepTheirOwn ==
    /\ \A r \in Request :
          /\ req[r].pc # "idle" => req[r].app \in Application
          /\ req[r].pc \notin {"idle", "done"} => req[r].draft \in Draft
          /\ req[r].pc # "done" => req[r].answer = NoDeal
          /\ req[r].pc \in InTransaction => req[r].no = NextAttemptNo(req[r].app)
          /\ req[r].reply # NoDeal =>
                /\ req[r].pc = "waiting"
                /\ req[r].reply \in DealsOf(req[r].app)
    /\ \A c \in wire : req[c.req].pc # "idle" /\ c.app = req[c.req].app

(***************************************************************************)
(* The inductive invariant of ApplicationSubmitProofs.                     *)
(***************************************************************************)
IInv ==
    /\ TypeOK
    /\ LinkedDealIsOwn
    /\ AttemptLog
    /\ OneSubmitter
    /\ AnswersAgree
    /\ DocumentsFollowLink
    /\ RequestsKeepTheirOwn
    /\ \A a \in Application :
          /\ row[a].deal = NoDeal <=> row[a].status \in SUBMIT_ALLOWED_STATUSES
          /\ NextAttemptNo(a) \in Nat \ {0}

KeepsLink ==
    \A a \in Application :
        row[a].deal # NoDeal =>
            /\ row'[a].deal = row[a].deal
            /\ row'[a].status \notin SUBMIT_ALLOWED_STATUSES

(***************************************************************************)
(* Once linked, an application keeps its deal and never becomes            *)
(* submittable again.                                                      *)
(***************************************************************************)
LinkedForGood == [][KeepsLink]_row

(***************************************************************************)
(* Submitting implements DealLink: with locks, rollbacks and lost replies  *)
(* in between, the link behaves like a write-once register.                *)
(***************************************************************************)
Link == INSTANCE DealLink WITH
            link <- [a \in Application |-> row[a].deal],
            failed <- {a \in Application : row[a].status = "submit_error"},
            answer <- [r \in Request |-> req[r].answer]

LinksOnce == Link!Spec

(***************************************************************************)
(* Submitting again never creates a second deal                            *)
(* (docs/project-architecture-and-business-logic.md:488).                  *)
(***************************************************************************)
OneDealPerApplication ==
    \A a \in Application : Cardinality(DealsOf(a)) <= 1

(***************************************************************************)
(* A request that reached the row lock is answered, unless its process     *)
(* dies.                                                                   *)
(***************************************************************************)
SubmitAnswered ==
    \A r \in Request : req[r].pc \in Synchronous ~> req[r].pc = "done"

(***************************************************************************)
(* The draft of a submitted application does not change any more: PATCH    *)
(* .../draft accepts DRAFT_EDITABLE_STATUSES only.  It is no property of    *)
(* the code: see README.md, observations.                                  *)
(***************************************************************************)
SubmittedDraftFrozen ==
    [][\A a \in Application : row[a].deal # NoDeal => row'[a].draft = row[a].draft]_row
=============================================================================
