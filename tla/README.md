# Verification of the IBB insurance portal backend

TLA+ models of the state-changing parts of the portal's backend (`app/`), the
TLC configurations that check them on small instances, and theorems about them
that TLAPS proves for every value of the constants. Paths below are relative to
the repository root; line numbers refer to the commit the models were written
for. `PROJECT.json` maps each definition to the lines it models, each run to its
configuration, each property to a mistake in the code that it detects, and each
hazard of the code to the properties that would notice it.

    tlc -workers 2 -config submit_safety.cfg MCApplicationSubmit
    tlapm ApplicationSubmitProofs.tla

## 1. The system

The backend is a FastAPI application over PostgreSQL (READ COMMITTED, one
SQLAlchemy session per request, rolled back on an exception), Redis (rate
limits), the REST API of Bitrix24 (deals, files, companies), an SMTP server and a
directory of temporary files. Handlers are `async def`, but every database call
is synchronous: inside one process a handler runs without interruption from one
`await` of network or upload content to the next, and while PostgreSQL makes it
wait for a row lock the whole process waits. The handlers of the superadmin are
plain `def` and run in threads, between any two statements of the others.
`Dockerfile:17` starts one process; the mail script and the document jobs are
functions for other processes.

| Component | State | Operations | What is hard about it | What makes it correct |
|---|---|---|---|---|
| Application submit (`application_submit.py`, `routers/*_applications.py`, `integrations/bitrix/client.py`) | `portal_applications` (status, deal, draft), `application_submit_attempts`; deals in Bitrix24 | submit, draft update, in-call retry, lookup of an existing deal | a row lock held across awaits, lost replies, late creations, crashes, double clicks | one link, for good, to a deal of its own; a log of attempts that agrees with it; a failed submit can be repeated; everyone is answered |
| Document transfer (`document_transfer.py`, `routers/documents.py`) | `document_transfer_logs`, temporary files, files in Bitrix24 | upload, delete, queue, transfer job, cleanup job | three stores without a common transaction, one commit per batch, jobs that overlap or die | nothing lost, nothing marked sent that is not, nothing deleted is sent, bounded repetitions |
| E-mail queue (`email_notifications.py`, `email.py`, `scripts/process_email_queue.py`) | `email_messages` | enqueue, claim, send, retry, manual retry | overlapping runs, stale batches, crash after claim, accepted but not acknowledged | one owner per claim, at most one delivery unless the server leaves doubt, everything is settled |
| Deal synchronisation (`integrations/bitrix/sync.py`, `routers/admin_integrations.py`) | application status, sync error, policies and their documents | sync one application, sync all active ones | read, await, write without a lock; an unmapped stage writes back a stale status; policies without a unique key | what is shown as issued has its policy and document, from one state of the deal; one policy per application; every run ends |
| Delegations (`delegations.py`) | delegations, items, notifications, sessions | create, activate and expire (worker), cancel, terminate | worker and creation against superadmin threads, five-minute limit of activation, unique open item | one open item per application; closing leaves nothing open; access once taken back stays so |
| Partner clients (`partner_client_requests.py`, `routers/partner_clients.py`, webhook `partner-client-check-status`) | requests, partner-client links, drafts that rest on them | create, edit, decide, notification, save an application, make and revoke links | repeated and reordered notifications, decisions that are taken back, two writers of one request | links and applications only for companies that were confirmed; a confirmed request is of use |
| Accounts (`auth.py`, `routers/auth.py`, users in `routers/superadmin.py`, webhooks `create-user` and `sync-contact-companies`) | users, sessions, one-time tokens | login, first login, reset, change, logout, refresh, invite, block, unblock, role, create-user | threads beside the event loop, read and write without a lock, webhooks that await while they hold a row | one use per token; a revoked session stays revoked; a reset ends all older sessions; no webhook resets a password in use |
| Company roles (`routers/company_access.py`, company links in `routers/superadmin.py`, webhooks) | `user_company_roles` | assign, create, change, move, revoke, synchronise | a synchronisation that found a row before its awaits, a unique index on open rows only | the index holds; no client gets company 1817; nothing revoked comes back by itself |
| Access policies (`security/policies.py`) | none | decide on company, application, document, policy; filters of the lists | checks and lists are different queries; two open roles in one company raise | lists show what is granted; objects follow their application; what exceeds `docs/access-control-matrix.md` is a superadmin's or delegated |
| Draft validation, listings, company eligibility, reference data, i18n, health, configuration, migrations, web frontend | none of their own | pure functions and queries | - | - |

How they meet: a submit links an application and queues its documents; the
transfer job sends the queued ones to the linked deal; the synchronisation moves
the status of a linked application, which decides whether its documents may still
be uploaded or deleted; partner requests decide for which company a partner's
application may be saved; company roles, partner links and delegations are what
the policies read; accounts decide who is signed in; accounts and partner flows
enqueue mail.

## 2. Modules

| Module | Models | Proofs |
|---|---|---|
| `DealLink` | what submitting promises: a write-once register per application (abstract) | |
| `ApplicationSubmit`, `MCApplicationSubmit` | submit, draft update, Bitrix24 client and the Bitrix24 side of `crm.deal.add` and `crm.deal.list` | `ApplicationSubmitProofs` |
| `DocumentTransfer` | upload, deletion, queue, transfer job, cleanup job | `DocumentTransferProofs` |
| `EmailQueue` | mail queue | `EmailQueueProofs` |
| `DealSync` | synchronisation of one application and of all, policies and their documents | `DealSyncProofs` |
| `AccessGrants` | what delegating promises: a grant moves forward and is exclusive (abstract) | |
| `Delegations`, `MCDelegations` | delegations, worker, cancellation; superadmin: block, unblock, company links | `DelegationsProofs` |
| `PartnerClients`, `MCPartnerClients` | partner requests, decisions, notifications, links, saving of applications | `PartnerClientsProofs` |
| `Accounts`, `MCAccounts` | users, sessions, tokens; the webhooks that write to an account | `AccountsProofs` |
| `AccessPolicies` | the decisions of `security/policies.py`, as operators over the committed rows | `CompanyAccessProofs` |
| `CompanyAccess`, `MCCompanyAccess` | how the rows that `AccessPolicies` reads come about; composes the two | `CompanyAccessProofs` |

The MC modules hold only assignments of requests to processes and symmetry sets.

### ApplicationSubmit

`row`, `attempts` and `docs` are committed rows only. What a transaction has
written and not committed (the status "submitting", its attempt) is part of
`req[r]`, the state of the request that runs it, so a crash or an error makes it
disappear by forgetting the request. `lock[a]` is the row lock of
`SELECT ... FOR UPDATE` (`application_submit.py:81`). `deals` is the list of
deals in Bitrix24, in the order of their IDs, and `wire` holds the
`crm.deal.add` calls that were sent and not processed; a call stays there when
the client gives up waiting, so Bitrix24 may process it later.

A request goes `idle -> locking -> (lookup) -> create -> waiting -> ... -> done`.
The actions are the code between two points where somebody else may run:
`BeginSubmit` (unlocked read and building of the deal's fields),
`AnswerAtOnce` and `StartAttempt` (lock and what follows up to the commit or the
first await), `LookupFails`, `LookupFinds`, `LookupMisses` (`crm.deal.list`),
`Post`, `ReceiveReply`, `RetryCall`, `CreateFails` (`crm.deal.add` with the
retries of `Bitrix24Client.call`), `BeginEdit` and `CommitEdit` (the draft
update, whose UPDATE waits for the same row lock), `Crash`. `LoopFree(r)` is the
event loop: a request moves only when no other request of its process is in the
middle of synchronous code. `SyncStage` is the effect of a synchronisation on the
row; that no stage maps to a status of `SUBMIT_ALLOWED_STATUSES` is an
assumption on the constant `StageStatuses` which the seeded mapping satisfies
(`app/reference_data.py:168-195`).

### DocumentTransfer

One application and its documents. `docs` are committed rows; `job[j].tx` holds
the UPDATEs a job has made and not committed, which are also the row locks it
holds; `files` is the directory and `copies` the number of files Bitrix24 holds of
each document. A batch is selected once, each row read again (worker) or not
(cleanup) when its turn comes, and everything is committed at the end of the
batch. `Abort` is a crash, a broken connection or a deadlock that PostgreSQL ends:
`tx` is forgotten, `files` and `copies` stay. One call of `upload_file_to_deal`
may leave up to `CallCopies` files although it fails. The repository contains no
scheduler for the two jobs (only tests call them), hence the constant `Overlap`.
An upload reads the application, awaits its content, and then writes
(`BeginUpload`, `FinishUpload`); all other handlers are one step.

### EmailQueue

`mail` is the table, `run[w]` a run of the script with the batch it selected
(`todo`), the rows as it read them (`read`) and the message it is sending
(`now`). `Claim` compares only the status with the one read, as the UPDATE does,
and takes the attempt number from the row as read; `FailsAfterAccept` is a
message the server accepted although the run saw an error; `Crash` leaves a
claimed message in "processing", the status nothing selects.

### Delegations

`deleg` holds the committed delegations, each with the status of its items:
nothing writes an item before the row of its delegation, so the lock on that row
(`holder`, with the row as its holder has written it in `pending`) covers both.
`txn[Loop]` is the one transaction that the event loop can be in, because the
delegation handlers await nothing; `txn[t]` is the request in thread `t`.
Reading a status and the UPDATE that follows are separate steps (`BeginClose`,
`Examine` or `CheckRow`, then `UpdateRow`): between them another transaction may
commit, and the UPDATE does not compare the status. `Valid` is
`validate_delegation_request`; `Grace` is its five minutes and `txn.at` the time
the worker has read at its start. `app[a]` is the responsible user, `None` when
there is none or the status is final. No line of the repository gives an
application its first responsible user (`superadmin.py:568-581` only hands
applications over), so `Init` takes that as given, as
`tests/test_delegations.py:94` does: without it no delegation can be created.

### DealSync

An application, its policies, its documents by Bitrix24 file id, and the deal as
Bitrix24 has it, which the staff change at any time (`Work`, at most `MaxMoves`
times). A synchronisation reads the application (`Ask`), gets the deal as it is
when Bitrix24 answers, or an error (`Answer`), and from there to the commit awaits
nothing: `Finish` is `_sync_application` after its await with everything it
calls, the stage mapping, `_mark_policy_document`, `_upsert_policy_cache` and the
status that is `policy_issuing` when the policy is incomplete; `FinishFailed` is the
`except` branch. `read` keeps the status that was read before the await, which an
unmapped stage writes back. `Link` is the last step of `ApplicationSubmit`, after
which only synchronisations write the status. `past` is a history variable.

### PartnerClients

`request`, `link` and `draft` are committed rows, `audit` the entries of the audit
log that confirm a company or make a link active. Partners' edits and superadmins'
decisions run in threads in two steps; a decision holds the row lock of its request
from its UPDATE to its commit (`Locked`), an edit does not compare the status
again. The webhook and the saving of an application run in the event loop.
Bitrix24 may send any notification at any time, so loss, repetition and reordering
need no variable of their own. `LoseRequest` is a crash after `crm.company.add`.
Statuses that no condition tells apart are one value.

### Accounts

Each handler is a reading step (`Begin...`, with the checks) and a writing step
(`Finish...`, with the commit), which does not compare what was read. `async def`
handlers exclude each other between the two (`Async`), `def` handlers run in
threads, and the webhooks await Bitrix24 in the middle while they hold the row of
the account (`Held`). `row` keeps a stale row only for the handlers that use it
(`StaleKinds`). Passwords are numbered by their commits, so that a session knows
with which one it was opened.

### CompanyAccess and AccessPolicies

`AccessPolicies` has no variables: a world is what the functions of
`security/policies.py` read, and `CompanyAccess!Worlds(role)` combines the rows of
every reachable state with every type of user, link, delegation and application.
`scalar_one_or_none` on two rows is the outcome "error". In `CompanyAccess` the
superadmin handlers are threads in two steps where they read before they write;
`dirty` and `pending` are the rows that the one synchronisation has written and
not committed, for which the statements of others wait (`Waits`) or which the
unique index refuses (`Taken`). `AllGrantedIsListed` is about the filters of
`policies.py`; the endpoint `GET /applications` answers a partner with an empty list
before it asks them (`applications.py:135`).

### Operators named Bug...

They belong to no specification. Each is the definition that follows it with one
plausible mistake (a missing filter, a dropped guard, an off-by-one, an early
commit), and `PROJECT.json` ("mutants") says which property fails when it takes
the definition's place. They show that the properties depend on the code.

## 3. What the runs check

| Run | Instance | Result |
|---|---|---|
| `submit_safety` | 2 applications, 1 document, 3 requests in 3 processes, 1 in-call retry, all faults | `TypeOK`, `LinkedDealIsOwn`, `AttemptLog`, `OneSubmitter`, `DocumentsFollowLink`, `AlwaysResubmittable`, refinement `LinksOnce` hold |
| `submit_live` | 1 application, 2 drafts, 3 requests in 3 processes, all faults | `SubmitAnswered` holds: whoever reaches the row lock is answered or dies |
| `submit_duplicate` | 1 application, 1 in-call retry, all faults | `OneDealPerApplication` is violated (finding 1) |
| `submit_loop` | 1 application, 3 requests in one process, no fault needed | `SubmitAnswered` is violated (finding 2) |
| `documents_overlap` | 1 document, 2 transfer jobs and 1 cleanup that overlap and may die | `TypeOK`, `SentIsInBitrix`, `KeptUntilDelivered`, `DeletedIsNotSent` hold |
| `documents_copies` | 2 documents, one job at a time, which may die | `ControlledCopies` is violated (finding 3) |
| `email_queue` | 2 messages, 2 overlapping runs, 2 attempts, 1 manual retry, 1 crash | `TypeOK`, `ClaimIsExclusive`, `ExactlyOnce`, `StrandedByCrash` and, under fairness, `Settles` hold |
| `deal_sync` | 1 application, 2 overlapping synchronisations, 2 numbers, 2 files, 2 changes of the deal, failing and broken-off requests | `TypeOK`, `IssuedHasPolicy`, `PolicyOfOneReply` and, under fairness, `SyncEnds` hold |
| `delegations` | 2 delegations, 1 application, 2 users, the loop and 1 thread, windows of one tick | `TypeOK`, `OneOpenItem`, `ItemsFollow`, refinement `GrantsMoveForward` hold |
| `partner_clients` | 1 partner, 1 request, 2 companies, 2 threads and the loop | `TypeOK`, `LinksConfirmed`, `DraftsConfirmed`, `ConfirmedOfUse` hold |
| `accounts` | 2 users, both possibly superadmins and one a contact, 2 sessions, 1 token, 1 thread, the loop and 1 webhook | `TypeOK`, `TokenUsedOnce`, `ResetEndsSessions`, `RevokedForGood`, `ReinviteSparesSignedIn` hold |
| `company_access` | 2 role rows, 2 companies and company 1817, 2 handlers | `TypeOK`, `RevokedRowsStay`, `AllGrantedIsListed`, `AllObjectsFollowApplication`, `AllExcessIsDelegated` hold |

### Why the bounds are enough

Each hazard involves few actors. In `ApplicationSubmit` three requests are a
submit that fails, one that is repeated and one that competes with either; two
applications let a deal or a document of one be taken for the other's; one in-call
retry is the smallest number with which the client repeats a call, and the deals
and attempts of a request are then bounded by the model itself. For the safety
properties the theorems of section 5 remove these bounds, here and in every other
module. In `DocumentTransfer` jobs interact
through one row, and two workers with one cleanup give every pair; two documents
are needed only for the batch and its single commit (`documents_copies`), where
`MaxCopies = 7` is one more than the six files that three attempts with
`CallCopies = 2` can leave. In `documents_overlap` `MaxCopies = 2` suffices
because its properties ask only whether there is a copy. In
`EmailQueue`, two runs hold each other's stale batch, `MaxAttempts = 2` is
the least with a retry, and one manual retry and one crash may fall at any point.
The batch limit of 20 messages is above the number of messages, and so is the
limit of ten documents of an application, which is not modelled. In
`Delegations` two delegations compete for one application, and the writers of one
row are the loop and a thread; with `MaxTime = 1` and `MaxPeriod = 1` the worker
meets a delegation that starts late, one that is over, and one that ended before it
started. `Grace = 0` makes a worker that is one tick late fail an activation.

In `DealSync` applications do not touch each other's rows, so one suffices; two
changes let the deal be issued, changed and be replaced while two calls hold
replies of different age. In `PartnerClients` and `CompanyAccess` races need two
handlers and two rows or companies that compete for one index or lock. In
`Accounts` one thread, the loop and a webhook are the three ways to run; of the two
users either may be a superadmin and one is a contact of Bitrix24. Its safety
properties are theorems for any number of threads, webhooks and users.
`MaxPassword = 2` lets a session be older than the last password, and
`MaxRotations = 1` lets a refresh meet a revocation. A handler that waits for a row
held by a webhook really blocks the loop; here only its own step is disabled, so
that the runs also see what others do meanwhile.

### Fairness

`ApplicationSubmit!FairSpec` asks weak fairness of each request's `HandlerStep`:
an event loop runs every coroutine that is ready, `httpx` ends every call after
its timeout, and PostgreSQL grants a lock that is free. Nothing forces a request
to arrive, Bitrix24 to process a call, or a process to die. `SubmitAnswered` is
true with one process per request and false with one process for all, under the
same fairness: the difference is the event loop alone. `EmailQueue!FairSpec`
asks that the script is run again and again (its cron entry is external), that a
run which is not killed goes on (SMTP calls have a timeout), and that the delay of
a retry passes. Crashes are bounded, not fair. `DocumentTransfer` has no
liveness property: nothing in the repository runs its jobs. The same
is true of `Delegations`, whose worker is a call of `POST /delegations/run-worker`.
`DealSync!FairSpec` asks that a synchronisation goes on when it can: its requests
are answered or end with the timeout of the client (`client.py:244`), and nothing it
waits for is held across an await. The remaining modules promise only safety.

## 4. Findings and observations

1. **A lost reply creates a second deal** (`submit_duplicate`).
   `Bitrix24Client.call` repeats `crm.deal.add` after a timeout
   (`client.py:127`), and the lookup by application ID precedes only the first
   call, and only when an attempt is recorded;
   `docs/project-architecture-and-business-logic.md:488` promises the contrary.
2. **A double click stops the process** (`submit_loop`). The second submit waits
   for the row lock synchronously and stops the event loop on which the first one
   awaits Bitrix24. Neither is answered, and the answer
   `APPLICATION_SUBMIT_IN_PROGRESS` is never given, because "submitting" is never
   committed (`NeverStranded`).
3. **Repetitions of a transfer are not bounded when jobs die**
   (`documents_copies`): the retry count is rolled back with its batch, the file
   in Bitrix24 is not.

Observations: states that the models reach and that no run is about. The first two
disagree with a document of the repository; what the others show it neither promises
nor excludes.

- **A delegate needs no role**, in code against document:
  `docs/access-control-matrix.md:55-59` says that there is no standalone delegation and
  that nothing is granted without an active role or partner link, but
  `require_application_access` grants the application to a delegate who has neither
  (`policies.py:450`), for reading, uploading and requesting. `NoStandaloneAccess`
  (`Delegations`) states the document's rule and is not kept; `ExcessIsDelegated`
  (`AccessPolicies`) states how far the code exceeds it, and that nothing else does but
  the superadmin's rights, of which line 48 of the matrix names reading only. A
  delegation created while a thread blocks its user or revokes the role, after that
  thread has listed the open delegations, outlives the role it was validated against
  (`delegations.py:301`); so does one whose company link is moved.
- **A password that its user has chosen is replaced**, in code against document:
  `create-user` re-invites everybody who has not signed in (`user_needs_reinvite`,
  `bitrix_webhooks.py:129`), also who has activated the account with `first-login`;
  `docs/project-architecture-and-business-logic.md:486` excludes it for who is active.
  `ReinviteSparesSignedIn` is about those who have signed in.

- A draft update that has checked the status waits for the submit's row lock and
  then changes the draft of a submitted application (`auto_applications.py:603`;
  `SubmittedDraftFrozen` states the contrary), and a draft that changes before the
  lock is granted is linked to a deal built from the older one (`:435`).
- An upload whose application is linked while its content is awaited is inserted
  without a deal, and the queue never selects it (`documents.py:197`).
- Of two overlapping synchronisations the one with the older reply may write last
  (`sync.py:384`); the next one repairs it.
- `first_login` sets the status "active" and undoes a block that commits in between
  (`auth.py:504`); so does `create-user` for who has not signed in
  (`bitrix_webhooks.py:163`). A login that verified the old password before
  `change_password` or `block_user`, which run in threads, survives them; one before
  a password reset does not (`ResetEndsSessions`).
- Nothing keeps a superadmin (`SomeSuperadmin`, which no run checks). Two who block or
  demote each other in two threads leave none: each check counts the other
  (`superadmin.py:1038`). `create-user` for the contact or the e-mail address of the
  last one gives a client's role to whatever account it finds (`bitrix_webhooks.py:365`).
  And `sync-contact-companies` writes back the role it has read before its await, which
  gives a superadmin who was demoted in between the role again. No endpoint makes
  another superadmin (`superadmin.py:1033`).
- From its UPDATE on a webhook holds the row of a user across awaits; a login waits
  for that row in the event loop that the webhook needs (`bitrix_webhooks.py:366`),
  which is finding 2 in another place.
- A company that Bitrix24 has made for a request that a crash has lost is not found
  again (`partner_clients.py:167`), and a late notification "confirmed" reactivates
  a link that a superadmin has revoked (`bitrix_webhooks.py:258`).

## 5. What is proved

All theorems hold for any sets of rows, users, calls, threads and companies and any
value of the bounds, from the named assumptions of the modules alone (requests have
a process, the "nothing" value is no element, no stage maps to a submittable status,
the rows of one user are finitely many, limits are natural numbers). None states a
further hypothesis.

**`ApplicationSubmitProofs`.** `Inductive`: `Spec => []IInv`; from it `TypeCorrect`,
`SubmitExcludes`, `LinkIsOwn`, `LogTellsTheLink`, `RepeatedAnswersAgree`,
`NeverStranded`, `DocumentsFollow`. `ImplementsDealLink`: the submit flow implements
`DealLink` with `link[a] = row[a].deal`, `failed` the applications in
"submit_error", and `answer[r] = req[r].answer`; a commit that links is `Decide`, a
submit that finds the application linked is `Return`, a commit of "submit_error" is
`Fail`, every other step a stutter. `LinkIsForGood`, an action property, follows from
the two. None of the safety properties is inductive by itself. `IInv` joins them with
`RequestsKeepTheirOwn`: a request in its transaction has its lock, an unlinked
row and the next attempt number; a reply that was received, and each call on the
wire, belongs to the request's application, so that a reply that arrives late can
link only to the application's own deal; and a row is unlinked exactly when it may be
submitted. One lemma per action; the four that keep the transaction open share
`CallStep`.

**`CompanyAccessProofs`.** `GrantsAreListed`, `ObjectsNeedApplication` and
`OnlyDelegationExceeds` are theorems about the operators of `AccessPolicies`, for every
world: case splits over the type of user, with one lemma (`Cardinality(S) > 1` only if
`S` has an element) for the outcome "error". Then, of `CompanyAccess`, `RolesInvariant`
and from it `RolesTypeCorrect`, `AlwaysListed`, `AlwaysFollow`, `AlwaysOnlyDelegation`
and the action property `RevocationsStay`. The strengthening: the unique index also
holds of the rows as they will be when the synchronisation commits
(`UniqueRoles(Committed)`), which is why its commit cannot break it; a row it has
written has the status the row had if it was open (`DirtyKeepsStatus`), which is why
it revives nothing; and no call has company 1817 in hand (`CompaniesInHand`).

**`DealSyncProofs`.** `SyncInvariant`, then `SyncTypeCorrect`, `IssuedIsBacked`,
`PoliciesAreWhole`. The strengthening: what a deal names is in its history, and a
reply in hand, however old, names something that was in it (`CallsAreConsistent`).

**`PartnerClientsProofs`.** `PartnersInvariant`, then `PartnersTypeCorrect`,
`ActiveIsConfirmed`, `ApplicationsAreConfirmed`, `ConfirmedIsOfUse`. The strengthening:
a decision in hand is complete and still about the partner it has read, since its row
is locked; a draft in hand is for a company in the log; nothing is logged of a request
that is not there, so the owner of an entry never changes; and one decision per
request (`OneDecider`).

**`EmailQueueProofs`.** `QueueInvariant`, then `QueueTypeCorrect`, `ClaimsExclude`,
`DeliveredOnce`, `CrashesStrand`. The strengthening: what is due has an attempt left;
what a run has read was due when it read it, and the row it is sending is as it
claimed it, because every other claim compares a status that is not "processing"; and
how far the server has got follows from the status and the run.

**`DocumentTransferProofs`.** `TransferInvariant`, then `TransferTypeCorrect`,
`SentHasArrived`, `NothingIsLost`, `DeletedStaysHere`. The strengthening speaks of what a
job has selected and not committed: the program counter tells which documents it has in
hand (`InHand`); an uncommitted "sent" has its copy already (`WritesAreBacked`); a
transfer has rows of a linked application only, which no user can delete
(`TransfersAreLinked`), and nothing is sent before the link (`DraftsAreNotSent`); a
cleanup removes only what was sent or has expired, even when the row has changed since
it was selected (`CleansTheSettled`).

**`DelegationsProofs`.** `DelegationsInvariant`, then `DelegationsTypeCorrect`,
`OpenItemsExclude`, `ItemsFollowDelegation`. The strengthening: a row agrees with its
items (`Coherent`), also as its holder has written it and not committed (`HeldRow`), and
there each item is the committed one or moves forward from it (`Later`), which is why a
status that was read long before the UPDATE does no harm; a creation holds one row, and
nothing that threads have committed since its conflict check conflicts with it
(`Created`): they close items and make no new one. `ImplementsAccessGrants`: the module
implements `AccessGrants` with `grant[d][a]` as `GrantOf` reads it from the committed
rows; the commit of a row is a step of `AccessGrants` or a stutter, every other step a
stutter.

**`AccountsProofs`.** `AccountsInvariant`, then `AccountsTypeCorrect`,
`TokensAreUsedOnce`, `ResetsEndSessions` and the action properties `RevocationsLast` and
`ReinvitesSpare`. The strengthening says what a handler has checked and still relies on
when it writes: the token it is about to consume is unused, since both handlers that
consume one run in the loop, and the one it inserts is its own (`TokenInHand`); the
password that a login has verified is not older than the last reset, since no reset
commits in between (`SessionInHand`); and whoever has signed in had done so when
`create-user` read the account, first because the loop is busy, then because the webhook
holds the row (`AccountInHand`).

Each of these invariants was an invariant of the runs' instances in TLC before it was
proved.

Only model-checked: the liveness properties `SubmitAnswered`, `Settles` and `SyncEnds`,
since fairness and ENABLED are out of reach of the prover. Every safety property and
both refinements of the passing runs are theorems. The specifications declare no
RECURSIVE operator; what recursive definitions compute for every input is not
something the provers could show.

## 6. What is not modelled

Rendering, wording, logging and notifications; pagination and listings (their
filters are in `AccessPolicies`); draft validation (the submit starts from a draft
that passed it); the content of files and mails; disk errors other than a missing
file; the frontend. Rate limits in Redis, the expiry of tokens and sessions and
impersonation (`Accounts`): the first two only refuse requests, the third opens one
more kind of session. `company_eligibility.py`, a cached answer of Bitrix24 that may
refuse an application before anything is written. Of delegations, a creation repeated
with its idempotency key (answered by a query), notifications and revoked sessions;
two superadmin threads at once are allowed by the module but not by the run. The
number of documents per application is not counted, and batch limits of queues are
above the number of rows. In `EmailQueue` the texts of errors and the state of tokens
only decide, by a free choice, whether an attempt may be repeated. The superadmin's
contact links and the resolution of integration errors are single-row updates that
nothing else reads. PostgreSQL, Redis, Bitrix24 and SMTP are modelled as the code uses
them.

## 7. Plan

1. An abstract specification for `EmailQueue` (a message is sent, fails or is
   stranded) and one for `PartnerClients` (a confirmation log), with refinements.
2. A bound on the repetitions of `DocumentTransfer` that holds of the code, with the
   number of jobs that die or overlap in it.
