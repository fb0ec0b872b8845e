-------------------------- MODULE DocumentTransfer --------------------------
(***************************************************************************)
(* The temporary documents of one application: upload and deletion         *)
(* (app/routers/documents.py), the queue that sends them to Bitrix24 and   *)
(* the cleanup of the temporary storage (app/document_transfer.py).        *)
(*                                                                         *)
(* The two jobs write to three places that no transaction spans: the rows  *)
(* of document_transfer_logs, the files on disk and the files in Bitrix24. *)
(* A job commits once, after its whole batch.  Until then its UPDATEs live *)
(* in `tx', and each row it has updated is locked; what it has done to the *)
(* files cannot be rolled back.  Nothing in the code keeps two jobs from   *)
(* running at a time; Overlap says whether their scheduler, which is not   *)
(* in the repository, does.                                                *)
(*                                                                         *)
(* Linking the application and the status of its deal are those of module  *)
(* ApplicationSubmit, reduced to what documents see of them: no seeded     *)
(* stage (reference_data.py:168-195) takes a linked application back to a  *)
(* status that allows deletion.  The web handlers run in one process       *)
(* (Dockerfile:17), so a handler that awaits nothing is one step; an       *)
(* upload awaits its content.                                              *)
(*                                                                         *)
(* An operator named Bug... is a plausible mistake in the one after it.    *)
(***************************************************************************)
EXTENDS Integers, FiniteSets, Functions

CONSTANTS
    Document,    \* document IDs, in the order of created_at
    Worker,      \* runs of process_document_transfer_queue
    Cleaner,     \* runs of cleanup_temporary_documents
    Overlap,     \* may two jobs run at the same time?
    Faults,      \* a subset of {"abort"}: a job may die or lose its transaction
    BatchLimit,  \* the limit of a batch, 20 in the code
    CallCopies,  \* how many files one call with its retries can leave in Bitrix24
    MaxCopies    \* bound of the model on the files of one document in Bitrix24

QUEUE_STATUSES == {"uploaded", "retry_required"}
EXPIRE_STATUSES == {"uploaded", "failed", "retry_required"}
MaxAttempts == 3

Statuses ==
    {"uploaded", "transferring", "sent", "failed", "retry_required", "expired", "deleted"}

ASSUME ConstantsAssumption ==
    /\ Document \subseteq Nat
    /\ Worker \cap Cleaner = {}
    /\ Overlap \in BOOLEAN
    /\ Faults \subseteq {"abort"}
    /\ BatchLimit \in Nat \ {0}
    /\ CallCopies \in Nat \ {0}
    /\ MaxCopies \in Nat

VARIABLES
    portal,   \* the application: "draft" until it is linked, then "received" or "in_work"
    uploads,  \* uploads that await their content, with what they read of the application
    docs,     \* committed rows: status, queued (bitrix_deal_id is set), retry (retry_count),
              \*   gone (local_deleted_at is set)
    files,    \* the documents whose file is on disk
    old,      \* the documents whose expires_at has passed
    copies,   \* how many files Bitrix24 holds of each document
    job       \* the state of each run of a job

vars == <<portal, uploads, docs, files, old, copies, job>>

Job == Worker \cup Cleaner
Rows == [status : Statuses, queued : BOOLEAN, retry : Nat, gone : BOOLEAN]
IdleJob == [pc |-> "idle", todo |-> {}, now |-> {}, snap |-> <<>>, tx |-> <<>>]

(***************************************************************************)
(* The types; and no document is left "transferring", the status no query  *)
(* selects: it is written and replaced inside one transaction.             *)
(***************************************************************************)
TypeOK ==
    /\ portal \in {"draft", "received", "in_work"}
    /\ uploads \in SUBSET [doc : Document, queued : BOOLEAN]
    /\ DOMAIN docs \subseteq Document /\ Range(docs) \subseteq Rows
    /\ \A x \in DOMAIN docs : docs[x].status # "transferring"
    /\ files \subseteq Document
    /\ old \subseteq DOMAIN docs
    /\ copies \in [Document -> 0 .. MaxCopies]
    /\ \A j \in Job :
          /\ job[j].pc \in {"idle", "next", "mark", "transfer", "sending"}
          /\ job[j].pc = "idle" => job[j] = IdleJob
          /\ job[j].todo \cup job[j].now \subseteq DOMAIN docs
          /\ Range(job[j].snap) \subseteq Rows
          /\ DOMAIN job[j].tx \subseteq DOMAIN docs /\ Range(job[j].tx) \subseteq Rows

Init ==
    /\ portal = "draft"
    /\ uploads = {}
    /\ docs = <<>>
    /\ files = {}
    /\ old = {}
    /\ copies = [x \in Document |-> 0]
    /\ job = [j \in Job |-> IdleJob]

-----------------------------------------------------------------------------
(***************************************************************************)
(* Reads and writes at READ COMMITTED.                                     *)
(***************************************************************************)
Linked == portal # "draft"

\* f with the values of g where g is defined.
Override(g, f) == [x \in DOMAIN f \cup DOMAIN g |-> IF x \in DOMAIN g THEN g[x] ELSE f[x]]

\* A job sees its own UPDATEs and what is committed.
Visible(j) == Override(job[j].tx, docs)

LockedByOther(j, x) == \E k \in Job \ {j} : x \in DOMAIN job[k].tx

Unlocked(x) == \A k \in Job : x \notin DOMAIN job[k].tx

Having(statuses) == {x \in DOMAIN docs : docs[x].status \in statuses}

\* UPDATE document_transfer_logs ... WHERE id = x, by job j, which waits for the row lock.
UpdateTx(j, x, r) == Override([y \in {x} |-> r], job[j].tx)

MayRun(j) == job[j].pc = "idle" /\ (Overlap \/ \A k \in Job : job[k].pc = "idle")

-----------------------------------------------------------------------------
(***************************************************************************)
(* POST .../documents: the application is read, then the content awaited,  *)
(* then the file and the row written, with the deal that was read.  The    *)
(* limit of ten documents is not modelled.                                 *)
(***************************************************************************)
BeginUpload(x) ==
    /\ portal \in {"draft", "in_work"}
    /\ x \notin DOMAIN docs
    /\ \A u \in uploads : u.doc # x
    /\ uploads' = uploads \cup {[doc |-> x, queued |-> Linked]}
    /\ UNCHANGED <<portal, docs, files, old, copies, job>>

FinishUpload(u) ==
    /\ u \in uploads
    /\ uploads' = uploads \ {u}
    /\ files' = files \cup {u.doc}
    /\ docs' = Override([x \in {u.doc} |->
                  [status |-> "uploaded", queued |-> u.queued, retry |-> 0, gone |-> FALSE]], docs)
    /\ UNCHANGED <<portal, old, copies, job>>

\* Deletion without the check of the application's status.
BugDelete(x) ==
    /\ x \in DOMAIN docs
    /\ docs[x].status # "sent"
    /\ Unlocked(x)
    /\ files' = files \ {x}
    /\ docs' = [docs EXCEPT ![x].status = "deleted", ![x].gone = TRUE]
    /\ UNCHANGED <<portal, uploads, old, copies, job>>

(***************************************************************************)
(* DELETE .../documents/{id}.                                              *)
(***************************************************************************)
Delete(x) ==
    /\ portal = "draft"
    /\ x \in DOMAIN docs
    /\ docs[x].status # "sent"
    /\ Unlocked(x)
    /\ files' = files \ {x}
    /\ docs' = [docs EXCEPT ![x].status = "deleted", ![x].gone = TRUE]
    /\ UNCHANGED <<portal, uploads, old, copies, job>>

(***************************************************************************)
(* A submit links the application, or finds it linked; both queue the      *)
(* documents (queue_application_documents).  Then its stage may change.    *)
(***************************************************************************)
Submit ==
    /\ \A x \in Having(QUEUE_STATUSES) : Unlocked(x)
    /\ portal' = IF Linked THEN portal ELSE "received"
    /\ docs' = [x \in DOMAIN docs |->
                  IF x \in Having(QUEUE_STATUSES) THEN [docs[x] EXCEPT !.queued = TRUE]
                  ELSE docs[x]]
    /\ UNCHANGED <<uploads, files, old, copies, job>>

ReachStage ==
    /\ Linked
    /\ portal' \in {"received", "in_work"} \ {portal}
    /\ UNCHANGED <<uploads, docs, files, old, copies, job>>

Expire(x) ==
    /\ x \in DOMAIN docs \ old
    /\ old' = old \cup {x}
    /\ UNCHANGED <<portal, uploads, docs, files, copies, job>>

-----------------------------------------------------------------------------
(***************************************************************************)
(* process_document_transfer_queue.  The batch is selected once, each row  *)
(* read again when its turn comes, and its status is not checked again.    *)
(***************************************************************************)
Queued == {x \in Having(QUEUE_STATUSES) : docs[x].queued /\ Linked /\ ~docs[x].gone}

SelectBatch(w) ==
    /\ MayRun(w)
    /\ Queued # {}
    /\ job' = [job EXCEPT ![w].pc = "next",
                          ![w].todo = {x \in Queued :
                                          Cardinality({y \in Queued : y < x}) < BatchLimit}]
    /\ UNCHANGED <<portal, uploads, docs, files, old, copies>>

ReadRow(w, x) ==
    /\ job[w].pc = "next"
    /\ x \in job[w].todo
    /\ \A y \in job[w].todo : x <= y
    /\ job' = [job EXCEPT ![w].pc = "mark",
                          ![w].todo = @ \ {x},
                          ![w].now = {x},
                          ![w].snap = [y \in {x} |-> Visible(w)[x]]]
    /\ UNCHANGED <<portal, uploads, docs, files, old, copies>>

\* The mark is committed on its own, so that others can see it.
BugMarkTransferring(w, x) ==
    /\ job[w].pc = "mark"
    /\ x \in job[w].now
    /\ ~LockedByOther(w, x)
    /\ docs' = [docs EXCEPT ![x].status = "transferring"]
    /\ job' = [job EXCEPT ![w].pc = "transfer"]
    /\ UNCHANGED <<portal, uploads, files, old, copies>>

MarkTransferring(w, x) ==
    /\ job[w].pc = "mark"
    /\ x \in job[w].now
    /\ ~LockedByOther(w, x)
    /\ job' = [job EXCEPT ![w].pc = "transfer",
                          ![w].tx = UpdateTx(w, x, [Visible(w)[x] EXCEPT !.status = "transferring"])]
    /\ UNCHANGED <<portal, uploads, docs, files, old, copies>>

(***************************************************************************)
(* The outcome of a transfer is written and the next document's turn       *)
(* comes.                                                                  *)
(***************************************************************************)
Outcome(w, x, r) ==
    job' = [job EXCEPT ![w].pc = "next",
                       ![w].now = {},
                       ![w].snap = <<>>,
                       ![w].tx = UpdateTx(w, x, r)]

StatusAfterFailure(n) == IF n < MaxAttempts THEN "retry_required" ELSE "failed"

RecordFailure(w, x) ==
    LET n == job[w].snap[x].retry + 1 IN
    Outcome(w, x, [Visible(w)[x] EXCEPT !.status = StatusAfterFailure(n), !.retry = n])

FileMissing(w, x) ==
    /\ job[w].pc = "transfer"
    /\ x \in job[w].now
    /\ x \notin files
    /\ RecordFailure(w, x)
    /\ UNCHANGED <<portal, uploads, docs, files, old, copies>>

SendFile(w, x) ==
    /\ job[w].pc = "transfer"
    /\ x \in job[w].now
    /\ x \in files
    /\ job' = [job EXCEPT ![w].pc = "sending"]
    /\ UNCHANGED <<portal, uploads, docs, files, old, copies>>

(***************************************************************************)
(* upload_file_to_deal is two calls: disk.folder.uploadfile, then a        *)
(* timeline comment.  If the second fails the file stays in Bitrix24 and   *)
(* the transfer counts as failed; a call whose reply is lost leaves a file *)
(* too.                                                                    *)
(***************************************************************************)
TransferFails(w, x) ==
    /\ job[w].pc = "sending"
    /\ x \in job[w].now
    /\ \E k \in 0 .. CallCopies :
          /\ copies[x] + k <= MaxCopies
          /\ copies' = [copies EXCEPT ![x] = @ + k]
    /\ RecordFailure(w, x)
    /\ UNCHANGED <<portal, uploads, docs, files, old>>

\* The row and the file are settled although Bitrix24 has not confirmed.
BugTransferred(w, x) ==
    /\ job[w].pc = "sending"
    /\ x \in job[w].now
    /\ files' = files \ {x}
    /\ Outcome(w, x, [Visible(w)[x] EXCEPT !.status = "sent", !.gone = TRUE])
    /\ UNCHANGED <<portal, uploads, docs, old, copies>>

Transferred(w, x) ==
    /\ job[w].pc = "sending"
    /\ x \in job[w].now
    /\ \E k \in 1 .. CallCopies :
          /\ copies[x] + k <= MaxCopies
          /\ copies' = [copies EXCEPT ![x] = @ + k]
    /\ files' = files \ {x}
    /\ Outcome(w, x, [Visible(w)[x] EXCEPT !.status = "sent",
                                           !.gone = x \in files \/ job[w].snap[x].gone])
    /\ UNCHANGED <<portal, uploads, docs, old>>

-----------------------------------------------------------------------------
(***************************************************************************)
(* cleanup_temporary_documents: the rows are read at once, in no order;    *)
(* then, for each, the file goes first and the UPDATE, which may wait,     *)
(* after it.                                                               *)
(***************************************************************************)
Temporary ==
    {x \in DOMAIN docs :
        /\ ~docs[x].gone
        /\ \/ docs[x].status = "sent"
           \/ docs[x].status \in EXPIRE_STATUSES /\ x \in old}

SelectTemporary(c) ==
    /\ MayRun(c)
    /\ Temporary # {}
    /\ job' = [job EXCEPT ![c].pc = "next",
                          ![c].todo = Temporary,
                          ![c].snap = [x \in Temporary |-> docs[x]]]
    /\ UNCHANGED <<portal, uploads, docs, files, old, copies>>

\* From here on the snapshot's `gone' tells whether the file was found.
UnlinkTemporary(c, x) ==
    /\ job[c].pc = "next"
    /\ x \in job[c].todo
    /\ files' = files \ {x}
    /\ job' = [job EXCEPT ![c].pc = "mark",
                          ![c].todo = @ \ {x},
                          ![c].now = {x},
                          ![c].snap[x].gone = x \in files]
    /\ UNCHANGED <<portal, uploads, docs, old, copies>>

\* What the cleanup writes, from the status it read.
Cleaned(c, x) ==
    IF job[c].snap[x].status = "sent"
    THEN [Visible(c)[x] EXCEPT !.status = "sent", !.gone = job[c].snap[x].gone]
    ELSE [Visible(c)[x] EXCEPT !.status = "expired", !.gone = TRUE]

MarkCleaned(c, x) ==
    /\ job[c].pc = "mark"
    /\ x \in job[c].now
    /\ ~LockedByOther(c, x)
    /\ job' = [job EXCEPT ![c].pc = "next",
                          ![c].now = {},
                          ![c].tx = UpdateTx(c, x, Cleaned(c, x))]
    /\ UNCHANGED <<portal, uploads, docs, files, old, copies>>

-----------------------------------------------------------------------------
(***************************************************************************)
(* The single commit at the end of a batch.                                *)
(***************************************************************************)
CommitBatch(j) ==
    /\ job[j].pc = "next"
    /\ job[j].todo = {}
    /\ docs' = Override(job[j].tx, docs)
    /\ job' = [job EXCEPT ![j] = IdleJob]
    /\ UNCHANGED <<portal, uploads, files, old, copies>>

(***************************************************************************)
(* The process dies, its connection breaks, or PostgreSQL ends a deadlock  *)
(* between two jobs: the batch rolls back, the files do not.               *)
(***************************************************************************)
Abort(j) ==
    /\ "abort" \in Faults
    /\ job[j].pc # "idle"
    /\ job' = [job EXCEPT ![j] = IdleJob]
    /\ UNCHANGED <<portal, uploads, docs, files, old, copies>>

Next ==
    \/ \E x \in Document : BeginUpload(x) \/ Delete(x) \/ Expire(x)
    \/ \E u \in uploads : FinishUpload(u)
    \/ Submit
    \/ ReachStage
    \/ \E w \in Worker : SelectBatch(w)
    \/ \E w \in Worker, x \in Document :
          \/ ReadRow(w, x)
          \/ MarkTransferring(w, x)
          \/ FileMissing(w, x)
          \/ SendFile(w, x)
          \/ TransferFails(w, x)
          \/ Transferred(w, x)
    \/ \E c \in Cleaner : SelectTemporary(c)
    \/ \E c \in Cleaner, x \in Document : UnlinkTemporary(c, x) \/ MarkCleaned(c, x)
    \/ \E j \in Job : CommitBatch(j) \/ Abort(j)

Spec == Init /\ [][Next]_vars

-----------------------------------------------------------------------------
(***************************************************************************)
(* A document that is recorded as sent is in Bitrix24, whichever jobs      *)
(* overlapped or died.                                                     *)
(***************************************************************************)
SentIsInBitrix ==
    \A x \in DOMAIN docs : docs[x].status = "sent" => copies[x] > 0

(***************************************************************************)
(* A temporary file disappears only after Bitrix24 has a copy, when its    *)
(* user deleted it or when its retention has ended: neither a rollback nor *)
(* an overlapping job loses a document.                                    *)
(***************************************************************************)
KeptUntilDelivered ==
    \A x \in DOMAIN docs \ files :
        copies[x] > 0 \/ docs[x].status = "deleted" \/ x \in old

(***************************************************************************)
(* A document that its user deleted never reaches Bitrix24.                *)
(***************************************************************************)
DeletedIsNotSent ==
    \A x \in DOMAIN docs : docs[x].status = "deleted" => copies[x] = 0

(***************************************************************************)
(* Repetitions are controlled: at most three transfers are made of a       *)
(* document (docs/project-architecture-and-business-logic.md:489).         *)
(***************************************************************************)
ControlledCopies ==
    \A x \in Document : copies[x] <= MaxAttempts * CallCopies
=============================================================================
