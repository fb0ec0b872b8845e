----------------------- MODULE DocumentTransferProofs -----------------------
(***************************************************************************)
(* What DocumentTransfer keeps true for every set of documents, any number *)
(* of jobs that overlap and die, and any limits, proved from an inductive  *)
(* invariant.                                                              *)
(***************************************************************************)
EXTENDS DocumentTransfer, TLAPS

\* Some documents, each with a row.
IsTable(T) == DOMAIN T \subseteq Document /\ T \in [DOMAIN T -> Rows]

JobFields == {"pc", "todo", "now", "snap", "tx"}

(***************************************************************************)
(* The program counter tells what a job has in hand: at most one document, *)
(* of which it has a snapshot; only the document that is being transferred *)
(* is marked so.                                                           *)
(***************************************************************************)
InHand(j) ==
    /\ DOMAIN job[j] = JobFields
    /\ job[j].pc \in {"idle", "next", "mark", "transfer", "sending"}
    /\ IsTable(job[j].snap) /\ IsTable(job[j].tx)
    /\ job[j].pc = "idle" => job[j] = IdleJob
    /\ job[j].todo \cup job[j].now \cup DOMAIN job[j].tx \subseteq DOMAIN docs
    /\ job[j].now \subseteq DOMAIN job[j].snap
    /\ job[j].pc = "next" => job[j].now = {}
    /\ \A x, y \in job[j].now : x = y
    /\ \A x \in DOMAIN job[j].tx :
          job[j].tx[x].status = "transferring" =>
              x \in job[j].now /\ job[j].pc \in {"transfer", "sending"}

(***************************************************************************)
(* What a job is about to commit is true of the other two stores: what it  *)
(* has marked as sent has a copy, and nothing becomes "deleted" by a job.  *)
(***************************************************************************)
WritesAreBacked(j) ==
    \A x \in DOMAIN job[j].tx :
        /\ job[j].tx[x].status \in {"transferring", "sent", "retry_required", "failed", "expired"}
        /\ job[j].tx[x].status = "sent" => copies[x] > 0

(***************************************************************************)
(* A transfer runs for a linked application only, so no user deletes the   *)
(* documents of its batch under it.                                        *)
(***************************************************************************)
TransfersAreLinked(w) ==
    /\ job[w].pc # "idle" => Linked
    /\ \A x \in job[w].todo \cup job[w].now \cup DOMAIN job[w].tx : docs[x].status # "deleted"

(***************************************************************************)
(* A cleanup touches only what was sent, whatever happened to the row      *)
(* since, or has expired.                                                  *)
(***************************************************************************)
CleansTheSettled(c) ==
    /\ job[c].pc \in {"idle", "next", "mark"}
    /\ \A x \in job[c].todo \cup job[c].now :
          /\ x \in DOMAIN job[c].snap
          /\ job[c].snap[x].status = "sent" => copies[x] > 0
          /\ job[c].snap[x].status # "sent" => x \in old
    /\ \A x \in DOMAIN job[c].tx : copies[x] > 0 \/ x \in old

JobInv(j) ==
    /\ InHand(j)
    /\ WritesAreBacked(j)
    /\ j \in Worker => TransfersAreLinked(j)
    /\ j \in Cleaner => CleansTheSettled(j)

\* Nothing was sent of an application without a deal.
DraftsAreNotSent == ~Linked => \A x \in Document : copies[x] = 0

StoresTyped ==
    /\ portal \in {"draft", "received", "in_work"}
    /\ uploads \in SUBSET [doc : Document, queued : BOOLEAN]
    /\ IsTable(docs)
    /\ \A x \in DOMAIN docs : docs[x].status # "transferring"
    /\ files \subseteq Document
    /\ old \subseteq DOMAIN docs
    /\ copies \in [Document -> 0 .. MaxCopies]

IInv ==
    /\ StoresTyped
    /\ DOMAIN job = Job
    /\ SentIsInBitrix
    /\ KeptUntilDelivered
    /\ DeletedIsNotSent
    /\ DraftsAreNotSent
    /\ \A j \in Job : JobInv(j)

-----------------------------------------------------------------------------
\* A table that has some of its rows replaced.
LEMMA OverrideIsTable ==
    ASSUME NEW f, NEW g, IsTable(f), IsTable(g)
    PROVE  /\ IsTable(Override(g, f))
           /\ DOMAIN Override(g, f) = DOMAIN f \cup DOMAIN g
           /\ \A x \in DOMAIN g : Override(g, f)[x] = g[x]
           /\ \A x \in DOMAIN f \ DOMAIN g : Override(g, f)[x] = f[x]
BY DEF Override, IsTable

\* A table of one row.
LEMMA OneRowIsTable ==
    ASSUME NEW x \in Document, NEW r \in Rows
    PROVE  LET T == [y \in {x} |-> r] IN IsTable(T) /\ DOMAIN T = {x} /\ T[x] = r
BY DEF IsTable

\* What a job sees of a document is a row.
LEMMA VisibleIsRow ==
    ASSUME IInv, NEW j \in Job, NEW x \in DOMAIN docs
    PROVE  /\ Visible(j)[x] \in Rows
           /\ Visible(j)[x] = IF x \in DOMAIN job[j].tx THEN job[j].tx[x] ELSE docs[x]
<1>1. IsTable(docs) /\ IsTable(job[j].tx)
  BY DEF IInv, StoresTyped, JobInv, InHand
<1>2. /\ \A y \in DOMAIN job[j].tx : Visible(j)[y] = job[j].tx[y]
      /\ \A y \in DOMAIN docs \ DOMAIN job[j].tx : Visible(j)[y] = docs[y]
  <2> DEFINE T == job[j].tx
  <2>1. Visible(j) = Override(T, docs) /\ IsTable(T)
    BY <1>1 DEF Visible
  <2> HIDE DEF T
  <2>2. /\ \A y \in DOMAIN T : Override(T, docs)[y] = T[y]
        /\ \A y \in DOMAIN docs \ DOMAIN T : Override(T, docs)[y] = docs[y]
    BY <1>1, <2>1, OverrideIsTable
  <2> QED
    BY <2>1, <2>2 DEF T
<1>3. Visible(j)[x] = IF x \in DOMAIN job[j].tx THEN job[j].tx[x] ELSE docs[x]
  BY <1>2
<1> QED
  BY <1>1, <1>3 DEF IsTable

\* What a job has written after one more UPDATE.
LEMMA UpdateIsTable ==
    ASSUME IInv, NEW j \in Job, NEW x \in DOMAIN docs, NEW r \in Rows
    PROVE  /\ IsTable(UpdateTx(j, x, r))
           /\ DOMAIN UpdateTx(j, x, r) = DOMAIN job[j].tx \cup {x}
           /\ UpdateTx(j, x, r)[x] = r
           /\ \A y \in DOMAIN job[j].tx \ {x} : UpdateTx(j, x, r)[y] = job[j].tx[y]
<1>1. IsTable(docs) /\ IsTable(job[j].tx)
  BY DEF IInv, StoresTyped, JobInv, InHand
<1>2. x \in Document
  BY <1>1 DEF IsTable
<1> DEFINE T == [y \in {x} |-> r]
<1>3. IsTable(T) /\ DOMAIN T = {x} /\ T[x] = r
  BY <1>2, OneRowIsTable
<1> HIDE DEF T
<1>4. /\ IsTable(Override(T, job[j].tx))
      /\ DOMAIN Override(T, job[j].tx) = DOMAIN job[j].tx \cup DOMAIN T
      /\ \A y \in DOMAIN T : Override(T, job[j].tx)[y] = T[y]
      /\ \A y \in DOMAIN job[j].tx \ DOMAIN T : Override(T, job[j].tx)[y] = job[j].tx[y]
  BY <1>1, <1>3, OverrideIsTable
<1>5. UpdateTx(j, x, r) = Override(T, job[j].tx)
  BY DEF UpdateTx, T
<1> QED
  BY <1>3, <1>4, <1>5

LEMMA IdleIsQuiet ==
    /\ DOMAIN IdleJob = JobFields /\ IdleJob.pc = "idle"
    /\ IdleJob.todo = {} /\ IdleJob.now = {}
    /\ DOMAIN IdleJob.snap = {} /\ DOMAIN IdleJob.tx = {}
    /\ IsTable(IdleJob.snap) /\ IsTable(IdleJob.tx)
BY DEF IdleJob, JobFields, IsTable

(***************************************************************************)
(* A step of somebody else does not disturb a job: rows stay, a status     *)
(* becomes "deleted" only while the application has no deal, and copies    *)
(* are not taken away.                                                     *)
(***************************************************************************)
LEMMA JobUndisturbed ==
    ASSUME IInv, NEW k \in Job, job'[k] = job[k],
           DOMAIN docs \subseteq DOMAIN docs', old \subseteq old', Linked => Linked',
           copies' \in [Document -> 0 .. MaxCopies],
           \A x \in Document : copies[x] <= copies'[x],
           \A x \in DOMAIN docs :
              docs'[x].status = "deleted" => docs[x].status = "deleted" \/ ~Linked
    PROVE  JobInv(k)'
<1>1. JobInv(k) /\ StoresTyped
  BY DEF IInv
<1>2. DOMAIN docs \subseteq Document /\ DOMAIN job[k].tx \subseteq DOMAIN docs
  BY <1>1 DEF StoresTyped, IsTable, JobInv, InHand
<1>3. \A x \in Document : copies[x] > 0 => copies'[x] > 0
  <2> SUFFICES ASSUME NEW x \in Document, copies[x] > 0
               PROVE  copies'[x] > 0
    OBVIOUS
  <2>1. copies[x] \in 0 .. MaxCopies /\ copies'[x] \in 0 .. MaxCopies /\ copies[x] <= copies'[x]
    BY <1>1 DEF StoresTyped
  <2> QED
    BY <2>1, ConstantsAssumption
<1>4. InHand(k)'
  BY <1>1 DEF JobInv, InHand, IsTable
<1>5. WritesAreBacked(k)'
  BY <1>1, <1>2, <1>3 DEF JobInv, WritesAreBacked
<1>6. k \in Worker => TransfersAreLinked(k)'
  <2> SUFFICES ASSUME k \in Worker
               PROVE  TransfersAreLinked(k)'
    OBVIOUS
  <2>1. CASE job[k].pc = "idle"
    BY <1>1, <2>1, IdleIsQuiet DEF JobInv, InHand, TransfersAreLinked
  <2>2. CASE job[k].pc # "idle"
    BY <1>1, <2>2 DEF JobInv, InHand, TransfersAreLinked
  <2> QED
    BY <2>1, <2>2
<1>7. k \in Cleaner => CleansTheSettled(k)'
  BY <1>1, <1>2, <1>3 DEF JobInv, InHand, CleansTheSettled
<1> QED
  BY <1>4, <1>5, <1>6, <1>7 DEF JobInv

(***************************************************************************)
(* A step of the portal: the jobs and the files in Bitrix24 stay.          *)
(***************************************************************************)
LEMMA PortalStep ==
    ASSUME IInv, StoresTyped', UNCHANGED <<job, copies>>,
           DOMAIN docs \subseteq DOMAIN docs', old \subseteq old', Linked => Linked',
           \A x \in DOMAIN docs :
              docs'[x].status = "deleted" => docs[x].status = "deleted" \/ ~Linked,
           SentIsInBitrix', KeptUntilDelivered', DeletedIsNotSent'
    PROVE  IInv'
<1>1. /\ copies' \in [Document -> 0 .. MaxCopies]
      /\ \A x \in Document : copies[x] <= copies'[x]
  <2>1. copies' = copies /\ \A x \in Document : copies[x] \in 0 .. MaxCopies
    BY DEF IInv, StoresTyped
  <2>2. \A n \in 0 .. MaxCopies : n <= n
    OBVIOUS
  <2> QED
    BY <2>1, <2>2 DEF IInv, StoresTyped
<1>2. \A j \in Job : JobInv(j)'
  BY <1>1, JobUndisturbed
<1>3. DraftsAreNotSent'
  BY DEF IInv, DraftsAreNotSent
<1> QED
  BY <1>2, <1>3 DEF IInv

LEMMA BeginUploadKeeps ==
    ASSUME IInv, NEW x \in Document, BeginUpload(x)
    PROVE  IInv'
<1>1. [doc |-> x, queued |-> Linked] \in [doc : Document, queued : BOOLEAN]
  BY DEF Linked
<1>2. StoresTyped'
  BY <1>1 DEF IInv, BeginUpload, StoresTyped
<1>3. SentIsInBitrix' /\ KeptUntilDelivered' /\ DeletedIsNotSent'
  BY DEF IInv, BeginUpload, SentIsInBitrix, KeptUntilDelivered, DeletedIsNotSent
<1> QED
  BY <1>2, <1>3, PortalStep DEF BeginUpload, Linked

LEMMA FinishUploadKeeps ==
    ASSUME IInv, NEW u \in uploads, FinishUpload(u)
    PROVE  IInv'
<1> DEFINE r == [status |-> "uploaded", queued |-> u.queued, retry |-> 0, gone |-> FALSE]
           T == [x \in {u.doc} |-> r]
<1>1. u.doc \in Document /\ r \in Rows /\ r.status = "uploaded" /\ IsTable(docs)
  BY DEF IInv, StoresTyped, Rows, Statuses
<1> HIDE DEF r
<1>2. IsTable(T) /\ DOMAIN T = {u.doc} /\ T[u.doc] = r
  BY <1>1, OneRowIsTable
<1>3. docs' = Override(T, docs) /\ files' = files \cup {u.doc}
  BY DEF FinishUpload, r
<1> HIDE DEF T
<1>4. /\ IsTable(docs') /\ DOMAIN docs' = DOMAIN docs \cup {u.doc} /\ docs'[u.doc] = r
      /\ \A x \in DOMAIN docs \ {u.doc} : docs'[x] = docs[x]
  <2>1. /\ IsTable(Override(T, docs))
        /\ DOMAIN Override(T, docs) = DOMAIN docs \cup DOMAIN T
        /\ \A x \in DOMAIN T : Override(T, docs)[x] = T[x]
        /\ \A x \in DOMAIN docs \ DOMAIN T : Override(T, docs)[x] = docs[x]
    BY <1>1, <1>2, OverrideIsTable
  <2> QED
    BY <1>2, <1>3, <2>1 DEF IsTable
<1>5. UNCHANGED <<portal, old, copies, job>> /\ uploads' \subseteq uploads
  BY DEF FinishUpload
<1>6. StoresTyped'
  BY <1>1, <1>3, <1>4, <1>5 DEF IInv, StoresTyped
<1>7. SentIsInBitrix' /\ DeletedIsNotSent' /\ KeptUntilDelivered'
  BY <1>1, <1>3, <1>4, <1>5 DEF IInv, SentIsInBitrix, DeletedIsNotSent, KeptUntilDelivered
<1> QED
  BY <1>1, <1>4, <1>5, <1>6, <1>7, PortalStep DEF Linked

\* While an application can have documents deleted, none was sent.
LEMMA DeleteKeeps ==
    ASSUME IInv, NEW x \in Document, Delete(x)
    PROVE  IInv'
<1>1. /\ x \in DOMAIN docs /\ docs[x].status # "sent" /\ ~Linked
      /\ IsTable(docs) /\ docs[x] \in Rows
  BY DEF Delete, Linked, IInv, StoresTyped, IsTable
<1>2. /\ docs' = [docs EXCEPT ![x].status = "deleted", ![x].gone = TRUE]
      /\ files' = files \ {x}
      /\ UNCHANGED <<portal, uploads, old, copies, job>>
  BY DEF Delete
<1>3. /\ DOMAIN docs' = DOMAIN docs /\ docs'[x].status = "deleted" /\ docs'[x] \in Rows
      /\ \A y \in DOMAIN docs \ {x} : docs'[y] = docs[y]
  BY <1>1, <1>2 DEF Rows, Statuses
<1>4. IsTable(docs')
  <2>1. docs' \in [DOMAIN docs -> Rows]
    BY <1>1, <1>2, <1>3 DEF IsTable
  <2> QED
    BY <1>1, <1>3, <2>1 DEF IsTable
<1>5. StoresTyped'
  BY <1>2, <1>3, <1>4 DEF IInv, StoresTyped
<1>6. \A y \in Document : copies[y] = 0
  BY <1>1 DEF IInv, DraftsAreNotSent
<1>7. SentIsInBitrix' /\ DeletedIsNotSent' /\ KeptUntilDelivered'
  BY <1>1, <1>2, <1>3, <1>6
     DEF IInv, SentIsInBitrix, DeletedIsNotSent, KeptUntilDelivered, IsTable
<1> QED
  BY <1>1, <1>2, <1>3, <1>5, <1>7, PortalStep DEF Linked

\* Queueing changes no status.
LEMMA SubmitKeeps ==
    ASSUME IInv, Submit
    PROVE  IInv'
<1>1. /\ docs' = [x \in DOMAIN docs |->
                    IF x \in Having(QUEUE_STATUSES) THEN [docs[x] EXCEPT !.queued = TRUE]
                    ELSE docs[x]]
      /\ portal' = IF Linked THEN portal ELSE "received"
      /\ UNCHANGED <<uploads, files, old, copies, job>>
  BY DEF Submit
<1>2. IsTable(docs)
  BY DEF IInv, StoresTyped
<1>3. /\ DOMAIN docs' = DOMAIN docs
      /\ \A x \in DOMAIN docs : docs'[x] \in Rows /\ docs'[x].status = docs[x].status
  BY <1>1, <1>2 DEF IsTable, Rows
<1>4. IsTable(docs')
  BY <1>1, <1>2, <1>3 DEF IsTable
<1>5. StoresTyped' /\ Linked'
  BY <1>1, <1>3, <1>4 DEF IInv, StoresTyped, Linked
<1>6. SentIsInBitrix' /\ DeletedIsNotSent' /\ KeptUntilDelivered'
  BY <1>1, <1>3 DEF IInv, SentIsInBitrix, DeletedIsNotSent, KeptUntilDelivered
<1> QED
  BY <1>1, <1>3, <1>5, <1>6, PortalStep

LEMMA ReachStageKeeps ==
    ASSUME IInv, ReachStage
    PROVE  IInv'
<1>1. StoresTyped' /\ Linked'
  BY DEF IInv, ReachStage, StoresTyped, Linked
<1>2. SentIsInBitrix' /\ DeletedIsNotSent' /\ KeptUntilDelivered'
  BY DEF IInv, ReachStage, SentIsInBitrix, DeletedIsNotSent, KeptUntilDelivered
<1> QED
  BY <1>1, <1>2, PortalStep DEF ReachStage

LEMMA ExpireKeeps ==
    ASSUME IInv, NEW x \in Document, Expire(x)
    PROVE  IInv'
<1>1. StoresTyped'
  BY DEF IInv, Expire, StoresTyped
<1>2. SentIsInBitrix' /\ DeletedIsNotSent' /\ KeptUntilDelivered'
  BY DEF IInv, Expire, SentIsInBitrix, DeletedIsNotSent, KeptUntilDelivered
<1> QED
  BY <1>1, <1>2, PortalStep DEF Expire, Linked

-----------------------------------------------------------------------------
(***************************************************************************)
(* A step of a job before its commit: the rows stay.  Copies are made only *)
(* of documents that are not deleted, of a linked application, and a file  *)
(* goes only if there is a copy or its retention has ended.                *)
(***************************************************************************)
LEMMA JobStep ==
    ASSUME IInv, NEW j \in Job,
           DOMAIN job' = Job, \A k \in Job \ {j} : job'[k] = job[k],
           UNCHANGED <<portal, uploads, docs, old>>,
           files' \subseteq files,
           copies' \in [Document -> 0 .. MaxCopies],
           \A x \in Document : copies[x] <= copies'[x],
           \A x \in Document : copies'[x] # copies[x] =>
              Linked /\ (x \in DOMAIN docs => docs[x].status # "deleted"),
           \A x \in DOMAIN docs : x \in files \ files' => copies'[x] > 0 \/ x \in old,
           JobInv(j)'
    PROVE  IInv'
<1>1. \A k \in Job : JobInv(k)'
  <2>1. \A k \in Job \ {j} : JobInv(k)'
    BY JobUndisturbed DEF Linked
  <2> QED
    BY <2>1
<1>2. StoresTyped'
  BY DEF IInv, StoresTyped
<1>3. \A x \in Document : copies[x] > 0 => copies'[x] > 0
  <2> SUFFICES ASSUME NEW x \in Document, copies[x] > 0
               PROVE  copies'[x] > 0
    OBVIOUS
  <2>1. copies[x] \in 0 .. MaxCopies /\ copies'[x] \in 0 .. MaxCopies /\ copies[x] <= copies'[x]
    BY DEF IInv, StoresTyped
  <2> QED
    BY <2>1, ConstantsAssumption
<1>4. DOMAIN docs \subseteq Document
  BY DEF IInv, StoresTyped, IsTable
<1>5. SentIsInBitrix'
  BY <1>3, <1>4 DEF IInv, SentIsInBitrix
<1>6. KeptUntilDelivered'
  BY <1>3, <1>4 DEF IInv, KeptUntilDelivered
<1>7. DeletedIsNotSent'
  BY <1>4 DEF IInv, DeletedIsNotSent
<1>8. DraftsAreNotSent'
  BY DEF IInv, DraftsAreNotSent, Linked
<1> QED
  BY <1>1, <1>2, <1>5, <1>6, <1>7, <1>8 DEF IInv

\* A step of a job that touches none of the three stores.
LEMMA QuietJobStep ==
    ASSUME IInv, NEW j \in Job,
           DOMAIN job' = Job, \A k \in Job \ {j} : job'[k] = job[k],
           UNCHANGED <<portal, uploads, docs, files, old, copies>>,
           JobInv(j)'
    PROVE  IInv'
<1>1. copies \in [Document -> 0 .. MaxCopies]
  BY DEF IInv, StoresTyped
<1>2. \A n \in 0 .. MaxCopies : n <= n
  OBVIOUS
<1>3. /\ copies' \in [Document -> 0 .. MaxCopies]
      /\ \A x \in Document : copies[x] <= copies'[x]
  BY <1>1, <1>2
<1> QED
  BY <1>3, JobStep

\* What the invariant says of one job.
LEMMA JobFacts ==
    ASSUME IInv, NEW j \in Job
    PROVE  /\ InHand(j) /\ WritesAreBacked(j)
           /\ j \in Worker => TransfersAreLinked(j)
           /\ j \in Cleaner => CleansTheSettled(j)
           /\ ~(j \in Worker /\ j \in Cleaner)
           /\ DOMAIN job = Job
BY ConstantsAssumption DEF IInv, JobInv

\* A batch is selected for a linked application, and no deleted document is in it.
LEMMA SelectBatchKeeps ==
    ASSUME IInv, NEW w \in Worker, SelectBatch(w)
    PROVE  IInv'
<1> DEFINE Batch == {x \in Queued : Cardinality({y \in Queued : y < x}) < BatchLimit}
<1>1. /\ w \in Job /\ job[w] = IdleJob /\ DOMAIN job = Job /\ w \notin Cleaner
      /\ DOMAIN job[w] = JobFields
  BY JobFacts DEF SelectBatch, MayRun, Job, InHand
<1>2. Linked /\ Batch \subseteq DOMAIN docs /\ \A x \in Batch : docs[x].status # "deleted"
  BY DEF SelectBatch, Queued, Having, QUEUE_STATUSES
<1>3. job' = [job EXCEPT ![w].pc = "next", ![w].todo = Batch]
  BY DEF SelectBatch
<1> HIDE DEF Batch
<1>4. /\ DOMAIN job' = Job /\ \A k \in Job \ {w} : job'[k] = job[k]
      /\ DOMAIN job'[w] = JobFields
      /\ job'[w].pc = "next" /\ job'[w].todo = Batch
      /\ job'[w].now = {} /\ job'[w].snap = job[w].snap /\ job'[w].tx = job[w].tx
  BY <1>1, <1>3, IdleIsQuiet DEF JobFields
<1>5. UNCHANGED <<portal, uploads, docs, files, old, copies>>
  BY DEF SelectBatch
<1>6. /\ IsTable(job'[w].snap) /\ IsTable(job'[w].tx)
      /\ DOMAIN job'[w].snap = {} /\ DOMAIN job'[w].tx = {}
  BY <1>1, <1>4, IdleIsQuiet
<1>7. InHand(w)'
  BY <1>2, <1>4, <1>5, <1>6 DEF InHand, JobFields, IsTable
<1>8. WritesAreBacked(w)' /\ TransfersAreLinked(w)'
  BY <1>2, <1>4, <1>5, <1>6 DEF WritesAreBacked, TransfersAreLinked, Linked
<1> QED
  BY <1>1, <1>4, <1>5, <1>7, <1>8, QuietJobStep DEF JobInv

LEMMA ReadRowKeeps ==
    ASSUME IInv, NEW w \in Worker, NEW x \in Document, ReadRow(w, x)
    PROVE  IInv'
<1>1. /\ w \in Job /\ DOMAIN job = Job /\ w \notin Cleaner /\ InHand(w) /\ WritesAreBacked(w)
      /\ TransfersAreLinked(w)
      /\ job[w].pc = "next" /\ x \in job[w].todo
  BY JobFacts DEF Job, ReadRow
<1>2. x \in DOMAIN docs /\ Visible(w)[x] \in Rows
  BY <1>1, VisibleIsRow DEF InHand
<1> DEFINE T == [y \in {x} |-> Visible(w)[x]]
<1>3. IsTable(T) /\ DOMAIN T = {x}
  BY <1>2, OneRowIsTable
<1>4. job' = [job EXCEPT ![w].pc = "mark", ![w].todo = @ \ {x}, ![w].now = {x}, ![w].snap = T]
  BY DEF ReadRow
<1> HIDE DEF T
<1>5. /\ DOMAIN job' = Job /\ \A k \in Job \ {w} : job'[k] = job[k]
      /\ DOMAIN job'[w] = JobFields
      /\ job'[w].pc = "mark" /\ job'[w].todo = job[w].todo \ {x}
      /\ job'[w].now = {x} /\ job'[w].snap = T /\ job'[w].tx = job[w].tx
  BY <1>1, <1>4 DEF InHand, JobFields
<1>6. UNCHANGED <<portal, uploads, docs, files, old, copies>>
  BY DEF ReadRow
<1>7. InHand(w)'
  BY <1>1, <1>2, <1>3, <1>5, <1>6 DEF InHand, IsTable
<1>8. WritesAreBacked(w)' /\ TransfersAreLinked(w)'
  BY <1>1, <1>5, <1>6 DEF WritesAreBacked, TransfersAreLinked, Linked
<1> QED
  BY <1>1, <1>5, <1>6, <1>7, <1>8, QuietJobStep DEF JobInv

LEMMA MarkTransferringKeeps ==
    ASSUME IInv, NEW w \in Worker, NEW x \in Document, MarkTransferring(w, x)
    PROVE  IInv'
<1>1. /\ w \in Job /\ DOMAIN job = Job /\ w \notin Cleaner /\ InHand(w) /\ WritesAreBacked(w)
      /\ TransfersAreLinked(w)
      /\ job[w].pc = "mark" /\ x \in job[w].now
  BY JobFacts DEF Job, MarkTransferring
<1>2. x \in DOMAIN docs /\ Visible(w)[x] \in Rows
  BY <1>1, VisibleIsRow DEF InHand
<1> DEFINE r == [Visible(w)[x] EXCEPT !.status = "transferring"]
<1>3. r \in Rows /\ r.status = "transferring"
  BY <1>2 DEF Rows, Statuses
<1>4. job' = [job EXCEPT ![w].pc = "transfer", ![w].tx = UpdateTx(w, x, r)]
  BY DEF MarkTransferring
<1> HIDE DEF r
<1>5. /\ DOMAIN job' = Job /\ \A k \in Job \ {w} : job'[k] = job[k]
      /\ DOMAIN job'[w] = JobFields
      /\ job'[w].pc = "transfer" /\ job'[w].todo = job[w].todo
      /\ job'[w].now = job[w].now /\ job'[w].snap = job[w].snap
      /\ job'[w].tx = UpdateTx(w, x, r)
  BY <1>1, <1>4 DEF InHand, JobFields
<1>6. /\ IsTable(job'[w].tx) /\ DOMAIN job'[w].tx = DOMAIN job[w].tx \cup {x}
      /\ job'[w].tx[x] = r
      /\ \A y \in DOMAIN job[w].tx \ {x} : job'[w].tx[y] = job[w].tx[y]
  <2>1. /\ IsTable(UpdateTx(w, x, r))
        /\ DOMAIN UpdateTx(w, x, r) = DOMAIN job[w].tx \cup {x}
        /\ UpdateTx(w, x, r)[x] = r
        /\ \A y \in DOMAIN job[w].tx \ {x} : UpdateTx(w, x, r)[y] = job[w].tx[y]
    <3>1. w \in Job /\ x \in DOMAIN docs /\ r \in Rows
      BY <1>1, <1>2, <1>3
    <3> QED
      BY ONLY <3>1, IInv, UpdateIsTable
  <2> QED
    BY <1>5, <2>1
<1>7. UNCHANGED <<portal, uploads, docs, files, old, copies>>
  BY DEF MarkTransferring
<1>8. InHand(w)'
  BY <1>1, <1>2, <1>5, <1>6, <1>7 DEF InHand, IsTable
<1>9. WritesAreBacked(w)' /\ TransfersAreLinked(w)'
  BY <1>1, <1>3, <1>5, <1>6, <1>7 DEF WritesAreBacked, TransfersAreLinked, Linked
<1> QED
  BY <1>1, <1>5, <1>7, <1>8, <1>9, QuietJobStep DEF JobInv

(***************************************************************************)
(* A worker writes the outcome of a transfer and has nothing in hand.      *)
(***************************************************************************)
LEMMA OutcomeKeeps ==
    ASSUME IInv, NEW w \in Worker, NEW x \in job[w].now, NEW r \in Rows,
           job[w].pc \in {"transfer", "sending"},
           Outcome(w, x, r),
           r.status \in {"sent", "retry_required", "failed"},
           r.status = "sent" => copies'[x] > 0,
           copies' \in [Document -> 0 .. MaxCopies],
           \A y \in Document : copies[y] <= copies'[y],
           UNCHANGED <<portal, docs, old>>
    PROVE  /\ DOMAIN job' = Job /\ \A k \in Job \ {w} : job'[k] = job[k]
           /\ JobInv(w)'
<1>1. /\ w \in Job /\ DOMAIN job = Job /\ w \notin Cleaner /\ InHand(w) /\ WritesAreBacked(w)
      /\ TransfersAreLinked(w)
  BY JobFacts DEF Job
<1>2. x \in DOMAIN docs /\ DOMAIN docs \subseteq Document
  BY <1>1 DEF InHand, IInv, StoresTyped, IsTable
<1>3. /\ IsTable(UpdateTx(w, x, r))
      /\ DOMAIN UpdateTx(w, x, r) = DOMAIN job[w].tx \cup {x}
      /\ UpdateTx(w, x, r)[x] = r
      /\ \A y \in DOMAIN job[w].tx \ {x} : UpdateTx(w, x, r)[y] = job[w].tx[y]
  BY <1>1, <1>2, UpdateIsTable
<1>4. /\ DOMAIN job' = Job /\ \A k \in Job \ {w} : job'[k] = job[k]
      /\ DOMAIN job'[w] = JobFields
      /\ job'[w].pc = "next" /\ job'[w].todo = job[w].todo
      /\ job'[w].now = {} /\ job'[w].snap = <<>> /\ job'[w].tx = UpdateTx(w, x, r)
  BY <1>1 DEF InHand, JobFields, Outcome
<1>5. IsTable(job'[w].snap)
  BY <1>4 DEF IsTable
<1>6. InHand(w)'
  BY <1>1, <1>2, <1>3, <1>4, <1>5 DEF InHand
<1>7. WritesAreBacked(w)'
  <2> SUFFICES ASSUME NEW y \in DOMAIN job'[w].tx
               PROVE  /\ job'[w].tx[y].status \in
                            {"transferring", "sent", "retry_required", "failed", "expired"}
                      /\ job'[w].tx[y].status = "sent" => copies'[y] > 0
    BY DEF WritesAreBacked
  <2>1. CASE y = x
    BY <1>3, <1>4, <2>1
  <2>2. CASE y # x
    <3>1. y \in DOMAIN job[w].tx /\ job'[w].tx[y] = job[w].tx[y] /\ y \in Document
      BY <1>1, <1>2, <1>3, <1>4, <2>2 DEF InHand
    <3>2. /\ copies[y] \in 0 .. MaxCopies /\ copies'[y] \in 0 .. MaxCopies
          /\ copies[y] <= copies'[y]
      BY <3>1 DEF IInv, StoresTyped
    <3> QED
      BY <1>1, <3>1, <3>2, ConstantsAssumption DEF WritesAreBacked
  <2> QED
    BY <2>1, <2>2
<1>8. TransfersAreLinked(w)'
  BY <1>1, <1>3, <1>4 DEF TransfersAreLinked, Linked
<1> QED
  BY <1>1, <1>4, <1>6, <1>7, <1>8 DEF JobInv

\* A failure leaves the document queued or failed, with one more try counted.
LEMMA FailureIsRow ==
    ASSUME IInv, NEW w \in Worker, NEW x \in job[w].now
    PROVE  LET n == job[w].snap[x].retry + 1
               r == [Visible(w)[x] EXCEPT !.status = StatusAfterFailure(n), !.retry = n]
           IN  r \in Rows /\ r.status \in {"retry_required", "failed"}
<1>1. w \in Job /\ InHand(w) /\ IsTable(job[w].snap)
  BY JobFacts DEF Job, InHand
<1>2. x \in DOMAIN job[w].snap /\ x \in DOMAIN docs
  BY <1>1 DEF InHand
<1>3. job[w].snap[x] \in Rows /\ Visible(w)[x] \in Rows
  BY <1>1, <1>2, VisibleIsRow DEF IsTable
<1>4. job[w].snap[x].retry + 1 \in Nat
  BY <1>3 DEF Rows
<1> QED
  BY <1>3, <1>4 DEF Rows, Statuses, StatusAfterFailure

LEMMA FileMissingKeeps ==
    ASSUME IInv, NEW w \in Worker, NEW x \in Document, FileMissing(w, x)
    PROVE  IInv'
<1> DEFINE n == job[w].snap[x].retry + 1
           r == [Visible(w)[x] EXCEPT !.status = StatusAfterFailure(n), !.retry = n]
<1>1. /\ w \in Job /\ x \in job[w].now /\ job[w].pc \in {"transfer", "sending"}
      /\ UNCHANGED <<portal, uploads, docs, files, old, copies>>
  BY DEF FileMissing, Job
<1>2. Outcome(w, x, r)
  BY DEF FileMissing, RecordFailure
<1>3. r \in Rows /\ r.status \in {"sent", "retry_required", "failed"} /\ r.status # "sent"
  BY <1>1, FailureIsRow
<1>4. copies \in [Document -> 0 .. MaxCopies] /\ \A m \in 0 .. MaxCopies : m <= m
  BY DEF IInv, StoresTyped
<1>5. copies' \in [Document -> 0 .. MaxCopies] /\ \A y \in Document : copies[y] <= copies'[y]
  BY <1>1, <1>4
<1> HIDE DEF r
<1>6. DOMAIN job' = Job /\ (\A k \in Job \ {w} : job'[k] = job[k]) /\ JobInv(w)'
  BY <1>1, <1>2, <1>3, <1>5, OutcomeKeeps
<1> QED
  BY <1>1, <1>6, QuietJobStep

\* The file is read before it is sent.
LEMMA SendFileKeeps ==
    ASSUME IInv, NEW w \in Worker, NEW x \in Document, SendFile(w, x)
    PROVE  IInv'
<1>1. /\ w \in Job /\ DOMAIN job = Job /\ w \notin Cleaner /\ InHand(w) /\ WritesAreBacked(w)
      /\ TransfersAreLinked(w)
      /\ job[w].pc = "transfer"
  BY JobFacts DEF Job, SendFile
<1>2. /\ DOMAIN job' = Job /\ \A k \in Job \ {w} : job'[k] = job[k]
      /\ DOMAIN job'[w] = JobFields
      /\ job'[w].pc = "sending" /\ job'[w].todo = job[w].todo
      /\ job'[w].now = job[w].now /\ job'[w].snap = job[w].snap /\ job'[w].tx = job[w].tx
  BY <1>1 DEF InHand, JobFields, SendFile
<1>3. UNCHANGED <<portal, uploads, docs, files, old, copies>>
  BY DEF SendFile
<1>4. InHand(w)'
  BY <1>1, <1>2, <1>3 DEF InHand, IsTable
<1>5. WritesAreBacked(w)' /\ TransfersAreLinked(w)'
  BY <1>1, <1>2, <1>3 DEF WritesAreBacked, TransfersAreLinked, Linked
<1> QED
  BY <1>1, <1>2, <1>3, <1>4, <1>5, QuietJobStep DEF JobInv

\* Copies are added to those of one document.
LEMMA CopiesGrow ==
    ASSUME IInv, NEW x \in Document, NEW k \in Nat, copies[x] + k <= MaxCopies,
           copies' = [copies EXCEPT ![x] = @ + k]
    PROVE  /\ copies' \in [Document -> 0 .. MaxCopies]
           /\ \A y \in Document : copies[y] <= copies'[y]
           /\ \A y \in Document : copies'[y] # copies[y] => y = x
           /\ k > 0 => copies'[x] > 0
<1>1. copies \in [Document -> 0 .. MaxCopies]
  BY DEF IInv, StoresTyped
<1>2. /\ copies'[x] = copies[x] + k /\ \A y \in Document \ {x} : copies'[y] = copies[y]
      /\ DOMAIN copies' = Document
  BY <1>1
<1>3. copies[x] \in 0 .. MaxCopies
  BY <1>1
<1>4. copies'[x] \in 0 .. MaxCopies /\ copies[x] <= copies'[x] /\ (k > 0 => copies'[x] > 0)
  BY <1>2, <1>3, ConstantsAssumption
<1>5. \A m \in 0 .. MaxCopies : m <= m
  OBVIOUS
<1> QED
  BY <1>1, <1>2, <1>4, <1>5

\* A document of a batch may get copies: its application is linked, and it is not deleted.
LEMMA TransferFailsKeeps ==
    ASSUME IInv, NEW w \in Worker, NEW x \in Document, TransferFails(w, x)
    PROVE  IInv'
<1> DEFINE n == job[w].snap[x].retry + 1
           r == [Visible(w)[x] EXCEPT !.status = StatusAfterFailure(n), !.retry = n]
<1>1. /\ w \in Job /\ x \in job[w].now /\ job[w].pc = "sending"
      /\ UNCHANGED <<portal, uploads, docs, files, old>>
  BY DEF TransferFails, Job
<1>2. Outcome(w, x, r)
  BY DEF TransferFails, RecordFailure
<1>3. r \in Rows /\ r.status \in {"sent", "retry_required", "failed"} /\ r.status # "sent"
  BY <1>1, FailureIsRow
<1>4. PICK k \in 0 .. CallCopies :
         copies[x] + k <= MaxCopies /\ copies' = [copies EXCEPT ![x] = @ + k]
  BY DEF TransferFails
<1>5. k \in Nat
  BY ConstantsAssumption
<1>6. /\ copies' \in [Document -> 0 .. MaxCopies]
      /\ \A y \in Document : copies[y] <= copies'[y]
      /\ \A y \in Document : copies'[y] # copies[y] => y = x
  BY <1>4, <1>5, CopiesGrow
<1> HIDE DEF r
<1>7. DOMAIN job' = Job /\ (\A j \in Job \ {w} : job'[j] = job[j]) /\ JobInv(w)'
  BY <1>1, <1>2, <1>3, <1>6, OutcomeKeeps
<1>8. Linked /\ docs[x].status # "deleted"
  BY <1>1, JobFacts DEF TransfersAreLinked
<1> QED
  BY <1>1, <1>6, <1>7, <1>8, JobStep

\* And its file may go once it has a copy.
LEMMA TransferredKeeps ==
    ASSUME IInv, NEW w \in Worker, NEW x \in Document, Transferred(w, x)
    PROVE  IInv'
<1> DEFINE r == [Visible(w)[x] EXCEPT !.status = "sent",
                                      !.gone = x \in files \/ job[w].snap[x].gone]
<1>1. /\ w \in Job /\ x \in job[w].now /\ job[w].pc = "sending"
      /\ files' = files \ {x}
      /\ UNCHANGED <<portal, uploads, docs, old>>
  BY DEF Transferred, Job
<1>2. Outcome(w, x, r)
  BY DEF Transferred
<1>3. r \in Rows /\ r.status = "sent"
  <2>1. /\ IsTable(job[w].snap) /\ x \in DOMAIN job[w].snap /\ x \in DOMAIN docs
    BY <1>1, JobFacts DEF InHand
  <2>2. job[w].snap[x] \in Rows /\ Visible(w)[x] \in Rows
    BY <1>1, <2>1, VisibleIsRow DEF IsTable
  <2>3. job[w].snap[x].gone \in BOOLEAN
    BY <2>2 DEF Rows
  <2> QED
    BY <2>2, <2>3 DEF Rows, Statuses
<1>4. PICK k \in 1 .. CallCopies :
         copies[x] + k <= MaxCopies /\ copies' = [copies EXCEPT ![x] = @ + k]
  BY DEF Transferred
<1>5. k \in Nat /\ k > 0
  BY ConstantsAssumption
<1>6. /\ copies' \in [Document -> 0 .. MaxCopies]
      /\ \A y \in Document : copies[y] <= copies'[y]
      /\ \A y \in Document : copies'[y] # copies[y] => y = x
      /\ copies'[x] > 0
  BY <1>4, <1>5, CopiesGrow
<1> HIDE DEF r
<1>7. DOMAIN job' = Job /\ (\A j \in Job \ {w} : job'[j] = job[j]) /\ JobInv(w)'
  BY <1>1, <1>2, <1>3, <1>6, OutcomeKeeps
<1>8. Linked /\ docs[x].status # "deleted"
  BY <1>1, JobFacts DEF TransfersAreLinked
<1> QED
  BY <1>1, <1>6, <1>7, <1>8, JobStep

-----------------------------------------------------------------------------
\* What the cleanup selects was sent or has expired.
LEMMA SelectTemporaryKeeps ==
    ASSUME IInv, NEW c \in Cleaner, SelectTemporary(c)
    PROVE  IInv'
<1> DEFINE T == [x \in Temporary |-> docs[x]]
<1>1. /\ c \in Job /\ job[c] = IdleJob /\ DOMAIN job = Job /\ c \notin Worker
      /\ DOMAIN job[c] = JobFields
  BY JobFacts DEF SelectTemporary, MayRun, Job, InHand
<1>2. Temporary \subseteq DOMAIN docs /\ IsTable(docs) /\ DOMAIN docs \subseteq Document
  BY DEF Temporary, IInv, StoresTyped, IsTable
<1>3. /\ IsTable(T) /\ DOMAIN T = Temporary
      /\ \A x \in Temporary : T[x] = docs[x]
  BY <1>2 DEF IsTable
<1>4. job' = [job EXCEPT ![c].pc = "next", ![c].todo = Temporary, ![c].snap = T]
  BY DEF SelectTemporary
<1> HIDE DEF T
<1>5. /\ DOMAIN job' = Job /\ \A k \in Job \ {c} : job'[k] = job[k]
      /\ DOMAIN job'[c] = JobFields
      /\ job'[c].pc = "next" /\ job'[c].todo = Temporary
      /\ job'[c].now = {} /\ job'[c].snap = T /\ job'[c].tx = job[c].tx
  BY <1>1, <1>4, IdleIsQuiet DEF JobFields
<1>6. UNCHANGED <<portal, uploads, docs, files, old, copies>>
  BY DEF SelectTemporary
<1>7. IsTable(job'[c].tx) /\ DOMAIN job'[c].tx = {}
  BY <1>1, <1>5, IdleIsQuiet
<1>8. InHand(c)'
  BY <1>2, <1>3, <1>5, <1>6, <1>7 DEF InHand
<1>9. WritesAreBacked(c)'
  BY <1>7 DEF WritesAreBacked
<1>10. CleansTheSettled(c)'
  BY <1>2, <1>3, <1>5, <1>6, <1>7 DEF CleansTheSettled, Temporary, IInv, SentIsInBitrix
<1> QED
  BY <1>1, <1>5, <1>6, <1>8, <1>9, <1>10, QuietJobStep DEF JobInv

\* Its file goes: it has a copy or has expired.
LEMMA UnlinkTemporaryKeeps ==
    ASSUME IInv, NEW c \in Cleaner, NEW x \in Document, UnlinkTemporary(c, x)
    PROVE  IInv'
<1>1. /\ c \in Job /\ DOMAIN job = Job /\ c \notin Worker /\ InHand(c) /\ WritesAreBacked(c)
      /\ CleansTheSettled(c)
      /\ job[c].pc = "next" /\ x \in job[c].todo
  BY JobFacts DEF Job, UnlinkTemporary
<1>2. /\ x \in DOMAIN job[c].snap /\ job[c].snap \in [DOMAIN job[c].snap -> Rows]
      /\ DOMAIN job[c].snap \subseteq Document
      /\ copies[x] > 0 \/ x \in old
  BY <1>1 DEF InHand, CleansTheSettled, IsTable
<1> DEFINE T == [job[c].snap EXCEPT ![x].gone = x \in files]
<1>3. /\ IsTable(T) /\ DOMAIN T = DOMAIN job[c].snap
      /\ \A y \in DOMAIN T : T[y].status = job[c].snap[y].status
  <2>1. [job[c].snap[x] EXCEPT !.gone = x \in files] \in Rows
    <3>1. job[c].snap[x] \in Rows
      BY <1>2
    <3>2. \A r \in Rows : \A b \in BOOLEAN : [r EXCEPT !.gone = b] \in Rows
      BY DEF Rows
    <3>3. (x \in files) \in BOOLEAN
      OBVIOUS
    <3> QED
      BY <3>1, <3>2, <3>3
  <2>2. [job[c].snap[x] EXCEPT !.gone = x \in files].status = job[c].snap[x].status
    BY <1>2 DEF Rows
  <2> QED
    BY <1>2, <2>1, <2>2 DEF IsTable
<1>4. /\ job' = [job EXCEPT ![c].pc = "mark", ![c].todo = @ \ {x}, ![c].now = {x},
                            ![c].snap[x].gone = x \in files]
      /\ files' = files \ {x}
      /\ UNCHANGED <<portal, uploads, docs, old, copies>>
  BY DEF UnlinkTemporary
<1>5. /\ DOMAIN job' = Job /\ \A k \in Job \ {c} : job'[k] = job[k]
      /\ DOMAIN job'[c] = JobFields
      /\ job'[c].pc = "mark" /\ job'[c].todo = job[c].todo \ {x}
      /\ job'[c].now = {x} /\ job'[c].snap = T /\ job'[c].tx = job[c].tx
  BY <1>1, <1>4 DEF InHand, JobFields
<1> HIDE DEF T
<1>6. InHand(c)'
  BY <1>1, <1>2, <1>3, <1>4, <1>5 DEF InHand
<1>7. WritesAreBacked(c)'
  BY <1>1, <1>4, <1>5 DEF WritesAreBacked
<1>8. CleansTheSettled(c)'
  BY <1>1, <1>3, <1>4, <1>5 DEF CleansTheSettled
<1>9. copies \in [Document -> 0 .. MaxCopies] /\ \A m \in 0 .. MaxCopies : m <= m
  BY DEF IInv, StoresTyped
<1>10. copies' \in [Document -> 0 .. MaxCopies] /\ \A y \in Document : copies[y] <= copies'[y]
  BY <1>4, <1>9
<1>11. JobInv(c)'
  BY <1>1, <1>6, <1>7, <1>8 DEF JobInv
<1> QED
  BY <1>1, <1>2, <1>4, <1>5, <1>10, <1>11, JobStep

\* The cleanup keeps "sent" or writes "expired".
LEMMA MarkCleanedKeeps ==
    ASSUME IInv, NEW c \in Cleaner, NEW x \in Document, MarkCleaned(c, x)
    PROVE  IInv'
<1>1. /\ c \in Job /\ DOMAIN job = Job /\ c \notin Worker /\ InHand(c) /\ WritesAreBacked(c)
      /\ CleansTheSettled(c)
      /\ job[c].pc = "mark" /\ x \in job[c].now
  BY JobFacts DEF Job, MarkCleaned
<1>2. /\ x \in DOMAIN docs /\ Visible(c)[x] \in Rows
      /\ x \in DOMAIN job[c].snap /\ job[c].snap[x] \in Rows
      /\ IsTable(job[c].snap)
  BY <1>1, VisibleIsRow DEF InHand, IsTable
<1> DEFINE r == Cleaned(c, x)
<1>3. /\ r \in Rows /\ r.status \in {"sent", "expired"}
      /\ r.status = "sent" => copies[x] > 0
      /\ copies[x] > 0 \/ x \in old
  <2>1. CASE job[c].snap[x].status = "sent"
    <3>1. r = [Visible(c)[x] EXCEPT !.status = "sent", !.gone = job[c].snap[x].gone]
      BY <2>1 DEF Cleaned
    <3>2. job[c].snap[x].gone \in BOOLEAN /\ copies[x] > 0
      BY <1>1, <1>2, <2>1 DEF Rows, CleansTheSettled
    <3> QED
      BY <1>2, <3>1, <3>2 DEF Rows, Statuses
  <2>2. CASE job[c].snap[x].status # "sent"
    <3>1. r = [Visible(c)[x] EXCEPT !.status = "expired", !.gone = TRUE]
      BY <2>2 DEF Cleaned
    <3>2. x \in old
      BY <1>1, <2>2 DEF CleansTheSettled
    <3> QED
      BY <1>2, <3>1, <3>2 DEF Rows, Statuses
  <2> QED
    BY <2>1, <2>2
<1>4. job' = [job EXCEPT ![c].pc = "next", ![c].now = {}, ![c].tx = UpdateTx(c, x, r)]
  BY DEF MarkCleaned
<1> HIDE DEF r
<1>5. /\ IsTable(UpdateTx(c, x, r))
      /\ DOMAIN UpdateTx(c, x, r) = DOMAIN job[c].tx \cup {x}
      /\ UpdateTx(c, x, r)[x] = r
      /\ \A y \in DOMAIN job[c].tx \ {x} : UpdateTx(c, x, r)[y] = job[c].tx[y]
  <2>1. c \in Job /\ x \in DOMAIN docs /\ r \in Rows
    BY <1>1, <1>2, <1>3
  <2> QED
    BY ONLY <2>1, IInv, UpdateIsTable
<1>6. /\ DOMAIN job' = Job /\ \A k \in Job \ {c} : job'[k] = job[k]
      /\ DOMAIN job'[c] = JobFields
      /\ job'[c].pc = "next" /\ job'[c].todo = job[c].todo
      /\ job'[c].now = {} /\ job'[c].snap = job[c].snap /\ job'[c].tx = UpdateTx(c, x, r)
  BY <1>1, <1>4 DEF InHand, JobFields
<1>7. UNCHANGED <<portal, uploads, docs, files, old, copies>>
  BY DEF MarkCleaned
<1>8. InHand(c)'
  BY <1>1, <1>2, <1>3, <1>5, <1>6, <1>7 DEF InHand
<1>9. WritesAreBacked(c)'
  BY <1>1, <1>3, <1>5, <1>6, <1>7 DEF WritesAreBacked
<1>10. CleansTheSettled(c)'
  BY <1>1, <1>3, <1>5, <1>6, <1>7 DEF CleansTheSettled
<1> QED
  BY <1>1, <1>6, <1>7, <1>8, <1>9, <1>10, QuietJobStep DEF JobInv

-----------------------------------------------------------------------------
\* A job that has ended has nothing in hand.
LEMMA IdleKeeps ==
    ASSUME NEW j, job'[j] = IdleJob, IsTable(docs')
    PROVE  JobInv(j)'
BY IdleIsQuiet DEF JobInv, InHand, WritesAreBacked, TransfersAreLinked, CleansTheSettled

(***************************************************************************)
(* A commit brings the rows in step with what has happened to the files    *)
(* and in Bitrix24 before, and undoes no deletion of a document that is    *)
(* being sent.                                                             *)
(***************************************************************************)
LEMMA CommitBatchKeeps ==
    ASSUME IInv, NEW j \in Job, CommitBatch(j)
    PROVE  IInv'
<1> DEFINE T == job[j].tx
<1>1. /\ DOMAIN job = Job /\ InHand(j) /\ WritesAreBacked(j)
      /\ j \in Worker => TransfersAreLinked(j)
      /\ j \in Cleaner => CleansTheSettled(j)
      /\ job[j].pc = "next"
  BY JobFacts DEF CommitBatch
<1>2. /\ IsTable(docs) /\ IsTable(T) /\ DOMAIN T \subseteq DOMAIN docs
      /\ DOMAIN docs \subseteq Document
      /\ \A x \in DOMAIN T : /\ T[x].status \in {"sent", "retry_required", "failed", "expired"}
                             /\ T[x].status = "sent" => copies[x] > 0
  BY <1>1 DEF IInv, StoresTyped, InHand, WritesAreBacked, IsTable
<1>3. \A x \in DOMAIN T : docs[x].status = "deleted" => copies[x] > 0 \/ x \in old
  BY <1>1 DEF TransfersAreLinked, CleansTheSettled, Job
<1>4. docs' = Override(T, docs)
  BY DEF CommitBatch
<1> HIDE DEF T
<1>5. /\ IsTable(docs') /\ DOMAIN docs' = DOMAIN docs
      /\ \A x \in DOMAIN T : docs'[x] = T[x]
      /\ \A x \in DOMAIN docs \ DOMAIN T : docs'[x] = docs[x]
  <2>1. /\ IsTable(Override(T, docs))
        /\ DOMAIN Override(T, docs) = DOMAIN docs \cup DOMAIN T
        /\ \A x \in DOMAIN T : Override(T, docs)[x] = T[x]
        /\ \A x \in DOMAIN docs \ DOMAIN T : Override(T, docs)[x] = docs[x]
    BY <1>2, OverrideIsTable
  <2> QED
    BY <1>2, <1>4, <2>1
<1>6. /\ UNCHANGED <<portal, uploads, files, old, copies>>
      /\ DOMAIN job' = Job /\ job'[j] = IdleJob /\ \A k \in Job \ {j} : job'[k] = job[k]
  BY <1>1 DEF CommitBatch
<1>7. StoresTyped'
  BY <1>2, <1>5, <1>6 DEF IInv, StoresTyped
<1>8. SentIsInBitrix'
  BY <1>2, <1>5, <1>6 DEF IInv, SentIsInBitrix
<1>9. DeletedIsNotSent'
  BY <1>2, <1>5, <1>6 DEF IInv, DeletedIsNotSent
<1>10. KeptUntilDelivered'
  BY <1>2, <1>3, <1>5, <1>6 DEF IInv, KeptUntilDelivered
<1>11. DraftsAreNotSent'
  BY <1>6 DEF IInv, DraftsAreNotSent, Linked
<1>12. \A k \in Job : JobInv(k)'
  <2>1. JobInv(j)'
    BY <1>5, <1>6, IdleKeeps
  <2>2. /\ copies' \in [Document -> 0 .. MaxCopies]
        /\ \A x \in Document : copies[x] <= copies'[x]
    <3>1. copies \in [Document -> 0 .. MaxCopies] /\ \A m \in 0 .. MaxCopies : m <= m
      BY DEF IInv, StoresTyped
    <3> QED
      BY <1>6, <3>1
  <2>3. \A x \in DOMAIN docs : docs'[x].status = "deleted" => docs[x].status = "deleted"
    BY <1>2, <1>5
  <2>4. ASSUME NEW k \in Job \ {j}
        PROVE  JobInv(k)'
    BY <1>5, <1>6, <2>2, <2>3, JobUndisturbed DEF Linked
  <2> QED
    BY <2>1, <2>4
<1> QED
  BY <1>6, <1>7, <1>8, <1>9, <1>10, <1>11, <1>12 DEF IInv

\* A job that dies leaves the three stores as they are.
LEMMA AbortKeeps ==
    ASSUME IInv, NEW j \in Job, Abort(j)
    PROVE  IInv'
<1>1. /\ UNCHANGED <<portal, uploads, docs, files, old, copies>>
      /\ DOMAIN job' = Job /\ job'[j] = IdleJob /\ \A k \in Job \ {j} : job'[k] = job[k]
  BY DEF Abort, IInv
<1>2. JobInv(j)'
  BY <1>1, IdleKeeps DEF IInv, StoresTyped, IsTable
<1> QED
  BY <1>1, <1>2, QuietJobStep

-----------------------------------------------------------------------------
\* Initially there is no document and no job runs.
LEMMA Initially == Init => IInv
<1> SUFFICES ASSUME Init
             PROVE  IInv
  OBVIOUS
<1>1. IsTable(docs) /\ DOMAIN docs = {}
  BY DEF Init, IsTable
<1>2. DOMAIN job = Job /\ \A j \in Job : job[j] = IdleJob
  BY DEF Init
<1>3. StoresTyped
  BY <1>1, ConstantsAssumption DEF Init, StoresTyped
<1>4. SentIsInBitrix /\ KeptUntilDelivered /\ DeletedIsNotSent /\ DraftsAreNotSent
  BY <1>1 DEF Init, SentIsInBitrix, KeptUntilDelivered, DeletedIsNotSent, DraftsAreNotSent
<1>5. \A j \in Job : JobInv(j)
  BY <1>2, IdleIsQuiet
     DEF JobInv, InHand, WritesAreBacked, TransfersAreLinked, CleansTheSettled
<1> QED
  BY <1>2, <1>3, <1>4, <1>5 DEF IInv

LEMMA Stuttering ==
    ASSUME IInv, UNCHANGED vars
    PROVE  IInv'
<1>1. UNCHANGED <<portal, uploads, docs, files, old, copies, job>>
  BY DEF vars
<1>2. StoresTyped' /\ SentIsInBitrix' /\ KeptUntilDelivered' /\ DeletedIsNotSent'
  BY <1>1 DEF IInv, StoresTyped, SentIsInBitrix, KeptUntilDelivered, DeletedIsNotSent
<1> QED
  BY <1>1, <1>2, PortalStep DEF Linked

LEMMA Steps == IInv /\ [Next]_vars => IInv'
<1> SUFFICES ASSUME IInv, [Next]_vars
             PROVE  IInv'
  OBVIOUS
<1>1. CASE UNCHANGED vars
  BY <1>1, Stuttering
<1>2. ASSUME NEW x \in Document, BeginUpload(x) \/ Delete(x) \/ Expire(x)
      PROVE  IInv'
  BY <1>2, BeginUploadKeeps, DeleteKeeps, ExpireKeeps
<1>3. ASSUME NEW u \in uploads, FinishUpload(u)
      PROVE  IInv'
  BY <1>3, FinishUploadKeeps
<1>4. CASE Submit \/ ReachStage
  BY <1>4, SubmitKeeps, ReachStageKeeps
<1>5. ASSUME NEW w \in Worker, SelectBatch(w)
      PROVE  IInv'
  BY <1>5, SelectBatchKeeps
<1>6. ASSUME NEW w \in Worker, NEW x \in Document,
             \/ ReadRow(w, x) \/ MarkTransferring(w, x) \/ FileMissing(w, x)
             \/ SendFile(w, x) \/ TransferFails(w, x) \/ Transferred(w, x)
      PROVE  IInv'
  BY <1>6, ReadRowKeeps, MarkTransferringKeeps, FileMissingKeeps, SendFileKeeps,
     TransferFailsKeeps, TransferredKeeps
<1>7. ASSUME NEW c \in Cleaner, SelectTemporary(c)
      PROVE  IInv'
  BY <1>7, SelectTemporaryKeeps
<1>8. ASSUME NEW c \in Cleaner, NEW x \in Document, UnlinkTemporary(c, x) \/ MarkCleaned(c, x)
      PROVE  IInv'
  BY <1>8, UnlinkTemporaryKeeps, MarkCleanedKeeps
<1>9. ASSUME NEW j \in Job, CommitBatch(j) \/ Abort(j)
      PROVE  IInv'
  BY <1>9, CommitBatchKeeps, AbortKeeps
<1> QED
  BY <1>1, <1>2, <1>3, <1>4, <1>5, <1>6, <1>7, <1>8, <1>9 DEF Next

(***************************************************************************)
(* The invariant of the transfer of documents.                             *)
(***************************************************************************)
THEOREM TransferInvariant == Spec => []IInv
<1>1. IInv /\ [Next]_vars => IInv'
  BY Steps
<1> QED
  BY Initially, <1>1, PTL DEF Spec

(***************************************************************************)
(* Type correctness; and no document is left "transferring", the status    *)
(* that no query selects (TypeOK).                                         *)
(***************************************************************************)
THEOREM TransferTypeCorrect == Spec => []TypeOK
<1>1. IInv => TypeOK
  BY DEF IInv, StoresTyped, TypeOK, JobInv, InHand, IsTable, Range
<1> QED
  BY TransferInvariant, <1>1, PTL

(***************************************************************************)
(* A document that is recorded as sent is in Bitrix24, whichever jobs      *)
(* overlapped or died (SentIsInBitrix).                                    *)
(***************************************************************************)
THEOREM SentHasArrived == Spec => []SentIsInBitrix
<1>1. IInv => SentIsInBitrix
  BY DEF IInv
<1> QED
  BY TransferInvariant, <1>1, PTL

(***************************************************************************)
(* No temporary file is lost: it disappears after Bitrix24 has a copy, its *)
(* user has deleted it or its retention has ended (KeptUntilDelivered).    *)
(***************************************************************************)
THEOREM NothingIsLost == Spec => []KeptUntilDelivered
<1>1. IInv => KeptUntilDelivered
  BY DEF IInv
<1> QED
  BY TransferInvariant, <1>1, PTL

(***************************************************************************)
(* A deleted document never reaches Bitrix24 (DeletedIsNotSent).           *)
(***************************************************************************)
THEOREM DeletedStaysHere == Spec => []DeletedIsNotSent
<1>1. IInv => DeletedIsNotSent
  BY DEF IInv
<1> QED
  BY TransferInvariant, <1>1, PTL
=============================================================================
