------------------------------ MODULE Erasure -------------------------------
(***************************************************************************)
(* Everything that takes content away, beside the uploads that add it and  *)
(* the comments that hold on to it: deleteDocument as users call it, and   *)
(* the compliance scheduler's cycle of version purge, retention sweep and  *)
(* erasure replay (one process, one cycle at a time, sweeps in sequence).  *)
(*                                                                         *)
(* Each sweep is a chain of separate transactions and storage calls, so    *)
(* what a sweep read may be stale when it acts on it.  An exception ends   *)
(* the sweep it happens in and the cycle goes on with the next one; a      *)
(* crash of the process starts the next cycle from its beginning.          *)
(***************************************************************************)
EXTENDS Uploads

CONSTANTS
  Deletes,     \* calls of deleteDocument
  KeepLastN,   \* effectiveVersionRetention(...).keepLastN
  MaxFaults    \* bound: exceptions and crashes of the scheduler process

ASSUME KeepLastNAssumption == KeepLastN \in Nat \ {0}
ASSUME MaxFaultsAssumption == MaxFaults \in Nat

VARIABLES
  del,         \* each deleteDocument call's progress
  erasures,    \* the erasure log
  aged,        \* versions older than keepDays, as <<doc, seq>>
  job,         \* the scheduler's progress and what its sweep has read
  faults       \* scheduler faults so far

jobVars == <<job, faults>>
vars == <<uploadVars, del, erasures, aged, jobVars>>

DocumentPurge(d) == [kind |-> "document_purge", doc |-> d, seq |-> 0]
VersionPurge(d, s) == [kind |-> "version_purge", doc |-> d, seq |-> s]
Events == {DocumentPurge(d) : d \in Documents}
            \cup {VersionPurge(d, s) : d \in Documents, s \in Seqs}

Keys == Documents \X Seqs

\* Labels of the scheduler, one per external call it is about to make.
JobLabels ==
  {"cycle",
   "vp_versions", "vp_pins", "vp_tombstone", "vp_blob", "vp_record",
   "rt_list", "rt_blobs", "rt_rows", "rt_record",
   "rp_list", "rp_storage", "rp_rows"}

\* old: aged when the cycle took its "now"; pointer: documents as listed, with
\* their current_version_id; seen: the versions as listed; doc, seq: the item in
\* hand; todo: what is left of the sweep's outer list; purge: of its inner one.
NewCycle == [pc |-> "cycle", old |-> {}, pointer |-> [d \in Documents |-> 0],
             seen |-> {}, doc |-> None, seq |-> 0, todo |-> {}, purge |-> {}]

ErasureTypeOK ==
  /\ del \in [Deletes -> [pc : {"idle", "soft", "blobs", "rows", "record", "done"},
                          doc : Documents \cup {None}]]
  /\ erasures \subseteq Events
  /\ aged \subseteq Keys
  /\ job \in [pc : JobLabels, old : SUBSET Keys, pointer : [Documents -> 0 .. MaxSeq],
              seen : SUBSET Seqs, doc : Documents \cup {None}, seq : 0 .. MaxSeq,
              todo : SUBSET (Documents \cup Events), purge : SUBSET Seqs]
  /\ faults \in 0 .. MaxFaults

-----------------------------------------------------------------------------
(* Comments: the document is read, then the row is inserted pinned to the   *)
(* version that was current at that read.                                   *)

DraftComment(c, d) ==
  /\ comment[c].status = "none"
  /\ docRow[d] = "live"
  /\ current[d] # 0
  /\ comment' = [comment EXCEPT ![c] = [status |-> "drafted", doc |-> d, seq |-> current[d]]]
  /\ UNCHANGED <<docRow, nextSeq, current, indexed, versions, blobs, req>>
  /\ UNCHANGED <<del, erasures, aged, jobVars>>

\* createWithinCap; the foreign key wants the version row, tombstoned or not.
InsertComment(c) ==
  /\ comment[c].status = "drafted"
  /\ comment' = [comment EXCEPT ![c] =
       IF \E v \in VersionsOf(comment[c].doc) : v.seq = comment[c].seq
         THEN [@ EXCEPT !.status = "open"] ELSE NoComment]
  /\ UNCHANGED <<docRow, nextSeq, current, indexed, versions, blobs, req>>
  /\ UNCHANGED <<del, erasures, aged, jobVars>>

\* resolve, or delete: either way the comment no longer pins its version.
ResolveComment(c) ==
  /\ comment[c].status = "open"
  /\ comment' = [comment EXCEPT ![c].status = "resolved"]
  /\ UNCHANGED <<docRow, nextSeq, current, indexed, versions, blobs, req>>
  /\ UNCHANGED <<del, erasures, aged, jobVars>>

-----------------------------------------------------------------------------
(* deleteDocument: a call that throws or dies undoes and retries nothing,   *)
(* so it is one that takes no further step.                                 *)

DeleteGoto(x, label) == del' = [del EXCEPT ![x].pc = label]

\* requireManageable: the document was read live.
DeleteCheck(x, d) ==
  /\ del[x].pc = "idle"
  /\ docRow[d] = "live"
  /\ del' = [del EXCEPT ![x] = [pc |-> "soft", doc |-> d]]
  /\ UNCHANGED <<uploadVars, erasures, aged, jobVars>>

\* softDelete, conditional on the row being live; the org setting
\* purgeImmediately makes purge_after the present and goes on to the purge.
SoftDelete(x, immediately) ==
  /\ del[x].pc = "soft"
  /\ docRow' = [docRow EXCEPT ![del[x].doc] =
       IF @ # "live" THEN @ ELSE IF immediately THEN "due" ELSE "deleted"]
  /\ DeleteGoto(x, IF immediately THEN "blobs" ELSE "done")
  /\ UNCHANGED <<nextSeq, current, indexed, versions, comment, blobs, req>>
  /\ UNCHANGED <<erasures, aged, jobVars>>

DeleteBlobs(x) ==
  /\ del[x].pc = "blobs"
  /\ deleteObjectsOf(del[x].doc)
  /\ DeleteGoto(x, "rows")
  /\ UNCHANGED <<docRow, nextSeq, current, indexed, versions, comment, req>>
  /\ UNCHANGED <<erasures, aged, jobVars>>

DeleteRows(x) ==
  /\ del[x].pc = "rows"
  /\ purgeDocument(del[x].doc)
  /\ DeleteGoto(x, "record")
  /\ UNCHANGED <<nextSeq, blobs, req, erasures, aged, jobVars>>

DeleteRecord(x) ==
  /\ del[x].pc = "record"
  /\ erasures' = erasures \cup {DocumentPurge(del[x].doc)}
  /\ DeleteGoto(x, "done")
  /\ UNCHANGED <<uploadVars, aged, jobVars>>

-----------------------------------------------------------------------------
(* Time.                                                                    *)

\* retentionDays have passed since the soft delete.
PurgeAfterPasses(d) ==
  /\ docRow[d] = "deleted"
  /\ docRow' = [docRow EXCEPT ![d] = "due"]
  /\ UNCHANGED <<nextSeq, current, indexed, versions, comment, blobs, req>>
  /\ UNCHANGED <<del, erasures, aged, jobVars>>

\* keepDays have passed since the version was inserted.
VersionAges(v) ==
  /\ <<v.doc, v.seq>> \notin aged
  /\ aged' = aged \cup {<<v.doc, v.seq>>}
  /\ UNCHANGED <<uploadVars, del, erasures, jobVars>>

-----------------------------------------------------------------------------
(* The compliance cycle.                                                    *)

JobStep(label) == job.pc = label /\ UNCHANGED <<nextSeq, req, del, aged, faults>>

\* The sweep that follows the one a label belongs to.
AfterVersionPurge == [NewCycle EXCEPT !.pc = "rt_list"]
AfterRetention == [NewCycle EXCEPT !.pc = "rp_list"]

\* "now" is fixed and the live documents are listed with their pointers.
StartCycle ==
  /\ JobStep("cycle")
  /\ job' = [NewCycle EXCEPT !.pc = "vp_versions", !.old = aged, !.pointer = current,
                             !.todo = {d \in Documents : docRow[d] = "live"}]
  /\ UNCHANGED <<docRow, current, indexed, versions, comment, blobs, erasures>>

ListVersions(d) ==
  /\ JobStep("vp_versions")
  /\ d \in job.todo
  /\ job' = [job EXCEPT !.pc = "vp_pins", !.doc = d, !.todo = @ \ {d},
                        !.seen = {v.seq : v \in LiveVersionsOf(d)}]
  /\ UNCHANGED <<docRow, current, indexed, versions, comment, blobs, erasures>>

VersionPurgeDone ==
  /\ JobStep("vp_versions")
  /\ job.todo = {}
  /\ job' = AfterVersionPurge
  /\ UNCHANGED <<docRow, current, indexed, versions, comment, blobs, erasures>>

\* Wrong: the current version is trusted to be among the last N; and the version
\* itself is counted among the N that stay.
selectIgnoringPointer(seqs, old, pointer, pinned) ==
  {s \in seqs : /\ Cardinality({t \in seqs : t > s}) >= KeepLastN
                /\ s \in old
                /\ s \notin pinned}

selectCountingItself(seqs, old, pointer, pinned) ==
  {s \in seqs : /\ Cardinality({t \in seqs : t >= s}) >= KeepLastN
                /\ s \in old
                /\ s # pointer
                /\ s \notin pinned}

\* The pure rule: old enough, outside the last N, not current, not pinned.
selectVersionsToPurge(seqs, old, pointer, pinned) ==
  {s \in seqs : /\ Cardinality({t \in seqs : t > s}) >= KeepLastN
                /\ s \in old
                /\ s # pointer
                /\ s \notin pinned}

openCommentVersionIds(d) ==
  {comment[c].seq : c \in {x \in Comments : comment[x].doc = d /\ comment[x].status = "open"}}

ListPins ==
  /\ JobStep("vp_pins")
  /\ job' = [job EXCEPT !.pc = "vp_tombstone",
               !.purge = selectVersionsToPurge(
                           job.seen,
                           {s \in Seqs : <<job.doc, s>> \in job.old},
                           job.pointer[job.doc],
                           openCommentVersionIds(job.doc))]
  /\ UNCHANGED <<docRow, current, indexed, versions, comment, blobs, erasures>>

\* Oldest first; a row that is gone or already a tombstone is skipped.
Tombstone(s) ==
  /\ JobStep("vp_tombstone")
  /\ s \in job.purge
  /\ \A t \in job.purge : s <= t
  /\ IF \E v \in LiveVersionsOf(job.doc) : v.seq = s
       THEN /\ tombstone(job.doc, s)
            /\ job' = [job EXCEPT !.pc = "vp_blob", !.seq = s, !.purge = @ \ {s}]
       ELSE /\ job' = [job EXCEPT !.purge = @ \ {s}]
            /\ UNCHANGED <<versions, indexed>>
  /\ UNCHANGED <<docRow, current, comment, blobs, erasures>>

NextDocument ==
  /\ JobStep("vp_tombstone")
  /\ job.purge = {}
  /\ job' = [job EXCEPT !.pc = "vp_versions", !.doc = None, !.seq = 0, !.seen = {}]
  /\ UNCHANGED <<docRow, current, indexed, versions, comment, blobs, erasures>>

DeleteVersionBlob ==
  /\ JobStep("vp_blob")
  /\ deleteObject(job.doc, job.seq)
  /\ job' = [job EXCEPT !.pc = "vp_record"]
  /\ UNCHANGED <<docRow, current, indexed, versions, comment, erasures>>

RecordVersionPurge ==
  /\ JobStep("vp_record")
  /\ erasures' = erasures \cup {VersionPurge(job.doc, job.seq)}
  /\ job' = [job EXCEPT !.pc = "vp_tombstone"]
  /\ UNCHANGED <<docRow, current, indexed, versions, comment, blobs>>

\* Wrong: an inner join with the versions, which a ghost document has none of.
ListDueWithVersions ==
  /\ JobStep("rt_list")
  /\ job' = [job EXCEPT !.pc = "rt_blobs",
               !.todo = {d \in Documents : docRow[d] = "due" /\ VersionsOf(d) # {}}]
  /\ UNCHANGED <<docRow, current, indexed, versions, comment, blobs, erasures>>

\* sweepDuePurges: list what is due, then blobs, rows, log for each in turn.
ListDue ==
  /\ JobStep("rt_list")
  /\ job' = [job EXCEPT !.pc = "rt_blobs", !.todo = {d \in Documents : docRow[d] = "due"}]
  /\ UNCHANGED <<docRow, current, indexed, versions, comment, blobs, erasures>>

\* Wrong: the purge is logged before its rows are gone.
PurgeBlobsAndLog(d) ==
  /\ JobStep("rt_blobs")
  /\ d \in job.todo
  /\ deleteObjectsOf(d)
  /\ erasures' = erasures \cup {DocumentPurge(d)}
  /\ job' = [job EXCEPT !.pc = "rt_rows", !.doc = d, !.todo = @ \ {d}]
  /\ UNCHANGED <<docRow, current, indexed, versions, comment>>

PurgeBlobs(d) ==
  /\ JobStep("rt_blobs")
  /\ d \in job.todo
  /\ deleteObjectsOf(d)
  /\ job' = [job EXCEPT !.pc = "rt_rows", !.doc = d, !.todo = @ \ {d}]
  /\ UNCHANGED <<docRow, current, indexed, versions, comment, erasures>>

PurgeRows ==
  /\ JobStep("rt_rows")
  /\ purgeDocument(job.doc)
  /\ job' = [job EXCEPT !.pc = "rt_record"]
  /\ UNCHANGED <<blobs, erasures>>

RecordPurge ==
  /\ JobStep("rt_record")
  /\ erasures' = erasures \cup {DocumentPurge(job.doc)}
  /\ job' = [job EXCEPT !.pc = "rt_blobs", !.doc = None]
  /\ UNCHANGED <<docRow, current, indexed, versions, comment, blobs>>

RetentionDone ==
  /\ JobStep("rt_blobs")
  /\ job.todo = {}
  /\ job' = AfterRetention
  /\ UNCHANGED <<docRow, current, indexed, versions, comment, blobs, erasures>>

\* replayErasures: the log is read once, then every event is applied again.
ListErasures ==
  /\ JobStep("rp_list")
  /\ job' = [job EXCEPT !.pc = "rp_storage", !.todo = erasures]
  /\ UNCHANGED <<docRow, current, indexed, versions, comment, blobs, erasures>>

\* Wrong: storage is only replayed for a document whose row came back.
ReplayStorageIfRow(e) ==
  /\ JobStep("rp_storage")
  /\ e \in job.todo
  /\ IF ~RowExists(e.doc) THEN UNCHANGED blobs
     ELSE IF e.kind = "document_purge" THEN deleteObjectsOf(e.doc) ELSE deleteObject(e.doc, e.seq)
  /\ job' = [job EXCEPT !.pc = "rp_rows", !.todo = @ \ {e}, !.doc = e.doc, !.seq = e.seq]
  /\ UNCHANGED <<docRow, current, indexed, versions, comment, erasures>>

ReplayStorage(e) ==
  /\ JobStep("rp_storage")
  /\ e \in job.todo
  /\ IF e.kind = "document_purge" THEN deleteObjectsOf(e.doc) ELSE deleteObject(e.doc, e.seq)
  /\ job' = [job EXCEPT !.pc = "rp_rows", !.todo = @ \ {e}, !.doc = e.doc, !.seq = e.seq]
  /\ UNCHANGED <<docRow, current, indexed, versions, comment, erasures>>

\* Purge the row if it exists again; tombstone the version if it is live again.
ReplayRows ==
  /\ JobStep("rp_rows")
  /\ IF job.seq = 0
       THEN IF RowExists(job.doc)
              THEN purgeDocument(job.doc)
              ELSE UNCHANGED <<docRow, current, indexed, versions, comment>>
       ELSE /\ IF \E v \in LiveVersionsOf(job.doc) : v.seq = job.seq
                 THEN tombstone(job.doc, job.seq)
                 ELSE UNCHANGED <<indexed, versions>>
            /\ UNCHANGED <<docRow, current, comment>>
  /\ job' = [job EXCEPT !.pc = "rp_storage", !.doc = None, !.seq = 0]
  /\ UNCHANGED <<blobs, erasures>>

CycleDone ==
  /\ JobStep("rp_storage")
  /\ job.todo = {}
  /\ job' = NewCycle
  /\ UNCHANGED <<docRow, current, indexed, versions, comment, blobs, erasures>>

\* runSweep swallows the exception: the cycle continues with the next sweep.
SweepThrows ==
  /\ faults < MaxFaults
  /\ faults' = faults + 1
  /\ job' = CASE job.pc \in {"vp_versions", "vp_pins", "vp_tombstone", "vp_blob", "vp_record"}
                   -> AfterVersionPurge
              [] job.pc \in {"rt_list", "rt_blobs", "rt_rows", "rt_record"} -> AfterRetention
              [] OTHER -> NewCycle
  /\ job.pc # "cycle"
  /\ UNCHANGED <<uploadVars, del, erasures, aged>>

\* The process dies and is started again.
SchedulerCrash ==
  /\ faults < MaxFaults
  /\ job.pc # "cycle"
  /\ faults' = faults + 1
  /\ job' = NewCycle
  /\ UNCHANGED <<uploadVars, del, erasures, aged>>

-----------------------------------------------------------------------------
Init ==
  /\ UploadInit
  /\ del = [x \in Deletes |-> [pc |-> "idle", doc |-> None]]
  /\ erasures = {}
  /\ aged = {}
  /\ job = NewCycle
  /\ faults = 0

Upload(r) == UploadStep(r) /\ UNCHANGED <<del, erasures, aged, jobVars>>

Discuss ==
  \E c \in Comments :
    (\E d \in Documents : DraftComment(c, d)) \/ InsertComment(c) \/ ResolveComment(c)

Delete(x) ==
  \/ \E d \in Documents : DeleteCheck(x, d)
  \/ \E immediately \in BOOLEAN : SoftDelete(x, immediately)
  \/ DeleteBlobs(x)
  \/ DeleteRows(x)
  \/ DeleteRecord(x)

VersionPurgeSweep ==
  \/ \E d \in Documents : ListVersions(d)
  \/ ListPins
  \/ \E s \in Seqs : Tombstone(s)
  \/ DeleteVersionBlob
  \/ RecordVersionPurge
  \/ NextDocument
  \/ VersionPurgeDone

RetentionSweep ==
  \/ ListDue
  \/ \E d \in Documents : PurgeBlobs(d)
  \/ PurgeRows
  \/ RecordPurge
  \/ RetentionDone

ErasureReplay ==
  \/ ListErasures
  \/ \E e \in Events : ReplayStorage(e)
  \/ ReplayRows
  \/ CycleDone

JobProgress == StartCycle \/ VersionPurgeSweep \/ RetentionSweep \/ ErasureReplay

Next ==
  \/ \E r \in Requests : Upload(r)
  \/ Discuss
  \/ \E x \in Deletes : Delete(x)
  \/ \E d \in Documents : PurgeAfterPasses(d)
  \/ \E v \in versions : VersionAges(v)
  \/ JobProgress
  \/ SweepThrows
  \/ SchedulerCrash

Spec == Init /\ [][Next]_vars

\* The scheduler's timer keeps firing and time passes; users owe nothing.
Fairness ==
  /\ WF_vars(JobProgress)
  /\ \A d \in Documents : WF_vars(PurgeAfterPasses(d))

FairSpec == Spec /\ Fairness

-----------------------------------------------------------------------------
(* Properties.                                                              *)

\* Every variable stays in its type.
TypeOK == UploadsTypeOK /\ ErasureTypeOK

\* The version a live document points at is never a tombstone and its content
\* is there to read, although the sweep acts on a pointer, a version list and
\* pins it read in three earlier transactions while uploads moved on.
CurrentReadable ==
  \A d \in Documents : docRow[d] = "live" /\ current[d] # 0 =>
    \E v \in LiveVersionsOf(d) : v.seq = current[d] /\ ContentAt(d, v.seq) = {v.hash}

\* Search never leads to purged content: the search row of a live document is
\* for the version the document points at.
SearchFollowsCurrent == \A d \in Documents : docRow[d] = "live" => indexed[d] = current[d]

\* What a live document points at is there to read and to find.
CurrentIsServed == CurrentReadable /\ SearchFollowsCurrent

\* The last N versions are never purged: above every tombstone there are N
\* versions that still have their content.
LastNKept ==
  \A v \in versions : v.purged =>
    Cardinality({w \in LiveVersionsOf(v.doc) : w.seq > v.seq}) >= KeepLastN

\* The erasure log never claims more than what happened: a logged document has
\* no row left, a logged version is a tombstone or went with its document.
LogIsTruthful ==
  \A e \in erasures :
    /\ e.kind = "document_purge" => docRow[e.doc] = "gone"
    /\ e.kind = "version_purge" =>
         \A v \in VersionsOf(e.doc) : v.seq = e.seq => v.purged

\* Nothing hangs off a purged document: a request that reserved its number
\* before the purge cannot bring a version back, nor can a drafted comment.
GoneIsEmpty ==
  \A d \in Documents : docRow[d] = "gone" =>
    /\ VersionsOf(d) = {}
    /\ current[d] = 0 /\ indexed[d] = 0
    /\ \A c \in Comments : comment[c].doc = d => comment[c].status \in {"none", "drafted"}

\* The rows, the log and what is left of a document agree, at every step of a purge
\* and after every fault: what the log says was erased is, and nothing else came back.
ErasuresAreTrue == TypeOK /\ LogIsTruthful /\ GoneIsEmpty

\* Whatever the log says was erased is erased from the blob store in the end
\* and stays so, even if an upload was storing its blob while its document was
\* purged: the hourly replay removes it again.
ErasureEnforced ==
  <>[](\A e \in erasures :
         IF e.kind = "document_purge" THEN BlobsOf(e.doc) = {} ELSE ContentAt(e.doc, e.seq) = {})

\* A soft deleted document is permanently purged in the end.
DeletedArePurged ==
  \A d \in Documents : docRow[d] \in {"deleted", "due"} ~> docRow[d] = "gone"

\* What readers are shown, step by step, is a DocumentHistory: numbers are
\* published once, only old contents expire, nothing hidden comes back.
Phase == [d \in Documents |->
  CASE docRow[d] = "unborn" -> "absent"
    [] docRow[d] = "live" -> "visible"
    [] docRow[d] = "gone" -> "erased"
    [] OTHER -> "hidden"]

Shown == [d \in Documents |->
  IF docRow[d] # "live" THEN {}
  ELSE UNION {{<<v.seq, h>> : h \in ContentAt(d, v.seq)} : v \in LiveVersionsOf(d)}]

Spent == [d \in Documents |-> {v.seq : v \in VersionsOf(d)}]

History == INSTANCE DocumentHistory
  WITH Numbers <- Seqs, phase <- Phase, shown <- Shown, spent <- Spent

ReadersSeeAHistory == History!HistorySpec

\* Not so: "Always keep any version referenced by an open comment": no open comment of
\* a live document is pinned to a purged version.
OpenCommentsKeepTheirSource ==
  \A c \in Comments : comment[c].status = "open" =>
    \A v \in VersionsOf(comment[c].doc) : v.seq = comment[c].seq => ~v.purged
=============================================================================
