---------------------------- MODULE VersionStore ----------------------------
(***************************************************************************)
(* The shared state of one organization: the Postgres rows of documents,   *)
(* document_versions, comments and search_index, and the blob store.       *)
(* Every operator below is one repository method or one storage call, i.e. *)
(* one atomic step: a transaction either commits whole or not at all, and  *)
(* a storage call touches one object (or one document's prefix).           *)
(*                                                                         *)
(* Row level security keeps organizations apart, so one organization is    *)
(* modelled.  A document id is a fresh uuid: it goes from "unborn" through *)
(* "live", "deleted" (soft deleted), "due" (its purge_after has passed) to *)
(* "gone" and never comes back.  Content is abstracted to its hash.        *)
(***************************************************************************)
EXTENDS Integers, FiniteSets

CONSTANTS
  Documents,   \* document ids
  Contents,    \* contents a caller may push, identified with their hash
  Comments,    \* comment ids
  MaxSeq,      \* bound: version numbers reserved per document
  None         \* no document, no content

ASSUME MaxSeqAssumption == MaxSeq \in Nat \ {0}

ASSUME NoneAssumption == None \notin Documents /\ None \notin Contents

VARIABLES
  docRow,      \* documents: where each id is in its life
  nextSeq,     \* documents.next_seq
  current,     \* documents.current_version_id, as the version's seq; 0 is null
  indexed,     \* search_index.version_id of the document, as a seq; 0 is no row
  versions,    \* document_versions
  comment,     \* comments: status, and the version each one is pinned to
  blobs        \* objects in the blob store

storeVars == <<docRow, nextSeq, current, indexed, versions, comment, blobs>>

Seqs == 1 .. MaxSeq

DocStates == {"unborn", "live", "deleted", "due", "gone"}

VersionRow == [doc : Documents, seq : Seqs, hash : Contents, purged : BOOLEAN]

Blob == [doc : Documents, seq : Seqs, hash : Contents]

CommentRow == [status : {"none", "drafted", "open", "resolved"},
               doc : Documents \cup {None}, seq : 0 .. MaxSeq]

NoComment == [status |-> "none", doc |-> None, seq |-> 0]

StoreTypeOK ==
  /\ docRow \in [Documents -> DocStates]
  /\ nextSeq \in [Documents -> 1 .. MaxSeq + 1]
  /\ current \in [Documents -> 0 .. MaxSeq]
  /\ indexed \in [Documents -> 0 .. MaxSeq]
  /\ versions \subseteq VersionRow
  /\ comment \in [Comments -> CommentRow]
  /\ blobs \subseteq Blob

StoreInit ==
  /\ docRow = [d \in Documents |-> "unborn"]
  /\ nextSeq = [d \in Documents |-> 1]
  /\ current = [d \in Documents |-> 0]
  /\ indexed = [d \in Documents |-> 0]
  /\ versions = {}
  /\ comment = [c \in Comments |-> NoComment]
  /\ blobs = {}

-----------------------------------------------------------------------------
(* Reads.                                                                   *)

RowExists(d) == docRow[d] \notin {"unborn", "gone"}

VersionsOf(d) == {v \in versions : v.doc = d}

LiveVersionsOf(d) == {v \in VersionsOf(d) : ~v.purged}

\* select count(*) ... where purged_at is null, under the document row lock.
liveVersionCount(d) == Cardinality(LiveVersionsOf(d))

\* Versions of d with the highest seq: at most one, none for a ghost document.
currentVersion(d) == {v \in VersionsOf(d) : \A w \in VersionsOf(d) : w.seq <= v.seq}

BlobsOf(d) == {b \in blobs : b.doc = d}

\* The contents a reader of d is shown at seq s.
ContentAt(d, s) == {b.hash : b \in {x \in BlobsOf(d) : x.seq = s}}

\* Wrong: the next number recomputed from the rows.
recomputedSeq(d) ==
  IF currentVersion(d) = {} THEN 1 ELSE 1 + (CHOOSE v \in currentVersion(d) : TRUE).seq

\* The number reserveVersionSeq hands out: the durable counter, before its bump.
reservedSeq(d) == nextSeq[d]

-----------------------------------------------------------------------------
(* Writes.                                                                  *)

\* insertDocument and reserveVersionSeq, the two writes of the create gate.
insertDocument(d) ==
  /\ docRow' = [docRow EXCEPT ![d] = "live"]
  /\ nextSeq' = [nextSeq EXCEPT ![d] = reservedSeq(d) + 1]

reserveVersionSeq(d) == nextSeq' = [nextSeq EXCEPT ![d] = reservedSeq(d) + 1]

\* insertVersionAtSeq, then indexVersion: the row is inserted at the reserved
\* seq and both pointers move to it, whatever they pointed at before.
\* Foreign key and unique constraint make the transaction throw otherwise.
CanInsertVersion(d, s) == RowExists(d) /\ \A v \in VersionsOf(d) : v.seq # s

insertVersionAtSeq(d, s, h) ==
  /\ versions' = versions \cup {[doc |-> d, seq |-> s, hash |-> h, purged |-> FALSE]}
  /\ current' = [current EXCEPT ![d] = s]

indexVersion(d, s) == indexed' = [indexed EXCEPT ![d] = s]

\* update ... set purged_at: the row stays, the search row goes if it points here.
tombstone(d, s) ==
  /\ versions' = {IF v.doc = d /\ v.seq = s THEN [v EXCEPT !.purged = TRUE] ELSE v
                  : v \in versions}
  /\ indexed' = [indexed EXCEPT ![d] = IF @ = s THEN 0 ELSE @]

\* The permanent purge of one document's rows; a no-op on a row already gone.
purgeDocument(d) ==
  /\ docRow' = [docRow EXCEPT ![d] = "gone"]
  /\ current' = [current EXCEPT ![d] = 0]
  /\ indexed' = [indexed EXCEPT ![d] = 0]
  /\ versions' = {v \in versions : v.doc # d}
  /\ comment' = [c \in Comments |->
       IF comment[c].doc = d /\ comment[c].status \in {"open", "resolved"}
         THEN NoComment ELSE comment[c]]

\* The blob store is write-once: a second put with the same bytes is accepted,
\* with other bytes it throws.
CanPut(d, s, h) == ContentAt(d, s) \subseteq {h}

put(d, s, h) == blobs' = blobs \cup {[doc |-> d, seq |-> s, hash |-> h]}

\* Wrong: every object from this number on.
deleteObjectsFrom(d, s) == blobs' = {b \in blobs : ~(b.doc = d /\ b.seq >= s)}

deleteObject(d, s) == blobs' = {b \in blobs : ~(b.doc = d /\ b.seq = s)}

deleteObjectsOf(d) == blobs' = {b \in blobs : b.doc # d}
=============================================================================
