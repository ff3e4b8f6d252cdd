------------------------------ MODULE Uploads -------------------------------
(***************************************************************************)
(* Uploading: uploadNewDocument and uploadNewVersion.                      *)
(*                                                                         *)
(* A request commits three separate steps: a gate transaction that checks  *)
(* and reserves a version number, a write to the blob store made with no   *)
(* transaction open, and a finalize transaction that inserts the version   *)
(* row at the reserved number and moves the document's pointers.  Any      *)
(* number of requests interleave between those steps, and each can throw.  *)
(*                                                                         *)
(* Nothing is fair here: a request whose server dies is one that takes no  *)
(* further step.                                                           *)
(*                                                                         *)
(* A gate refusal (permission, title, path, project, read-only org, size)  *)
(* writes nothing: the request then just stays "idle" here.                *)
(***************************************************************************)
EXTENDS VersionStore

CONSTANTS
  Requests,    \* upload requests
  VersionCap   \* maxLiveVersionsPerDoc of the org's tier

ASSUME VersionCapAssumption == VersionCap \in Nat \ {0}

VARIABLE req   \* each request's progress and its reservation

uploadVars == <<storeVars, req>>

Idle == [pc |-> "idle", kind |-> "push", doc |-> None, seq |-> 0, hash |-> None]

\* A request holding a reservation it may still use.
Holding == {"put", "finalize"}

\* A request that has written, or may have, less than a whole upload; "leaked" has
\* returned its error and will not come back to it.
Unfinished == {"put", "finalize", "rollback", "leaked"}

UploadStates == Unfinished \cup {"idle", "dedup", "done", "failed"}

UploadTypeOK ==
  req \in [Requests -> [pc : UploadStates, kind : {"create", "push"},
                        doc : Documents \cup {None}, seq : 0 .. MaxSeq,
                        hash : Contents \cup {None}]]

Reserve(r, kind, d, h) ==
  req' = [req EXCEPT ![r] = [pc |-> "put", kind |-> kind, doc |-> d,
                             seq |-> reservedSeq(d), hash |-> h]]

Goto(r, label) == req' = [req EXCEPT ![r].pc = label]

\* A request that ends forgets its reservation; its number is never used again.
End(r, label) ==
  req' = [req EXCEPT ![r] = [pc |-> label, kind |-> @.kind, doc |-> @.doc,
                             seq |-> 0, hash |-> None]]

\* Wrong: a create without its catch block.
SurfaceOnly(r) == End(r, "failed")

\* Where an exception takes a request: a create rolls its document back, a
\* push surfaces the error and cleans nothing up.
OnThrow(r) == IF req[r].kind = "create" THEN Goto(r, "rollback") ELSE End(r, "failed")

-----------------------------------------------------------------------------
\* uploadNewDocument, gate transaction: the row and its first reservation.
CreateGate(r, d, h) ==
  /\ req[r].pc = "idle"
  /\ docRow[d] = "unborn"
  /\ insertDocument(d)
  /\ Reserve(r, "create", d, h)
  /\ UNCHANGED <<current, indexed, versions, comment, blobs>>

\* uploadNewVersion, gate transaction, content equal to the version with the
\* highest seq: nothing is written and the caller is told it is a no-op.
PushDedup(r, d, h) ==
  /\ req[r].pc = "idle"
  /\ docRow[d] = "live"
  /\ \E v \in currentVersion(d) : v.hash = h
  /\ req' = [req EXCEPT ![r] = [pc |-> "dedup", kind |-> "push", doc |-> d,
                             seq |-> 0, hash |-> h]]
  /\ UNCHANGED storeVars

\* uploadNewVersion, gate transaction, new content: the cap counts inserted
\* rows only, then a number is reserved.
PushGate(r, d, h) ==
  /\ req[r].pc = "idle"
  /\ docRow[d] = "live"
  /\ \A v \in currentVersion(d) : v.hash # h
  /\ liveVersionCount(d) < VersionCap
  /\ nextSeq[d] <= MaxSeq
  /\ reserveVersionSeq(d)
  /\ Reserve(r, "push", d, h)
  /\ UNCHANGED <<docRow, current, indexed, versions, comment, blobs>>

\* storage.put, outside any transaction.
PutBlob(r) ==
  /\ req[r].pc = "put"
  /\ CanPut(req[r].doc, req[r].seq, req[r].hash)
  /\ put(req[r].doc, req[r].seq, req[r].hash)
  /\ Goto(r, "finalize")
  /\ UNCHANGED <<docRow, nextSeq, current, indexed, versions, comment>>

\* Wrong: the storage error is swallowed and the row inserted all the same.
PutErrorSwallowed(r) ==
  /\ req[r].pc = "put"
  /\ Goto(r, "finalize")
  /\ UNCHANGED storeVars

\* storage.put throws: the object was not written, or it was and the answer
\* got lost.
PutThrows(r) ==
  /\ req[r].pc = "put"
  /\ \/ UNCHANGED blobs
     \/ /\ CanPut(req[r].doc, req[r].seq, req[r].hash)
        /\ put(req[r].doc, req[r].seq, req[r].hash)
  /\ OnThrow(r)
  /\ UNCHANGED <<docRow, nextSeq, current, indexed, versions, comment>>

FinalizeTx(r) ==
  /\ CanInsertVersion(req[r].doc, req[r].seq)
  /\ insertVersionAtSeq(req[r].doc, req[r].seq, req[r].hash)
  /\ indexVersion(req[r].doc, req[r].seq)

\* The finalize transaction commits: version row, pointers, search row.
Finalize(r) ==
  /\ req[r].pc = "finalize"
  /\ FinalizeTx(r)
  /\ End(r, "done")
  /\ UNCHANGED <<docRow, nextSeq, comment, blobs>>

\* The finalize transaction throws: rolled back (a constraint, a timeout), or
\* committed with the answer to COMMIT lost.
FinalizeThrows(r) ==
  /\ req[r].pc = "finalize"
  /\ \/ UNCHANGED <<versions, current, indexed>>
     \/ FinalizeTx(r)
  /\ OnThrow(r)
  /\ UNCHANGED <<docRow, nextSeq, comment, blobs>>

\* The create's catch block: purgeDocumentRow in a transaction of its own, which
\* commits, whether or not the answer to COMMIT arrives.
Rollback(r) ==
  /\ req[r].pc = "rollback"
  /\ purgeDocument(req[r].doc)
  /\ End(r, "failed")
  /\ UNCHANGED <<nextSeq, blobs>>

\* The rollback's transaction throws and commits nothing: the error is swallowed,
\* the original one is thrown, and the document stays.
RollbackThrows(r) ==
  /\ req[r].pc = "rollback"
  /\ End(r, "leaked")
  /\ UNCHANGED storeVars

-----------------------------------------------------------------------------
UploadInit == StoreInit /\ req = [r \in Requests |-> Idle]

UploadStep(r) ==
  \/ \E d \in Documents, h \in Contents :
       CreateGate(r, d, h) \/ PushDedup(r, d, h) \/ PushGate(r, d, h)
  \/ PutBlob(r)
  \/ PutThrows(r)
  \/ Finalize(r)
  \/ FinalizeThrows(r)
  \/ Rollback(r)
  \/ RollbackThrows(r)

UploadNext == \E r \in Requests : UploadStep(r)

UploadSpec == UploadInit /\ [][UploadNext]_uploadVars

-----------------------------------------------------------------------------
(* Properties.                                                              *)

\* Every variable stays in its type, reservations included.
UploadsTypeOK == StoreTypeOK /\ UploadTypeOK

\* A reserved version number belongs to exactly one request: no other request
\* holds it, no version row has it, and no object other than the holder's own
\* is stored under it.  So the unique constraint and the write-once check never
\* fire, however reservations, blob writes and inserts interleave.
ReservationsExclusive ==
  \A r \in Requests : req[r].pc \in Holding =>
    LET d == req[r].doc
        s == req[r].seq
    IN  /\ s < nextSeq[d]
        /\ \A q \in Requests \ {r} :
             ~(req[q].pc \in Holding /\ req[q].doc = d /\ req[q].seq = s)
        /\ \A v \in VersionsOf(d) : v.seq # s
        /\ ContentAt(d, s) \subseteq {req[r].hash}

\* A version the service lists as live can be opened and shows exactly the
\* content its hash names: the blob is durable before the row is visible.  Soft
\* deleted documents are exempt: their blobs go before their rows.
LiveVersionsReadable ==
  \A v \in versions : ~v.purged /\ docRow[v.doc] = "live"
    => ContentAt(v.doc, v.seq) = {v.hash}

\* Version rows are write-once: a row is never rewritten or revived, and it
\* disappears only together with its document.
VersionsImmutable ==
  [][\A v \in versions :
       \/ docRow'[v.doc] = "gone"
       \/ v \in versions'
       \/ ~v.purged /\ [v EXCEPT !.purged = TRUE] \in versions']_uploadVars

\* A live document with no version at all is one whose create is still running,
\* stopped with its server, or returned because its own rollback threw as well: a
\* create whose rollback commits leaves no listed document that 404s on open,
\* wherever it failed and whoever else pushed, deleted or swept meanwhile.
GhostsAccounted ==
  \A d \in Documents : docRow[d] = "live" /\ VersionsOf(d) = {} =>
    \E r \in Requests : /\ req[r].kind = "create" /\ req[r].doc = d
                        /\ req[r].pc \in Unfinished

\* Not so: the push no-op promises the document already shows this content: a caller
\* told "deduplicated" can trust the current version to be what it sent.
DedupMeansCurrent ==
  [][\A r \in Requests : req[r].pc = "idle" /\ req'[r].pc = "dedup" =>
       ContentAt(req'[r].doc, current[req'[r].doc]) = {req'[r].hash}]_uploadVars

\* Not so: a document never has more live versions than its tier allows.
VersionCapHeld == \A d \in Documents : liveVersionCount(d) <= VersionCap

\* Not so: the create's rollback removes a document that never had a version.
RollbackRemovesOnlyGhosts ==
  [][\A r \in Requests : req[r].pc = "rollback" /\ req'[r].pc = "failed" =>
       \A v \in VersionsOf(req[r].doc) : v.seq = req[r].seq]_uploadVars
=============================================================================
