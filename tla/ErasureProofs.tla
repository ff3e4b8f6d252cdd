---------------------------- MODULE ErasureProofs ---------------------------
(***************************************************************************)
(* What holds of uploads, comments, deletes, sweeps and the public hub for  *)
(* any number of them, checked by TLAPS, and that what readers see is a     *)
(* DocumentHistory.                                                        *)
(*                                                                         *)
(* Everybody acts on what was read some transactions ago.  What it may      *)
(* still rely on goes one way only: a number once used is never held again, *)
(* a deleted document stays so, rows appear at held numbers and nowhere     *)
(* else, and tombstones stay tombstones (Onward).  StoreInv is about the    *)
(* rows and objects, DelShape and JobShape say what a delete and the        *)
(* scheduler still know.                                                   *)
(***************************************************************************)
EXTENDS PublicHub, FiniteSetTheorems, TLAPS

Holds(r) == req[r].pc \in Holding

ObjectOf(r) == [doc |-> req[r].doc, seq |-> req[r].seq, hash |-> req[r].hash]

\* Handed out, and not to a request that may still use it.
Used(d, s) ==
  /\ s < nextSeq[d]
  /\ \A r \in Requests : Holds(r) => ~(req[r].doc = d /\ req[r].seq = s)

Hidden(d) == docRow[d] \in {"deleted", "due", "gone"}

Numbered ==
  /\ \A d \in Documents : docRow[d] = "unborn" => nextSeq[d] = 1
  /\ \A v \in versions : Used(v.doc, v.seq)
  /\ \A v, w \in versions : v.doc = w.doc /\ v.seq = w.seq => v = w
  /\ \A b \in blobs : b.seq < nextSeq[b.doc]
  /\ \A k \in aged : Used(k[1], k[2])
  /\ \A e \in erasures : e.kind = "version_purge" => Used(e.doc, e.seq)

HolderShape(r) ==
  /\ req[r].pc \in Unfinished =>
       req[r].doc \in Documents /\ docRow[req[r].doc] # "unborn"
  /\ Holds(r) =>
       /\ req[r].seq \in Seqs /\ req[r].hash \in Contents
       /\ req[r].seq < nextSeq[req[r].doc]
       /\ \A q \in Requests :
            Holds(q) /\ req[q].doc = req[r].doc /\ req[q].seq = req[r].seq => q = r
       /\ \A b \in blobs :
            b.doc = req[r].doc /\ b.seq = req[r].seq => b.hash = req[r].hash
  /\ req[r].pc = "finalize" /\ docRow[req[r].doc] = "live" => ObjectOf(r) \in blobs

\* What is stored under a version's number is the version's; a live one's is there.
Backed ==
  \A v \in versions :
    /\ \A b \in blobs : b.doc = v.doc /\ b.seq = v.seq => b.hash = v.hash
    /\ ~v.purged /\ docRow[v.doc] = "live" =>
         [doc |-> v.doc, seq |-> v.seq, hash |-> v.hash] \in blobs

Emptied(d) ==
  docRow[d] \in {"unborn", "gone"} =>
    /\ \A v \in versions : v.doc # d
    /\ current[d] = 0 /\ indexed[d] = 0
    /\ docRow[d] = "gone" =>
         \A c \in Comments : comment[c].doc = d => comment[c].status \in {"none", "drafted"}

Pointing(d) ==
  docRow[d] = "live" =>
    /\ indexed[d] = current[d]
    /\ current[d] # 0 => \E v \in versions : v.doc = d /\ v.seq = current[d] /\ ~v.purged

StoreInv ==
  /\ UploadsTypeOK
  /\ erasures \subseteq Events /\ aged \subseteq Keys
  /\ IsFiniteSet(versions)
  /\ Numbered
  /\ \A r \in Requests : HolderShape(r)
  /\ Backed
  /\ \A d \in Documents : Emptied(d) /\ Pointing(d)
  /\ LogIsTruthful
  /\ LastNKept
  /\ GhostsAccounted

\* What no step takes back.
Onward ==
  /\ \A d \in Documents :
       /\ docRow[d] = "gone" => docRow'[d] = "gone"
       /\ Hidden(d) => Hidden(d)'
       /\ docRow[d] # "unborn" => docRow'[d] # "unborn"
  /\ \A d \in Documents, s \in Seqs : Used(d, s) =>
       /\ Used(d, s)'
       /\ current'[d] = s => current[d] = s
       /\ \A v \in versions' : v.doc = d /\ v.seq = s =>
            \E w \in versions : w.doc = d /\ w.seq = s /\ (w.purged => v.purged)
  /\ \A b \in blobs' : Used(b.doc, b.seq) => b \in blobs
  /\ aged \subseteq aged' /\ erasures \subseteq erasures'

\* Nothing was tombstoned.
Kept ==
  \A d \in Documents : docRow'[d] = "gone" \/ LiveVersionsOf(d) \subseteq LiveVersionsOf(d)'

\* Requests that still have something to do are where they were.
Released ==
  /\ req' \in [Requests -> [pc : UploadStates, kind : {"create", "push"},
                            doc : Documents \cup {None}, seq : 0 .. MaxSeq,
                            hash : Contents \cup {None}]]
  /\ \A r \in Requests :
       \/ req'[r] = req[r]
       \/ /\ req'[r].pc \notin Holding
          /\ req'[r].pc \in Unfinished =>
               req[r].pc \in Unfinished /\ req'[r].doc = req[r].doc /\ req'[r].kind = req[r].kind

USE DEF Holding, Unfinished, Seqs


-----------------------------------------------------------------------------
(* Steps that leave the rows alone.                                         *)

\* Rows that do not change are enough rows.
LEMMA RowsStay ==
  ASSUME StoreInv, versions' = versions
  PROVE  LastNKept' /\ IsFiniteSet(versions')
  BY DEF StoreInv, LastNKept, LiveVersionsOf, VersionsOf

\* Requests end or turn to their rollback, and comments change.
LEMMA CallsEnd ==
  ASSUME StoreInv, Released, UNCHANGED <<docRow, nextSeq, current, indexed, versions, blobs>>,
         UNCHANGED <<aged, erasures>>,
         comment' \in [Comments -> CommentRow],
         \A c \in Comments :
           \/ comment'[c] = comment[c]
           \/ comment'[c].status \in {"none", "drafted"}
           \/ \A d \in Documents : comment'[c].doc = d => docRow[d] # "gone",
         \A r \in Requests : req[r].kind = "create" /\ req[r].pc \in Unfinished =>
           req'[r].kind = "create" /\ req'[r].doc = req[r].doc
             /\ req'[r].pc \in Unfinished
  PROVE  StoreInv' /\ Onward /\ Kept
<1>1. UploadsTypeOK'
  BY DEF StoreInv, UploadsTypeOK, StoreTypeOK, UploadTypeOK, Released
<1>2. \A r \in Requests : Holds(r)' => Holds(r) /\ req'[r] = req[r]
  BY DEF Released, Holds
<1>3. \A d, s : Used(d, s) => Used(d, s)'
  BY <1>2 DEF Used
<1>4. Numbered'
  BY <1>3 DEF StoreInv, Numbered
<1>5. \A r \in Requests : HolderShape(r)'
  <2> SUFFICES ASSUME NEW r \in Requests PROVE HolderShape(r)'
    OBVIOUS
  <2>1. HolderShape(r)
    BY DEF StoreInv
  <2>2. CASE req'[r] = req[r]
    BY <1>2, <2>1, <2>2 DEF HolderShape, Holds, ObjectOf
  <2>3. CASE req'[r] # req[r]
    BY <2>1, <2>3 DEF HolderShape, Holds, Released
  <2> QED BY <2>2, <2>3
<1>6. Backed'
  BY DEF StoreInv, Backed
<1>7. \A d \in Documents : Emptied(d)' /\ Pointing(d)'
  BY DEF StoreInv, Emptied, Pointing
<1>8. LogIsTruthful'
  BY DEF StoreInv, LogIsTruthful, VersionsOf
<1>9. GhostsAccounted'
  BY DEF StoreInv, GhostsAccounted, VersionsOf, Holds
<1>10. Onward /\ Kept
  BY <1>3 DEF Onward, Kept, LiveVersionsOf, VersionsOf, Hidden
<1> QED BY <1>1, <1>4, <1>5, <1>6, <1>7, <1>8, <1>9, <1>10, RowsStay DEF StoreInv

-----------------------------------------------------------------------------
(* A number is reserved.                                                    *)

\* A create takes an unborn document and its number 1.
LEMMA CreateReserves ==
  ASSUME StoreInv, NEW r \in Requests, NEW d \in Documents, NEW h \in Contents,
         CreateGate(r, d, h), UNCHANGED <<aged, erasures>>
  PROVE  StoreInv' /\ Onward /\ Kept
<1> DEFINE types == /\ nextSeq \in [Documents -> 1 .. MaxSeq + 1]
                     /\ docRow \in [Documents -> DocStates]
                     /\ req \in [Requests -> [pc : UploadStates, kind : {"create", "push"},
                                             doc : Documents \cup {None}, seq : 0 .. MaxSeq,
                                             hash : Contents \cup {None}]]
<1>0. types
  BY DEF StoreInv, UploadsTypeOK, StoreTypeOK, UploadTypeOK
<1>1. nextSeq[d] = 1 /\ nextSeq' = [nextSeq EXCEPT ![d] = 2]
  <2>1. nextSeq[d] = 1
    BY DEF StoreInv, Numbered, CreateGate
  <2> QED BY <2>1 DEF CreateGate, insertDocument, reservedSeq
<1>2. UploadsTypeOK'
  BY <1>1, MaxSeqAssumption
     DEF StoreInv, UploadsTypeOK, StoreTypeOK, UploadTypeOK, DocStates, UploadStates,
         CreateGate, insertDocument, Reserve, reservedSeq
<1>3. /\ UNCHANGED <<versions, blobs, current, indexed, comment, aged, erasures>>
      /\ docRow[d] = "unborn" /\ docRow' = [docRow EXCEPT ![d] = "live"]
  BY DEF CreateGate, insertDocument
<1>4. /\ \A v \in versions : v.doc # d
      /\ \A b \in blobs : b.doc # d
      /\ \A q \in Requests : req[q].pc \in Unfinished => req[q].doc # d
  BY <1>1, <1>3 DEF StoreInv, Emptied, Numbered, UploadsTypeOK, StoreTypeOK, Blob, HolderShape
<1>5. /\ \A q \in Requests : q # r => req'[q] = req[q]
      /\ req'[r] = [pc |-> "put", kind |-> "create", doc |-> d, seq |-> 1, hash |-> h]
      /\ ~Holds(r)
  BY <1>0, <1>1 DEF CreateGate, Reserve, reservedSeq, Holds
<1>6. \A e \in Documents, s \in Seqs : Used(e, s) => Used(e, s)' /\ e # d
  <2>1. \A q \in Requests : Holds(q)' => q = r \/ (Holds(q) /\ req'[q] = req[q])
    BY <1>5 DEF Holds
  <2> QED BY <1>0, <1>1, <1>5, <2>1 DEF Used
<1>7. Numbered'
  <2>1. \A v \in versions : Used(v.doc, v.seq)'
    BY <1>6 DEF StoreInv, Numbered, UploadsTypeOK, StoreTypeOK, VersionRow
  <2>2. \A k \in aged : Used(k[1], k[2])'
    BY <1>6 DEF StoreInv, Numbered, Keys
  <2>3. \A e \in erasures : e.kind = "version_purge" => Used(e.doc, e.seq)'
    BY <1>6 DEF StoreInv, Numbered, Events, DocumentPurge, VersionPurge
  <2>4. \A b \in blobs : b.seq < nextSeq'[b.doc]
    BY <1>0, <1>1, <1>4 DEF StoreInv, Numbered, UploadsTypeOK, StoreTypeOK, Blob
  <2>5. \A e \in Documents : docRow'[e] = "unborn" => nextSeq'[e] = 1
    BY <1>0, <1>1, <1>3 DEF StoreInv, Numbered
  <2> QED BY <1>3, <2>1, <2>2, <2>3, <2>4, <2>5 DEF StoreInv, Numbered
<1>8. \A q \in Requests : HolderShape(q)'
  <2>1. HolderShape(r)'
    <3>1. \A q \in Requests : Holds(q)' /\ req'[q].doc = d => q = r
      BY <1>4, <1>5 DEF Holds
    <3>2. nextSeq'[d] = 2 /\ docRow'[d] = "live"
      BY <1>0, <1>1, <1>3
    <3>3. 1 \in Seqs
      BY MaxSeqAssumption
    <3> QED BY <1>3, <1>4, <1>5, <3>1, <3>2, <3>3 DEF HolderShape, Holds
  <2>2. ASSUME NEW q \in Requests, q # r
        PROVE  HolderShape(q)'
    <3>1. HolderShape(q) /\ req'[q] = req[q]
      BY <1>5, <2>2 DEF StoreInv
    <3>2. req[q].pc \in Unfinished => req[q].doc \in Documents \ {d}
      BY <1>4, <3>1 DEF HolderShape
    <3>3. req[q].pc \in Unfinished =>
            nextSeq'[req[q].doc] = nextSeq[req[q].doc] /\ docRow'[req[q].doc] = docRow[req[q].doc]
      BY <1>0, <1>1, <1>3, <3>2
    <3> QED BY <1>3, <1>5, <2>2, <3>1, <3>2, <3>3 DEF HolderShape, Holds, ObjectOf
  <2> QED BY <2>1, <2>2
<1>9. Backed'
  BY <1>0, <1>3, <1>4 DEF StoreInv, Backed, UploadsTypeOK, StoreTypeOK, VersionRow
<1>10. \A e \in Documents : Emptied(e)' /\ Pointing(e)'
  BY <1>0, <1>3, <1>4 DEF StoreInv, Emptied, Pointing
<1>11. LogIsTruthful'
  BY <1>0, <1>3, <1>4 DEF StoreInv, LogIsTruthful, VersionsOf, Events, DocumentPurge, VersionPurge
<1>12. GhostsAccounted'
  <2> SUFFICES ASSUME NEW e \in Documents, docRow'[e] = "live", VersionsOf(e)' = {}
               PROVE  \E q \in Requests : /\ req'[q].kind = "create" /\ req'[q].doc = e
                                           /\ req'[q].pc \in Unfinished
    BY DEF GhostsAccounted
  <2>1. CASE e = d
    BY <1>5, <2>1
  <2>2. CASE e # d
    <3>1. PICK q \in Requests : /\ req[q].kind = "create" /\ req[q].doc = e
                               /\ req[q].pc \in Unfinished
      BY <1>0, <1>3, <2>2 DEF StoreInv, GhostsAccounted, VersionsOf
    <3> QED BY <1>5, <3>1 DEF CreateGate
  <2> QED BY <2>1, <2>2
<1>13. Onward /\ Kept
  BY <1>0, <1>3, <1>6 DEF Onward, Kept, LiveVersionsOf, VersionsOf, Hidden
<1> QED BY <1>2, <1>3, <1>7, <1>8, <1>9, <1>10, <1>11, <1>12, <1>13, RowsStay DEF StoreInv

\* A push takes the next number of a row that a check in another transaction saw.
LEMMA PushReserves ==
  ASSUME StoreInv, NEW r \in Requests, NEW d \in Documents, NEW h \in Contents,
         PushGate(r, d, h), UNCHANGED <<aged, erasures>>
  PROVE  StoreInv' /\ Onward /\ Kept
<1> USE DEF PushGate, reserveVersionSeq, Reserve, reservedSeq
<1>1. nextSeq[d] \in Seqs /\ nextSeq' = [nextSeq EXCEPT ![d] = nextSeq[d] + 1]
  BY MaxSeqAssumption DEF StoreInv, UploadsTypeOK, StoreTypeOK
<1>2. UploadsTypeOK'
  BY <1>1, MaxSeqAssumption
     DEF StoreInv, UploadsTypeOK, StoreTypeOK, UploadTypeOK, UploadStates
<1>3. nextSeq \in [Documents -> 1 .. MaxSeq + 1]
  BY DEF StoreInv, UploadsTypeOK, StoreTypeOK
<1>4. \A q \in Requests : Holds(q) => ~(req[q].doc = d /\ req[q].seq = nextSeq[d])
  BY <1>1 DEF StoreInv, HolderShape, Holds
<1>5. /\ \A q \in Requests : q # r => req'[q] = req[q]
      /\ req'[r] = [pc |-> "put", kind |-> "push", doc |-> d, seq |-> nextSeq[d], hash |-> h]
      /\ ~Holds(r)
  BY <1>1 DEF StoreInv, UploadsTypeOK, UploadTypeOK, Holds
<1>6. \A e \in Documents, s \in Seqs : Used(e, s) => Used(e, s)' /\ ~(e = d /\ s = nextSeq[d])
  BY <1>1, <1>3, <1>5 DEF Used, Holds
<1>7. Numbered'
  <2>1. \A v \in versions : Used(v.doc, v.seq)'
    BY <1>6 DEF StoreInv, Numbered, UploadsTypeOK, StoreTypeOK, VersionRow
  <2>2. \A k \in aged : Used(k[1], k[2])'
    BY <1>6 DEF StoreInv, Numbered, Keys
  <2>3. \A e \in erasures : e.kind = "version_purge" => Used(e.doc, e.seq)'
    BY <1>6 DEF StoreInv, Numbered, Events, DocumentPurge, VersionPurge
  <2>4. \A b \in blobs : b.seq < nextSeq'[b.doc]
    BY <1>1, <1>3 DEF StoreInv, Numbered, UploadsTypeOK, StoreTypeOK, Blob
  <2>5. \A e \in Documents : docRow'[e] = "unborn" => nextSeq'[e] = 1
    BY <1>1, <1>3 DEF StoreInv, Numbered
  <2> QED BY <2>1, <2>2, <2>3, <2>4, <2>5 DEF StoreInv, Numbered
<1>8. \A q \in Requests : HolderShape(q)'
  <2>1. HolderShape(r)'
    <3>1. \A b \in blobs : ~(b.doc = d /\ b.seq = nextSeq[d])
      BY <1>1 DEF StoreInv, Numbered, UploadsTypeOK, StoreTypeOK, Blob
    <3> QED BY <1>1, <1>3, <1>4, <1>5, <3>1 DEF HolderShape, Holds
  <2>2. ASSUME NEW q \in Requests, q # r
        PROVE  HolderShape(q)'
    <3>1. HolderShape(q) /\ req'[q] = req[q]
      BY <1>5, <2>2 DEF StoreInv
    <3> QED BY <1>1, <1>3, <1>4, <1>5, <2>2, <3>1 DEF HolderShape, Holds, ObjectOf
  <2> QED BY <2>1, <2>2
<1>9. Backed' /\ LogIsTruthful' /\ \A e \in Documents : Emptied(e)' /\ Pointing(e)'
  BY DEF StoreInv, Backed, Emptied, Pointing, LogIsTruthful, VersionsOf
<1>10. GhostsAccounted'
  BY <1>5 DEF StoreInv, GhostsAccounted, VersionsOf, Holds
<1>11. Onward /\ Kept
  BY <1>6 DEF Onward, Kept, LiveVersionsOf, VersionsOf, Hidden, StoreInv, UploadsTypeOK,
              StoreTypeOK
<1> QED BY <1>2, <1>7, <1>8, <1>9, <1>10, <1>11, RowsStay DEF StoreInv

-----------------------------------------------------------------------------
(* A request stores its object, inserts its row, or fails to.               *)

\* The request r goes on from where it stands, to label; nobody else moves.
Moves(r, label) ==
  /\ UploadTypeOK'
  /\ \A q \in Requests : q # r => req'[q] = req[q]
  /\ req'[r].pc = label /\ req'[r].kind = req[r].kind /\ req'[r].doc = req[r].doc
  /\ label \in Holding => req'[r].seq = req[r].seq /\ req'[r].hash = req[r].hash

\* A request that ends moves to where it ends.
LEMMA EndMoves ==
  ASSUME UploadTypeOK, NEW r \in Requests, NEW label \in UploadStates \ Holding, End(r, label)
  PROVE  Moves(r, label)
<1>1. req'[r] = [pc |-> label, kind |-> req[r].kind, doc |-> req[r].doc, seq |-> 0, hash |-> None]
  BY DEF UploadTypeOK, End
<1>2. UploadTypeOK'
  BY MaxSeqAssumption DEF UploadTypeOK, End, UploadStates
<1> QED BY <1>1, <1>2 DEF Moves, End, UploadTypeOK

\* One that goes on moves there.
LEMMA GotoMoves ==
  ASSUME UploadTypeOK, NEW r \in Requests, NEW label \in UploadStates, Goto(r, label)
  PROVE  Moves(r, label)
<1>1. req'[r] = [req[r] EXCEPT !.pc = label]
  BY DEF UploadTypeOK, Goto
<1>2. UploadTypeOK'
  BY DEF UploadTypeOK, Goto, UploadStates
<1> QED BY <1>1, <1>2 DEF Moves, Goto, UploadTypeOK

\* One that fails moves to its rollback, or is done.
LEMMA ThrowMoves ==
  ASSUME UploadTypeOK, NEW r \in Requests, OnThrow(r)
  PROVE  IF req[r].kind = "create" THEN Moves(r, "rollback") ELSE Moves(r, "failed")
<1>1. CASE req[r].kind = "create"
  BY <1>1, GotoMoves DEF OnThrow, UploadStates
<1>2. CASE req[r].kind # "create"
  BY <1>2, EndMoves DEF OnThrow, UploadStates
<1> QED BY <1>1, <1>2

\* A throw that changes no row and no object.
LEMMA ThrowKeeps ==
  ASSUME StoreInv, NEW r \in Requests, Holds(r), OnThrow(r),
         UNCHANGED <<docRow, nextSeq, current, indexed, versions, blobs, comment, aged, erasures>>
  PROVE  StoreInv' /\ Onward /\ Kept
<1>1. UploadTypeOK /\ comment \in [Comments -> CommentRow]
  BY DEF StoreInv, UploadsTypeOK, StoreTypeOK
<1>2. IF req[r].kind = "create" THEN Moves(r, "rollback") ELSE Moves(r, "failed")
  BY <1>1, ThrowMoves
<1>3. Released
  BY <1>2 DEF Released, Moves, UploadTypeOK, Holds
<1>4. \A q \in Requests : req[q].kind = "create" /\ req[q].pc \in Unfinished =>
        req'[q].kind = "create" /\ req'[q].doc = req[q].doc
          /\ req'[q].pc \in Unfinished
  BY <1>2 DEF Moves, Holds
<1> QED BY <1>1, <1>3, <1>4, CallsEnd

\* An object is stored under a number that is the request's alone, whether or not
\* the request hears of it.
LEMMA PutKeeps ==
  ASSUME StoreInv, NEW r \in Requests, req[r].pc = "put",
         put(req[r].doc, req[r].seq, req[r].hash),
         UNCHANGED <<docRow, nextSeq, current, indexed, versions, comment, aged, erasures>>,
         Goto(r, "finalize") \/ OnThrow(r)
  PROVE  StoreInv' /\ Onward /\ Kept
<1>1. PICK label \in {"finalize", "rollback", "failed"} :
        Moves(r, label) /\ (req[r].kind = "create" => label # "failed")
  <2>1. UploadTypeOK
    BY DEF StoreInv, UploadsTypeOK
  <2> QED BY <2>1, GotoMoves, ThrowMoves DEF UploadStates
<1>2. /\ HolderShape(r) /\ Holds(r)
      /\ blobs' = blobs \cup {ObjectOf(r)}
      /\ ObjectOf(r) \in Blob
  BY DEF StoreInv, HolderShape, Holds, ObjectOf, put, Blob
<1>3. \A q \in Requests :
        Holds(q)' => Holds(q) /\ req'[q].doc = req[q].doc /\ req'[q].seq = req[q].seq
                       /\ req'[q].hash = req[q].hash
  BY <1>1, <1>2 DEF Moves, Holds
<1>4. \A d, s : Used(d, s) => Used(d, s)' /\ ~(d = req[r].doc /\ s = req[r].seq)
  BY <1>2, <1>3 DEF Used
<1>5. UploadsTypeOK'
  BY <1>1, <1>2 DEF StoreInv, UploadsTypeOK, StoreTypeOK, Moves
<1>6. Numbered'
  <2>1. \A b \in blobs' : b.seq < nextSeq'[b.doc]
    BY <1>2 DEF StoreInv, Numbered, HolderShape, ObjectOf
  <2> QED BY <1>4, <2>1 DEF StoreInv, Numbered
<1>7. \A q \in Requests : HolderShape(q)'
  <2> SUFFICES ASSUME NEW q \in Requests PROVE HolderShape(q)'
    OBVIOUS
  <2>1. HolderShape(q)
    BY DEF StoreInv
  <2>2. CASE q = r
    <3>1. \A b \in blobs' : b.doc = req[r].doc /\ b.seq = req[r].seq => b.hash = req[r].hash
      BY <1>2 DEF HolderShape, ObjectOf
    <3>2. req'[r].pc = label /\ req'[r].doc = req[r].doc
      BY <1>1 DEF Moves
    <3>3. req'[r].pc = "finalize" => ObjectOf(r)' \in blobs'
      BY <1>1, <1>2 DEF Moves, ObjectOf
    <3>4. Holds(r)' => \A p \in Requests :
            Holds(p)' /\ req'[p].doc = req'[r].doc /\ req'[p].seq = req'[r].seq => p = r
      BY <1>2, <1>3 DEF HolderShape
    <3> QED BY <1>2, <1>3, <2>2, <3>1, <3>2, <3>3, <3>4 DEF HolderShape, Holds
  <2>3. CASE q # r
    <3>1. req'[q] = req[q]
      BY <1>1, <2>3 DEF Moves
    <3>2. Holds(q) => \A b \in blobs' :
            b.doc = req[q].doc /\ b.seq = req[q].seq => b.hash = req[q].hash
      BY <1>2, <2>1, <2>3 DEF HolderShape, ObjectOf
    <3>3. Holds(q) => \A p \in Requests :
            Holds(p)' /\ req'[p].doc = req[q].doc /\ req'[p].seq = req[q].seq => p = q
      BY <1>3, <2>1 DEF HolderShape
    <3> QED BY <1>2, <2>1, <3>1, <3>2, <3>3 DEF HolderShape, Holds, ObjectOf
  <2> QED BY <2>2, <2>3
<1>8. Backed'
  <2> SUFFICES ASSUME NEW v \in versions
               PROVE  /\ \A b \in blobs' : b.doc = v.doc /\ b.seq = v.seq => b.hash = v.hash
                      /\ ~v.purged /\ docRow[v.doc] = "live" =>
                           [doc |-> v.doc, seq |-> v.seq, hash |-> v.hash] \in blobs'
    BY DEF Backed
  <2>1. ~(v.doc = req[r].doc /\ v.seq = req[r].seq)
    BY <1>4 DEF StoreInv, Numbered
  <2> QED BY <1>2, <2>1 DEF StoreInv, Backed, ObjectOf
<1>9. LogIsTruthful' /\ \A d \in Documents : Emptied(d)' /\ Pointing(d)'
  BY DEF StoreInv, Emptied, Pointing, LogIsTruthful, VersionsOf
<1>10. GhostsAccounted'
  <2> SUFFICES ASSUME NEW d \in Documents, docRow[d] = "live", VersionsOf(d) = {}
               PROVE  \E q \in Requests : /\ req'[q].kind = "create" /\ req'[q].doc = d
                                           /\ req'[q].pc \in Unfinished
    BY DEF GhostsAccounted, VersionsOf
  <2>1. PICK q \in Requests : /\ req[q].kind = "create" /\ req[q].doc = d
                             /\ req[q].pc \in Unfinished
    BY DEF StoreInv, GhostsAccounted
  <2> QED BY <1>1, <2>1 DEF Moves
<1>11. Onward /\ Kept
  BY <1>2, <1>4 DEF Onward, Kept, LiveVersionsOf, VersionsOf, Hidden, ObjectOf
<1> QED BY <1>5, <1>6, <1>7, <1>8, <1>9, <1>10, <1>11, RowsStay DEF StoreInv

\* More versions above, still as many.
LEMMA LastNGrows ==
  ASSUME NEW d \in Documents, NEW s, IsFiniteSet(versions'),
         LiveVersionsOf(d) \subseteq LiveVersionsOf(d)',
         Cardinality({w \in LiveVersionsOf(d) : w.seq > s}) >= KeepLastN
  PROVE  Cardinality({w \in LiveVersionsOf(d)' : w.seq > s}) >= KeepLastN
<1> DEFINE Before == {w \in LiveVersionsOf(d) : w.seq > s}
           After == {w \in LiveVersionsOf(d)' : w.seq > s}
<1>1. IsFiniteSet(After)
  BY FS_Subset DEF LiveVersionsOf, VersionsOf
<1>2. Before \subseteq After
  OBVIOUS
<1>3. Cardinality(Before) <= Cardinality(After) /\ Cardinality(After) \in Nat
      /\ Cardinality(Before) \in Nat
  BY <1>1, <1>2, FS_Subset, FS_CardinalityType
<1> HIDE DEF Before, After
<1>4. Cardinality(Before) >= KeepLastN => Cardinality(After) >= KeepLastN
  BY <1>3, KeepLastNAssumption
<1> QED BY <1>4 DEF Before, After

\* The row goes in while its object is there, or the request turns away.
LEMMA InsertKeeps ==
  ASSUME StoreInv, NEW r \in Requests, req[r].pc = "finalize", FinalizeTx(r),
         UNCHANGED <<docRow, nextSeq, comment, blobs, aged, erasures>>,
         End(r, "done") \/ OnThrow(r)
  PROVE  StoreInv' /\ Onward /\ Kept
<1>0. PICK d \in Documents, s \in Seqs, h \in Contents :
        req[r].doc = d /\ req[r].seq = s /\ req[r].hash = h
  BY DEF StoreInv, HolderShape, Holds
<1> DEFINE row == [doc |-> d, seq |-> s, hash |-> h, purged |-> FALSE]
<1>1. PICK label \in {"done", "rollback", "failed"} : Moves(r, label)
  <2>1. UploadTypeOK
    BY DEF StoreInv, UploadsTypeOK
  <2> QED BY <2>1, EndMoves, ThrowMoves DEF UploadStates
<1>2. HolderShape(r) /\ Holds(r) /\ row \in VersionRow
  BY DEF StoreInv, Holds, VersionRow
<1>3. /\ versions' = versions \cup {row}
      /\ RowExists(d) /\ (\A v \in versions : v.doc = d => v.seq # s)
      /\ current' = [current EXCEPT ![d] = s] /\ indexed' = [indexed EXCEPT ![d] = s]
  BY <1>0 DEF FinalizeTx, CanInsertVersion, insertVersionAtSeq, indexVersion, VersionsOf
<1> HIDE DEF row
<1>4. row.doc = d /\ row.seq = s /\ row.hash = h /\ row.purged = FALSE
  BY DEF row
<1>5. \A q \in Requests : Holds(q)' => Holds(q) /\ q # r /\ req'[q] = req[q]
  BY <1>1 DEF Moves, Holds
<1>6. \A e, t : Used(e, t) => Used(e, t)' /\ ~(e = d /\ t = s)
  BY <1>0, <1>2, <1>5 DEF Used
<1>7. Used(d, s)'
  BY <1>0, <1>2, <1>5 DEF Used, HolderShape
<1>8. UploadsTypeOK'
  <2>1. UploadTypeOK'
    BY <1>1 DEF Moves
  <2>2. StoreTypeOK'
    BY <1>2, <1>3 DEF StoreInv, UploadsTypeOK, StoreTypeOK
  <2> QED BY <2>1, <2>2 DEF UploadsTypeOK
<1>9. Numbered'
  <2>1. \A v \in versions' : Used(v.doc, v.seq)'
    BY <1>3, <1>4, <1>6, <1>7 DEF StoreInv, Numbered
  <2>2. \A v, w \in versions' : v.doc = w.doc /\ v.seq = w.seq => v = w
    BY <1>3, <1>4 DEF StoreInv, Numbered
  <2> QED BY <1>6, <2>1, <2>2 DEF StoreInv, Numbered
<1>10. \A q \in Requests : HolderShape(q)'
  <2> SUFFICES ASSUME NEW q \in Requests PROVE HolderShape(q)'
    OBVIOUS
  <2>1. HolderShape(q)
    BY DEF StoreInv
  <2>2. CASE q = r
    BY <1>1, <1>2, <2>2 DEF HolderShape, Holds, Moves
  <2>3. CASE q # r
    <3>1. req'[q] = req[q]
      BY <1>1, <2>3 DEF Moves
    <3> QED BY <1>5, <2>1, <3>1 DEF HolderShape, Holds, ObjectOf
  <2> QED BY <2>2, <2>3
<1>11. Backed'
  <2>1. \A b \in blobs : b.doc = row.doc /\ b.seq = row.seq => b.hash = row.hash
    BY <1>0, <1>2, <1>4 DEF HolderShape
  <2>2. docRow[row.doc] = "live" => [doc |-> row.doc, seq |-> row.seq, hash |-> row.hash] \in blobs
    BY <1>0, <1>2, <1>4 DEF HolderShape, ObjectOf
  <2> QED BY <1>3, <2>1, <2>2 DEF StoreInv, Backed
<1>12. \A e \in Documents : Emptied(e)' /\ Pointing(e)'
  <2> SUFFICES ASSUME NEW e \in Documents PROVE Emptied(e)' /\ Pointing(e)'
    OBVIOUS
  <2>0. current \in [Documents -> 0 .. MaxSeq] /\ indexed \in [Documents -> 0 .. MaxSeq]
    BY DEF StoreInv, UploadsTypeOK, StoreTypeOK
  <2>1. CASE e = d
    <3>1. current'[e] = s /\ indexed'[e] = s /\ docRow[e] \notin {"unborn", "gone"}
      BY <1>2, <1>3, <2>0, <2>1 DEF RowExists
    <3> QED BY <1>3, <1>4, <2>1, <3>1 DEF Emptied, Pointing
  <2>2. CASE e # d
    <3>1. current'[e] = current[e] /\ indexed'[e] = indexed[e]
      BY <1>2, <1>3, <2>0, <2>2
    <3> QED BY <1>3, <1>4, <2>2, <3>1 DEF StoreInv, Emptied, Pointing
  <2> QED BY <2>1, <2>2
<1>13. LogIsTruthful'
  <2> SUFFICES ASSUME NEW e \in erasures
               PROVE  /\ e.kind = "document_purge" => docRow[e.doc] = "gone"
                      /\ e.kind = "version_purge" =>
                           \A v \in versions' : v.doc = e.doc /\ v.seq = e.seq => v.purged
    BY DEF LogIsTruthful, VersionsOf
  <2> QED BY <1>3, <1>4, <1>6 DEF StoreInv, LogIsTruthful, Numbered, VersionsOf
<1>14. Kept
  BY <1>3 DEF Kept, LiveVersionsOf, VersionsOf
<1>15. IsFiniteSet(versions')
  BY <1>3, FS_AddElement DEF StoreInv
<1>16. LastNKept'
  <2> SUFFICES ASSUME NEW v \in versions', v.purged
               PROVE  Cardinality({w \in LiveVersionsOf(v.doc)' : w.seq > v.seq}) >= KeepLastN
    BY DEF LastNKept
  <2>1. v \in versions /\ v.doc \in Documents
    BY <1>3, <1>4 DEF StoreInv, UploadsTypeOK, StoreTypeOK, VersionRow
  <2>2. LiveVersionsOf(v.doc) \subseteq LiveVersionsOf(v.doc)'
    BY <1>3 DEF LiveVersionsOf, VersionsOf
  <2> QED BY <1>15, <2>1, <2>2, LastNGrows DEF StoreInv, LastNKept
<1>17. GhostsAccounted'
  <2> SUFFICES ASSUME NEW e \in Documents, docRow[e] = "live", VersionsOf(e)' = {}
               PROVE  \E q \in Requests : /\ req'[q].kind = "create" /\ req'[q].doc = e
                                           /\ req'[q].pc \in Unfinished
    BY DEF GhostsAccounted
  <2>1. e # d /\ VersionsOf(e) = {}
    BY <1>3, <1>4 DEF VersionsOf
  <2>2. PICK q \in Requests : /\ req[q].kind = "create" /\ req[q].doc = e
                             /\ req[q].pc \in Unfinished
    BY <2>1 DEF StoreInv, GhostsAccounted
  <2> QED BY <1>0, <1>1, <2>1, <2>2 DEF Moves
<1>18. Onward
  <2>1. \A e \in Documents, t \in Seqs : Used(e, t) =>
          /\ current'[e] = t => current[e] = t
          /\ \A v \in versions' : v.doc = e /\ v.seq = t => v \in versions
    BY <1>2, <1>3, <1>4, <1>6 DEF StoreInv, UploadsTypeOK, StoreTypeOK
  <2> QED BY <1>6, <2>1 DEF Onward, Hidden
<1> QED BY <1>8, <1>9, <1>10, <1>11, <1>12, <1>13, <1>14, <1>15, <1>16, <1>17, <1>18 DEF StoreInv

-----------------------------------------------------------------------------
(* What takes away: rows, contents, objects, visibility.                    *)

\* The rows of d go; only requests for d notice, and give up.
LEMMA PurgeKeeps ==
  ASSUME StoreInv, NEW d \in Documents, docRow[d] # "unborn", purgeDocument(d),
         UploadTypeOK', UNCHANGED <<nextSeq, blobs, aged, erasures>>,
         \A q \in Requests :
           req'[q] = req[q] \/ (req[q].doc = d /\ req'[q].pc = "failed")
  PROVE  StoreInv' /\ Onward /\ Kept /\ docRow'[d] = "gone"
<1>1. /\ docRow \in [Documents -> DocStates] /\ comment \in [Comments -> CommentRow]
      /\ current \in [Documents -> 0 .. MaxSeq] /\ indexed \in [Documents -> 0 .. MaxSeq]
  BY DEF StoreInv, UploadsTypeOK, StoreTypeOK
<1>2. /\ docRow' = [docRow EXCEPT ![d] = "gone"]
      /\ current' = [current EXCEPT ![d] = 0] /\ indexed' = [indexed EXCEPT ![d] = 0]
      /\ versions' = {v \in versions : v.doc # d}
  BY DEF purgeDocument
<1>3. /\ comment' \in [Comments -> CommentRow]
      /\ \A c \in Comments :
           IF comment[c].doc = d /\ comment[c].status \in {"open", "resolved"}
             THEN comment'[c] = NoComment ELSE comment'[c] = comment[c]
  BY <1>1, MaxSeqAssumption DEF purgeDocument, NoComment, CommentRow
<1>4. \A q \in Requests : Holds(q)' => Holds(q) /\ req'[q] = req[q]
  BY DEF Holds
<1>5. \A e, s : Used(e, s) => Used(e, s)'
  BY <1>4 DEF Used
<1>6. UploadsTypeOK'
  BY <1>2, <1>3, MaxSeqAssumption DEF StoreInv, UploadsTypeOK, StoreTypeOK, DocStates
<1>7. Numbered'
  <2>1. \A e \in Documents : docRow'[e] = "unborn" => docRow[e] = "unborn"
    BY <1>1, <1>2
  <2> QED BY <1>2, <1>5, <2>1 DEF StoreInv, Numbered
<1>8. \A q \in Requests : HolderShape(q)'
  <2> SUFFICES ASSUME NEW q \in Requests PROVE HolderShape(q)'
    OBVIOUS
  <2>1. HolderShape(q)
    BY DEF StoreInv
  <2>2. \A e \in Documents : /\ docRow[e] # "unborn" => docRow'[e] # "unborn"
                             /\ docRow'[e] = "live" => docRow[e] = "live"
    BY <1>1, <1>2
  <2>3. CASE req'[q] = req[q]
    BY <1>4, <2>1, <2>2, <2>3 DEF HolderShape, Holds, ObjectOf
  <2>4. CASE req'[q].pc = "failed"
    BY <2>4 DEF HolderShape, Holds
  <2> QED BY <2>3, <2>4
<1>9. Backed'
  BY <1>1, <1>2 DEF StoreInv, Backed, UploadsTypeOK, StoreTypeOK, VersionRow
<1>10. \A e \in Documents : Emptied(e)' /\ Pointing(e)'
  <2> SUFFICES ASSUME NEW e \in Documents PROVE Emptied(e)' /\ Pointing(e)'
    OBVIOUS
  <2>1. CASE e = d
    <3>1. docRow'[e] = "gone" /\ current'[e] = 0 /\ indexed'[e] = 0
      BY <1>1, <1>2, <2>1
    <3>2. \A c \in Comments : comment'[c].doc = d => comment'[c].status \in {"none", "drafted"}
      BY <1>1, <1>3 DEF NoComment, CommentRow
    <3> QED BY <1>2, <2>1, <3>1, <3>2 DEF Emptied, Pointing
  <2>2. CASE e # d
    <3>1. docRow'[e] = docRow[e] /\ current'[e] = current[e] /\ indexed'[e] = indexed[e]
      BY <1>1, <1>2, <2>2
    <3>2. \A c \in Comments : comment'[c].doc = e => comment'[c] = comment[c]
      BY <1>3, NoneAssumption DEF NoComment
    <3> QED BY <1>2, <2>2, <3>1, <3>2 DEF StoreInv, Emptied, Pointing
  <2> QED BY <2>1, <2>2
<1>11. LogIsTruthful'
  <2>1. \A e \in erasures : e.doc \in Documents
    BY DEF StoreInv, Events, DocumentPurge, VersionPurge
  <2> QED BY <1>1, <1>2, <2>1 DEF StoreInv, LogIsTruthful, VersionsOf
<1>12. IsFiniteSet(versions')
  BY <1>2, FS_Subset DEF StoreInv
<1>13. \A e \in Documents : e # d => LiveVersionsOf(e)' = LiveVersionsOf(e)
  BY <1>2 DEF LiveVersionsOf, VersionsOf
<1>14. LastNKept'
  BY <1>2, <1>13 DEF StoreInv, LastNKept, UploadsTypeOK, StoreTypeOK, VersionRow
<1>15. GhostsAccounted'
  <2> SUFFICES ASSUME NEW e \in Documents, docRow'[e] = "live", VersionsOf(e)' = {}
               PROVE  \E q \in Requests : /\ req'[q].kind = "create" /\ req'[q].doc = e
                                           /\ req'[q].pc \in Unfinished
    BY DEF GhostsAccounted
  <2>1. e # d /\ docRow[e] = "live" /\ VersionsOf(e) = {}
    BY <1>1, <1>2 DEF VersionsOf
  <2>2. PICK q \in Requests : /\ req[q].kind = "create" /\ req[q].doc = e
                             /\ req[q].pc \in Unfinished
    BY <2>1 DEF StoreInv, GhostsAccounted
  <2> QED BY <2>1, <2>2
<1>16. Onward
  <2>1. \A e \in Documents :
          /\ docRow[e] = "gone" => docRow'[e] = "gone"
          /\ Hidden(e) => Hidden(e)'
          /\ docRow[e] # "unborn" => docRow'[e] # "unborn"
    BY <1>1, <1>2 DEF Hidden
  <2>2. \A e \in Documents, s \in Seqs : current'[e] = s => current[e] = s
    BY <1>1, <1>2
  <2> QED BY <1>2, <1>5, <2>1, <2>2 DEF Onward
<1>17. Kept /\ docRow'[d] = "gone"
  BY <1>1, <1>2, <1>13 DEF Kept
<1> QED BY <1>6, <1>7, <1>8, <1>9, <1>10, <1>11, <1>12, <1>14, <1>15, <1>16, <1>17 DEF StoreInv

\* The last N versions above s have their content.
Enough(d, s) == Cardinality({w \in LiveVersionsOf(d) : w.seq > s}) >= KeepLastN

Purged(d, s) == \A v \in versions : v.doc = d /\ v.seq = s => v.purged

\* A version with N live ones above it loses its content and no other does.
LEMMA TombstoneKeeps ==
  ASSUME StoreInv, NEW d \in Documents, NEW s \in Seqs, tombstone(d, s),
         docRow[d] # "gone" => Enough(d, s) /\ current[d] # s, docRow[d] # "unborn",
         UNCHANGED <<docRow, nextSeq, current, comment, blobs, req, aged, erasures>>
  PROVE  /\ StoreInv' /\ Onward /\ Purged(d, s)'
         /\ \A t \in Seqs : t >= s => {w \in LiveVersionsOf(d)' : w.seq > t}
                                        = {w \in LiveVersionsOf(d) : w.seq > t}
         /\ \A e \in Documents : e # d => LiveVersionsOf(e)' = LiveVersionsOf(e)
<1> DEFINE mark(v) == IF v.doc = d /\ v.seq = s THEN [v EXCEPT !.purged = TRUE] ELSE v
<1>1. /\ versions' = {mark(v) : v \in versions}
      /\ indexed' = [indexed EXCEPT ![d] = IF @ = s THEN 0 ELSE @]
      /\ versions \subseteq VersionRow /\ indexed \in [Documents -> 0 .. MaxSeq]
  BY DEF tombstone, StoreInv, UploadsTypeOK, StoreTypeOK
<1>2. \A v \in versions : /\ mark(v) \in VersionRow
                          /\ mark(v).doc = v.doc /\ mark(v).seq = v.seq /\ mark(v).hash = v.hash
                          /\ IF v.doc = d /\ v.seq = s THEN mark(v).purged ELSE mark(v) = v
  BY <1>1 DEF VersionRow
<1> HIDE DEF mark
<1>3. \A v \in versions' : \E w \in versions : v = mark(w)
  BY <1>1
<1>4. \A v \in versions : mark(v) \in versions'
  BY <1>1
<1>5. \A e \in Documents : {v \in LiveVersionsOf(e)' : ~(e = d /\ v.seq = s)}
                             = {v \in LiveVersionsOf(e) : ~(e = d /\ v.seq = s)}
  BY <1>2, <1>3, <1>4 DEF LiveVersionsOf, VersionsOf
<1>6. \A t \in Seqs : t >= s => {w \in LiveVersionsOf(d)' : w.seq > t}
                                  = {w \in LiveVersionsOf(d) : w.seq > t}
  BY <1>5
<1>7. \A e \in Documents : e # d => LiveVersionsOf(e)' = LiveVersionsOf(e)
  BY <1>5
<1>8. UploadsTypeOK'
  <2>1. versions' \subseteq VersionRow
    BY <1>2, <1>3
  <2>2. indexed' \in [Documents -> 0 .. MaxSeq]
    BY <1>1, MaxSeqAssumption
  <2> QED BY <2>1, <2>2 DEF StoreInv, UploadsTypeOK, StoreTypeOK, UploadTypeOK
<1>9. Numbered'
  <2>1. \A e, t : Used(e, t)' = Used(e, t)
    BY DEF Used, Holds
  <2>2. \A v \in versions' : Used(v.doc, v.seq)
    BY <1>2, <1>3 DEF StoreInv, Numbered
  <2>3. \A v, w \in versions' : v.doc = w.doc /\ v.seq = w.seq => v = w
    BY <1>2, <1>3 DEF StoreInv, Numbered
  <2> QED BY <2>1, <2>2, <2>3 DEF StoreInv, Numbered
<1>10. \A q \in Requests : HolderShape(q)'
  BY DEF StoreInv, HolderShape, Holds, ObjectOf
<1>11. Backed'
  <2> SUFFICES ASSUME NEW v \in versions'
               PROVE  /\ \A b \in blobs : b.doc = v.doc /\ b.seq = v.seq => b.hash = v.hash
                      /\ ~v.purged /\ docRow[v.doc] = "live" =>
                           [doc |-> v.doc, seq |-> v.seq, hash |-> v.hash] \in blobs
    BY DEF Backed
  <2>1. PICK w \in versions : v.doc = w.doc /\ v.seq = w.seq /\ v.hash = w.hash
                                /\ (v.purged \/ v = w)
    BY <1>2, <1>3
  <2> QED BY <2>1 DEF StoreInv, Backed
<1>12. \A e \in Documents : Emptied(e)' /\ Pointing(e)'
  <2> SUFFICES ASSUME NEW e \in Documents PROVE Emptied(e)' /\ Pointing(e)'
    OBVIOUS
  <2>0. \A v \in versions' : \E w \in versions : v.doc = w.doc
    BY <1>2, <1>3
  <2>1. Emptied(e)'
    BY <1>1, <2>0 DEF StoreInv, Emptied
  <2>2. Pointing(e)'
    <3> SUFFICES ASSUME docRow[e] = "live"
                 PROVE  /\ indexed'[e] = current[e]
                        /\ current[e] # 0 =>
                             \E v \in versions' : v.doc = e /\ v.seq = current[e] /\ ~v.purged
      BY DEF Pointing
    <3>1. ~(e = d /\ current[e] = s) /\ indexed[e] = current[e]
      BY DEF StoreInv, Pointing
    <3>2. indexed'[e] = current[e]
      BY <1>1, <3>1
    <3>3. ASSUME current[e] # 0
          PROVE  \E v \in versions' : v.doc = e /\ v.seq = current[e] /\ ~v.purged
      <4>1. PICK v \in versions : v.doc = e /\ v.seq = current[e] /\ ~v.purged
        BY <3>3 DEF StoreInv, Pointing
      <4> QED BY <1>2, <1>4, <3>1, <4>1
    <3> QED BY <3>2, <3>3
  <2> QED BY <2>1, <2>2
<1>13. LogIsTruthful'
  <2>1. \A v \in versions' : \E w \in versions : v.doc = w.doc /\ v.seq = w.seq
                                                    /\ (w.purged => v.purged)
    BY <1>2, <1>3
  <2> QED BY <2>1 DEF StoreInv, LogIsTruthful, VersionsOf
<1>14. IsFiniteSet(versions')
  <2> DEFINE f == [v \in versions |-> mark(v)]
  <2>1. f \in Surjection(versions, versions')
    BY <1>3, <1>4 DEF Surjection
  <2> HIDE DEF f
  <2> QED BY <2>1, FS_Surjection DEF StoreInv
<1>15. LastNKept'
  <2> SUFFICES ASSUME NEW v \in versions', v.purged
               PROVE  Cardinality({w \in LiveVersionsOf(v.doc)' : w.seq > v.seq}) >= KeepLastN
    BY DEF LastNKept
  <2>1. PICK u \in versions : v = mark(u)
    BY <1>3
  <2>2. u.doc = v.doc /\ u.seq = v.seq /\ v.doc \in Documents /\ v.seq \in Seqs
    BY <1>1, <1>2, <2>1 DEF VersionRow
  <2>3. CASE v.doc = d /\ v.seq >= s
    <3>1. Enough(d, v.seq)
      <4>1. CASE v.seq = s
        BY <2>2, <2>3, <4>1 DEF StoreInv, Emptied
      <4>2. CASE v.seq # s
        BY <1>2, <2>1, <2>2, <2>3, <4>2 DEF StoreInv, LastNKept, Enough
      <4> QED BY <4>1, <4>2
    <3> QED BY <1>6, <2>2, <2>3, <3>1 DEF Enough
  <2>4. CASE v.doc = d /\ ~(v.seq >= s)
    <3>1. Enough(d, s)
      BY <2>2, <2>4 DEF StoreInv, Emptied
    <3> DEFINE Above == {w \in LiveVersionsOf(d)' : w.seq > s}
               After == {w \in LiveVersionsOf(d)' : w.seq > v.seq}
    <3>2. Cardinality(Above) >= KeepLastN
      <4>1. s >= s
        OBVIOUS
      <4>2. Above = {w \in LiveVersionsOf(d) : w.seq > s}
        BY <1>6, <4>1
      <4> HIDE DEF Above
      <4> QED BY <3>1, <4>2 DEF Enough
    <3>3. Above \subseteq After
      <4>1. \A w \in LiveVersionsOf(d)' : w.seq \in Seqs
        BY <1>8 DEF LiveVersionsOf, VersionsOf, UploadsTypeOK, StoreTypeOK, VersionRow
      <4> QED BY <2>2, <2>4, <4>1
    <3>4. IsFiniteSet(After)
      BY <1>14, FS_Subset DEF LiveVersionsOf, VersionsOf
    <3> HIDE DEF Above, After
    <3>5. /\ Cardinality(Above) <= Cardinality(After)
          /\ Cardinality(Above) \in Nat /\ Cardinality(After) \in Nat
      BY <3>3, <3>4, FS_Subset, FS_CardinalityType
    <3>6. Cardinality(After) >= KeepLastN
      BY <3>2, <3>5, KeepLastNAssumption
    <3> QED BY <2>4, <3>6 DEF After
  <2>5. CASE v.doc # d
    BY <1>2, <1>7, <2>1, <2>2, <2>5 DEF StoreInv, LastNKept
  <2> QED BY <2>3, <2>4, <2>5
<1>16. GhostsAccounted'
  <2>1. \A e \in Documents : VersionsOf(e)' = {} => VersionsOf(e) = {}
    BY <1>2, <1>4 DEF VersionsOf
  <2> QED BY <2>1 DEF StoreInv, GhostsAccounted
<1>17. Onward
  <2>1. \A e \in Documents, t \in Seqs : Used(e, t) => Used(e, t)'
    BY DEF Used, Holds
  <2>2. \A e \in Documents, t \in Seqs : \A v \in versions' : v.doc = e /\ v.seq = t =>
          \E w \in versions : w.doc = e /\ w.seq = t /\ (w.purged => v.purged)
    BY <1>2, <1>3
  <2> QED BY <2>1, <2>2 DEF Onward, Hidden
<1>18. Purged(d, s)'
  BY <1>2, <1>3 DEF Purged
<1> QED BY <1>6, <1>7, <1>8, <1>9, <1>10, <1>11, <1>12, <1>13, <1>14, <1>15, <1>16, <1>17, <1>18
        DEF StoreInv

\* Objects go that no listed version needs and nobody is about to insert.
LEMMA ObjectsGo ==
  ASSUME StoreInv, blobs' \subseteq blobs,
         \A b \in blobs \ blobs' :
           docRow[b.doc] # "live" \/ (Used(b.doc, b.seq) /\ Purged(b.doc, b.seq)),
         UNCHANGED <<docRow, nextSeq, current, indexed, versions, comment, req, aged, erasures>>
  PROVE  StoreInv' /\ Onward /\ Kept
<1>1. UploadsTypeOK'
  BY DEF StoreInv, UploadsTypeOK, StoreTypeOK, UploadTypeOK
<1>2. Numbered' /\ Onward /\ Kept
  BY DEF StoreInv, Numbered, Used, Holds, Onward, Kept, Hidden, LiveVersionsOf, VersionsOf
<1>3. \A r \in Requests : HolderShape(r)'
  <2> SUFFICES ASSUME NEW r \in Requests PROVE HolderShape(r)'
    OBVIOUS
  <2>1. HolderShape(r)
    BY DEF StoreInv
  <2>2. ASSUME req[r].pc = "finalize", docRow[req[r].doc] = "live"
        PROVE  ObjectOf(r) \in blobs'
    <3>1. ObjectOf(r) \in blobs /\ ~Used(ObjectOf(r).doc, ObjectOf(r).seq)
      BY <2>1, <2>2 DEF HolderShape, ObjectOf, Used, Holds
    <3>2. docRow[ObjectOf(r).doc] = "live"
      BY <2>2 DEF ObjectOf
    <3> QED BY <3>1, <3>2
  <2> QED BY <2>1, <2>2 DEF HolderShape, Holds, ObjectOf
<1>4. Backed'
  <2> SUFFICES ASSUME NEW v \in versions, ~v.purged, docRow[v.doc] = "live"
               PROVE  [doc |-> v.doc, seq |-> v.seq, hash |-> v.hash] \in blobs'
    BY DEF StoreInv, Backed
  <2> DEFINE b == [doc |-> v.doc, seq |-> v.seq, hash |-> v.hash]
  <2>1. b \in blobs /\ b.doc = v.doc /\ b.seq = v.seq
    BY DEF StoreInv, Backed
  <2> HIDE DEF b
  <2>2. b \in blobs'
    BY <2>1 DEF Purged
  <2> QED BY <2>2 DEF b
<1>5. LogIsTruthful' /\ GhostsAccounted' /\ \A d \in Documents : Emptied(d)' /\ Pointing(d)'
  BY DEF StoreInv, LogIsTruthful, GhostsAccounted, Emptied, Pointing, VersionsOf
<1> QED BY <1>1, <1>2, <1>3, <1>4, <1>5, RowsStay DEF StoreInv

\* A document is taken from its readers, or becomes due.
LEMMA HideKeeps ==
  ASSUME StoreInv, NEW d \in Documents, NEW x \in {"deleted", "due"},
         docRow[d] \notin {"unborn", "gone"}, docRow' = [docRow EXCEPT ![d] = x],
         UNCHANGED <<nextSeq, current, indexed, versions, comment, blobs, req, aged, erasures>>
  PROVE  StoreInv' /\ Onward /\ Kept
<1>1. \A e \in Documents : /\ docRow'[e] = "live" => docRow[e] = "live"
                           /\ docRow'[e] = "unborn" <=> docRow[e] = "unborn"
                           /\ docRow'[e] = "gone" <=> docRow[e] = "gone"
                           /\ Hidden(e) => Hidden(e)'
  BY DEF StoreInv, UploadsTypeOK, StoreTypeOK, Hidden
<1>2. UploadsTypeOK'
  BY DEF StoreInv, UploadsTypeOK, StoreTypeOK, UploadTypeOK, DocStates
<1>3. Numbered'
  BY <1>1 DEF StoreInv, Numbered, Used, Holds
<1>4. \A r \in Requests : HolderShape(r)'
  <2> SUFFICES ASSUME NEW r \in Requests PROVE HolderShape(r)'
    OBVIOUS
  <2>1. HolderShape(r)
    BY DEF StoreInv
  <2> QED BY <1>1, <2>1 DEF HolderShape, Holds, ObjectOf
<1>5. Backed'
  BY <1>1 DEF StoreInv, Backed, UploadsTypeOK, StoreTypeOK, VersionRow
<1>6. \A e \in Documents : Emptied(e)' /\ Pointing(e)'
  BY <1>1 DEF StoreInv, Emptied, Pointing
<1>7. LogIsTruthful'
  BY <1>1 DEF StoreInv, LogIsTruthful, VersionsOf, Events, DocumentPurge, VersionPurge
<1>8. GhostsAccounted'
  BY <1>1 DEF StoreInv, GhostsAccounted, VersionsOf
<1>9. Onward /\ Kept
  BY <1>1 DEF Onward, Kept, LiveVersionsOf, VersionsOf, Used, Holds
<1> QED BY <1>2, <1>3, <1>4, <1>5, <1>6, <1>7, <1>8, <1>9, RowsStay DEF StoreInv

\* Versions age, and what was erased is logged.
LEMMA NotesKeep ==
  ASSUME StoreInv, UNCHANGED uploadVars,
         aged \subseteq aged', aged' \subseteq Keys,
         \A k \in aged' \ aged : Used(k[1], k[2]),
         erasures \subseteq erasures', erasures' \subseteq Events,
         \A e \in erasures' \ erasures :
           /\ e.kind = "document_purge" => docRow[e.doc] = "gone"
           /\ e.kind = "version_purge" => Used(e.doc, e.seq) /\ Purged(e.doc, e.seq)
  PROVE  StoreInv' /\ Onward /\ Kept
<1>1. UploadsTypeOK'
  BY DEF StoreInv, UploadsTypeOK, StoreTypeOK, UploadTypeOK, uploadVars, storeVars
<1>2. \A d, s : Used(d, s)' = Used(d, s)
  BY DEF Used, Holds, uploadVars, storeVars
<1>3. Numbered'
  BY <1>2 DEF StoreInv, Numbered, uploadVars, storeVars
<1>4. \A r \in Requests : HolderShape(r)'
  BY DEF StoreInv, HolderShape, Holds, ObjectOf, uploadVars, storeVars
<1>5. Backed' /\ GhostsAccounted' /\ \A d \in Documents : Emptied(d)' /\ Pointing(d)'
  BY DEF StoreInv, Backed, GhostsAccounted, Emptied, Pointing, VersionsOf, uploadVars, storeVars
<1>6. LogIsTruthful'
  BY DEF StoreInv, LogIsTruthful, Purged, VersionsOf, uploadVars, storeVars
<1>7. Onward /\ Kept
  BY <1>2 DEF Onward, Kept, Hidden, LiveVersionsOf, VersionsOf, uploadVars, storeVars
<1>8. versions' = versions
  BY DEF uploadVars, storeVars
<1> QED BY <1>1, <1>3, <1>4, <1>5, <1>6, <1>7, <1>8, RowsStay DEF StoreInv

-----------------------------------------------------------------------------
(* What deletes and the scheduler may still rely on.                        *)

DelShape(x) ==
  /\ del[x].pc # "idle" => del[x].doc \in Documents /\ docRow[del[x].doc] # "unborn"
  /\ del[x].pc \in {"blobs", "rows", "record"} => Hidden(del[x].doc)
  /\ del[x].pc = "record" => docRow[del[x].doc] = "gone"

\* A version the sweep chose: it was aged and not current when the cycle began.
Chosen(d, s) ==
  /\ s \in Seqs /\ <<d, s>> \in job.old /\ s # job.pointer[d]
  /\ docRow[d] # "gone" => Enough(d, s)

PurgingVersions == {"vp_pins", "vp_tombstone", "vp_blob", "vp_record"}

\* The pointer read when the cycle began is the current one, or that is a newer version.
JobShape ==
  /\ job.pc \in {"vp_versions"} \cup PurgingVersions =>
       /\ job.old \subseteq aged
       /\ \A d \in Documents, s \in Seqs :
            <<d, s>> \in job.old /\ current[d] = s => job.pointer[d] = s
       /\ \A d \in job.todo : d \in Documents /\ docRow[d] # "unborn"
  /\ job.pc \in PurgingVersions => job.doc \in Documents /\ docRow[job.doc] # "unborn"
  /\ job.pc = "vp_pins" /\ docRow[job.doc] # "gone" =>
       job.seen \subseteq {v.seq : v \in LiveVersionsOf(job.doc)}
  /\ job.pc \in PurgingVersions \ {"vp_pins"} => \A s \in job.purge : Chosen(job.doc, s)
  /\ job.pc \in {"vp_blob", "vp_record"} =>
       job.seq \in Seqs /\ Used(job.doc, job.seq) /\ Purged(job.doc, job.seq)
  /\ job.pc \in {"rt_blobs", "rt_rows", "rt_record"} =>
       \A d \in job.todo : d \in Documents /\ Hidden(d)
  /\ job.pc \in {"rt_rows", "rt_record"} => job.doc \in Documents /\ Hidden(job.doc)
  /\ job.pc = "rt_record" => docRow[job.doc] = "gone"
  /\ job.pc \in {"rp_storage", "rp_rows"} => job.todo \subseteq erasures
  /\ job.pc = "rp_rows" =>
       /\ job.doc \in Documents
       /\ job.seq = 0 => docRow[job.doc] = "gone"
       /\ job.seq # 0 => job.seq \in Seqs /\ Used(job.doc, job.seq) /\ Purged(job.doc, job.seq)

ErasureInv == StoreInv /\ ErasureTypeOK /\ (\A x \in Deletes : DelShape(x)) /\ JobShape

\* What a delete read of its document stays true while others act.
LEMMA DelShapeLasts ==
  ASSUME Onward, NEW x \in Deletes, DelShape(x), del'[x] = del[x]
  PROVE  DelShape(x)'
  BY DEF Onward, DelShape, Hidden

\* A tombstone over an empty number lasts.
LEMMA PurgedLasts ==
  ASSUME Onward, NEW d \in Documents, NEW s \in Seqs, Used(d, s), Purged(d, s)
  PROVE  Used(d, s)' /\ Purged(d, s)'
  BY DEF Onward, Purged

\* So do N live versions above a chosen one, unless the document goes altogether.
LEMMA EnoughLasts ==
  ASSUME StoreInv', Onward, Kept, NEW d \in Documents, NEW s \in Seqs,
         docRow[d] # "gone" => Enough(d, s), docRow'[d] # "gone"
  PROVE  Enough(d, s)'
<1>1. docRow[d] # "gone" /\ LiveVersionsOf(d) \subseteq LiveVersionsOf(d)'
  BY DEF Onward, Kept
<1>2. IsFiniteSet(versions')
  BY DEF StoreInv
<1> QED BY <1>1, <1>2, LastNGrows DEF Enough

\* What the scheduler read and listed serves it however long it waits.
LEMMA JobShapeLasts ==
  ASSUME ErasureInv, StoreInv', Onward, Kept, job' = job
  PROVE  JobShape'
<1>1. \A d \in Documents : /\ docRow[d] # "unborn" => docRow'[d] # "unborn"
                           /\ docRow[d] = "gone" => docRow'[d] = "gone"
                           /\ Hidden(d) => Hidden(d)'
  BY DEF Onward
<1>2. job.pc \in {"vp_versions"} \cup PurgingVersions =>
        \A d \in Documents, s \in Seqs :
          <<d, s>> \in job.old /\ current'[d] = s => job.pointer[d] = s
  <2> SUFFICES ASSUME job.pc \in {"vp_versions"} \cup PurgingVersions,
                      NEW d \in Documents, NEW s \in Seqs, <<d, s>> \in job.old, current'[d] = s
               PROVE  job.pointer[d] = s
    OBVIOUS
  <2>1. Used(d, s)
    <3>1. <<d, s>> \in aged
      BY DEF ErasureInv, JobShape
    <3> QED BY <3>1 DEF ErasureInv, StoreInv, Numbered
  <2> QED BY <2>1 DEF Onward, ErasureInv, JobShape
<1>3. \A d \in Documents, s \in Seqs : Chosen(d, s) => Chosen(d, s)'
  BY EnoughLasts DEF Chosen
<1>4. \A d \in Documents : docRow'[d] # "gone" =>
        LiveVersionsOf(d) \subseteq LiveVersionsOf(d)' /\ docRow[d] # "gone"
  BY DEF Kept, Onward
<1>5. \A d \in Documents, s \in Seqs : Used(d, s) /\ Purged(d, s) => Used(d, s)' /\ Purged(d, s)'
  BY PurgedLasts
<1>6. JobShape
  BY DEF ErasureInv
<1>7. aged \subseteq aged' /\ erasures \subseteq erasures'
  BY DEF Onward
<1>8. job.pc \in PurgingVersions => job.doc \in Documents /\ docRow'[job.doc] # "unborn"
  BY <1>1, <1>6 DEF JobShape
<1>9. job.pc = "vp_pins" /\ docRow'[job.doc] # "gone" =>
        job.seen \subseteq {v.seq : v \in LiveVersionsOf(job.doc)'}
  BY <1>4, <1>6, <1>8 DEF JobShape, PurgingVersions
<1>10. job.pc \in PurgingVersions \ {"vp_pins"} => \A s \in job.purge : Chosen(job.doc, s)'
  <2> SUFFICES ASSUME job.pc \in PurgingVersions \ {"vp_pins"}, NEW s \in job.purge
               PROVE  Chosen(job.doc, s)'
    BY DEF Chosen
  <2>1. Chosen(job.doc, s) /\ job.doc \in Documents /\ s \in Seqs
    BY <1>6, <1>8 DEF JobShape, Chosen
  <2>2. PICK d \in Documents : d = job.doc
    BY <2>1
  <2>3. Chosen(d, s)'
    BY <1>3, <2>1, <2>2
  <2> QED BY <2>2, <2>3 DEF Chosen, Enough, LiveVersionsOf, VersionsOf
<1>11. job.pc \in {"vp_blob", "vp_record"} =>
         job.seq \in Seqs /\ Used(job.doc, job.seq)' /\ Purged(job.doc, job.seq)'
  <2> SUFFICES ASSUME job.pc \in {"vp_blob", "vp_record"}
               PROVE  job.seq \in Seqs /\ Used(job.doc, job.seq)' /\ Purged(job.doc, job.seq)'
    OBVIOUS
  <2>1. PICK d \in Documents, s \in Seqs : d = job.doc /\ s = job.seq
    BY <1>6, <1>8 DEF JobShape, PurgingVersions
  <2>2. Used(d, s)' /\ Purged(d, s)'
    BY <1>5, <1>6, <2>1 DEF JobShape
  <2> QED BY <2>1, <2>2 DEF Used, Purged, Holds
<1>12. job.pc \in {"rt_blobs", "rt_rows", "rt_record"} =>
         \A d \in job.todo : d \in Documents /\ Hidden(d)'
  BY <1>1, <1>6 DEF JobShape
<1>13. job.pc \in {"rt_rows", "rt_record"} => job.doc \in Documents /\ Hidden(job.doc)'
  BY <1>1, <1>6 DEF JobShape, Hidden
<1>14. job.pc = "rp_rows" =>
         /\ job.doc \in Documents
         /\ job.seq = 0 => docRow'[job.doc] = "gone"
         /\ job.seq # 0 => job.seq \in Seqs /\ Used(job.doc, job.seq)' /\ Purged(job.doc, job.seq)'
  <2> SUFFICES ASSUME job.pc = "rp_rows"
               PROVE  /\ job.doc \in Documents
                      /\ job.seq = 0 => docRow'[job.doc] = "gone"
                      /\ job.seq # 0 => /\ job.seq \in Seqs /\ Used(job.doc, job.seq)'
                                        /\ Purged(job.doc, job.seq)'
    OBVIOUS
  <2>1. PICK d \in Documents : d = job.doc
    BY <1>6 DEF JobShape
  <2>2. PICK s : s = job.seq
    OBVIOUS
  <2>3. s # 0 => s \in Seqs /\ Used(d, s)' /\ Purged(d, s)'
    BY <1>5, <1>6, <2>1, <2>2 DEF JobShape
  <2> QED BY <1>1, <1>6, <2>1, <2>2, <2>3 DEF JobShape, Used, Purged, Holds
<1>15. /\ job.pc = "rt_record" => docRow'[job.doc] = "gone"
       /\ job.pc \in {"rp_storage", "rp_rows"} => job.todo \subseteq erasures'
       /\ job.pc \in {"vp_versions"} \cup PurgingVersions =>
            /\ job.old \subseteq aged'
            /\ \A d \in job.todo : d \in Documents /\ docRow'[d] # "unborn"
  BY <1>1, <1>6, <1>7, <1>13 DEF JobShape
<1> QED BY <1>2, <1>8, <1>9, <1>10, <1>11, <1>12, <1>13, <1>14, <1>15
        DEF JobShape, Used, Purged, Holds, Hidden, Chosen, Enough, LiveVersionsOf, VersionsOf

-----------------------------------------------------------------------------
(* The steps of uploads and of comments.                                    *)

\* A step of nobody keeps everything.
LEMMA NothingHappens ==
  ASSUME StoreInv, UNCHANGED <<uploadVars, aged, erasures>>
  PROVE  StoreInv' /\ Onward /\ Kept
<1>1. aged \subseteq Keys /\ erasures \subseteq Events
  BY DEF StoreInv
<1> QED BY <1>1, NotesKeep

\* Every step of a request, the gate's to the rollback's.
LEMMA UploadKeeps ==
  ASSUME StoreInv, NEW r \in Requests, UploadStep(r), UNCHANGED <<aged, erasures>>
  PROVE  StoreInv' /\ Onward /\ Kept
<1>0. UploadTypeOK /\ comment \in [Comments -> CommentRow] /\ HolderShape(r)
  BY DEF StoreInv, UploadsTypeOK, StoreTypeOK
<1>1. ASSUME NEW d \in Documents, NEW h \in Contents, CreateGate(r, d, h)
      PROVE  StoreInv' /\ Onward /\ Kept
  BY <1>1, CreateReserves
<1>2. ASSUME NEW d \in Documents, NEW h \in Contents, PushGate(r, d, h)
      PROVE  StoreInv' /\ Onward /\ Kept
  BY <1>2, PushReserves
<1>3. ASSUME NEW d \in Documents, NEW h \in Contents, PushDedup(r, d, h)
      PROVE  StoreInv' /\ Onward /\ Kept
  <2>1. /\ \A q \in Requests : q # r => req'[q] = req[q]
        /\ req[r].pc = "idle" /\ req'[r].pc = "dedup"
        /\ UploadTypeOK'
    BY <1>0, <1>3, MaxSeqAssumption DEF PushDedup, UploadTypeOK, UploadStates
  <2>2. Released
    BY <2>1 DEF Released, UploadTypeOK
  <2> QED BY <1>0, <1>3, <2>1, <2>2, CallsEnd DEF PushDedup, storeVars, Holds
<1>4. ASSUME PutBlob(r)
      PROVE  StoreInv' /\ Onward /\ Kept
  BY <1>4, PutKeeps DEF PutBlob
<1>5. ASSUME PutThrows(r)
      PROVE  StoreInv' /\ Onward /\ Kept
  <2>1. CASE UNCHANGED blobs
    BY <1>5, <2>1, ThrowKeeps DEF PutThrows, Holds
  <2>2. CASE put(req[r].doc, req[r].seq, req[r].hash)
    BY <1>5, <2>2, PutKeeps DEF PutThrows
  <2> QED BY <1>5, <2>1, <2>2 DEF PutThrows
<1>6. ASSUME Finalize(r)
      PROVE  StoreInv' /\ Onward /\ Kept
  BY <1>6, InsertKeeps DEF Finalize
<1>7. ASSUME FinalizeThrows(r)
      PROVE  StoreInv' /\ Onward /\ Kept
  <2>1. CASE UNCHANGED <<versions, current, indexed>>
    BY <1>7, <2>1, ThrowKeeps DEF FinalizeThrows, Holds
  <2>2. CASE FinalizeTx(r)
    BY <1>7, <2>2, InsertKeeps DEF FinalizeThrows
  <2> QED BY <1>7, <2>1, <2>2 DEF FinalizeThrows
<1>8. ASSUME Rollback(r)
      PROVE  StoreInv' /\ Onward /\ Kept
  <2>1. PICK d \in Documents : d = req[r].doc /\ docRow[d] # "unborn"
    BY <1>0, <1>8 DEF Rollback, HolderShape
  <2>2. Moves(r, "failed")
    BY <1>0, <1>8, EndMoves DEF Rollback, UploadStates
  <2> QED BY <1>8, <2>1, <2>2, PurgeKeeps DEF Rollback, Moves
<1>9. ASSUME RollbackThrows(r)
      PROVE  StoreInv' /\ Onward /\ Kept
  <2>1. Moves(r, "leaked") /\ req[r].pc = "rollback"
    BY <1>0, <1>9, EndMoves DEF RollbackThrows, UploadStates
  <2>2. Released
    BY <2>1 DEF Released, Moves, UploadTypeOK
  <2>3. \A q \in Requests : req[q].kind = "create" /\ req[q].pc \in Unfinished =>
          req'[q].kind = "create" /\ req'[q].doc = req[q].doc /\ req'[q].pc \in Unfinished
    BY <2>1 DEF Moves
  <2> QED BY <1>0, <1>9, <2>2, <2>3, CallsEnd DEF RollbackThrows, storeVars
<1> QED BY <1>1, <1>2, <1>3, <1>4, <1>5, <1>6, <1>7, <1>8, <1>9 DEF UploadStep

\* Comments are drafted, posted, closed and cascaded away around the sweeps.
LEMMA DiscussKeeps ==
  ASSUME StoreInv, Discuss
  PROVE  StoreInv' /\ Onward /\ Kept
<1>0. /\ comment \in [Comments -> CommentRow] /\ current \in [Documents -> 0 .. MaxSeq]
      /\ \A d \in Documents : Emptied(d)
  BY DEF StoreInv, UploadsTypeOK, StoreTypeOK
<1>1. /\ UNCHANGED <<docRow, nextSeq, current, indexed, versions, blobs, req, aged, erasures>>
      /\ Released
  BY DEF Discuss, DraftComment, InsertComment, ResolveComment, Released, StoreInv, UploadsTypeOK,
         UploadTypeOK
<1>2. PICK c \in Comments :
        (\E d \in Documents : DraftComment(c, d)) \/ InsertComment(c) \/ ResolveComment(c)
  BY DEF Discuss
<1>3. /\ comment' \in [Comments -> CommentRow]
      /\ \A k \in Comments : k # c => comment'[k] = comment[k]
      /\ \/ comment'[c].status \in {"none", "drafted"}
         \/ \A d \in Documents : comment'[c].doc = d => docRow[d] # "gone"
  <2>1. CASE \E d \in Documents : DraftComment(c, d)
    BY <1>0, <2>1 DEF DraftComment, CommentRow
  <2>2. CASE InsertComment(c)
    <3>1. CASE \E v \in VersionsOf(comment[c].doc) : v.seq = comment[c].seq
      <4>1. comment' = [comment EXCEPT ![c] = [@ EXCEPT !.status = "open"]]
        BY <2>2, <3>1 DEF InsertComment
      <4>2. comment[c].doc \in Documents /\ VersionsOf(comment[c].doc) # {}
        BY <3>1 DEF VersionsOf, StoreInv, UploadsTypeOK, StoreTypeOK, VersionRow
      <4>3. docRow[comment[c].doc] # "gone"
        BY <1>0, <4>2 DEF Emptied, VersionsOf
      <4> QED BY <1>0, <4>1, <4>2, <4>3 DEF CommentRow
    <3>2. CASE ~ \E v \in VersionsOf(comment[c].doc) : v.seq = comment[c].seq
      <4>1. comment' = [comment EXCEPT ![c] = NoComment]
        BY <2>2, <3>2 DEF InsertComment
      <4> QED BY <1>0, <4>1, MaxSeqAssumption DEF CommentRow, NoComment
    <3> QED BY <3>1, <3>2
  <2>3. CASE ResolveComment(c)
    <3>1. /\ comment[c].status = "open"
          /\ comment' = [comment EXCEPT ![c] = [@ EXCEPT !.status = "resolved"]]
      BY <2>3 DEF ResolveComment
    <3>2. \A d \in Documents : comment[c].doc = d => docRow[d] # "gone"
      BY <1>0, <3>1 DEF Emptied
    <3> QED BY <1>0, <3>1, <3>2 DEF CommentRow
  <2> QED BY <1>2, <2>1, <2>2, <2>3
<1> QED BY <1>1, <1>3, CallsEnd DEF Holds, Released, HolderShape, StoreInv

-----------------------------------------------------------------------------
(* The steps of deletes and of the scheduler.                               *)

\* The scheduler and the deletes stand still.
LEMMA OthersWait ==
  ASSUME ErasureInv, StoreInv', Onward, Kept, UNCHANGED <<del, jobVars>>
  PROVE  ErasureInv'
<1>1. ErasureTypeOK'
  BY DEF ErasureInv, StoreInv, ErasureTypeOK, jobVars
<1>2. \A x \in Deletes : DelShape(x)'
  BY DelShapeLasts DEF ErasureInv
<1>3. JobShape'
  BY JobShapeLasts DEF jobVars
<1> QED BY <1>1, <1>2, <1>3 DEF ErasureInv

\* One delete goes on.
LEMMA DeleteMoves ==
  ASSUME ErasureInv, StoreInv', Onward, Kept, NEW x \in Deletes, UNCHANGED jobVars,
         del' \in [Deletes -> [pc : {"idle", "soft", "blobs", "rows", "record", "done"},
                               doc : Documents \cup {None}]],
         \A y \in Deletes : y # x => del'[y] = del[y],
         DelShape(x)'
  PROVE  ErasureInv'
<1>1. ErasureTypeOK'
  BY DEF ErasureInv, StoreInv, ErasureTypeOK, jobVars
<1>2. \A y \in Deletes : DelShape(y)'
  BY DelShapeLasts DEF ErasureInv
<1>3. JobShape'
  BY JobShapeLasts DEF jobVars
<1> QED BY <1>1, <1>2, <1>3 DEF ErasureInv

\* A user's delete, its transactions apart.
LEMMA DeleteKeeps ==
  ASSUME ErasureInv, NEW x \in Deletes, Delete(x)
  PROVE  ErasureInv'
<1> DEFINE Labels == {"idle", "soft", "blobs", "rows", "record", "done"}
<1>0. /\ del \in [Deletes -> [pc : Labels, doc : Documents \cup {None}]]
      /\ StoreInv /\ DelShape(x)
      /\ docRow \in [Documents -> DocStates]
      /\ UploadTypeOK
  BY DEF ErasureInv, ErasureTypeOK, StoreInv, UploadsTypeOK, StoreTypeOK
<1>1. ASSUME NEW d \in Documents, DeleteCheck(x, d)
      PROVE  ErasureInv'
  <2>1. StoreInv' /\ Onward /\ Kept
    BY <1>0, <1>1, NothingHappens DEF DeleteCheck
  <2>2. /\ del' = [del EXCEPT ![x] = [pc |-> "soft", doc |-> d]] /\ docRow[d] = "live"
        /\ UNCHANGED jobVars /\ docRow' = docRow
    BY <1>1 DEF DeleteCheck, uploadVars, storeVars
  <2>3. del' \in [Deletes -> [pc : Labels, doc : Documents \cup {None}]]
    BY <1>0, <2>2
  <2>4. DelShape(x)'
    BY <1>0, <2>2 DEF DelShape
  <2> QED BY <1>0, <2>1, <2>2, <2>3, <2>4, DeleteMoves
<1>2. ASSUME NEW immediately \in BOOLEAN, SoftDelete(x, immediately)
      PROVE  ErasureInv'
  <2>1. PICK d \in Documents : d = del[x].doc /\ docRow[d] # "unborn"
    BY <1>0, <1>2 DEF SoftDelete, DelShape
  <2>2. /\ UNCHANGED <<nextSeq, current, indexed, versions, comment, blobs, req, aged, erasures>>
        /\ docRow' = [docRow EXCEPT ![d] =
             IF @ # "live" THEN @ ELSE IF immediately THEN "due" ELSE "deleted"]
        /\ del' = [del EXCEPT ![x].pc = IF immediately THEN "blobs" ELSE "done"]
        /\ UNCHANGED jobVars
    BY <1>2, <2>1 DEF SoftDelete, DeleteGoto
  <2>3. StoreInv' /\ Onward /\ Kept
    <3>1. CASE docRow[d] = "live"
      <4>1. PICK state \in {"deleted", "due"} : docRow' = [docRow EXCEPT ![d] = state]
        BY <2>2, <3>1
      <4> QED BY <1>0, <2>2, <3>1, <4>1, HideKeeps
    <3>2. CASE docRow[d] # "live"
      <4>1. docRow' = docRow
        BY <1>0, <2>2, <3>2
      <4> QED BY <1>0, <2>2, <4>1, NothingHappens DEF uploadVars, storeVars
    <3> QED BY <3>1, <3>2
  <2>4. docRow'[d] \notin {"unborn", "live"}
    BY <1>0, <2>1, <2>2 DEF DocStates
  <2>5. del' \in [Deletes -> [pc : Labels, doc : Documents \cup {None}]]
    BY <1>0, <2>2
  <2>6. del'[x].doc = d /\ del'[x].pc \in {"blobs", "done"}
    BY <1>0, <2>1, <2>2
  <2>7. DelShape(x)'
    BY <1>0, <2>2, <2>4, <2>6 DEF DelShape, Hidden, DocStates
  <2> QED BY <1>0, <2>2, <2>3, <2>5, <2>7, DeleteMoves
<1>3. ASSUME DeleteBlobs(x)
      PROVE  ErasureInv'
  <2>1. PICK d \in Documents : d = del[x].doc /\ Hidden(d)
    BY <1>0, <1>3 DEF DeleteBlobs, DelShape
  <2>2. /\ UNCHANGED <<docRow, nextSeq, current, indexed, versions, comment, req, aged, erasures>>
        /\ blobs' = {b \in blobs : b.doc # d}
        /\ del' = [del EXCEPT ![x].pc = "rows"]
        /\ UNCHANGED jobVars
    BY <1>3, <2>1 DEF DeleteBlobs, DeleteGoto, deleteObjectsOf
  <2>3. StoreInv' /\ Onward /\ Kept
    BY <1>0, <2>1, <2>2, ObjectsGo DEF Hidden
  <2>4. del' \in [Deletes -> [pc : Labels, doc : Documents \cup {None}]]
    BY <1>0, <2>2
  <2>5. del'[x].doc = d /\ del'[x].pc = "rows"
    BY <1>0, <2>1, <2>2
  <2>6. DelShape(x)'
    BY <2>1, <2>2, <2>5 DEF DelShape, Hidden
  <2> QED BY <1>0, <2>2, <2>3, <2>4, <2>6, DeleteMoves
<1>4. ASSUME DeleteRows(x)
      PROVE  ErasureInv'
  <2>1. PICK d \in Documents : d = del[x].doc /\ Hidden(d)
    BY <1>0, <1>4 DEF DeleteRows, DelShape
  <2>2. /\ UNCHANGED <<nextSeq, blobs, req, aged, erasures>>
        /\ purgeDocument(d)
        /\ del' = [del EXCEPT ![x].pc = "record"]
        /\ UNCHANGED jobVars
    BY <1>4, <2>1 DEF DeleteRows, DeleteGoto
  <2>3. StoreInv' /\ Onward /\ Kept /\ docRow'[d] = "gone"
    BY <1>0, <2>1, <2>2, PurgeKeeps DEF Hidden, UploadTypeOK
  <2>4. del' \in [Deletes -> [pc : Labels, doc : Documents \cup {None}]]
    BY <1>0, <2>2
  <2>5. del'[x].doc = d /\ del'[x].pc = "record"
    BY <1>0, <2>1, <2>2
  <2>6. DelShape(x)'
    BY <2>3, <2>5 DEF DelShape, Hidden
  <2> QED BY <1>0, <2>2, <2>3, <2>4, <2>6, DeleteMoves
<1>5. ASSUME DeleteRecord(x)
      PROVE  ErasureInv'
  <2>1. PICK d \in Documents : d = del[x].doc /\ docRow[d] = "gone"
    BY <1>0, <1>5 DEF DeleteRecord, DelShape
  <2>2. /\ UNCHANGED <<uploadVars, aged, jobVars>>
        /\ erasures' = erasures \cup {DocumentPurge(d)}
        /\ del' = [del EXCEPT ![x].pc = "done"]
    BY <1>5, <2>1 DEF DeleteRecord, DeleteGoto
  <2>3. StoreInv' /\ Onward /\ Kept
    <3>1. erasures' \subseteq Events /\ aged \subseteq Keys
      BY <1>0, <2>2 DEF StoreInv, Events
    <3>2. DocumentPurge(d).kind = "document_purge" /\ DocumentPurge(d).doc = d
      BY DEF DocumentPurge
    <3> QED BY <1>0, <2>1, <2>2, <3>1, <3>2, NotesKeep
  <2>4. del' \in [Deletes -> [pc : Labels, doc : Documents \cup {None}]]
    BY <1>0, <2>2
  <2>5. del'[x].doc = d /\ del'[x].pc = "done" /\ docRow' = docRow
    BY <1>0, <2>1, <2>2 DEF uploadVars, storeVars
  <2>6. DelShape(x)'
    BY <2>1, <2>5 DEF DelShape, Hidden
  <2> QED BY <1>0, <2>2, <2>3, <2>4, <2>6, DeleteMoves
<1> QED BY <1>1, <1>2, <1>3, <1>4, <1>5 DEF Delete

JobType == [pc : JobLabels, old : SUBSET Keys, pointer : [Documents -> 0 .. MaxSeq],
            seen : SUBSET Seqs, doc : Documents \cup {None}, seq : 0 .. MaxSeq,
            todo : SUBSET (Documents \cup Events), purge : SUBSET Seqs]

\* A step of the scheduler that only moves on.
LEMMA JobMoves ==
  ASSUME ErasureInv, StoreInv', Onward, del' = del, faults' \in 0 .. MaxFaults,
         job' \in JobType, JobShape'
  PROVE  ErasureInv'
<1>1. ErasureTypeOK'
  BY DEF ErasureInv, StoreInv, ErasureTypeOK, JobType
<1>2. \A x \in Deletes : DelShape(x)'
  BY DelShapeLasts DEF ErasureInv
<1> QED BY <1>1, <1>2 DEF ErasureInv

\* The types a step of the scheduler starts from.
LEMMA JobTyped ==
  ASSUME ErasureInv
  PROVE  /\ job \in JobType /\ NewCycle \in JobType /\ faults \in 0 .. MaxFaults
         /\ docRow \in [Documents -> DocStates] /\ current \in [Documents -> 0 .. MaxSeq]
         /\ aged \subseteq Keys /\ erasures \subseteq Events /\ versions \subseteq VersionRow
         /\ UploadTypeOK
  BY MaxSeqAssumption
     DEF ErasureInv, ErasureTypeOK, StoreInv, UploadsTypeOK, StoreTypeOK, JobType, NewCycle,
         JobLabels

\* Each sweep begins with nothing in hand.
LEMMA SweepEnds ==
  ASSUME ErasureInv, UNCHANGED <<uploadVars, del, erasures, aged>>, faults' \in 0 .. MaxFaults,
         job' \in {NewCycle, AfterVersionPurge, AfterRetention}
  PROVE  ErasureInv'
<1>1. StoreInv' /\ Onward
  BY NothingHappens DEF ErasureInv
<1>2. job' \in JobType
  BY JobTyped DEF AfterVersionPurge, AfterRetention, JobType, JobLabels
<1>3. job'.pc \in {"cycle", "rt_list", "rp_list"}
  BY DEF AfterVersionPurge, AfterRetention, NewCycle
<1>4. JobShape'
  BY <1>3 DEF JobShape, PurgingVersions
<1> QED BY <1>1, <1>2, <1>4, JobMoves

\* What was listed and is above s is still there.
LEMMA SeenIsEnough ==
  ASSUME StoreInv, NEW d \in Documents, NEW S \in SUBSET Seqs, NEW s \in Seqs,
         S \subseteq {v.seq : v \in LiveVersionsOf(d)},
         Cardinality({t \in S : t > s}) >= KeepLastN
  PROVE  Enough(d, s)
<1> DEFINE Seen == {t \in S : t > s}
           Rows == {w \in LiveVersionsOf(d) : w.seq \in S /\ w.seq > s}
           Above == {w \in LiveVersionsOf(d) : w.seq > s}
           f == [w \in Rows |-> w.seq]
<1>1. IsFiniteSet(Above) /\ Rows \subseteq Above
  BY FS_Subset DEF StoreInv, LiveVersionsOf, VersionsOf
<1>2. f \in Surjection(Rows, Seen)
  <2>1. \A t \in Seen : \E w \in Rows : f[w] = t
    OBVIOUS
  <2> QED BY <2>1 DEF Surjection
<1> HIDE DEF Seen, Rows, Above, f
<1>3. /\ IsFiniteSet(Rows) /\ IsFiniteSet(Seen)
      /\ Cardinality(Seen) <= Cardinality(Rows) /\ Cardinality(Rows) <= Cardinality(Above)
  BY <1>1, <1>2, FS_Subset, FS_Surjection
<1>4. Cardinality(Seen) \in Nat /\ Cardinality(Rows) \in Nat /\ Cardinality(Above) \in Nat
  BY <1>1, <1>3, FS_CardinalityType
<1>5. Cardinality(Seen) >= KeepLastN
  BY DEF Seen
<1>6. Cardinality(Above) >= KeepLastN
  BY <1>3, <1>4, <1>5, KeepLastNAssumption
<1> QED BY <1>6 DEF Enough, Above

\* The version purge: choose, tombstone, delete the object, log.
LEMMA VersionPurgeKeeps ==
  ASSUME ErasureInv, StartCycle \/ VersionPurgeSweep
  PROVE  ErasureInv'
<1>0. /\ StoreInv /\ JobShape /\ job \in JobType /\ faults \in 0 .. MaxFaults
      /\ docRow \in [Documents -> DocStates] /\ current \in [Documents -> 0 .. MaxSeq]
      /\ aged \subseteq Keys /\ erasures \subseteq Events /\ versions \subseteq VersionRow
      /\ NewCycle \in JobType /\ 0 \in 0 .. MaxSeq
  BY JobTyped, MaxSeqAssumption DEF ErasureInv
<1>1. ASSUME StartCycle
      PROVE  ErasureInv'
  <2>1. /\ UNCHANGED <<uploadVars, del, erasures, aged, faults>>
        /\ job' = [NewCycle EXCEPT !.pc = "vp_versions", !.old = aged, !.pointer = current,
                                   !.todo = {d \in Documents : docRow[d] = "live"}]
    BY <1>1 DEF StartCycle, JobStep, uploadVars, storeVars
  <2>2. StoreInv' /\ Onward
    BY <1>0, <2>1, NothingHappens
  <2>3. job' \in JobType
    BY <1>0, <2>1 DEF JobType, JobLabels
  <2>4. /\ job'.pc = "vp_versions" /\ job'.old = aged /\ job'.pointer = current
        /\ job'.todo = {d \in Documents : docRow[d] = "live"}
    BY <2>1 DEF NewCycle
  <2>5. JobShape'
    BY <2>1, <2>4 DEF JobShape, PurgingVersions, uploadVars, storeVars
  <2> QED BY <1>0, <2>1, <2>2, <2>3, <2>5, JobMoves
<1>2. ASSUME NEW d \in Documents, ListVersions(d)
      PROVE  ErasureInv'
  <2>1. /\ UNCHANGED <<uploadVars, del, erasures, aged, faults>>
        /\ job.pc = "vp_versions" /\ d \in job.todo
        /\ job' = [job EXCEPT !.pc = "vp_pins", !.doc = d, !.todo = @ \ {d},
                              !.seen = {v.seq : v \in LiveVersionsOf(d)}]
    BY <1>2 DEF ListVersions, JobStep, uploadVars, storeVars
  <2>2. StoreInv' /\ Onward
    BY <1>0, <2>1, NothingHappens
  <2>3. {v.seq : v \in LiveVersionsOf(d)} \subseteq Seqs
    BY <1>0 DEF LiveVersionsOf, VersionsOf, VersionRow
  <2>4. job' \in JobType
    BY <1>0, <2>1, <2>3 DEF JobType, JobLabels
  <2>5. /\ job'.pc = "vp_pins" /\ job'.old = job.old /\ job'.pointer = job.pointer
        /\ job'.todo = job.todo \ {d} /\ job'.doc = d
        /\ job'.seen = {v.seq : v \in LiveVersionsOf(d)}
    BY <1>0, <2>1 DEF JobType
  <2>6. JobShape'
    BY <1>0, <2>1, <2>5
       DEF JobShape, PurgingVersions, uploadVars, storeVars, LiveVersionsOf, VersionsOf
  <2> QED BY <1>0, <2>1, <2>2, <2>4, <2>6, JobMoves
<1>3. ASSUME ListPins
      PROVE  ErasureInv'
  <2>1. PICK d \in Documents : d = job.doc
    BY <1>0, <1>3 DEF ListPins, JobStep, JobShape, PurgingVersions
  <2> DEFINE chosen == selectVersionsToPurge(job.seen, {s \in Seqs : <<d, s>> \in job.old},
                                             job.pointer[d], openCommentVersionIds(d))
  <2>2. /\ UNCHANGED <<uploadVars, del, erasures, aged, faults>>
        /\ job.pc = "vp_pins"
        /\ job' = [job EXCEPT !.pc = "vp_tombstone", !.purge = chosen]
    BY <1>3, <2>1 DEF ListPins, JobStep, uploadVars, storeVars
  <2>3. StoreInv' /\ Onward
    BY <1>0, <2>2, NothingHappens
  <2>4. chosen \subseteq Seqs
    BY DEF selectVersionsToPurge
  <2>5. \A s \in chosen : Chosen(d, s)
    <3> SUFFICES ASSUME NEW s \in chosen PROVE Chosen(d, s)
      OBVIOUS
    <3>1. /\ s \in Seqs /\ <<d, s>> \in job.old /\ s # job.pointer[d]
          /\ Cardinality({t \in job.seen : t > s}) >= KeepLastN
      BY DEF selectVersionsToPurge
    <3>2. docRow[d] # "gone" => Enough(d, s)
      <4>1. job.seen \in SUBSET Seqs
        BY <1>0 DEF JobType
      <4>2. docRow[d] # "gone" => job.seen \subseteq {v.seq : v \in LiveVersionsOf(d)}
        BY <1>0, <2>1, <2>2 DEF JobShape
      <4> QED BY <1>0, <3>1, <4>1, <4>2, SeenIsEnough
    <3> QED BY <3>1, <3>2 DEF Chosen
  <2> HIDE DEF chosen
  <2>6. job' \in JobType
    BY <1>0, <2>2, <2>4 DEF JobType, JobLabels
  <2>7. /\ job'.pc = "vp_tombstone" /\ job'.old = job.old /\ job'.pointer = job.pointer
        /\ job'.todo = job.todo /\ job'.doc = d /\ job'.purge = chosen
    BY <1>0, <2>1, <2>2 DEF JobType
  <2>8. JobShape'
    BY <1>0, <2>1, <2>2, <2>5, <2>7
       DEF JobShape, PurgingVersions, Chosen, Enough, uploadVars, storeVars, LiveVersionsOf,
           VersionsOf
  <2> QED BY <1>0, <2>2, <2>3, <2>6, <2>8, JobMoves
<1>4. ASSUME NEW s \in Seqs, Tombstone(s)
      PROVE  ErasureInv'
  <2>1. PICK d \in Documents : d = job.doc /\ docRow[d] # "unborn"
    BY <1>0, <1>4 DEF Tombstone, JobStep, JobShape, PurgingVersions
  <2>2. /\ UNCHANGED <<docRow, nextSeq, current, comment, blobs, req, del, erasures, aged, faults>>
        /\ job.pc = "vp_tombstone" /\ s \in job.purge
        /\ \A t \in job.purge : s <= t
    BY <1>4 DEF Tombstone, JobStep
  <2>3. Chosen(d, s) /\ \A t \in job.purge : Chosen(d, t)
    BY <1>0, <2>1, <2>2 DEF JobShape, PurgingVersions
  <2>4. CASE \E v \in LiveVersionsOf(d) : v.seq = s
    <3>1. /\ tombstone(d, s)
          /\ job' = [job EXCEPT !.pc = "vp_blob", !.seq = s, !.purge = @ \ {s}]
      BY <1>4, <2>1, <2>4 DEF Tombstone
    <3>2. docRow[d] # "gone" => Enough(d, s) /\ current[d] # s
      BY <1>0, <2>2, <2>3 DEF JobShape, PurgingVersions, Chosen
    <3>3. /\ StoreInv' /\ Onward /\ Purged(d, s)'
          /\ \A t \in Seqs : t >= s => {w \in LiveVersionsOf(d)' : w.seq > t}
                                         = {w \in LiveVersionsOf(d) : w.seq > t}
      BY <1>0, <2>1, <2>2, <3>1, <3>2, TombstoneKeeps
    <3>4. Used(d, s)'
      <4>1. Used(d, s)
        BY <1>0, <2>2, <2>3 DEF JobShape, PurgingVersions, Chosen, StoreInv, Numbered
      <4> QED BY <3>3, <4>1 DEF Onward
    <3>5. job' \in JobType
      <4>1. s \in 0 .. MaxSeq
        BY MaxSeqAssumption
      <4> QED BY <1>0, <3>1, <4>1 DEF JobType, JobLabels
    <3>6. /\ job'.pc = "vp_blob" /\ job'.old = job.old /\ job'.pointer = job.pointer
          /\ job'.todo = job.todo /\ job'.doc = d /\ job'.purge = job.purge \ {s} /\ job'.seq = s
      BY <1>0, <2>1, <3>1 DEF JobType
    <3>7. \A t \in job.purge : docRow[d] # "gone" => Enough(d, t)'
      BY <2>2, <2>3, <3>3 DEF Chosen, Enough
    <3>8. \A t \in job.purge \ {s} : Chosen(job.doc, t)'
      BY <2>2, <2>3, <3>6, <3>7 DEF Chosen, Enough, LiveVersionsOf, VersionsOf
    <3>9. JobShape'
      BY <1>0, <2>1, <2>2, <3>3, <3>4, <3>6, <3>8
         DEF JobShape, PurgingVersions, Used, Purged, Holds
    <3> QED BY <2>2, <3>3, <3>5, <3>9, JobMoves, <1>0
  <2>5. CASE ~ \E v \in LiveVersionsOf(d) : v.seq = s
    <3>1. /\ UNCHANGED <<versions, indexed>>
          /\ job' = [job EXCEPT !.purge = @ \ {s}]
      BY <1>4, <2>1, <2>5 DEF Tombstone
    <3>2. StoreInv' /\ Onward
      BY <1>0, <2>2, <3>1, NothingHappens DEF uploadVars, storeVars
    <3>3. job' \in JobType
      BY <1>0, <3>1 DEF JobType
    <3>4. /\ job'.pc = "vp_tombstone" /\ job'.old = job.old /\ job'.pointer = job.pointer
          /\ job'.todo = job.todo /\ job'.doc = d /\ job'.purge = job.purge \ {s}
      BY <1>0, <2>1, <2>2, <3>1 DEF JobType
    <3>5. JobShape'
      BY <1>0, <2>1, <2>2, <2>3, <3>1, <3>4
         DEF JobShape, PurgingVersions, Chosen, Enough, LiveVersionsOf, VersionsOf
    <3> QED BY <1>0, <2>2, <3>2, <3>3, <3>5, JobMoves
  <2> QED BY <2>4, <2>5
<1>5. ASSUME DeleteVersionBlob
      PROVE  ErasureInv'
  <2>1. PICK d \in Documents, s \in Seqs :
          d = job.doc /\ s = job.seq /\ Used(d, s) /\ Purged(d, s)
    BY <1>0, <1>5 DEF DeleteVersionBlob, JobStep, JobShape, PurgingVersions
  <2>2. /\ UNCHANGED <<docRow, nextSeq, current, indexed, versions, comment, req>>
        /\ UNCHANGED <<del, erasures, aged, faults>>
        /\ job.pc = "vp_blob" /\ job' = [job EXCEPT !.pc = "vp_record"]
        /\ blobs' = {b \in blobs : ~(b.doc = d /\ b.seq = s)}
    BY <1>5, <2>1 DEF DeleteVersionBlob, JobStep, deleteObject
  <2>3. StoreInv' /\ Onward
    BY <1>0, <2>1, <2>2, ObjectsGo
  <2>4. job' \in JobType
    BY <1>0, <2>2 DEF JobType, JobLabels
  <2>5. /\ job'.pc = "vp_record" /\ job'.old = job.old /\ job'.pointer = job.pointer
        /\ job'.todo = job.todo /\ job'.doc = d /\ job'.purge = job.purge /\ job'.seq = s
    BY <1>0, <2>1, <2>2 DEF JobType
  <2>6. JobShape'
    BY <1>0, <2>1, <2>2, <2>5
       DEF JobShape, PurgingVersions, Chosen, Enough, LiveVersionsOf, VersionsOf, Used, Purged,
           Holds
  <2> QED BY <1>0, <2>2, <2>3, <2>4, <2>6, JobMoves
<1>6. ASSUME RecordVersionPurge
      PROVE  ErasureInv'
  <2>1. PICK d \in Documents, s \in Seqs :
          d = job.doc /\ s = job.seq /\ Used(d, s) /\ Purged(d, s)
    BY <1>0, <1>6 DEF RecordVersionPurge, JobStep, JobShape, PurgingVersions
  <2>2. /\ UNCHANGED <<uploadVars, del, aged, faults>>
        /\ job.pc = "vp_record" /\ job' = [job EXCEPT !.pc = "vp_tombstone"]
        /\ erasures' = erasures \cup {VersionPurge(d, s)}
    BY <1>6, <2>1 DEF RecordVersionPurge, JobStep, uploadVars, storeVars
  <2>3. StoreInv' /\ Onward
    <3>1. erasures' \subseteq Events
      BY <1>0, <2>2 DEF Events
    <3>2. /\ VersionPurge(d, s).kind = "version_purge" /\ VersionPurge(d, s).doc = d
          /\ VersionPurge(d, s).seq = s
      BY DEF VersionPurge
    <3> QED BY <1>0, <2>1, <2>2, <3>1, <3>2, NotesKeep
  <2>4. job' \in JobType
    BY <1>0, <2>2 DEF JobType, JobLabels
  <2>5. /\ job'.pc = "vp_tombstone" /\ job'.old = job.old /\ job'.pointer = job.pointer
        /\ job'.todo = job.todo /\ job'.doc = d /\ job'.purge = job.purge
    BY <1>0, <2>1, <2>2 DEF JobType
  <2>6. JobShape'
    BY <1>0, <2>1, <2>2, <2>5
       DEF JobShape, PurgingVersions, Chosen, Enough, LiveVersionsOf, VersionsOf, uploadVars,
           storeVars
  <2> QED BY <1>0, <2>2, <2>3, <2>4, <2>6, JobMoves
<1>7. ASSUME NextDocument
      PROVE  ErasureInv'
  <2>1. /\ UNCHANGED <<uploadVars, del, erasures, aged, faults>>
        /\ job.pc = "vp_tombstone"
        /\ job' = [job EXCEPT !.pc = "vp_versions", !.doc = None, !.seq = 0, !.seen = {}]
    BY <1>7 DEF NextDocument, JobStep, uploadVars, storeVars
  <2>2. StoreInv' /\ Onward
    BY <1>0, <2>1, NothingHappens
  <2>3. job' \in JobType
    BY <1>0, <2>1 DEF JobType, JobLabels
  <2>4. /\ job'.pc = "vp_versions" /\ job'.old = job.old /\ job'.pointer = job.pointer
        /\ job'.todo = job.todo
    BY <1>0, <2>1 DEF JobType
  <2>5. JobShape'
    BY <1>0, <2>1, <2>4 DEF JobShape, PurgingVersions, uploadVars, storeVars
  <2> QED BY <1>0, <2>1, <2>2, <2>3, <2>5, JobMoves
<1>8. ASSUME VersionPurgeDone
      PROVE  ErasureInv'
  BY <1>0, <1>8, SweepEnds DEF VersionPurgeDone, JobStep, uploadVars, storeVars
<1> QED BY <1>1, <1>2, <1>3, <1>4, <1>5, <1>6, <1>7, <1>8 DEF VersionPurgeSweep

\* The retention sweep: empty the row, delete the objects, log.
LEMMA RetentionKeeps ==
  ASSUME ErasureInv, RetentionSweep
  PROVE  ErasureInv'
<1>0. /\ StoreInv /\ JobShape /\ job \in JobType /\ faults \in 0 .. MaxFaults
      /\ docRow \in [Documents -> DocStates] /\ UploadTypeOK
      /\ aged \subseteq Keys /\ erasures \subseteq Events
  BY JobTyped DEF ErasureInv
<1>1. ASSUME ListDue
      PROVE  ErasureInv'
  <2>1. /\ UNCHANGED <<uploadVars, del, erasures, aged, faults>>
        /\ job' = [job EXCEPT !.pc = "rt_blobs", !.todo = {d \in Documents : docRow[d] = "due"}]
    BY <1>1 DEF ListDue, JobStep, uploadVars, storeVars
  <2>2. StoreInv' /\ Onward
    BY <1>0, <2>1, NothingHappens
  <2>3. job' \in JobType
    BY <1>0, <2>1 DEF JobType, JobLabels
  <2>4. job'.pc = "rt_blobs" /\ job'.todo = {d \in Documents : docRow[d] = "due"}
    BY <1>0, <2>1 DEF JobType
  <2>5. JobShape'
    BY <2>1, <2>4 DEF JobShape, PurgingVersions, Hidden, uploadVars, storeVars
  <2> QED BY <1>0, <2>1, <2>2, <2>3, <2>5, JobMoves
<1>2. ASSUME NEW d \in Documents, PurgeBlobs(d)
      PROVE  ErasureInv'
  <2>1. /\ UNCHANGED <<docRow, nextSeq, current, indexed, versions, comment, req>>
        /\ UNCHANGED <<del, erasures, aged, faults>>
        /\ job.pc = "rt_blobs" /\ d \in job.todo
        /\ job' = [job EXCEPT !.pc = "rt_rows", !.doc = d, !.todo = @ \ {d}]
        /\ blobs' = {b \in blobs : b.doc # d}
    BY <1>2 DEF PurgeBlobs, JobStep, deleteObjectsOf
  <2>2. Hidden(d)
    BY <1>0, <2>1 DEF JobShape
  <2>3. StoreInv' /\ Onward
    BY <1>0, <2>1, <2>2, ObjectsGo DEF Hidden
  <2>4. job' \in JobType
    BY <1>0, <2>1 DEF JobType, JobLabels
  <2>5. job'.pc = "rt_rows" /\ job'.doc = d /\ job'.todo = job.todo \ {d}
    BY <1>0, <2>1 DEF JobType
  <2>6. JobShape'
    BY <1>0, <2>1, <2>2, <2>5 DEF JobShape, PurgingVersions, Hidden
  <2> QED BY <1>0, <2>1, <2>3, <2>4, <2>6, JobMoves
<1>3. ASSUME PurgeRows
      PROVE  ErasureInv'
  <2>1. PICK d \in Documents : d = job.doc /\ Hidden(d)
    BY <1>0, <1>3 DEF PurgeRows, JobStep, JobShape
  <2>2. /\ UNCHANGED <<nextSeq, blobs, req, del, erasures, aged, faults>>
        /\ job.pc = "rt_rows" /\ job' = [job EXCEPT !.pc = "rt_record"]
        /\ purgeDocument(d)
    BY <1>3, <2>1 DEF PurgeRows, JobStep
  <2>3. StoreInv' /\ Onward /\ docRow'[d] = "gone"
    BY <1>0, <2>1, <2>2, PurgeKeeps DEF Hidden, UploadTypeOK
  <2>4. job' \in JobType
    BY <1>0, <2>2 DEF JobType, JobLabels
  <2>5. job'.pc = "rt_record" /\ job'.doc = d /\ job'.todo = job.todo
    BY <1>0, <2>1, <2>2 DEF JobType
  <2>6. \A e \in job.todo : e \in Documents /\ Hidden(e)'
    BY <1>0, <2>2, <2>3 DEF JobShape, Onward
  <2>7. JobShape'
    BY <2>3, <2>5, <2>6 DEF JobShape, PurgingVersions, Hidden
  <2> QED BY <1>0, <2>2, <2>3, <2>4, <2>7, JobMoves
<1>4. ASSUME RecordPurge
      PROVE  ErasureInv'
  <2>1. PICK d \in Documents : d = job.doc /\ docRow[d] = "gone"
    BY <1>0, <1>4 DEF RecordPurge, JobStep, JobShape
  <2>2. /\ UNCHANGED <<uploadVars, del, aged, faults>>
        /\ job.pc = "rt_record" /\ job' = [job EXCEPT !.pc = "rt_blobs", !.doc = None]
        /\ erasures' = erasures \cup {DocumentPurge(d)}
    BY <1>4, <2>1 DEF RecordPurge, JobStep, uploadVars, storeVars
  <2>3. StoreInv' /\ Onward
    <3>1. erasures' \subseteq Events
      BY <1>0, <2>2 DEF Events
    <3>2. DocumentPurge(d).kind = "document_purge" /\ DocumentPurge(d).doc = d
      BY DEF DocumentPurge
    <3> QED BY <1>0, <2>1, <2>2, <3>1, <3>2, NotesKeep
  <2>4. job' \in JobType
    BY <1>0, <2>2 DEF JobType, JobLabels
  <2>5. job'.pc = "rt_blobs" /\ job'.todo = job.todo
    BY <1>0, <2>2 DEF JobType
  <2>6. JobShape'
    BY <1>0, <2>2, <2>5 DEF JobShape, PurgingVersions, Hidden, uploadVars, storeVars
  <2> QED BY <1>0, <2>2, <2>3, <2>4, <2>6, JobMoves
<1>5. ASSUME RetentionDone
      PROVE  ErasureInv'
  BY <1>0, <1>5, SweepEnds DEF RetentionDone, JobStep, uploadVars, storeVars
<1> QED BY <1>1, <1>2, <1>3, <1>4, <1>5 DEF RetentionSweep

\* What the log names is gone already: the replay finds no row to change.
LEMMA ReplayKeeps ==
  ASSUME ErasureInv, ErasureReplay
  PROVE  ErasureInv'
<1>0. /\ StoreInv /\ JobShape /\ job \in JobType /\ faults \in 0 .. MaxFaults
      /\ docRow \in [Documents -> DocStates] /\ 0 \in 0 .. MaxSeq
      /\ aged \subseteq Keys /\ erasures \subseteq Events
  BY JobTyped, MaxSeqAssumption DEF ErasureInv
<1>1. ASSUME ListErasures
      PROVE  ErasureInv'
  <2>1. /\ UNCHANGED <<uploadVars, del, erasures, aged, faults>>
        /\ job' = [job EXCEPT !.pc = "rp_storage", !.todo = erasures]
    BY <1>1 DEF ListErasures, JobStep, uploadVars, storeVars
  <2>2. StoreInv' /\ Onward
    BY <1>0, <2>1, NothingHappens
  <2>3. job' \in JobType
    BY <1>0, <2>1 DEF JobType, JobLabels
  <2>4. job'.pc = "rp_storage" /\ job'.todo = erasures
    BY <1>0, <2>1 DEF JobType
  <2>5. JobShape'
    BY <2>1, <2>4 DEF JobShape, PurgingVersions
  <2> QED BY <1>0, <2>1, <2>2, <2>3, <2>5, JobMoves
<1>2. ASSUME NEW e \in Events, ReplayStorage(e)
      PROVE  ErasureInv'
  <2>1. /\ UNCHANGED <<docRow, nextSeq, current, indexed, versions, comment, req>>
        /\ UNCHANGED <<del, erasures, aged, faults>>
        /\ job.pc = "rp_storage" /\ e \in job.todo
        /\ job' = [job EXCEPT !.pc = "rp_rows", !.todo = @ \ {e}, !.doc = e.doc, !.seq = e.seq]
        /\ \/ e.kind = "document_purge" /\ blobs' = {b \in blobs : b.doc # e.doc}
           \/ /\ e.kind # "document_purge"
              /\ blobs' = {b \in blobs : ~(b.doc = e.doc /\ b.seq = e.seq)}
    BY <1>2 DEF ReplayStorage, JobStep, deleteObjectsOf, deleteObject
  <2>2. /\ e \in erasures /\ e.doc \in Documents
        /\ \/ e.kind = "document_purge" /\ e.seq = 0
           \/ e.kind = "version_purge" /\ e.seq \in Seqs
    BY <1>0, <2>1 DEF JobShape, Events, DocumentPurge, VersionPurge
  <2>3. /\ e.kind = "document_purge" => docRow[e.doc] = "gone"
        /\ e.kind = "version_purge" => Used(e.doc, e.seq) /\ Purged(e.doc, e.seq)
    BY <1>0, <2>2 DEF StoreInv, LogIsTruthful, Numbered, Purged, VersionsOf
  <2>4. StoreInv' /\ Onward
    BY <1>0, <2>1, <2>2, <2>3, ObjectsGo
  <2>5. job' \in JobType
    <3>1. e.seq \in 0 .. MaxSeq
      BY <2>2, MaxSeqAssumption
    <3> QED BY <1>0, <2>1, <2>2, <3>1 DEF JobType, JobLabels
  <2>6. /\ job'.pc = "rp_rows" /\ job'.doc = e.doc /\ job'.seq = e.seq
        /\ job'.todo = job.todo \ {e}
    BY <1>0, <2>1 DEF JobType
  <2>7. e.seq # 0 => e.kind = "version_purge"
    BY <2>2
  <2>8. e.seq = 0 => e.kind = "document_purge"
    BY <2>2, MaxSeqAssumption
  <2>9. JobShape'
    BY <1>0, <2>1, <2>2, <2>3, <2>6, <2>7, <2>8
       DEF JobShape, PurgingVersions, Used, Purged, Holds
  <2> QED BY <1>0, <2>1, <2>4, <2>5, <2>9, JobMoves
<1>3. ASSUME ReplayRows
      PROVE  ErasureInv'
  <2>1. /\ job.pc = "rp_rows"
        /\ job.seq = 0 => ~RowExists(job.doc)
        /\ job.seq # 0 => ~ \E v \in LiveVersionsOf(job.doc) : v.seq = job.seq
    BY <1>0, <1>3 DEF ReplayRows, JobStep, JobShape, RowExists, Purged, LiveVersionsOf, VersionsOf
  <2>2. /\ UNCHANGED <<uploadVars, del, erasures, aged, faults>>
        /\ job' = [job EXCEPT !.pc = "rp_storage", !.doc = None, !.seq = 0]
    BY <1>3, <2>1 DEF ReplayRows, JobStep, uploadVars, storeVars
  <2>3. StoreInv' /\ Onward
    BY <1>0, <2>2, NothingHappens
  <2>4. job' \in JobType
    BY <1>0, <2>2 DEF JobType, JobLabels
  <2>5. job'.pc = "rp_storage" /\ job'.todo = job.todo
    BY <1>0, <2>2 DEF JobType
  <2>6. JobShape'
    BY <1>0, <2>1, <2>2, <2>5 DEF JobShape, PurgingVersions
  <2> QED BY <1>0, <2>2, <2>3, <2>4, <2>6, JobMoves
<1>4. ASSUME CycleDone
      PROVE  ErasureInv'
  BY <1>0, <1>4, SweepEnds DEF CycleDone, JobStep, uploadVars, storeVars
<1> QED BY <1>1, <1>2, <1>3, <1>4 DEF ErasureReplay

\* A sweep throws or its process dies anywhere.
LEMMA FaultsKeep ==
  ASSUME ErasureInv, SweepThrows \/ SchedulerCrash
  PROVE  ErasureInv'
<1>1. faults' \in 0 .. MaxFaults
  BY MaxFaultsAssumption DEF SweepThrows, SchedulerCrash, ErasureInv, ErasureTypeOK
<1>2. job' \in {NewCycle, AfterVersionPurge, AfterRetention}
  BY DEF SweepThrows, SchedulerCrash
<1> QED BY <1>1, <1>2, SweepEnds DEF SweepThrows, SchedulerCrash

\* The grace period ends and versions age.
LEMMA TimeKeeps ==
  ASSUME ErasureInv,
         \/ \E d \in Documents : PurgeAfterPasses(d)
         \/ \E v \in versions : VersionAges(v)
  PROVE  ErasureInv'

  <1>0. /\ StoreInv /\ aged \subseteq Keys /\ erasures \subseteq Events /\ versions \subseteq VersionRow
  BY JobTyped DEF ErasureInv
<1>1. ASSUME NEW d \in Documents, PurgeAfterPasses(d)
      PROVE  ErasureInv'
  <2>1. StoreInv' /\ Onward /\ Kept
    BY <1>0, <1>1, HideKeeps DEF PurgeAfterPasses
  <2> QED BY <1>1, <2>1, OthersWait DEF PurgeAfterPasses
<1>2. ASSUME NEW v \in versions, VersionAges(v)
      PROVE  ErasureInv'
  <2>1. <<v.doc, v.seq>> \in Keys /\ Used(v.doc, v.seq)
    BY <1>0 DEF StoreInv, Numbered, VersionRow, Keys
  <2>2. StoreInv' /\ Onward /\ Kept
    BY <1>0, <1>2, <2>1, NotesKeep DEF VersionAges
  <2> QED BY <1>2, <2>2, OthersWait DEF VersionAges
<1> QED BY <1>1, <1>2

-----------------------------------------------------------------------------
(* Theorems about uploads, comments, deletes and sweeps.                    *)

\* No step leaves the invariant.
LEMMA ErasureStep ==
  ASSUME ErasureInv, [Next]_vars
  PROVE  ErasureInv'
<1>0. StoreInv
  BY DEF ErasureInv
<1>1. ASSUME NEW r \in Requests, Upload(r)
      PROVE  ErasureInv'
  BY <1>0, <1>1, UploadKeeps, OthersWait DEF Upload
<1>2. ASSUME Discuss
      PROVE  ErasureInv'
  <2>1. UNCHANGED <<del, jobVars>>
    BY <1>2 DEF Discuss, DraftComment, InsertComment, ResolveComment
  <2> QED BY <1>0, <1>2, <2>1, DiscussKeeps, OthersWait
<1>3. CASE UNCHANGED vars
  BY <1>0, <1>3, NothingHappens, OthersWait DEF vars
<1> QED BY <1>1, <1>2, <1>3, DeleteKeeps, VersionPurgeKeeps, RetentionKeeps, ReplayKeeps,
           FaultsKeep, TimeKeeps DEF Next, JobProgress

\* An empty database satisfies it.
LEMMA ErasureBegins ==
  ASSUME Init
  PROVE  ErasureInv
<1>1. UploadsTypeOK
  BY MaxSeqAssumption
     DEF Init, UploadInit, StoreInit, UploadsTypeOK, StoreTypeOK, UploadTypeOK, Idle, UploadStates,
         DocStates, CommentRow, NoComment, VersionRow, Blob
<1>2. StoreInv
  BY <1>1, FS_EmptySet
     DEF Init, UploadInit, StoreInit, StoreInv, Numbered, HolderShape, Holds, Idle, Backed, Emptied,
         Pointing, LogIsTruthful, LastNKept, GhostsAccounted, NoComment
<1>3. ErasureTypeOK
  BY MaxSeqAssumption, MaxFaultsAssumption DEF Init, ErasureTypeOK, NewCycle, JobLabels
<1>4. (\A x \in Deletes : DelShape(x)) /\ JobShape
  BY DEF Init, DelShape, JobShape, PurgingVersions, NewCycle
<1> QED BY <1>2, <1>3, <1>4 DEF ErasureInv

\* The inductive invariant: what is in the tables, the log and the store, and what every
\* request, delete and sweep may still rely on of what it read.
THEOREM ErasureInvariant == Spec => []ErasureInv
<1>1. Init => ErasureInv
  BY ErasureBegins
<1>2. ErasureInv /\ [Next]_vars => ErasureInv'
  BY ErasureStep
<1> QED BY <1>1, <1>2, PTL DEF Spec

\* The log never claims more than what happened, and nothing hangs off a purged document,
\* for any number of uploads, comments, deletes, sweeps and faults.
THEOREM ErasuresStayTrue == Spec => []ErasuresAreTrue
<1>1. ErasureInv => ErasuresAreTrue
  BY DEF ErasureInv, StoreInv, ErasuresAreTrue, TypeOK, GoneIsEmpty, Emptied, VersionsOf
<1> QED BY <1>1, ErasureInvariant, PTL

\* A live document's current version is there to read and to find, whatever pointer,
\* list and pins a sweep acts on.
THEOREM CurrentStaysServed == Spec => []CurrentIsServed
<1>1. ErasureInv => CurrentIsServed
  <2> SUFFICES ASSUME ErasureInv, NEW d \in Documents, docRow[d] = "live"
               PROVE  /\ indexed[d] = current[d]
                      /\ current[d] # 0 =>
                           \E v \in LiveVersionsOf(d) :
                             v.seq = current[d] /\ ContentAt(d, v.seq) = {v.hash}
    BY DEF CurrentIsServed, CurrentReadable, SearchFollowsCurrent
  <2>1. Pointing(d)
    BY DEF ErasureInv, StoreInv
  <2>2. ASSUME NEW v \in versions, v.doc = d, ~v.purged
        PROVE  ContentAt(d, v.seq) = {v.hash}
    <3>1. /\ \A b \in blobs : b.doc = d /\ b.seq = v.seq => b.hash = v.hash
          /\ [doc |-> d, seq |-> v.seq, hash |-> v.hash] \in blobs
      BY <2>2 DEF ErasureInv, StoreInv, Backed
    <3> QED BY <3>1 DEF ContentAt, BlobsOf
  <2> QED BY <2>1, <2>2 DEF Pointing, LiveVersionsOf, VersionsOf
<1> QED BY <1>1, ErasureInvariant, PTL

\* Above every tombstone there are N versions that still have their content.
THEOREM LastVersionsAreKept == Spec => []LastNKept
<1>1. ErasureInv => LastNKept
  BY DEF ErasureInv, StoreInv
<1> QED BY <1>1, ErasureInvariant, PTL

\* A number belongs to one request also while sweeps, deletes and replays take away rows
\* and objects.
THEOREM NumbersStayExclusive == Spec => []ReservationsExclusive
<1>1. ErasureInv => ReservationsExclusive
  <2> SUFFICES ASSUME ErasureInv, NEW r \in Requests, Holds(r)
               PROVE  /\ req[r].seq < nextSeq[req[r].doc]
                      /\ \A q \in Requests \ {r} :
                           ~(Holds(q) /\ req[q].doc = req[r].doc /\ req[q].seq = req[r].seq)
                      /\ \A v \in VersionsOf(req[r].doc) : v.seq # req[r].seq
                      /\ ContentAt(req[r].doc, req[r].seq) \subseteq {req[r].hash}
    BY DEF ReservationsExclusive, Holds
  <2>1. HolderShape(r) /\ Numbered
    BY DEF ErasureInv, StoreInv
  <2>2. \A v \in VersionsOf(req[r].doc) : v.seq # req[r].seq
    BY <2>1 DEF Numbered, Used, VersionsOf
  <2> QED BY <2>1, <2>2 DEF HolderShape, ContentAt, BlobsOf
<1> QED BY <1>1, ErasureInvariant, PTL

\* A version that is listed can be read, and shows what its hash names, while objects are
\* deleted by number and by document.
THEOREM ListedStaysReadable == Spec => []LiveVersionsReadable
<1>1. ErasureInv => LiveVersionsReadable
  BY DEF ErasureInv, StoreInv, Backed, LiveVersionsReadable, ContentAt, BlobsOf
<1> QED BY <1>1, ErasureInvariant, PTL

\* A live document without a version is one whose create is under way, has died, or
\* returned after its own rollback threw too.
THEOREM GhostsStayAccounted == Spec => []GhostsAccounted
<1>1. ErasureInv => GhostsAccounted
  BY DEF ErasureInv, StoreInv
<1> QED BY <1>1, ErasureInvariant, PTL

-----------------------------------------------------------------------------
(* What readers see is a DocumentHistory.                                   *)

Hist == [History!HistoryNext]_(History!history)

\* The contents of the live versions of a visible document, from their rows.
Listed == [d \in Documents |->
  IF docRow[d] # "live" THEN {} ELSE {<<v.seq, v.hash>> : v \in LiveVersionsOf(d)}]

ShownAsListed == Shown = Listed

\* Objects and rows agree on what a reader opens.
LEMMA ShownIsListed == ErasureInv => ShownAsListed
<1> SUFFICES ASSUME ErasureInv, NEW d \in Documents, docRow[d] = "live"
             PROVE  UNION {{<<v.seq, h>> : h \in ContentAt(d, v.seq)} : v \in LiveVersionsOf(d)}
                      = {<<v.seq, v.hash>> : v \in LiveVersionsOf(d)}
  BY DEF Shown, Listed, ShownAsListed
<1>1. ASSUME NEW v \in LiveVersionsOf(d)
      PROVE  ContentAt(d, v.seq) = {v.hash}
  <2>1. v \in versions /\ v.doc = d /\ ~v.purged
    BY DEF LiveVersionsOf, VersionsOf
  <2>2. /\ \A b \in blobs : b.doc = d /\ b.seq = v.seq => b.hash = v.hash
        /\ [doc |-> d, seq |-> v.seq, hash |-> v.hash] \in blobs
    BY <2>1 DEF ErasureInv, StoreInv, Backed
  <2> QED BY <2>2 DEF ContentAt, BlobsOf
<1> QED BY <1>1

\* What a step does to the rows of documents and versions.
Births(d) ==
  docRow[d] = "unborn" /\ docRow' = [docRow EXCEPT ![d] = "live"] /\ versions' = versions

Inserts(d, s, h) ==
  /\ docRow' = docRow /\ CanInsertVersion(d, s)
  /\ versions' = versions \cup {[doc |-> d, seq |-> s, hash |-> h, purged |-> FALSE]}

Purges(d) ==
  /\ docRow[d] # "unborn" /\ docRow' = [docRow EXCEPT ![d] = "gone"]
  /\ versions' = {v \in versions : v.doc # d}

Tombstones(d, s) ==
  /\ docRow' = docRow /\ (docRow[d] # "gone" => Enough(d, s))
  /\ \E v \in LiveVersionsOf(d) : v.seq = s
  /\ versions' = {IF v.doc = d /\ v.seq = s THEN [v EXCEPT !.purged = TRUE] ELSE v : v \in versions}

Hides(d, x) ==
  /\ docRow[d] \notin {"unborn", "gone"} /\ docRow' = [docRow EXCEPT ![d] = x]
  /\ versions' = versions

RowStep ==
  \/ UNCHANGED <<docRow, versions>>
  \/ \E d \in Documents :
       \/ Births(d)
       \/ \E s \in Seqs, h \in Contents : Inserts(d, s, h)
       \/ Purges(d)
       \/ \E s \in Seqs : Tombstones(d, s)
       \/ \E x \in {"deleted", "due"} : Hides(d, x)

\* What each step does to the rows is one of the six things of RowStep.
LEMMA StepsOfRows ==
  ASSUME ErasureInv, [Next]_vars
  PROVE  RowStep
<1>0. /\ StoreInv /\ JobShape /\ (\A r \in Requests : HolderShape(r))
      /\ (\A x \in Deletes : DelShape(x)) /\ docRow \in [Documents -> DocStates]
  BY DEF ErasureInv, StoreInv, UploadsTypeOK, StoreTypeOK
<1>1. ASSUME NEW r \in Requests, Upload(r)
      PROVE  RowStep
  <2>1. ASSUME NEW d \in Documents, NEW h \in Contents,
               CreateGate(r, d, h) \/ PushGate(r, d, h) \/ PushDedup(r, d, h)
        PROVE  RowStep
    BY <2>1 DEF CreateGate, PushGate, PushDedup, insertDocument, storeVars, RowStep, Births
  <2>2. ASSUME req[r].pc = "finalize", docRow' = docRow, FinalizeTx(r)
        PROVE  RowStep
    <3>1. PICK d \in Documents, s \in Seqs, h \in Contents :
            req[r].doc = d /\ req[r].seq = s /\ req[r].hash = h
      BY <1>0, <2>2 DEF HolderShape, Holds
    <3>2. Inserts(d, s, h)
      BY <2>2, <3>1 DEF Inserts, FinalizeTx, insertVersionAtSeq
    <3> QED BY <3>2 DEF RowStep
  <2>3. CASE Rollback(r)
    <3>1. PICK d \in Documents : d = req[r].doc /\ docRow[d] # "unborn"
      BY <1>0, <2>3 DEF Rollback, HolderShape
    <3>2. Purges(d)
      BY <2>3, <3>1 DEF Rollback, purgeDocument, Purges
    <3> QED BY <3>2 DEF RowStep
  <2>4. CASE PutBlob(r) \/ PutThrows(r)
    BY <2>4 DEF PutBlob, PutThrows, RowStep
  <2>5. CASE Finalize(r) \/ FinalizeThrows(r)
    BY <2>2, <2>5 DEF Finalize, FinalizeThrows, RowStep
  <2>6. CASE RollbackThrows(r)
    BY <2>6 DEF RollbackThrows, storeVars, RowStep
  <2> QED BY <1>1, <2>1, <2>3, <2>4, <2>5, <2>6 DEF Upload, UploadStep
<1>2. CASE Discuss
  BY <1>2 DEF Discuss, DraftComment, InsertComment, ResolveComment, RowStep
<1>3. ASSUME NEW x \in Deletes, Delete(x)
      PROVE  RowStep
  <2>1. ASSUME NEW immediately \in BOOLEAN, SoftDelete(x, immediately)
        PROVE  RowStep
    <3>1. PICK d \in Documents : d = del[x].doc /\ docRow[d] # "unborn"
      BY <1>0, <2>1 DEF SoftDelete, DelShape
    <3>2. CASE docRow[d] = "live"
      <4>1. PICK state \in {"deleted", "due"} : docRow' = [docRow EXCEPT ![d] = state]
        BY <2>1, <3>1, <3>2 DEF SoftDelete
      <4>2. Hides(d, state)
        BY <2>1, <3>2, <4>1 DEF SoftDelete, Hides
      <4> QED BY <4>2 DEF RowStep
    <3>3. CASE docRow[d] # "live"
      <4>1. docRow' = docRow
        BY <1>0, <2>1, <3>1, <3>3 DEF SoftDelete
      <4> QED BY <2>1, <4>1 DEF SoftDelete, RowStep
    <3> QED BY <3>2, <3>3
  <2>2. CASE DeleteRows(x)
    <3>1. PICK d \in Documents : d = del[x].doc /\ docRow[d] # "unborn"
      BY <1>0, <2>2 DEF DeleteRows, DelShape
    <3>2. Purges(d)
      BY <2>2, <3>1 DEF DeleteRows, purgeDocument, Purges
    <3> QED BY <3>2 DEF RowStep
  <2>3. ASSUME (\E d \in Documents : DeleteCheck(x, d)) \/ DeleteBlobs(x) \/ DeleteRecord(x)
        PROVE  RowStep
    BY <2>3 DEF DeleteCheck, DeleteBlobs, DeleteRecord, uploadVars, storeVars, RowStep
  <2> QED BY <1>3, <2>1, <2>2, <2>3 DEF Delete
<1>4. ASSUME NEW d \in Documents, PurgeAfterPasses(d)
      PROVE  RowStep
  <2>1. Hides(d, "due")
    BY <1>4 DEF PurgeAfterPasses, Hides
  <2> QED BY <2>1 DEF RowStep
<1>5. ASSUME NEW s \in Seqs, Tombstone(s)
      PROVE  RowStep
  <2>1. PICK d \in Documents : d = job.doc /\ Chosen(d, s)
    BY <1>0, <1>5 DEF Tombstone, JobStep, JobShape, PurgingVersions
  <2>2. CASE \E v \in LiveVersionsOf(d) : v.seq = s
    <3>1. Tombstones(d, s)
      BY <1>5, <2>1, <2>2 DEF Tombstone, tombstone, Tombstones, Chosen
    <3> QED BY <3>1 DEF RowStep
  <2>3. CASE ~ \E v \in LiveVersionsOf(d) : v.seq = s
    BY <1>5, <2>1, <2>3 DEF Tombstone, RowStep
  <2> QED BY <2>2, <2>3
<1>6. CASE PurgeRows
  <2>1. PICK d \in Documents : d = job.doc /\ docRow[d] # "unborn"
    BY <1>0, <1>6 DEF PurgeRows, JobStep, JobShape, Hidden
  <2>2. Purges(d)
    BY <1>6, <2>1 DEF PurgeRows, purgeDocument, Purges
  <2> QED BY <2>2 DEF RowStep
<1>7. CASE ReplayRows
  <2>1. /\ job.seq = 0 => ~RowExists(job.doc)
        /\ job.seq # 0 => ~ \E v \in LiveVersionsOf(job.doc) : v.seq = job.seq
    BY <1>0, <1>7 DEF ReplayRows, JobStep, JobShape, RowExists, Purged, LiveVersionsOf, VersionsOf
  <2> QED BY <1>7, <2>1 DEF ReplayRows, RowStep
<1>8. ASSUME \/ StartCycle \/ ListPins \/ DeleteVersionBlob \/ RecordVersionPurge \/ NextDocument
             \/ VersionPurgeDone \/ \E d \in Documents : ListVersions(d)
      PROVE  RowStep
  BY <1>8 DEF StartCycle, ListPins, DeleteVersionBlob, RecordVersionPurge, NextDocument,
              VersionPurgeDone, ListVersions, RowStep
<1>9. ASSUME \/ ListDue \/ RecordPurge \/ RetentionDone \/ ListErasures \/ CycleDone
             \/ (\E d \in Documents : PurgeBlobs(d)) \/ \E e \in Events : ReplayStorage(e)
      PROVE  RowStep
  BY <1>9 DEF ListDue, RecordPurge, RetentionDone, ListErasures, CycleDone, PurgeBlobs,
              ReplayStorage, RowStep
<1>10. ASSUME \/ SweepThrows \/ SchedulerCrash \/ (\E v \in versions : VersionAges(v))
              \/ UNCHANGED vars
       PROVE  RowStep
  BY <1>10 DEF SweepThrows, SchedulerCrash, VersionAges, vars, uploadVars, storeVars, RowStep
<1> QED BY <1>1, <1>2, <1>3, <1>4, <1>5, <1>6, <1>7, <1>8, <1>9, <1>10
        DEF Next, JobProgress, VersionPurgeSweep, RetentionSweep, ErasureReplay

\* The live versions of d above s show as many contents.
LEMMA ShownAbove ==
  ASSUME StoreInv, NEW d \in Documents, NEW s \in Seqs, docRow[d] = "live", Enough(d, s)
  PROVE  Cardinality({b \in Listed[d] : b[1] > s}) >= KeepLastN
<1> DEFINE Above == {w \in LiveVersionsOf(d) : w.seq > s}
           Pairs == {b \in Listed[d] : b[1] > s}
           f == [w \in Above |-> <<w.seq, w.hash>>]
<1>1. Listed[d] = {<<v.seq, v.hash>> : v \in LiveVersionsOf(d)}
  BY DEF Listed
<1>2. f \in Surjection(Above, Pairs)
  <2>1. ASSUME NEW w \in Above
        PROVE  f[w] \in Pairs
    <3>1. <<w.seq, w.hash>> \in Listed[d]
      BY <1>1
    <3>2. <<w.seq, w.hash>>[1] > s
      OBVIOUS
    <3> QED BY <3>1, <3>2
  <2>2. ASSUME NEW b \in Pairs
        PROVE  \E w \in Above : f[w] = b
    <3>1. PICK v \in LiveVersionsOf(d) : b = <<v.seq, v.hash>>
      BY <1>1
    <3>2. v.seq > s
      BY <3>1
    <3> QED BY <3>1, <3>2
  <2> HIDE DEF Above, Pairs
  <2>3. f \in [Above -> Pairs]
    BY <2>1
  <2> QED BY <2>2, <2>3 DEF Surjection
<1>3. f \in Injection(Above, Pairs)
  <2>1. \A v, w \in Above : v.seq = w.seq => v = w
    BY DEF StoreInv, Numbered, LiveVersionsOf, VersionsOf
  <2>2. \A v, w \in Above : f[v] = f[w] => v = w
    BY <2>1
  <2> QED BY <1>2, <2>2 DEF Surjection, Injection, IsInjective
<1>4. IsFiniteSet(Above)
  BY FS_Subset DEF StoreInv, LiveVersionsOf, VersionsOf
<1>5. Cardinality(Above) >= KeepLastN
  BY DEF Enough
<1> HIDE DEF Above, Pairs, f
<1>6. Cardinality(Pairs) = Cardinality(Above)
  BY <1>2, <1>3, <1>4, FS_Surjection
<1>7. Cardinality(Pairs) >= KeepLastN
  BY <1>5, <1>6
<1> QED BY <1>7 DEF Pairs

\* DocumentHistory counts with FiniteSets of its own.
LEMMA SameCount == \A S : History!Cardinality(S) = Cardinality(S)
  BY DEF History!Cardinality, Cardinality

\* Each of them is a step of the history, or none.
LEMMA RowsRefine ==
  ASSUME StoreInv, docRow' \in [Documents -> DocStates], versions' \subseteq VersionRow,
         Shown = Listed, Shown' = Listed', RowStep
  PROVE  Hist
<1>0. docRow \in [Documents -> DocStates] /\ versions \subseteq VersionRow
  BY DEF StoreInv, UploadsTypeOK, StoreTypeOK
<1>1. CASE UNCHANGED <<docRow, versions>>
  <2>1. Phase' = Phase /\ Listed' = Listed /\ Spent' = Spent
    BY <1>1 DEF Phase, Listed, Spent, LiveVersionsOf, VersionsOf
  <2> QED BY <2>1 DEF Hist, History!history
<1>2. ASSUME NEW d \in Documents, Births(d)
      PROVE  Hist
  <2>1. VersionsOf(d) = {}
    BY <1>2 DEF Births, StoreInv, Emptied, VersionsOf
  <2>2. Phase[d] = "absent" /\ Phase' = [Phase EXCEPT ![d] = "visible"]
    BY <1>0, <1>2 DEF Births, Phase
  <2>3. Listed' = Listed /\ Spent' = Spent
    BY <1>0, <1>2, <2>1 DEF Births, Listed, Spent, LiveVersionsOf, VersionsOf
  <2>4. History!Appear(d)
    BY <2>2, <2>3 DEF History!Appear
  <2> QED BY <2>4 DEF Hist, History!HistoryNext
<1>3. ASSUME NEW d \in Documents, NEW s \in Seqs, NEW h \in Contents, Inserts(d, s, h)
      PROVE  Hist
  <2> DEFINE row == [doc |-> d, seq |-> s, hash |-> h, purged |-> FALSE]
  <2>0. row.doc = d /\ row.seq = s /\ row.hash = h /\ row.purged = FALSE
    OBVIOUS
  <2> HIDE DEF row
  <2>1. /\ docRow' = docRow /\ versions' = versions \cup {row}
        /\ docRow[d] \notin {"unborn", "gone"} /\ \A v \in VersionsOf(d) : v.seq # s
    BY <1>3 DEF Inserts, CanInsertVersion, RowExists, row
  <2>2. Phase' = Phase /\ Phase[d] \in {"visible", "hidden"}
    BY <1>0, <2>1 DEF Phase, DocStates
  <2>3. \A e \in Documents : /\ VersionsOf(e)' = VersionsOf(e) \cup (IF e = d THEN {row} ELSE {})
                             /\ LiveVersionsOf(e)'
                                  = LiveVersionsOf(e) \cup (IF e = d THEN {row} ELSE {})
    BY <2>0, <2>1 DEF VersionsOf, LiveVersionsOf
  <2>4. Spent' = [Spent EXCEPT ![d] = @ \cup {s}] /\ s \notin Spent[d]
    <3>1. \A e \in Documents : Spent'[e] = IF e = d THEN Spent[e] \cup {s} ELSE Spent[e]
      BY <2>0, <2>3 DEF Spent
    <3> QED BY <2>1, <3>1 DEF Spent
  <2>5. Listed' = [Listed EXCEPT ![d] = IF Phase[d] = "visible" THEN @ \cup {<<s, h>>} ELSE @]
    <3>1. Phase[d] = "visible" <=> docRow[d] = "live"
      BY <1>0 DEF Phase, DocStates
    <3>2. \A e \in Documents : e # d => Listed'[e] = Listed[e]
      BY <2>1, <2>3 DEF Listed
    <3>3. docRow[d] = "live" => Listed'[d] = Listed[d] \cup {<<s, h>>}
      BY <2>0, <2>1, <2>3 DEF Listed
    <3>4. docRow[d] # "live" => Listed'[d] = Listed[d]
      BY <2>1 DEF Listed
    <3> QED BY <3>1, <3>2, <3>3, <3>4 DEF Listed
  <2>6. History!Publish(d, s, h)
    BY <2>2, <2>4, <2>5 DEF History!Publish
  <2> QED BY <2>6 DEF Hist, History!HistoryNext
<1>4. ASSUME NEW d \in Documents, Purges(d)
      PROVE  Hist
  <2>1. \A e \in Documents : e # d => VersionsOf(e)' = VersionsOf(e)
                                        /\ LiveVersionsOf(e)' = LiveVersionsOf(e)
    BY <1>4 DEF Purges, VersionsOf, LiveVersionsOf
  <2>2. VersionsOf(d)' = {} /\ docRow'[d] = "gone"
    BY <1>0, <1>4 DEF Purges, VersionsOf
  <2>3. /\ Phase' = [Phase EXCEPT ![d] = "erased"]
        /\ docRow[d] # "gone" => Phase[d] \in {"visible", "hidden"}
    BY <1>0, <1>4 DEF Purges, Phase, DocStates
  <2>4. Listed' = [Listed EXCEPT ![d] = {}]
    BY <1>0, <1>4, <2>1, <2>2 DEF Purges, Listed
  <2>5. Spent' = [Spent EXCEPT ![d] = {}]
    BY <2>1, <2>2 DEF Spent
  <2>6. CASE docRow[d] # "gone"
    <3>1. History!Erase(d)
      BY <2>3, <2>4, <2>5, <2>6 DEF History!Erase
    <3> QED BY <3>1 DEF Hist, History!HistoryNext
  <2>7. CASE docRow[d] = "gone"
    <3>1. Phase[d] = "erased" /\ Listed[d] = {} /\ Spent[d] = {}
      BY <2>7 DEF Phase, Listed, Spent, StoreInv, Emptied, VersionsOf
    <3>2. Phase' = Phase /\ Listed' = Listed /\ Spent' = Spent
      BY <2>3, <2>4, <2>5, <3>1 DEF Phase, Listed, Spent
    <3> QED BY <3>2 DEF Hist, History!history
  <2> QED BY <2>6, <2>7
<1>5. ASSUME NEW d \in Documents, NEW s \in Seqs, Tombstones(d, s)
      PROVE  Hist
  <2> DEFINE mark(v) == IF v.doc = d /\ v.seq = s THEN [v EXCEPT !.purged = TRUE] ELSE v
  <2>1. docRow' = docRow /\ versions' = {mark(v) : v \in versions}
    BY <1>5 DEF Tombstones
  <2>2. \A v \in versions : /\ mark(v).doc = v.doc /\ mark(v).seq = v.seq
                            /\ IF v.doc = d /\ v.seq = s THEN mark(v).purged ELSE mark(v) = v
    BY <1>0 DEF VersionRow
  <2> HIDE DEF mark
  <2>3. PICK u \in LiveVersionsOf(d) : u.seq = s
    BY <1>5 DEF Tombstones
  <2>4. Phase' = Phase
    BY <2>1 DEF Phase
  <2>5. Spent' = Spent
    <3>1. \A e \in Documents : Spent'[e] = Spent[e]
      BY <2>1, <2>2 DEF Spent, VersionsOf
    <3> QED BY <3>1 DEF Spent
  <2>6. \A v \in LiveVersionsOf(d) : v.seq = s => v = u
    BY <2>3 DEF StoreInv, Numbered, LiveVersionsOf, VersionsOf
  <2>7. \A e \in Documents : LiveVersionsOf(e)' = LiveVersionsOf(e) \ (IF e = d THEN {u} ELSE {})
    <3>1. u.doc = d /\ u.seq = s
      BY <2>3 DEF LiveVersionsOf, VersionsOf
    <3> QED BY <2>1, <2>2, <2>6, <3>1 DEF LiveVersionsOf, VersionsOf
  <2>8. CASE docRow[d] = "live"
    <3>1. \A e \in Documents : e # d => Listed'[e] = Listed[e]
      BY <2>1, <2>7 DEF Listed
    <3>2. Listed'[d] = Listed[d] \ {<<s, u.hash>>} /\ <<s, u.hash>> \in Listed[d]
      BY <2>1, <2>3, <2>6, <2>7, <2>8 DEF Listed
    <3>3. Listed' = [Listed EXCEPT ![d] = @ \ {<<s, u.hash>>}]
      BY <3>1, <3>2 DEF Listed
    <3>4. Cardinality({b \in Listed[d] : b[1] > s}) >= KeepLastN
      BY <1>5, <2>8, ShownAbove DEF Tombstones
    <3>5. PICK c : c = <<s, u.hash>>
      OBVIOUS
    <3>6. Cardinality({b \in Shown[d] : b[1] > c[1]}) >= KeepLastN
      <4>1. c[1] = s
        BY <3>5
      <4> QED BY <3>4, <4>1
    <3>7. c \in Shown[d] /\ Shown' = [Shown EXCEPT ![d] = @ \ {c}]
      <4>1. <<s, u.hash>> \in Shown[d]
        BY <3>2
      <4>2. Shown' = [Shown EXCEPT ![d] = @ \ {<<s, u.hash>>}]
        BY <3>3
      <4>3. c \in Shown[d]
        BY <3>5, <4>1
      <4>4. Shown[d] \ {<<s, u.hash>>} = Shown[d] \ {c}
        BY <3>5
      <4> QED BY ONLY <4>2, <4>3, <4>4
    <3>8. History!Expire(d, c)
      BY <2>4, <2>5, <3>6, <3>7, SameCount DEF History!Expire
    <3> QED BY <3>7, <3>8 DEF Hist, History!HistoryNext
  <2>9. CASE docRow[d] # "live"
    <3>1. \A e \in Documents : Listed'[e] = Listed[e]
      BY <2>1, <2>7, <2>9 DEF Listed
    <3>2. Listed' = Listed
      BY <3>1 DEF Listed
    <3> QED BY <2>4, <2>5, <3>2 DEF Hist, History!history
  <2> QED BY <2>8, <2>9
<1>6. ASSUME NEW d \in Documents, NEW x \in {"deleted", "due"}, Hides(d, x)
      PROVE  Hist
  <2>1. Spent' = Spent
    BY <1>6 DEF Hides, Spent, VersionsOf
  <2>2. Listed' = [Listed EXCEPT ![d] = {}] /\ Phase' = [Phase EXCEPT ![d] = "hidden"]
    BY <1>0, <1>6 DEF Hides, Listed, Phase, LiveVersionsOf, VersionsOf
  <2>3. CASE docRow[d] = "live"
    <3>1. Phase[d] = "visible"
      BY <2>3 DEF Phase
    <3>2. History!Hide(d)
      BY <2>1, <2>2, <3>1 DEF History!Hide
    <3> QED BY <3>2 DEF Hist, History!HistoryNext
  <2>4. CASE docRow[d] # "live"
    <3>1. Phase[d] = "hidden" /\ Listed[d] = {}
      BY <1>0, <1>6, <2>4 DEF Hides, Phase, Listed, DocStates
    <3>2. Phase' = Phase /\ Listed' = Listed
      BY <2>2, <3>1 DEF Phase, Listed
    <3> QED BY <2>1, <3>2 DEF Hist, History!history
  <2> QED BY <2>3, <2>4
<1> QED BY <1>1, <1>2, <1>3, <1>4, <1>5, <1>6 DEF RowStep

\* Uploads, deletes and sweeps with their stale reads show a reader nothing but a
\* DocumentHistory: a number never shows two contents, the last N never expire, what is
\* hidden or erased shows nothing for good.
THEOREM ReadersAreShownAHistory == Spec => ReadersSeeAHistory
<1>1. Init => History!HistoryInit
  BY DEF Init, UploadInit, StoreInit, History!HistoryInit, Phase, Shown, Spent, VersionsOf
<1>2. ErasureInv => ShownAsListed
  BY ShownIsListed
<1>3. ErasureInv' => ShownAsListed'
  BY <1>2, PTL
<1>4. ErasureInv /\ ErasureInv' /\ [Next]_vars => Hist
  <2> SUFFICES ASSUME ErasureInv, ErasureInv', [Next]_vars PROVE Hist
    OBVIOUS
  <2>1. StoreInv /\ docRow' \in [Documents -> DocStates] /\ versions' \subseteq VersionRow
    BY DEF ErasureInv, StoreInv, UploadsTypeOK, StoreTypeOK
  <2> QED BY <1>2, <1>3, <2>1, StepsOfRows, RowsRefine DEF ShownAsListed
<1> QED BY <1>1, <1>4, ErasureInvariant, PTL DEF Spec, ReadersSeeAHistory, History!HistorySpec, Hist
-----------------------------------------------------------------------------
(* The public hub beside all that.                                          *)

PublishLabels == {"idle", "version", "content", "row", "put", "failed", "ended"}

PublishType ==
  [pc : PublishLabels, doc : Documents \cup {None}, seq : 0 .. MaxSeq,
   hash : Contents \cup {None}, body : Contents \cup {None}, id : Nat, at : Nat]

\* What a publish read may be gone, but nothing else is ever stored under its number;
\* what it was given by the row is the row's, an earlier one or another row's.
PublishShape(p) ==
  LET call == publish[p]
  IN  /\ call.pc = "version" => call.doc \in Documents
      /\ call.pc = "content" =>
           /\ call.doc \in Documents /\ call.seq \in Seqs /\ Used(call.doc, call.seq)
           /\ call.hash \in Contents
           /\ \A b \in blobs : b.doc = call.doc /\ b.seq = call.seq => b.hash = call.hash
      /\ call.pc \in {"row", "put", "failed"} => call.hash \in Contents /\ call.body = call.hash
      /\ call.pc \in {"put", "failed"} =>
           /\ call.id <= hubIds
           /\ hubRow # None /\ call.id = hubRow.id =>
                /\ call.at <= hubRow.seq
                /\ call.at = hubRow.seq => call.hash = hubRow.hash

\* No object has an id or a number the row was not given yet.
ObjectsFollowRow ==
  \A o \in hubObjects :
    /\ o.id \in Nat /\ o.seq \in Nat /\ o.id <= hubIds
    /\ hubRow # None /\ o.id = hubRow.id =>
         /\ o.seq <= hubRow.seq
         /\ o.seq = hubRow.seq => o.hash = hubRow.hash

HubInv ==
  /\ hubIds \in Nat
  /\ hubRow # None => hubRow \in [id : Nat, seq : Nat, hash : Contents] /\ hubRow.id = hubIds
  /\ ObjectsFollowRow
  /\ publish \in [Publishers -> PublishType]
  /\ \A p \in Publishers : PublishShape(p)
  /\ HubServesItsSnapshot

\* A number that has been used keeps its content or loses it.
LEMMA ContentIsFixed ==
  ASSUME ErasureInv, [Next]_vars, NEW d \in Documents, NEW s \in Seqs, Used(d, s)
  PROVE  Used(d, s)' /\ \A b \in blobs' : b.doc = d /\ b.seq = s => b \in blobs
<1>1. CASE \E r \in Requests : Upload(r)
  <2>1. PICK r \in Requests : UploadStep(r) /\ UNCHANGED <<aged, erasures>>
    BY <1>1 DEF Upload
  <2>2. Onward
    BY <2>1, UploadKeeps DEF ErasureInv
  <2> QED BY <2>2 DEF Onward
<1>2. CASE nextSeq' = nextSeq /\ req' = req /\ blobs' \subseteq blobs
  BY <1>2 DEF Used, Holds
<1>3. CASE Discuss
  <2>1. nextSeq' = nextSeq /\ req' = req /\ blobs' \subseteq blobs
    BY <1>3 DEF Discuss, DraftComment, InsertComment, ResolveComment
  <2> QED BY <1>2, <2>1
<1>4. CASE \E x \in Deletes : Delete(x)
  <2>1. nextSeq' = nextSeq /\ req' = req /\ blobs' \subseteq blobs
    BY <1>4 DEF Delete, DeleteCheck, SoftDelete, DeleteBlobs, DeleteRows, DeleteRecord,
                uploadVars, storeVars, deleteObjectsOf
  <2> QED BY <1>2, <2>1
<1>5. CASE StartCycle \/ VersionPurgeSweep
  <2>1. nextSeq' = nextSeq /\ req' = req
    BY <1>5 DEF StartCycle, VersionPurgeSweep, ListVersions, ListPins, Tombstone,
                DeleteVersionBlob, RecordVersionPurge, NextDocument, VersionPurgeDone, JobStep
  <2>2. blobs' \subseteq blobs
    BY <1>5 DEF StartCycle, VersionPurgeSweep, ListVersions, ListPins, Tombstone,
                DeleteVersionBlob, RecordVersionPurge, NextDocument, VersionPurgeDone,
                deleteObject
  <2> QED BY <1>2, <2>1, <2>2
<1>6. CASE RetentionSweep
  <2>1. nextSeq' = nextSeq /\ req' = req /\ blobs' \subseteq blobs
    BY <1>6 DEF RetentionSweep, ListDue, PurgeBlobs, PurgeRows, RecordPurge, RetentionDone,
                JobStep, deleteObjectsOf
  <2> QED BY <1>2, <2>1
<1>7. CASE ErasureReplay
  <2>1. nextSeq' = nextSeq /\ req' = req /\ blobs' \subseteq blobs
    BY <1>7 DEF ErasureReplay, ListErasures, ReplayStorage, ReplayRows, CycleDone, JobStep,
                deleteObject, deleteObjectsOf
  <2> QED BY <1>2, <2>1
<1>8. CASE \/ SweepThrows \/ SchedulerCrash
           \/ \E e \in Documents : PurgeAfterPasses(e)
           \/ \E v \in versions : VersionAges(v)
           \/ UNCHANGED vars
  <2>1. nextSeq' = nextSeq /\ req' = req /\ blobs' \subseteq blobs
    BY <1>8 DEF SweepThrows, SchedulerCrash, PurgeAfterPasses, VersionAges, vars, uploadVars,
                storeVars
  <2> QED BY <1>2, <2>1
<1> QED BY <1>1, <1>3, <1>4, <1>5, <1>6, <1>7, <1>8 DEF Next, JobProgress

\* Whatever else happens leaves the hub as it is.
LEMMA HubStays ==
  ASSUME ErasureInv, HubInv, [Next]_vars, UNCHANGED hubVars
  PROVE  HubInv'
<1>1. \A p \in Publishers : PublishShape(p)'
  <2> SUFFICES ASSUME NEW p \in Publishers PROVE PublishShape(p)'
    OBVIOUS
  <2>1. publish' = publish /\ hubRow' = hubRow /\ hubIds' = hubIds
    BY DEF hubVars
  <2>2. CASE publish[p].pc = "content"
    <3>1. PICK d \in Documents, s \in Seqs : d = publish[p].doc /\ s = publish[p].seq
      BY <2>2 DEF HubInv, PublishShape
    <3>2. Used(d, s)' /\ \A b \in blobs' : b.doc = d /\ b.seq = s => b \in blobs
      BY <2>2, <3>1, ContentIsFixed DEF HubInv, PublishShape
    <3> QED BY <2>1, <2>2, <3>1, <3>2 DEF HubInv, PublishShape
  <2>3. CASE publish[p].pc # "content"
    BY <2>1, <2>3 DEF HubInv, PublishShape
  <2> QED BY <2>2, <2>3
<1> QED BY <1>1 DEF HubInv, hubVars, ObjectsFollowRow, HubServesItsSnapshot, PublicHash

\* A publish that moves without touching the hub.
LEMMA PublishMoves ==
  ASSUME HubInv, NEW p \in Publishers, NEW call \in PublishType,
         publish' = [publish EXCEPT ![p] = call],
         UNCHANGED <<hubRow, hubIds, hubObjects>>, UNCHANGED vars,
         PublishShape(p)',
         publish[p].pc \notin {"put", "failed"}
  PROVE  HubInv'
<1>1. publish' \in [Publishers -> PublishType]
  BY DEF HubInv
<1>2. \A q \in Publishers : q # p => publish'[q] = publish[q]
  BY DEF HubInv
<1>3. blobs' = blobs /\ \A d, s : Used(d, s)' = Used(d, s)
  BY DEF vars, uploadVars, storeVars, Used, Holds
<1>4. \A q \in Publishers : q # p => PublishShape(q)'
  BY <1>2, <1>3 DEF HubInv, PublishShape
<1>5. HubServesItsSnapshot'
  BY <1>2 DEF HubInv, HubServesItsSnapshot, PublicHash
<1> QED BY <1>1, <1>4, <1>5 DEF HubInv, ObjectsFollowRow

\* The three reads, the last of which may find nothing.
LEMMA ReadsKeep ==
  ASSUME ErasureInv, HubInv, NEW p \in Publishers, UNCHANGED vars,
         \/ \E d \in Documents : PublishReadsDocument(p, d)
         \/ PublishReadsVersion(p)
         \/ PublishReadsContent(p)
  PROVE  HubInv'
<1>0. /\ publish[p] \in PublishType /\ StoreInv /\ Ended \in PublishType
      /\ current \in [Documents -> 0 .. MaxSeq] /\ versions \subseteq VersionRow
      /\ \A h \in {b.hash : b \in blobs} : h \in Contents
  BY MaxSeqAssumption
     DEF HubInv, ErasureInv, StoreInv, UploadsTypeOK, StoreTypeOK, Blob, Ended, NoPublish,
         PublishType, PublishLabels
<1>1. ASSUME publish' = [publish EXCEPT ![p] = Ended], publish[p].pc \notin {"put", "failed"},
             UNCHANGED <<hubRow, hubIds, hubObjects>>
      PROVE  HubInv'
  <2>1. publish'[p].pc = "ended"
    BY <1>1 DEF HubInv, Ended, NoPublish
  <2>2. PublishShape(p)'
    BY <2>1 DEF PublishShape
  <2> QED BY <1>0, <1>1, <2>2, PublishMoves
<1>2. ASSUME NEW d \in Documents, PublishReadsDocument(p, d)
      PROVE  HubInv'
  <2>1. PICK call : call = [publish[p] EXCEPT !.pc = "version", !.doc = d, !.seq = current[d]]
    OBVIOUS
  <2>2. call \in PublishType /\ call.pc = "version" /\ call.doc = d
    BY <1>0, <2>1 DEF PublishType, PublishLabels
  <2>3. publish' = [publish EXCEPT ![p] = call] /\ publish[p].pc = "idle"
        /\ UNCHANGED <<hubRow, hubIds, hubObjects>>
    BY <1>2, <2>1 DEF PublishReadsDocument
  <2>4. publish'[p] = call
    BY <2>3 DEF HubInv
  <2>5. PublishShape(p)'
    BY <2>2, <2>4 DEF PublishShape
  <2> QED BY <2>2, <2>3, <2>5, PublishMoves
<1>3. CASE PublishReadsVersion(p)
  <2> DEFINE Read == {v \in LiveVersionsOf(publish[p].doc) : v.seq = publish[p].seq}
  <2>1. CASE Read = {}
    BY <1>1, <1>3, <2>1 DEF PublishReadsVersion
  <2>2. CASE Read # {}
    <3>1. PICK v : v = CHOOSE w \in Read : TRUE
      OBVIOUS
    <3>2. v \in Read
      BY <2>2, <3>1
    <3>3. /\ v \in versions /\ v.doc = publish[p].doc /\ v.seq = publish[p].seq
          /\ v.doc \in Documents /\ v.seq \in Seqs /\ v.hash \in Contents
      BY <1>0, <3>2 DEF LiveVersionsOf, VersionsOf, VersionRow
    <3>4. PICK call : call = [publish[p] EXCEPT !.pc = "content", !.hash = v.hash]
      OBVIOUS
    <3>5. /\ call \in PublishType /\ call.pc = "content" /\ call.doc = v.doc
          /\ call.seq = v.seq /\ call.hash = v.hash
      BY <1>0, <3>3, <3>4 DEF PublishType, PublishLabels
    <3>6. publish' = [publish EXCEPT ![p] = call] /\ publish[p].pc = "version"
          /\ UNCHANGED <<hubRow, hubIds, hubObjects>>
      BY <1>3, <2>2, <3>1, <3>4 DEF PublishReadsVersion
    <3>7. publish'[p] = call
      BY <3>6 DEF HubInv
    <3>8. Used(v.doc, v.seq) /\ \A b \in blobs : b.doc = v.doc /\ b.seq = v.seq => b.hash = v.hash
      BY <1>0, <3>3 DEF StoreInv, Numbered, Backed
    <3>9. blobs' = blobs /\ Used(v.doc, v.seq)'
      BY <3>8 DEF vars, uploadVars, storeVars, Used, Holds
    <3>10. PublishShape(p)'
      BY <3>3, <3>5, <3>7, <3>8, <3>9 DEF PublishShape
    <3> QED BY <3>5, <3>6, <3>10, PublishMoves
  <2> QED BY <2>1, <2>2
<1>4. CASE PublishReadsContent(p)
  <2>1. publish[p].pc = "content" /\ UNCHANGED <<hubRow, hubIds, hubObjects>>
    BY <1>4 DEF PublishReadsContent
  <2>2. CASE publish' = [publish EXCEPT ![p] = Ended]
    BY <1>1, <2>1, <2>2
  <2>3. ASSUME NEW h \in ContentAt(publish[p].doc, publish[p].seq),
               publish' = [publish EXCEPT ![p] = [@ EXCEPT !.pc = "row", !.body = h]]
        PROVE  HubInv'
    <3>1. h = publish[p].hash /\ h \in Contents
      BY <2>1, <2>3 DEF ContentAt, BlobsOf, HubInv, PublishShape
    <3>2. PICK call : call = [publish[p] EXCEPT !.pc = "row", !.body = h]
      OBVIOUS
    <3>3. call \in PublishType /\ call.pc = "row" /\ call.body = h /\ call.hash = h
      BY <1>0, <3>1, <3>2 DEF PublishType, PublishLabels
    <3>4. publish' = [publish EXCEPT ![p] = call]
      BY <2>3, <3>2
    <3>5. publish'[p] = call
      BY <3>4 DEF HubInv
    <3>6. PublishShape(p)'
      BY <3>1, <3>3, <3>5 DEF PublishShape
    <3> QED BY <2>1, <3>3, <3>4, <3>6, PublishMoves
  <2> QED BY <1>4, <2>2, <2>3 DEF PublishReadsContent
<1> QED BY <1>2, <1>3, <1>4

\* The row of the slug is made or numbered anew: whatever was handed out before is below.
LEMMA RowKeeps ==
  ASSUME HubInv, NEW p \in Publishers, PublishRow(p), UNCHANGED vars
  PROVE  HubInv'
<1>0. PICK h : h = publish[p].hash
  OBVIOUS
<1>1. PICK row : row = upsertRow(h)
  OBVIOUS
<1>2. /\ publish[p].pc = "row" /\ hubRow' = row /\ hubIds' = row.id /\ hubObjects' = hubObjects
      /\ publish[p] \in PublishType /\ h \in Contents /\ publish[p].body = h
  BY <1>0, <1>1 DEF PublishRow, HubInv, PublishShape
<1>3. /\ row \in [id : Nat, seq : Nat, hash : Contents] /\ row.hash = h /\ hubIds <= row.id
      /\ hubRow = None => row.id = hubIds + 1
      /\ hubRow # None => row.id = hubRow.id /\ row.seq = hubRow.seq + 1
  <2>1. CASE hubRow = None
    BY <1>1, <1>2, <2>1 DEF upsertRow, HubInv
  <2>2. CASE hubRow # None
    <3>1. /\ hubRow \in [id : Nat, seq : Nat, hash : Contents] /\ hubRow.id = hubIds
          /\ row = [hubRow EXCEPT !.seq = @ + 1, !.hash = h]
      BY <1>1, <2>2 DEF upsertRow, HubInv
    <3>2. row.id = hubRow.id /\ row.seq = hubRow.seq + 1 /\ row.hash = h
      BY <3>1
    <3>3. row \in [id : Nat, seq : Nat, hash : Contents]
      <4>1. hubRow.seq + 1 \in Nat
        BY <3>1
      <4>2. PICK n : n = hubRow.seq + 1
        OBVIOUS
      <4>3. n \in Nat /\ row = [hubRow EXCEPT !.seq = n, !.hash = h]
        BY <3>1, <4>1, <4>2
      <4> QED BY ONLY <1>2, <3>1, <4>3
    <3>4. hubIds \in Nat
      BY DEF HubInv
    <3> QED BY <2>2, <3>1, <3>2, <3>3, <3>4
  <2> QED BY <2>1, <2>2
<1>4. PICK call : call = [NoPublish EXCEPT !.pc = "put", !.hash = h, !.body = publish[p].body,
                                          !.id = row.id, !.at = row.seq]
  OBVIOUS
<1>5. /\ call.pc = "put" /\ call.hash = h /\ call.body = h /\ call.id = row.id
      /\ call.at = row.seq
  BY <1>2, <1>4 DEF NoPublish
<1>6. call \in PublishType
  <2>1. row.id \in Nat /\ row.seq \in Nat /\ 0 \in 0 .. MaxSeq
    BY <1>3, MaxSeqAssumption
  <2>2. call = [pc |-> "put", doc |-> None, seq |-> 0, hash |-> h, body |-> h,
                id |-> row.id, at |-> row.seq]
    BY <1>2, <1>4 DEF NoPublish
  <2> QED BY <1>2, <2>1, <2>2 DEF PublishType, PublishLabels
<1>7. publish' = [publish EXCEPT ![p] = call]
  BY <1>0, <1>1, <1>2, <1>4 DEF PublishRow
<1>8. /\ publish' \in [Publishers -> PublishType] /\ publish'[p] = call
      /\ \A q \in Publishers : q # p => publish'[q] = publish[q]
  BY <1>6, <1>7 DEF HubInv
<1>9. ObjectsFollowRow'
  <2> SUFFICES ASSUME NEW o \in hubObjects
               PROVE  /\ o.id \in Nat /\ o.seq \in Nat /\ o.id <= row.id
                      /\ o.id = row.id => o.seq <= row.seq /\ o.seq # row.seq
    BY <1>2 DEF ObjectsFollowRow
  <2>1. /\ o.id \in Nat /\ o.seq \in Nat /\ o.id <= hubIds /\ hubIds \in Nat
        /\ hubRow # None /\ o.id = hubRow.id => o.seq <= hubRow.seq
        /\ hubRow # None => hubRow.seq \in Nat
    BY DEF HubInv, ObjectsFollowRow
  <2>2. row.id \in Nat /\ row.seq \in Nat
    BY <1>3
  <2>3. o.id <= row.id
    BY <1>3, <2>1, <2>2
  <2>4. o.id = row.id => hubRow # None
    BY <1>3, <2>1
  <2> QED BY <1>3, <2>1, <2>2, <2>3, <2>4
<1>10. blobs' = blobs /\ \A d, s : Used(d, s)' = Used(d, s)
  BY DEF vars, uploadVars, storeVars, Used, Holds
<1>11. \A q \in Publishers : PublishShape(q)'
  <2> SUFFICES ASSUME NEW q \in Publishers PROVE PublishShape(q)'
    OBVIOUS
  <2>1. CASE q = p
    BY <1>2, <1>3, <1>5, <1>8, <2>1 DEF PublishShape
  <2>2. CASE q # p /\ publish[q].pc \in {"put", "failed"}
    <3>1. PICK c : c = publish[q]
      OBVIOUS
    <3>2. /\ c.pc \in {"put", "failed"} /\ c.hash \in Contents /\ c.body = c.hash
          /\ c.id \in Nat /\ c.at \in Nat /\ c.id <= hubIds /\ hubIds \in Nat
          /\ hubRow # None /\ c.id = hubRow.id => c.at <= hubRow.seq
          /\ hubRow # None => hubRow.seq \in Nat
      BY <2>2, <3>1 DEF HubInv, PublishShape, PublishType
    <3>3. row.id \in Nat /\ row.seq \in Nat /\ hubIds <= row.id
      BY <1>3
    <3>4. c.id <= row.id
      BY <3>2, <3>3
    <3>5. c.id = row.id => hubRow # None
      BY <1>3, <3>2
    <3>6. c.id = row.id => c.at <= row.seq /\ c.at # row.seq
      BY <1>3, <3>2, <3>3, <3>5
    <3>7. publish'[q] = c
      BY <1>8, <2>2, <3>1
    <3> QED BY <1>2, <3>2, <3>4, <3>6, <3>7 DEF PublishShape
  <2>3. CASE q # p /\ publish[q].pc \notin {"put", "failed"}
    BY <1>8, <1>10, <2>3 DEF HubInv, PublishShape
  <2> QED BY <2>1, <2>2, <2>3
<1>12. HubServesItsSnapshot'
  <2>1. PublicHash(row.id, row.seq)' = {}
    <3> SUFFICES ASSUME NEW o \in hubObjects, o.id = row.id, o.seq = row.seq PROVE FALSE
      BY <1>2 DEF PublicHash
    <3>1. /\ o.seq \in Nat /\ o.id <= hubIds /\ hubIds \in Nat
          /\ hubRow # None /\ o.id = hubRow.id => o.seq <= hubRow.seq
          /\ hubRow # None => hubRow.seq \in Nat
      BY DEF HubInv, ObjectsFollowRow
    <3> QED BY <1>3, <3>1
  <2> QED BY <1>2, <1>3, <1>5, <1>8, <2>1 DEF HubServesItsSnapshot
<1>13. row.id \in Nat
  BY <1>3
<1> QED BY <1>2, <1>3, <1>8, <1>9, <1>11, <1>12, <1>13 DEF HubInv

\* The object is stored under the number its publish was given, once.
LEMMA PutPublicKeeps ==
  ASSUME HubInv, NEW p \in Publishers, PutPublic(p), UNCHANGED vars
  PROVE  HubInv'
<1>1. PICK c : c = publish[p]
  OBVIOUS
<1>2. /\ c.pc = "put" /\ c \in PublishType /\ c.body = c.hash /\ c.id <= hubIds
      /\ c.id \in Nat /\ c.at \in Nat
      /\ hubRow # None /\ c.id = hubRow.id =>
           c.at <= hubRow.seq /\ (c.at = hubRow.seq => c.hash = hubRow.hash)
  BY <1>1 DEF PutPublic, HubInv, PublishShape, PublishType
<1>3. /\ PublicHash(c.id, c.at) \subseteq {c.hash}
      /\ hubObjects' = hubObjects \cup {PublicObject(c.id, c.at, c.hash)}
      /\ publish' = [publish EXCEPT ![p] = Ended]
      /\ hubRow' = hubRow /\ hubIds' = hubIds
  BY <1>1, <1>2 DEF PutPublic
<1>4. Ended \in PublishType /\ Ended.pc = "ended"
  BY MaxSeqAssumption DEF Ended, NoPublish, PublishType, PublishLabels
<1>5. /\ publish' \in [Publishers -> PublishType] /\ publish'[p].pc = "ended"
      /\ \A q \in Publishers : q # p => publish'[q] = publish[q]
  BY <1>3, <1>4 DEF HubInv
<1>6. PICK o : o = PublicObject(c.id, c.at, c.hash)
  OBVIOUS
<1>7. o.id = c.id /\ o.seq = c.at /\ o.hash = c.hash
  BY <1>6 DEF PublicObject
<1>8. ObjectsFollowRow'
  BY <1>2, <1>3, <1>6, <1>7 DEF HubInv, ObjectsFollowRow
<1>9. blobs' = blobs /\ \A d, s : Used(d, s)' = Used(d, s)
  BY DEF vars, uploadVars, storeVars, Used, Holds
<1>10. \A q \in Publishers : PublishShape(q)'
  BY <1>3, <1>5, <1>9 DEF HubInv, PublishShape
<1>11. HubServesItsSnapshot'
  <2> SUFFICES ASSUME hubRow # None
               PROVE  \/ PublicHash(hubRow.id, hubRow.seq)' = {hubRow.hash}
                      \/ /\ PublicHash(hubRow.id, hubRow.seq)' = {}
                         /\ \E q \in Publishers : /\ publish'[q].pc \in {"put", "failed"}
                                                  /\ publish'[q].id = hubRow.id
                                                  /\ publish'[q].at = hubRow.seq
                                                  /\ publish'[q].hash = hubRow.hash
    BY <1>3 DEF HubServesItsSnapshot
  <2>1. hubObjects' = hubObjects \cup {o}
    BY <1>3, <1>6
  <2>2. CASE c.id = hubRow.id /\ c.at = hubRow.seq
    <3>1. c.hash = hubRow.hash
      BY <1>2, <2>2
    <3>2. PublicHash(hubRow.id, hubRow.seq)' = PublicHash(c.id, c.at) \cup {c.hash}
      BY <1>3, <1>7, <2>1, <2>2 DEF PublicHash
    <3> QED BY <1>3, <3>1, <3>2
  <2>3. CASE ~(c.id = hubRow.id /\ c.at = hubRow.seq)
    <3>1. PublicHash(hubRow.id, hubRow.seq)' = PublicHash(hubRow.id, hubRow.seq)
      BY <1>3, <1>7, <2>1, <2>3 DEF PublicHash
    <3>2. \A q \in Publishers : publish[q].id = hubRow.id /\ publish[q].at = hubRow.seq => q # p
      BY <1>1, <2>3
    <3> QED BY <1>5, <3>1, <3>2 DEF HubInv, HubServesItsSnapshot
  <2> QED BY <2>2, <2>3
<1> QED BY <1>3, <1>5, <1>8, <1>10, <1>11 DEF HubInv

\* A write that fails leaves a row without its object, and a publish that knows.
LEMMA PutFailsKeeps ==
  ASSUME HubInv, NEW p \in Publishers, PutPublicThrows(p), UNCHANGED vars
  PROVE  HubInv'
<1>1. PICK call : call = [publish[p] EXCEPT !.pc = "failed"]
  OBVIOUS
<1>2. /\ publish[p].pc = "put" /\ publish[p] \in PublishType
      /\ UNCHANGED <<hubRow, hubIds, hubObjects>>
      /\ publish' = [publish EXCEPT ![p] = call]
  BY <1>1 DEF PutPublicThrows, HubInv
<1>3. /\ call \in PublishType /\ call.pc = "failed" /\ call.hash = publish[p].hash
      /\ call.body = publish[p].body /\ call.id = publish[p].id /\ call.at = publish[p].at
  BY <1>1, <1>2 DEF PublishType, PublishLabels
<1>4. /\ publish' \in [Publishers -> PublishType] /\ publish'[p] = call
      /\ \A q \in Publishers : q # p => publish'[q] = publish[q]
  BY <1>2, <1>3 DEF HubInv
<1>5. blobs' = blobs /\ \A d, s : Used(d, s)' = Used(d, s)
  BY DEF vars, uploadVars, storeVars, Used, Holds
<1>6. \A q \in Publishers : PublishShape(q)'
  <2>1. PublishShape(p)'
    BY <1>2, <1>3, <1>4 DEF HubInv, PublishShape
  <2>2. \A q \in Publishers : q # p => PublishShape(q)'
    BY <1>2, <1>4, <1>5 DEF HubInv, PublishShape
  <2> QED BY <2>1, <2>2
<1>7. \A q \in Publishers : publish[q].pc \in {"put", "failed"} =>
        /\ publish'[q].pc \in {"put", "failed"} /\ publish'[q].id = publish[q].id
        /\ publish'[q].at = publish[q].at /\ publish'[q].hash = publish[q].hash
  BY <1>3, <1>4
<1>8. HubServesItsSnapshot'
  BY <1>2, <1>7 DEF HubInv, HubServesItsSnapshot, PublicHash
<1> QED BY <1>2, <1>4, <1>6, <1>8 DEF HubInv, ObjectsFollowRow

\* A slug without a row serves nothing.
LEMMA UnpublishKeeps ==
  ASSUME HubInv, unpublishPublicDoc, UNCHANGED vars
  PROVE  HubInv'
<1>1. hubRow' = None /\ UNCHANGED <<hubIds, hubObjects, publish>>
  BY DEF unpublishPublicDoc
<1>2. blobs' = blobs /\ \A d, s : Used(d, s)' = Used(d, s)
  BY DEF vars, uploadVars, storeVars, Used, Holds
<1>3. \A q \in Publishers : PublishShape(q)'
  BY <1>1, <1>2 DEF HubInv, PublishShape
<1> QED BY <1>1, <1>3 DEF HubInv, ObjectsFollowRow, HubServesItsSnapshot

\* The hub is beside the rest: it reads it and disturbs nothing.
THEOREM HubIsBeside == HubSpec => Spec
<1>1. HubInit => Init
  BY DEF HubInit
<1>2. [HubNext]_<<vars, hubVars>> => [Next]_vars
  BY DEF HubNext, vars, hubVars
<1> QED BY <1>1, <1>2, PTL DEF HubSpec, Spec

\* A slug serves what its row names, for any number of publishes, ids and versions, while
\* sweeps and deletes take the sources away.
THEOREM SlugsServeTheirSnapshot == HubSpec => []HubServesItsSnapshot
<1>1. HubInit => HubInv
  <2> SUFFICES ASSUME HubInit PROVE HubInv
    OBVIOUS
  <2>1. NoPublish \in PublishType /\ NoPublish.pc = "idle"
    BY MaxSeqAssumption DEF NoPublish, PublishType, PublishLabels
  <2>2. \A p \in Publishers : publish[p].pc = "idle"
    BY <2>1 DEF HubInit
  <2> QED BY <2>1, <2>2 DEF HubInit, HubInv, ObjectsFollowRow, PublishShape, HubServesItsSnapshot
<1>2. ErasureInv /\ HubInv /\ [HubNext]_<<vars, hubVars>> => HubInv'
  <2> SUFFICES ASSUME ErasureInv, HubInv, [HubNext]_<<vars, hubVars>> PROVE HubInv'
    OBVIOUS
  <2>1. CASE [Next]_vars /\ UNCHANGED hubVars
    BY <2>1, HubStays
  <2>2. CASE unpublishPublicDoc /\ UNCHANGED vars
    BY <2>2, UnpublishKeeps
  <2>3. ASSUME NEW p \in Publishers, HubStep(p), UNCHANGED vars
        PROVE  HubInv'
    BY <2>3, ReadsKeep, RowKeeps, PutPublicKeeps, PutFailsKeeps DEF HubStep
  <2> QED BY <2>1, <2>2, <2>3 DEF HubNext
<1>3. HubInv => HubServesItsSnapshot
  BY DEF HubInv
<1> QED BY <1>1, <1>2, <1>3, HubIsBeside, ErasureInvariant, PTL DEF HubSpec

-----------------------------------------------------------------------------
(* Uploads alone, where no document is deleted and nothing is swept.        *)
(*                                                                         *)
(* That a number is free when it is handed out depends on the counter      *)
(* being ahead of every row, every object and every other reservation, and *)
(* that a row is readable depends on its request having stored the object  *)
(* under a number nobody else can write to.  UploadInv says it all at once. *)

Key(r) == <<req[r].doc, req[r].seq>>

\* The counter is ahead of everything numbered, and untouched before birth.
CounterAhead ==
  /\ \A v \in versions : v.seq < nextSeq[v.doc]
  /\ \A b \in blobs : b.seq < nextSeq[b.doc]
  /\ \A d \in Documents : docRow[d] = "unborn" => nextSeq[d] = 1

\* A reservation names a born document, and a number below its counter.
HoldersWellFormed ==
  \A r \in Requests :
    /\ Holds(r) \/ req[r].pc = "rollback" =>
         req[r].doc \in Documents /\ docRow[req[r].doc] # "unborn"
    /\ Holds(r) => /\ req[r].seq \in Seqs
                   /\ req[r].hash \in Contents
                   /\ req[r].seq < nextSeq[req[r].doc]

\* No two requests hold one number of a document, no row has a held number, and
\* what is stored under it is the holder's.
HoldersApart ==
  \A r \in Requests : Holds(r) =>
    /\ \A q \in Requests : Holds(q) /\ q # r => Key(q) # Key(r)
    /\ \A v \in versions : <<v.doc, v.seq>> # Key(r)
    /\ \A b \in blobs : <<b.doc, b.seq>> = Key(r) => b.hash = req[r].hash

\* One object per number; a request about to insert has stored its own; so has
\* every row.
Stored ==
  /\ \A a, b \in blobs : a.doc = b.doc /\ a.seq = b.seq => a = b
  /\ \A r \in Requests : req[r].pc = "finalize" => ObjectOf(r) \in blobs
  /\ \A v \in versions : [doc |-> v.doc, seq |-> v.seq, hash |-> v.hash] \in blobs

UploadInv ==
  /\ UploadsTypeOK
  /\ CounterAhead
  /\ HoldersWellFormed
  /\ HoldersApart
  /\ Stored

USE DEF Holding, Seqs

-----------------------------------------------------------------------------
(* The invariant gives what the properties say.                             *)

\* A held number is nobody else's: the inductive invariant says so.
LEMMA InvImpliesExclusive == UploadInv => ReservationsExclusive
  BY DEF UploadInv, HoldersWellFormed, HoldersApart, Holds, Key, ReservationsExclusive,
         VersionsOf, ContentAt, BlobsOf

\* A row shows its own content and nothing else: there is one object per number.
LEMMA InvImpliesReadable == UploadInv => LiveVersionsReadable
<1> SUFFICES ASSUME UploadInv, NEW v \in versions
             PROVE  ContentAt(v.doc, v.seq) = {v.hash}
  BY DEF LiveVersionsReadable
<1> DEFINE o == [doc |-> v.doc, seq |-> v.seq, hash |-> v.hash]
<1>1. o \in blobs
  BY DEF UploadInv, Stored
<1>2. \A b \in blobs : b.doc = v.doc /\ b.seq = v.seq => b = o
  BY <1>1 DEF UploadInv, Stored
<1> QED BY <1>1, <1>2 DEF ContentAt, BlobsOf

-----------------------------------------------------------------------------
(* Initial states.                                                          *)

LEMMA InitUploadInv == UploadInit => UploadInv
<1> SUFFICES ASSUME UploadInit PROVE UploadInv
  OBVIOUS
<1> USE DEF UploadInit, StoreInit, Idle
<1>1. StoreTypeOK
  BY MaxSeqAssumption DEF StoreTypeOK, DocStates, CommentRow, NoComment, VersionRow, Blob
<1>2. UploadTypeOK
  BY MaxSeqAssumption DEF UploadTypeOK, UploadStates
<1>3. CounterAhead /\ HoldersWellFormed /\ HoldersApart /\ Stored
  BY DEF CounterAhead, HoldersWellFormed, HoldersApart, Stored, Holds
<1> QED BY <1>1, <1>2, <1>3 DEF UploadInv, UploadsTypeOK
-----------------------------------------------------------------------------
(* Each step preserves the invariant.                                       *)

USE DEF uploadVars, storeVars

\* A document is born with its first reservation: no other reservation, row or
\* object can name it yet.
LEMMA CreateGateInv ==
  ASSUME UploadInv, NEW r \in Requests, NEW d \in Documents, NEW h \in Contents,
         CreateGate(r, d, h)
  PROVE  UploadInv'
<1> USE DEF CreateGate, insertDocument, Reserve, reservedSeq
<1>1. nextSeq[d] = 1
  BY DEF UploadInv, CounterAhead
<1>2. nextSeq' = [nextSeq EXCEPT ![d] = 2]
  BY <1>1
<1>3. UploadsTypeOK'
  <2>1. StoreTypeOK'
    BY <1>2, MaxSeqAssumption DEF UploadInv, UploadsTypeOK, StoreTypeOK, DocStates
  <2>2. UploadTypeOK'
    BY <1>1, MaxSeqAssumption DEF UploadInv, UploadsTypeOK, UploadTypeOK, UploadStates
  <2> QED BY <2>1, <2>2 DEF UploadsTypeOK
<1>4. \A v \in versions : v.doc # d
  BY <1>1 DEF UploadInv, CounterAhead, UploadsTypeOK, StoreTypeOK, VersionRow
<1>5. \A b \in blobs : b.doc # d
  BY <1>1 DEF UploadInv, CounterAhead, UploadsTypeOK, StoreTypeOK, Blob
<1>6. \A q \in Requests : Holds(q) \/ req[q].pc = "rollback" => req[q].doc # d
  BY DEF UploadInv, HoldersWellFormed
<1>7. CounterAhead'
  BY <1>1, <1>2, <1>4, <1>5 DEF UploadInv, CounterAhead, UploadsTypeOK, StoreTypeOK
<1>8. HoldersWellFormed'
  BY <1>1, <1>2, <1>6, MaxSeqAssumption DEF UploadInv, HoldersWellFormed, Holds, UploadsTypeOK, StoreTypeOK, UploadTypeOK
<1>9. HoldersApart'
  BY <1>1, <1>4, <1>5, <1>6 DEF UploadInv, HoldersApart, Holds, Key, UploadsTypeOK, UploadTypeOK
<1>10. Stored'
  BY DEF UploadInv, Stored, ObjectOf, UploadsTypeOK, UploadTypeOK
<1> QED BY <1>3, <1>7, <1>8, <1>9, <1>10 DEF UploadInv

\* Nothing is reserved and nothing is written.
LEMMA PushDedupInv ==
  ASSUME UploadInv, NEW r \in Requests, NEW d \in Documents, NEW h \in Contents,
         PushDedup(r, d, h)
  PROVE  UploadInv'
<1> USE DEF PushDedup, Idle
<1>1. UploadsTypeOK'
  BY MaxSeqAssumption DEF UploadInv, UploadsTypeOK, StoreTypeOK, UploadTypeOK, UploadStates
<1>2. CounterAhead'
  BY DEF UploadInv, CounterAhead
<1>3. HoldersWellFormed'
  BY DEF UploadInv, HoldersWellFormed, Holds, UploadsTypeOK, UploadTypeOK
<1>4. HoldersApart'
  BY DEF UploadInv, HoldersApart, Holds, Key, UploadsTypeOK, UploadTypeOK
<1>5. Stored'
  BY DEF UploadInv, Stored, ObjectOf, UploadsTypeOK, UploadTypeOK
<1> QED BY <1>1, <1>2, <1>3, <1>4, <1>5 DEF UploadInv

\* The counter's value is free, because everything numbered is below it.
LEMMA PushGateInv ==
  ASSUME UploadInv, NEW r \in Requests, NEW d \in Documents, NEW h \in Contents,
         PushGate(r, d, h)
  PROVE  UploadInv'
<1> USE DEF PushGate, reserveVersionSeq, Reserve, reservedSeq
<1>1. UploadsTypeOK'
  BY MaxSeqAssumption DEF UploadInv, UploadsTypeOK, StoreTypeOK, UploadTypeOK, UploadStates
<1>2. nextSeq[d] \in Seqs
  BY MaxSeqAssumption DEF UploadInv, UploadsTypeOK, StoreTypeOK
<1>3. CounterAhead'
  BY <1>2 DEF UploadInv, CounterAhead, UploadsTypeOK, StoreTypeOK, VersionRow, Blob
<1>4. HoldersWellFormed'
  BY <1>2 DEF UploadInv, HoldersWellFormed, Holds, UploadsTypeOK, StoreTypeOK, UploadTypeOK
<1>5. \A q \in Requests : Holds(q) => Key(q) # <<d, nextSeq[d]>>
  BY <1>2 DEF UploadInv, HoldersWellFormed, Key
<1>6. \A v \in versions : <<v.doc, v.seq>> # <<d, nextSeq[d]>>
  BY <1>2 DEF UploadInv, CounterAhead
<1>7. \A b \in blobs : <<b.doc, b.seq>> # <<d, nextSeq[d]>>
  BY <1>2 DEF UploadInv, CounterAhead
<1>8. HoldersApart'
  BY <1>5, <1>6, <1>7 DEF UploadInv, HoldersApart, Holds, Key, UploadsTypeOK, UploadTypeOK
<1>9. Stored'
  BY DEF UploadInv, Stored, ObjectOf, UploadsTypeOK, UploadTypeOK
<1> QED BY <1>1, <1>3, <1>4, <1>8, <1>9 DEF UploadInv
\* What a holder stores is its own object, and nobody else's number.
LEMMA OwnObject ==
  ASSUME UploadInv, NEW r \in Requests, Holds(r)
  PROVE  /\ ObjectOf(r) \in Blob
         /\ req[r].seq < nextSeq[req[r].doc]
         /\ \A b \in blobs : b.doc = req[r].doc /\ b.seq = req[r].seq => b = ObjectOf(r)
         /\ \A q \in Requests : Holds(q) /\ q # r => Key(q) # Key(r)
<1>1. ObjectOf(r) \in Blob /\ req[r].seq < nextSeq[req[r].doc]
  BY DEF UploadInv, HoldersWellFormed, ObjectOf, Blob
<1>2. \A b \in blobs : b \in Blob
  BY DEF UploadInv, UploadsTypeOK, StoreTypeOK
<1>3. \A b \in blobs : b.doc = req[r].doc /\ b.seq = req[r].seq => b = ObjectOf(r)
  BY <1>2 DEF UploadInv, HoldersApart, Key, ObjectOf, Blob
<1> QED BY <1>1, <1>3 DEF UploadInv, HoldersApart

\* The state of the store after the holder's write.
LEMMA PutStored ==
  ASSUME UploadInv, NEW r \in Requests, Holds(r),
         put(req[r].doc, req[r].seq, req[r].hash),
         UNCHANGED <<docRow, nextSeq, current, indexed, versions, comment>>
  PROVE  /\ StoreTypeOK'
         /\ CounterAhead'
         /\ \A a, b \in blobs' : a.doc = b.doc /\ a.seq = b.seq => a = b
         /\ \A q \in Requests : Holds(q) /\ q # r =>
              \A b \in blobs' : <<b.doc, b.seq>> = Key(q) => b.hash = req[q].hash
<1>1. blobs' = blobs \cup {ObjectOf(r)}
  BY DEF put, ObjectOf
<1>2. StoreTypeOK'
  BY <1>1, OwnObject DEF UploadInv, UploadsTypeOK, StoreTypeOK
<1>3. CounterAhead'
  BY <1>1, OwnObject DEF UploadInv, CounterAhead, ObjectOf
<1>4. \A a, b \in blobs' : a.doc = b.doc /\ a.seq = b.seq => a = b
  BY <1>1, OwnObject DEF UploadInv, Stored, ObjectOf
<1>5. \A q \in Requests : Holds(q) /\ q # r =>
        \A b \in blobs' : <<b.doc, b.seq>> = Key(q) => b.hash = req[q].hash
  BY <1>1, OwnObject DEF UploadInv, HoldersApart, ObjectOf, Key
<1> QED BY <1>2, <1>3, <1>4, <1>5

\* The request goes on with its object stored.
LEMMA PutBlobInv ==
  ASSUME UploadInv, NEW r \in Requests, PutBlob(r)
  PROVE  UploadInv'
<1> USE DEF PutBlob, Goto
<1>1. Holds(r) /\ put(req[r].doc, req[r].seq, req[r].hash)
  BY DEF Holds
<1>2. /\ StoreTypeOK'
      /\ CounterAhead'
      /\ \A a, b \in blobs' : a.doc = b.doc /\ a.seq = b.seq => a = b
      /\ \A q \in Requests : Holds(q) /\ q # r =>
           \A b \in blobs' : <<b.doc, b.seq>> = Key(q) => b.hash = req[q].hash
  BY <1>1, PutStored
<1>3. UploadTypeOK'
  BY DEF UploadInv, UploadsTypeOK, UploadTypeOK, UploadStates
<1>4. /\ \A q \in Requests \ {r} : req'[q] = req[q]
      /\ req'[r].pc = "finalize"
      /\ req'[r].doc = req[r].doc /\ req'[r].seq = req[r].seq /\ req'[r].hash = req[r].hash
  BY DEF UploadInv, UploadsTypeOK, UploadTypeOK
<1>5. HoldersWellFormed'
  BY <1>1, <1>4 DEF UploadInv, HoldersWellFormed, Holds
<1>6. blobs' = blobs \cup {ObjectOf(r)}
  BY <1>1 DEF put, ObjectOf
<1>7. \A b \in blobs' : <<b.doc, b.seq>> = Key(r) => b.hash = req[r].hash
  BY <1>1, <1>6 DEF UploadInv, HoldersApart, Key, ObjectOf
<1>8. HoldersApart'
  BY <1>1, <1>2, <1>4, <1>7 DEF UploadInv, HoldersApart, Holds, Key
<1>9. Stored'
  BY <1>2, <1>4, <1>6 DEF UploadInv, Stored, ObjectOf
<1> QED BY <1>2, <1>3, <1>5, <1>8, <1>9 DEF UploadInv, UploadsTypeOK

\* A request that gives up its number and keeps, if it is a create, its document.
LEMMA ThrowRequest ==
  ASSUME UploadInv, NEW r \in Requests, OnThrow(r)
  PROVE  /\ UploadTypeOK'
         /\ \A q \in Requests \ {r} : req'[q] = req[q]
         /\ req'[r].pc \in {"rollback", "failed"}
         /\ req'[r].doc = req[r].doc
<1> USE DEF UploadInv, UploadsTypeOK, UploadTypeOK, UploadStates
<1>1. CASE Goto(r, "rollback")
  BY <1>1 DEF Goto
<1>2. CASE End(r, "failed")
  BY <1>2, MaxSeqAssumption DEF End
<1> QED BY <1>1, <1>2 DEF OnThrow

\* The object may be there or not, nobody will ever claim its number again.
LEMMA PutThrowsInv ==
  ASSUME UploadInv, NEW r \in Requests, PutThrows(r)
  PROVE  UploadInv'
<1>1. Holds(r) /\ OnThrow(r)
  BY DEF PutThrows, Holds
<1>2. /\ UploadTypeOK'
      /\ \A q \in Requests \ {r} : req'[q] = req[q]
      /\ req'[r].pc \in {"rollback", "failed"}
      /\ req'[r].doc = req[r].doc
  BY <1>1, ThrowRequest
<1>3. UNCHANGED <<docRow, nextSeq, current, indexed, versions, comment>>
  BY DEF PutThrows
<1>4. /\ StoreTypeOK'
      /\ CounterAhead'
      /\ \A a, b \in blobs' : a.doc = b.doc /\ a.seq = b.seq => a = b
      /\ \A q \in Requests : Holds(q) /\ q # r =>
           \A b \in blobs' : <<b.doc, b.seq>> = Key(q) => b.hash = req[q].hash
  <2>1. CASE UNCHANGED blobs
    BY <1>3, <2>1 DEF UploadInv, UploadsTypeOK, StoreTypeOK, CounterAhead, Stored, HoldersApart
  <2>2. CASE put(req[r].doc, req[r].seq, req[r].hash)
    BY <1>1, <1>3, <2>2, PutStored
  <2> QED BY <2>1, <2>2 DEF PutThrows
<1>5. HoldersWellFormed'
  BY <1>1, <1>2, <1>3 DEF UploadInv, HoldersWellFormed, Holds
<1>6. HoldersApart'
  BY <1>2, <1>3, <1>4 DEF UploadInv, HoldersApart, Holds, Key
<1>7. blobs \subseteq blobs'
  BY DEF PutThrows, put
<1>8. Stored'
  BY <1>2, <1>3, <1>4, <1>7 DEF UploadInv, Stored, ObjectOf
<1> QED BY <1>2, <1>4, <1>5, <1>6, <1>8 DEF UploadInv, UploadsTypeOK

\* The state of the store after the finalize transaction: the new row takes a
\* number nobody else holds, and its object is there.
LEMMA FinalizeStored ==
  ASSUME UploadInv, NEW r \in Requests, req[r].pc = "finalize", FinalizeTx(r),
         UNCHANGED <<docRow, nextSeq, comment, blobs>>
  PROVE  /\ StoreTypeOK'
         /\ CounterAhead'
         /\ \A q \in Requests : Holds(q) /\ q # r =>
              \A v \in versions' : <<v.doc, v.seq>> # Key(q)
         /\ \A v \in versions' :
              [doc |-> v.doc, seq |-> v.seq, hash |-> v.hash] \in blobs
<1> DEFINE row == [doc |-> req[r].doc, seq |-> req[r].seq, hash |-> req[r].hash, purged |-> FALSE]
<1> USE DEF FinalizeTx
<1>1. Holds(r) /\ versions' = versions \cup {row}
  BY DEF Holds, insertVersionAtSeq
<1>2. row \in VersionRow /\ row.seq < nextSeq[row.doc]
  BY <1>1 DEF UploadInv, HoldersWellFormed, VersionRow
<1>3. StoreTypeOK'
  <2>1. req[r].doc \in Documents /\ req[r].seq \in 0 .. MaxSeq
    BY <1>1, MaxSeqAssumption DEF UploadInv, HoldersWellFormed
  <2>2. current' \in [Documents -> 0 .. MaxSeq] /\ indexed' \in [Documents -> 0 .. MaxSeq]
    BY <2>1 DEF UploadInv, UploadsTypeOK, StoreTypeOK, insertVersionAtSeq, indexVersion
  <2>3. versions' \subseteq VersionRow
    BY <1>1, <1>2 DEF UploadInv, UploadsTypeOK, StoreTypeOK
  <2> QED BY <2>2, <2>3 DEF UploadInv, UploadsTypeOK, StoreTypeOK
<1>4. CounterAhead'
  BY <1>1, <1>2 DEF UploadInv, CounterAhead
<1>5. \A q \in Requests : Holds(q) /\ q # r =>
        \A v \in versions' : <<v.doc, v.seq>> # Key(q)
  BY <1>1 DEF UploadInv, HoldersApart, Key
<1>6. \A v \in versions' : [doc |-> v.doc, seq |-> v.seq, hash |-> v.hash] \in blobs
  <2>1. ObjectOf(r) \in blobs
    BY DEF UploadInv, Stored
  <2>2. [doc |-> row.doc, seq |-> row.seq, hash |-> row.hash] = ObjectOf(r)
    BY DEF ObjectOf
  <2> QED BY <1>1, <2>1, <2>2 DEF UploadInv, Stored
<1> QED BY <1>3, <1>4, <1>5, <1>6

\* Done: the number is now the row's.
LEMMA FinalizeInv ==
  ASSUME UploadInv, NEW r \in Requests, Finalize(r)
  PROVE  UploadInv'
<1> USE DEF Finalize, End
<1>1. /\ StoreTypeOK'
      /\ CounterAhead'
      /\ \A q \in Requests : Holds(q) /\ q # r =>
           \A v \in versions' : <<v.doc, v.seq>> # Key(q)
      /\ \A v \in versions' : [doc |-> v.doc, seq |-> v.seq, hash |-> v.hash] \in blobs
  BY FinalizeStored
<1>2. UploadTypeOK'
  BY MaxSeqAssumption DEF UploadInv, UploadsTypeOK, UploadTypeOK, UploadStates
<1>3. /\ \A q \in Requests \ {r} : req'[q] = req[q]
      /\ req'[r].pc = "done"
  BY DEF UploadInv, UploadsTypeOK, UploadTypeOK
<1>4. HoldersWellFormed'
  BY <1>3 DEF UploadInv, HoldersWellFormed, Holds
<1>5. HoldersApart'
  BY <1>1, <1>3 DEF UploadInv, HoldersApart, Holds, Key
<1>6. Stored'
  BY <1>1, <1>3 DEF UploadInv, Stored, ObjectOf
<1> QED BY <1>1, <1>2, <1>4, <1>5, <1>6 DEF UploadInv, UploadsTypeOK

\* Committed or not, the request stops using its number.
LEMMA FinalizeThrowsInv ==
  ASSUME UploadInv, NEW r \in Requests, FinalizeThrows(r)
  PROVE  UploadInv'
<1>1. /\ Holds(r) /\ OnThrow(r) /\ req[r].pc = "finalize"
      /\ UNCHANGED <<docRow, nextSeq, comment, blobs>>
  BY DEF FinalizeThrows, Holds
<1>2. /\ UploadTypeOK'
      /\ \A q \in Requests \ {r} : req'[q] = req[q]
      /\ req'[r].pc \in {"rollback", "failed"}
      /\ req'[r].doc = req[r].doc
  BY <1>1, ThrowRequest
<1>3. /\ StoreTypeOK'
      /\ CounterAhead'
      /\ \A q \in Requests : Holds(q) /\ q # r =>
           \A v \in versions' : <<v.doc, v.seq>> # Key(q)
      /\ \A v \in versions' : [doc |-> v.doc, seq |-> v.seq, hash |-> v.hash] \in blobs
  <2>1. CASE UNCHANGED <<versions, current, indexed>>
    BY <1>1, <2>1 DEF UploadInv, UploadsTypeOK, StoreTypeOK, CounterAhead, Stored, HoldersApart
  <2>2. CASE FinalizeTx(r)
    BY <1>1, <2>2, FinalizeStored
  <2> QED BY <2>1, <2>2 DEF FinalizeThrows
<1>4. HoldersWellFormed'
  BY <1>1, <1>2 DEF UploadInv, HoldersWellFormed, Holds
<1>5. HoldersApart'
  BY <1>1, <1>2, <1>3 DEF UploadInv, HoldersApart, Holds, Key
<1>6. Stored'
  BY <1>1, <1>2, <1>3 DEF UploadInv, Stored, ObjectOf
<1> QED BY <1>2, <1>3, <1>4, <1>5, <1>6 DEF UploadInv, UploadsTypeOK

\* Rows only go, and a document never returns to being unborn.
LEMMA RollbackInv ==
  ASSUME UploadInv, NEW r \in Requests, Rollback(r)
  PROVE  UploadInv'
<1> USE DEF Rollback, purgeDocument, End
<1>1. req[r].doc \in Documents
  BY DEF UploadInv, HoldersWellFormed
<1>2. versions' \subseteq versions
  OBVIOUS
<1>3. \A d \in Documents : docRow'[d] = IF d = req[r].doc THEN "gone" ELSE docRow[d]
  BY DEF UploadInv, UploadsTypeOK, StoreTypeOK
<1>4. StoreTypeOK'
  <2>1. comment' \in [Comments -> CommentRow]
    <3>1. NoComment \in CommentRow
      BY MaxSeqAssumption DEF CommentRow, NoComment
    <3> QED BY <3>1 DEF UploadInv, UploadsTypeOK, StoreTypeOK
  <2> QED BY <1>1, <1>2, <2>1, MaxSeqAssumption
          DEF UploadInv, UploadsTypeOK, StoreTypeOK, DocStates
<1>5. UploadTypeOK'
  BY MaxSeqAssumption DEF UploadInv, UploadsTypeOK, UploadTypeOK, UploadStates
<1>6. /\ \A q \in Requests \ {r} : req'[q] = req[q]
      /\ req'[r].pc = "failed"
  BY DEF UploadInv, UploadsTypeOK, UploadTypeOK
<1>7. CounterAhead'
  BY <1>2, <1>3 DEF UploadInv, CounterAhead
<1>8. HoldersWellFormed'
  BY <1>3, <1>6 DEF UploadInv, HoldersWellFormed, Holds
<1>9. HoldersApart'
  BY <1>2, <1>6 DEF UploadInv, HoldersApart, Holds, Key
<1>10. Stored'
  BY <1>2, <1>6 DEF UploadInv, Stored, ObjectOf
<1> QED BY <1>4, <1>5, <1>7, <1>8, <1>9, <1>10 DEF UploadInv, UploadsTypeOK

\* Only the request notices.
LEMMA RollbackThrowsInv ==
  ASSUME UploadInv, NEW r \in Requests, RollbackThrows(r)
  PROVE  UploadInv'
<1> USE DEF RollbackThrows, storeVars, End
<1>1. UploadTypeOK'
  BY MaxSeqAssumption DEF UploadInv, UploadsTypeOK, UploadTypeOK, UploadStates
<1>2. /\ \A q \in Requests \ {r} : req'[q] = req[q]
      /\ req'[r].pc = "leaked"
  BY DEF UploadInv, UploadsTypeOK, UploadTypeOK
<1>3. StoreTypeOK' /\ CounterAhead'
  BY DEF UploadInv, UploadsTypeOK, StoreTypeOK, CounterAhead
<1>4. HoldersWellFormed' /\ HoldersApart' /\ Stored'
  BY <1>2 DEF UploadInv, HoldersWellFormed, HoldersApart, Stored, Holds, Key, ObjectOf
<1> QED BY <1>1, <1>3, <1>4 DEF UploadInv, UploadsTypeOK

\* No step of any request, and no stutter, breaks the invariant.
LEMMA NextUploadInv == UploadInv /\ [UploadNext]_uploadVars => UploadInv'
<1> SUFFICES ASSUME UploadInv, [UploadNext]_uploadVars PROVE UploadInv'
  OBVIOUS
<1>1. CASE UNCHANGED uploadVars
  BY <1>1 DEF UploadInv, UploadsTypeOK, StoreTypeOK, UploadTypeOK, CounterAhead,
              HoldersWellFormed, HoldersApart, Stored, Holds, Key, ObjectOf
<1>2. CASE UploadNext
  <2>1. PICK r \in Requests : UploadStep(r)
    BY <1>2 DEF UploadNext
  <2>2. CASE \E d \in Documents, h \in Contents :
               CreateGate(r, d, h) \/ PushDedup(r, d, h) \/ PushGate(r, d, h)
    BY <2>2, CreateGateInv, PushDedupInv, PushGateInv
  <2>3. CASE PutBlob(r)
    BY <2>3, PutBlobInv
  <2>4. CASE PutThrows(r)
    BY <2>4, PutThrowsInv
  <2>5. CASE Finalize(r)
    BY <2>5, FinalizeInv
  <2>6. CASE FinalizeThrows(r)
    BY <2>6, FinalizeThrowsInv
  <2>7. CASE Rollback(r)
    BY <2>7, RollbackInv
  <2>8. CASE RollbackThrows(r)
    BY <2>8, RollbackThrowsInv
  <2> QED BY <2>1, <2>2, <2>3, <2>4, <2>5, <2>6, <2>7, <2>8 DEF UploadStep
<1> QED BY <1>1, <1>2

-----------------------------------------------------------------------------
(* The theorems.                                                            *)

\* The invariant holds in every reachable state.
THEOREM UploadInvariant == UploadSpec => []UploadInv
  BY InitUploadInv, NextUploadInv, PTL DEF UploadSpec

\* Every variable keeps its type: reserveVersionSeq never hands out a number
\* outside the counter's range, and no row or object is malformed.
THEOREM UploadsTyped == UploadSpec => []UploadsTypeOK
<1>1. UploadInv => UploadsTypeOK
  BY DEF UploadInv
<1> QED BY <1>1, UploadInvariant, PTL

\* However many uploads race on a document, a reserved number is one request's
\* own: no other reservation, no row and no foreign object has it.
THEOREM ReservationsAreExclusive == UploadSpec => []ReservationsExclusive
  BY InvImpliesExclusive, UploadInvariant, PTL

\* Whatever fails and in whichever order uploads finish, a listed live version
\* opens and shows the content its row names.
THEOREM ListedIsReadable == UploadSpec => []LiveVersionsReadable
  BY InvImpliesReadable, UploadInvariant, PTL

\* A version row is never rewritten, and only its document's purge removes it.
THEOREM RowsAreImmutable == UploadSpec => VersionsImmutable
<1> DEFINE Unrewritten == \A v \in versions :
             \/ docRow'[v.doc] = "gone"
             \/ v \in versions'
             \/ ~v.purged /\ [v EXCEPT !.purged = TRUE] \in versions'
<1>1. UploadInv /\ [UploadNext]_uploadVars => [Unrewritten]_uploadVars
  <2> SUFFICES ASSUME UploadInv, NEW r \in Requests, UploadStep(r) PROVE Unrewritten
    BY DEF UploadNext
  <2>1. CASE Rollback(r)
    <3>1. \A v \in versions : v.doc \in Documents
      BY DEF UploadInv, UploadsTypeOK, StoreTypeOK, VersionRow
    <3>2. \A v \in versions : v.doc = req[r].doc => docRow'[v.doc] = "gone"
      BY <2>1, <3>1 DEF Rollback, purgeDocument, UploadInv, UploadsTypeOK, StoreTypeOK
    <3> QED BY <2>1, <3>2 DEF Rollback, purgeDocument
  <2>2. CASE ~Rollback(r)
    <3>1. versions \subseteq versions'
      BY <2>2 DEF UploadStep, CreateGate, PushDedup, PushGate, PutBlob, PutThrows, Finalize,
                  FinalizeThrows, FinalizeTx, insertVersionAtSeq, RollbackThrows, storeVars
    <3> QED BY <3>1
  <2> QED BY <2>1, <2>2
<1> QED BY <1>1, UploadInvariant, PTL DEF UploadSpec, VersionsImmutable
=============================================================================
