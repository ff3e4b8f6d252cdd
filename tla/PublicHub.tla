----------------------------- MODULE PublicHub ------------------------------
(***************************************************************************)
(* The public hub: snapshots of current versions, published under one slug *)
(* while uploads, sweeps and deletes go on.  A publish reads the document, *)
(* its version and the blob in three calls, upserts the hub's row and only *)
(* then writes the public object, under the number the row was given.      *)
(* Nothing is fair: a publish that dies is one that takes no further step. *)
(***************************************************************************)
EXTENDS Erasure

CONSTANTS
  Publishers,  \* calls of publishToPublicHub
  MaxBeside    \* bound: uploads beside a publish, without a fault of the scheduler

ASSUME MaxBesideAssumption == MaxBeside \in Nat

VARIABLES
  hubRow,      \* public_documents, the row of the slug: None, or its id, seq and hash
  hubIds,      \* ids ever given to a row of the slug
  hubObjects,  \* objects public/{id}/v{seq}
  publish      \* each publish's progress and what it has read

hubVars == <<hubRow, hubIds, hubObjects, publish>>

\* doc and seq: the version read, hash its content_hash and body what the store has of it;
\* id and at: the row's id and seq as returned.
NoPublish ==
  [pc |-> "idle", doc |-> None, seq |-> 0, hash |-> None, body |-> None, id |-> 0, at |-> 0]

\* Refused, or done.
Ended == [NoPublish EXCEPT !.pc = "ended"]

PublicObject(id, at, h) == [id |-> id, seq |-> at, hash |-> h]

PublicHash(id, at) == {o.hash : o \in {x \in hubObjects : x.id = id /\ x.seq = at}}

-----------------------------------------------------------------------------
\* documents.byId: live, with a version.
PublishReadsDocument(p, d) ==
  /\ publish[p].pc = "idle"
  /\ docRow[d] = "live" /\ current[d] # 0
  /\ publish' = [publish EXCEPT ![p] = [@ EXCEPT !.pc = "version", !.doc = d,
                                                 !.seq = current[d]]]
  /\ UNCHANGED <<hubRow, hubIds, hubObjects>>

\* versions.byId: gone with its document, or purged by then, it is refused.
PublishReadsVersion(p) ==
  LET version == {v \in LiveVersionsOf(publish[p].doc) : v.seq = publish[p].seq}
  IN  /\ publish[p].pc = "version"
      /\ publish' = [publish EXCEPT ![p] =
           IF version = {} THEN Ended
           ELSE [@ EXCEPT !.pc = "content", !.hash = (CHOOSE v \in version : TRUE).hash]]
      /\ UNCHANGED <<hubRow, hubIds, hubObjects>>

\* storage.get throws for an object that was deleted meanwhile.
PublishReadsContent(p) ==
  /\ publish[p].pc = "content"
  /\ \/ /\ ContentAt(publish[p].doc, publish[p].seq) = {}
        /\ publish' = [publish EXCEPT ![p] = Ended]
     \/ \E h \in ContentAt(publish[p].doc, publish[p].seq) :
          publish' = [publish EXCEPT ![p] = [@ EXCEPT !.pc = "row", !.body = h]]
  /\ UNCHANGED <<hubRow, hubIds, hubObjects>>

\* Wrong: a row published again keeps its number.
upsertInPlace(h) ==
  IF hubRow = None THEN [id |-> hubIds + 1, seq |-> 1, hash |-> h]
  ELSE [hubRow EXCEPT !.hash = h]

\* insert ... on conflict (slug) do update set seq = seq + 1.
upsertRow(h) ==
  IF hubRow = None THEN [id |-> hubIds + 1, seq |-> 1, hash |-> h]
  ELSE [hubRow EXCEPT !.seq = @ + 1, !.hash = h]

PublishRow(p) ==
  LET row == upsertRow(publish[p].hash)
  IN  /\ publish[p].pc = "row"
      /\ hubRow' = row
      /\ hubIds' = row.id
      /\ publish' = [publish EXCEPT ![p] = [NoPublish EXCEPT
           !.pc = "put", !.hash = publish[p].hash, !.body = publish[p].body,
           !.id = row.id, !.at = row.seq]]
      /\ UNCHANGED hubObjects

\* putPublic is write-once: other bytes under the same key throw.
PutPublic(p) ==
  LET call == publish[p]
  IN  /\ call.pc = "put"
      /\ PublicHash(call.id, call.at) \subseteq {call.body}
      /\ hubObjects' = hubObjects \cup {PublicObject(call.id, call.at, call.body)}
      /\ publish' = [publish EXCEPT ![p] = Ended]
      /\ UNCHANGED <<hubRow, hubIds>>

\* The row stays; the caller is told of the failure and may publish again.
PutPublicThrows(p) ==
  /\ publish[p].pc = "put"
  /\ publish' = [publish EXCEPT ![p].pc = "failed"]
  /\ UNCHANGED <<hubRow, hubIds, hubObjects>>

\* The row goes, its objects stay.
unpublishPublicDoc ==
  /\ hubRow # None
  /\ hubRow' = None
  /\ UNCHANGED <<hubIds, hubObjects, publish>>

-----------------------------------------------------------------------------
HubInit ==
  /\ Init
  /\ hubRow = None
  /\ hubIds = 0
  /\ hubObjects = {}
  /\ publish = [p \in Publishers |-> NoPublish]

HubStep(p) ==
  \/ \E d \in Documents : PublishReadsDocument(p, d)
  \/ PublishReadsVersion(p)
  \/ PublishReadsContent(p)
  \/ PublishRow(p)
  \/ PutPublic(p)
  \/ PutPublicThrows(p)

\* The bound: any number of uploads, and faults, as long as nobody publishes.
Beside ==
  \/ \A p \in Publishers : publish[p].pc = "idle"
  \/ faults = 0 /\ Cardinality({r \in Requests : req[r].pc # "idle"}) <= MaxBeside

HubNext ==
  \/ Next /\ UNCHANGED hubVars /\ Beside'
  \/ (unpublishPublicDoc \/ \E p \in Publishers : HubStep(p)) /\ UNCHANGED vars /\ Beside'

HubSpec == HubInit /\ [][HubNext]_<<vars, hubVars>>

-----------------------------------------------------------------------------
\* What the hub serves under a slug is the snapshot its row's hash (the ETag) names, however
\* publishes overlap and their sources are purged; a row without an object is the last
\* publish's, whose write is still to come or has failed.
HubServesItsSnapshot ==
  hubRow # None =>
    \/ PublicHash(hubRow.id, hubRow.seq) = {hubRow.hash}
    \/ /\ PublicHash(hubRow.id, hubRow.seq) = {}
       /\ \E p \in Publishers : /\ publish[p].pc \in {"put", "failed"}
                                /\ publish[p].id = hubRow.id /\ publish[p].at = hubRow.seq
                                /\ publish[p].hash = hubRow.hash

\* Not so: what is published is a document's that still exists, when it is published.
PublishedExists ==
  [][hubRow' # hubRow /\ hubRow' # None =>
       \E p \in Publishers : publish[p].pc = "row" /\ docRow[publish[p].doc] = "live"]_<<vars, hubVars>>
=============================================================================
