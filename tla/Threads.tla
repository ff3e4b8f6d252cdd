------------------------------ MODULE Threads -------------------------------
(***************************************************************************)
(* What review sign-off and suggested edits share: one live document, its  *)
(* versions as readers see them appear, and its comments.                  *)
(*                                                                         *)
(* How versions come about is the subject of Uploads; all that matters     *)
(* here is that each appears once and takes the pointer when it does, not  *)
(* necessarily in the order of its number.                                 *)
(***************************************************************************)
EXTENDS Integers, FiniteSets

CONSTANTS
  Comments,    \* comment ids, plain comments and suggestions alike
  MaxVersion   \* bound: versions of the document

ASSUME MaxVersionAssumption == MaxVersion \in Nat \ {0}

VARIABLES
  published,   \* version rows
  current,     \* documents.current_version_id; 0 is null
  comment      \* comments: each one's status and the version it is pinned to

threadVars == <<published, current, comment>>

Versions == 1 .. MaxVersion

Unwritten == [status |-> "none", version |-> 0]

ThreadsTypeOK ==
  /\ published \subseteq Versions
  /\ current \in published \cup {0}
  /\ comment \in [Comments -> {Unwritten} \cup
       [status : {"drafted", "open", "resolved", "deleted"}, version : published]]

ThreadsInit ==
  /\ published = {}
  /\ current = 0
  /\ comment = [c \in Comments |-> Unwritten]

OpenComments == {c \in Comments : comment[c].status = "open"}

\* The finalize transaction of an upload.
Publish(v) ==
  /\ v \notin published
  /\ published' = published \cup {v}
  /\ current' = v
  /\ UNCHANGED comment

\* createComment: the document is read, then the row is inserted.
DraftComment(c) ==
  /\ comment[c].status = "none"
  /\ current # 0
  /\ comment' = [comment EXCEPT ![c] = [status |-> "drafted", version |-> current]]
  /\ UNCHANGED <<published, current>>

InsertComment(c) ==
  /\ comment[c].status = "drafted"
  /\ comment' = [comment EXCEPT ![c].status = "open"]
  /\ UNCHANGED <<published, current>>

\* resolve and delete are conditional updates.
ResolveComment(c) ==
  /\ comment[c].status = "open"
  /\ comment' = [comment EXCEPT ![c].status = "resolved"]
  /\ UNCHANGED <<published, current>>

DeleteComment(c) ==
  /\ comment[c].status \in {"open", "resolved"}
  /\ comment' = [comment EXCEPT ![c].status = "deleted"]
  /\ UNCHANGED <<published, current>>

Comment(c) == DraftComment(c) \/ InsertComment(c) \/ ResolveComment(c) \/ DeleteComment(c)
=============================================================================
