------------------------------ MODULE Workspace ----------------------------
(***************************************************************************)
(* Where documents are: projects, repository paths, archiving, and the caps *)
(* on how many there can be.  Uploads, pushes and moves look before they     *)
(* write, some of them in one transaction and under a lock, some not.        *)
(***************************************************************************)
EXTENDS Naturals, FiniteSets, Keyset

CONSTANTS
  Docs,          \* the documents there can be, numbers that sort as their ids do
  Projects,
  Paths,         \* repository paths
  Calls,         \* calls being served at the same time
  Old,           \* unfiled documents there are to begin with
  MaxDocs,       \* maxActiveDocs of the tier
  MaxPerProject, \* maxActiveDocsPerProject
  MaxEvents,     \* bound: calls served and other changes, and what the home screen asks
  Now,           \* when what happens happens, in microseconds: the clock stands still
  None

ASSUME WorkspaceAssumption ==
  /\ Docs \subseteq Nat \ {0} /\ IsFiniteSet(Docs) /\ Old \subseteq Docs
  /\ Cardinality(Old) <= MaxDocs
  /\ MaxDocs \in Nat /\ MaxPerProject \in Nat
  /\ MaxEvents \in Nat /\ Now \in Nat
  /\ None \notin Projects \cup Paths \cup Calls

VARIABLES
  document,   \* the rows of documents, with the time of each one's last activity
  projects,   \* the projects there are
  strayed,    \* history: documents that were moved to another project
  lock,       \* the call whose transaction holds the organization's advisory lock
  call,
  events

workspaceVars == <<document, projects, strayed, lock, call, events>>

Folders == Projects \cup {None}

Document ==
  [state : {"none", "live", "deleted"}, project : Folders, path : Paths \cup {None},
   archived : BOOLEAN, at : 0 .. Now]

Absent == [state |-> "none", project |-> None, path |-> None, archived |-> FALSE, at |-> 0]

Row(p, at) == [state |-> "live", project |-> p, path |-> None, archived |-> FALSE, at |-> at]

Idle == [pc |-> "idle", op |-> None, doc |-> 0, project |-> None, path |-> None, raced |-> FALSE]

WorkspaceTypeOK ==
  /\ document \in [Docs -> Document]
  /\ projects \subseteq Projects
  /\ strayed \subseteq Docs
  /\ lock \in Calls \cup {None}
  /\ \A c \in Calls :
       /\ call[c].pc \in {"idle", "count", "folder", "look", "write", "put", "raw"}
       /\ call[c].op \in {"create", "push", "move", None}
       /\ call[c].project \in Folders /\ call[c].path \in Paths \cup {None}
  /\ events \in 0 .. MaxEvents

Live(d) == document[d].state = "live"

LiveDocs == {d \in Docs : Live(d)}

\* activeDocCountInProject
DocsIn(p) == {d \in LiveDocs : document[d].project = p}

\* Wrong: unfiled documents are never found.
DocumentIdsFiled(p, path) ==
  {d \in LiveDocs : p # None /\ document[d].project = p /\ document[d].path = path}

\* documentIdAtPath: archived rows too, and unfiled documents among themselves.
documentIdsAtPath(p, path) ==
  {d \in LiveDocs : document[d].project = p /\ document[d].path = path}

\* documents_project_path_uniq
Conflict(d, p, path) ==
  path # None /\ \E e \in LiveDocs \ {d} : document[e].project = p /\ document[e].path = path

\* The foreign key of a document's project.
Dangles(p) == p # None /\ p \notin projects

-----------------------------------------------------------------------------
At(c, pc) == call[c].pc = pc
Op(c, op) == call[c].op = op

Ends(c) == [call EXCEPT ![c] = Idle]

\* Another call has written rows since these calls began.
Racing(c, next, others) ==
  [e \in Calls |-> IF e # c /\ call[e].pc # "idle" /\ call[e].op \in others
                   THEN [next[e] EXCEPT !.raced = TRUE] ELSE next[e]]

Counted == events < MaxEvents /\ events' = events + 1

Same == UNCHANGED <<document, projects, strayed, events>>

Goes(c, pc) == call' = [call EXCEPT ![c].pc = pc]

Unlocked(c) == IF lock = c THEN None ELSE lock

\* The transaction ends with a refusal, or with an exception of the database.
Refused(c) == call' = Ends(c) /\ lock' = Unlocked(c) /\ Same
Raises(c) == Goes(c, "raw") /\ lock' = Unlocked(c) /\ Same

Begin(c, first) ==
  /\ At(c, "idle")
  /\ Counted
  /\ call' = [call EXCEPT ![c] = first]
  /\ UNCHANGED <<document, projects, strayed, lock>>

\* uploadNewDocument, its first transaction: projectById.
Create(c, p, path) ==
  /\ p # None => p \in projects
  /\ Begin(c, [Idle EXCEPT !.pc = "count", !.op = "create", !.project = p, !.path = path])

\* Wrong: counts without the lock.
TakesNoLock(c) == UNCHANGED lock

\* pg_advisory_xact_lock, held to the end of the transaction.
TakesLock(c) == lock = None /\ lock' = c

CountDocs(c) ==
  /\ At(c, "count")
  /\ \/ /\ lock = None /\ Cardinality(LiveDocs) >= MaxDocs
        /\ Refused(c)
     \/ /\ Cardinality(LiveDocs) < MaxDocs
        /\ TakesLock(c)
        /\ Goes(c, "folder")
        /\ Same

CountInProject(c) ==
  LET p == call[c].project
      full == p # None /\ Cardinality(DocsIn(p)) >= MaxPerProject
  IN  /\ At(c, "folder")
      /\ \/ full /\ Refused(c)
         \/ ~full /\ Goes(c, "look") /\ UNCHANGED lock /\ Same

\* The look-up before a write, in the project as the call read it.
Look(c) ==
  LET q == call[c]
      taken == q.path # None /\ documentIdsAtPath(q.project, q.path) \ {q.doc} # {}
  IN  /\ At(c, "look")
      /\ \/ taken /\ Refused(c)
         \/ /\ ~taken
            /\ Goes(c, "write")
            /\ UNCHANGED lock /\ Same

\* The insert, the reservation of a version, and the commit.
Insert(c, d) ==
  LET q == call[c]
      fails == Conflict(d, q.project, q.path) \/ Dangles(q.project)
  IN  /\ At(c, "write") /\ Op(c, "create")
      /\ document[d].state = "none"
      /\ \/ fails /\ Raises(c)
         \/ /\ ~fails
            /\ document' = [document EXCEPT ![d] =
                 [Row(q.project, Now) EXCEPT !.path = q.path]]
            /\ call' = Racing(c, [call EXCEPT ![c].pc = "put", ![c].doc = d], {"push", "move"})
            /\ lock' = Unlocked(c)
            /\ UNCHANGED <<projects, strayed, events>>

\* The blob and the version are written, or one fails and the row is purged.
Finish(c) ==
  /\ At(c, "put")
  /\ call' = Ends(c)
  /\ \/ UNCHANGED document
     \/ document' = [document EXCEPT ![call[c].doc].state = "deleted"]
  /\ UNCHANGED <<projects, strayed, lock, events>>

\* uploadNewVersion with a path, in one transaction: applyPathChange.
Push(c, d, path) ==
  /\ Live(d)
  /\ document[d].path # path
  /\ Begin(c, [Idle EXCEPT !.pc = "look", !.op = "push", !.doc = d, !.path = path,
                           !.project = document[d].project])

\* moveDocument: the document, the project, the look-up and the write are transactions
\* of their own.
Move(c, d, p) ==
  /\ Live(d)
  /\ p # None => p \in projects
  /\ Begin(c, [Idle EXCEPT !.pc = "look", !.op = "move", !.doc = d, !.project = p,
                           !.path = document[d].path])

\* What the update makes of the row as it is now; a row deleted meanwhile is left alone.
Written(c) ==
  LET q == call[c]
  IN  IF Op(c, "push") THEN [document[q.doc] EXCEPT !.path = q.path, !.at = Now]
      ELSE [document[q.doc] EXCEPT !.project = q.project]

Update(c) ==
  LET q == call[c]
      d == q.doc
      fails == Live(d) /\ (Conflict(d, Written(c).project, Written(c).path)
                           \/ Dangles(Written(c).project))
  IN  /\ At(c, "write") /\ q.op \in {"push", "move"}
      /\ \/ fails /\ Raises(c)
         \/ ~Live(d) /\ Refused(c)
         \/ /\ Live(d) /\ ~fails
            /\ document' = [document EXCEPT ![d] = Written(c)]
            /\ strayed' = IF Op(c, "move") THEN strayed \cup {d} ELSE strayed
            /\ call' = Racing(c, Ends(c), {"create", "push", "move"})
            /\ UNCHANGED <<projects, lock, events>>

\* The exception is answered.
Answer(c) ==
  /\ At(c, "raw")
  /\ call' = Ends(c)
  /\ UNCHANGED lock /\ Same

-----------------------------------------------------------------------------
setDocumentArchived(d, archived) ==
  /\ Counted
  /\ Live(d) /\ document[d].archived # archived
  /\ document' = [document EXCEPT ![d].archived = archived]
  /\ UNCHANGED <<projects, strayed, lock, call>>

softDelete(d) ==
  /\ Counted
  /\ Live(d)
  /\ document' = [document EXCEPT ![d].state = "deleted"]
  /\ UNCHANGED <<projects, strayed, lock, call>>

\* A comment or a version: the document's last activity.
Touch(d) ==
  /\ Counted
  /\ Live(d) /\ document[d].at # Now
  /\ document' = [document EXCEPT ![d].at = Now]
  /\ UNCHANGED <<projects, strayed, lock, call>>

CreateProject(p) ==
  /\ Counted
  /\ p \notin projects
  /\ projects' = projects \cup {p}
  /\ UNCHANGED <<document, strayed, lock, call>>

\* Documents of the project, deleted ones too, become unfiled, unless a path is taken:
\* then the index raises and the project stays.
Unfiled(p) ==
  [d \in Docs |-> IF document[d].project = p THEN [document[d] EXCEPT !.project = None]
                  ELSE document[d]]

Collides(p) == \E d \in DocsIn(p) : Conflict(d, None, document[d].path)

RemoveProject(p) ==
  /\ Counted
  /\ p \in projects
  /\ ~Collides(p)
  /\ projects' = projects \ {p}
  /\ document' = Unfiled(p)
  /\ strayed' = strayed \cup DocsIn(p)
  /\ call' = Racing(None, call, {"create", "push", "move"})
  /\ UNCHANGED lock

-----------------------------------------------------------------------------
WorkspaceInit ==
  /\ document \in [Docs -> {Absent} \cup {Row(None, at) : at \in 0 .. Now - 1}]
  /\ \A d \in Docs : d \in Old <=> document[d] # Absent
  /\ projects = Projects
  /\ strayed = {}
  /\ lock = None
  /\ call = [c \in Calls |-> Idle]
  /\ events = 0

CallNext(c) ==
  \/ \E p \in Folders, path \in Paths \cup {None} : Create(c, p, path)
  \/ \E d \in Docs, path \in Paths : Push(c, d, path)
  \/ \E d \in Docs, p \in Folders : Move(c, d, p)
  \/ CountDocs(c) \/ CountInProject(c) \/ Look(c)
  \/ \E d \in Docs : Insert(c, d)
  \/ Update(c) \/ Finish(c) \/ Answer(c)

WorkspaceNext ==
  \/ \E c \in Calls : CallNext(c)
  \/ \E d \in Docs :
       \/ \E archived \in BOOLEAN : setDocumentArchived(d, archived)
       \/ softDelete(d) \/ Touch(d)
  \/ \E p \in Projects : CreateProject(p) \/ RemoveProject(p)

-----------------------------------------------------------------------------
\* "Two concurrent creates at ceiling-1 can never both slip past the cap": neither the
\* organization's nor a project's is passed by documents created there.
CapsHeld ==
  /\ Cardinality(LiveDocs) <= MaxDocs
  /\ \A p \in Projects : Cardinality(DocsIn(p) \ strayed) <= MaxPerProject

\* "The common collision is a typed refusal": the index or the foreign key raises only if
\* another call wrote since this one began, and for a create that is no other create.
RawConflictsAreRaces == \A c \in Calls : At(c, "raw") => call[c].raced

\* Not so: a project is never passed its cap, "so one runaway project can't make itself
\* unbrowsable".
ProjectsHeld == \A p \in Projects : Cardinality(DocsIn(p)) <= MaxPerProject

\* Not so: a project can be removed, its documents "kept and moved to Unfiled".
Removable == \A p \in projects : ~Collides(p)

=============================================================================
