--------------------------- MODULE WorkspaceProofs --------------------------
(***************************************************************************)
(* What holds of the workspace for any number of documents, projects, paths *)
(* and calls, and whatever is looked at meanwhile, of the home screen that  *)
(* lists it and of the viewer's rail, checked by TLAPS.                     *)
(*                                                                         *)
(* The caps hold since whoever has counted holds the lock until the row is  *)
(* there, and every other step only takes documents away from what is       *)
(* counted.  A call that looked and was not raced finds what it saw.        *)
(*                                                                         *)
(* The rail shows what its user changed since an answer that may overrule   *)
(* the change is either ahead of it or shows it.  The home screen lists     *)
(* every document once since one request at a time goes on from where the   *)
(* rows ended, and a page has just the rows between its two cursors.        *)
(***************************************************************************)
EXTENDS Home, Viewer, FiniteSetTheorems, TLAPS

Request ==
  [pc : {"idle", "count", "folder", "look", "write", "put", "raw"},
   op : {"create", "push", "move", None}, doc : Docs \cup {0}, project : Folders,
   path : Paths \cup {None}, raced : BOOLEAN]

WorkspaceShape ==
  /\ document \in [Docs -> Document]
  /\ projects \subseteq Projects
  /\ strayed \subseteq Docs
  /\ lock \in Calls \cup {None}
  /\ call \in [Calls -> Request]

CallShape(c) ==
  /\ call[c].pc = "idle" => call[c] = Idle
  /\ call[c].pc # "idle" => call[c].op \in {"create", "push", "move"}
  /\ call[c].pc \in {"count", "folder", "put"} => call[c].op = "create"
  /\ call[c].pc # "idle" /\ call[c].op \in {"push", "move"} => call[c].doc \in Docs
  /\ call[c].pc \notin {"idle", "put"} /\ call[c].op = "create" => call[c].doc = 0

\* What the cap of a project speaks of.
Settled(p) == DocsIn(p) \ strayed

\* Whoever has counted holds the lock, and there is still room.
Counting(c) ==
  call[c].op = "create" /\ call[c].pc \in {"folder", "look", "write"} =>
    /\ lock = c
    /\ Cardinality(LiveDocs) < MaxDocs
    /\ call[c].pc # "folder" /\ call[c].project # None =>
         Cardinality(Settled(call[c].project)) < MaxPerProject

CapsInv ==
  /\ WorkspaceShape
  /\ \A c \in Calls : CallShape(c) /\ Counting(c)
  /\ CapsHeld

\* Nothing is counted that was not counted before.
Shrinks ==
  /\ LiveDocs' \subseteq LiveDocs
  /\ \A p \in Projects : Settled(p)' \subseteq Settled(p)

-----------------------------------------------------------------------------
LEMMA CountsFinite ==
  ASSUME WorkspaceShape
  PROVE  IsFiniteSet(LiveDocs) /\ \A p : IsFiniteSet(Settled(p))
<1>1. LiveDocs \subseteq Docs /\ \A p : Settled(p) \subseteq LiveDocs
  BY DEF LiveDocs, Settled, DocsIn
<1> QED BY <1>1, FS_Subset, WorkspaceAssumption

LEMMA Shrunk ==
  ASSUME WorkspaceShape, WorkspaceShape', Shrinks
  PROVE  /\ Cardinality(LiveDocs') <= Cardinality(LiveDocs)
         /\ Cardinality(LiveDocs) \in Nat /\ Cardinality(LiveDocs') \in Nat
         /\ \A p \in Projects : /\ Cardinality(Settled(p)') <= Cardinality(Settled(p))
                                /\ Cardinality(Settled(p)) \in Nat
                                /\ Cardinality(Settled(p)') \in Nat
<1>1. IsFiniteSet(LiveDocs) /\ \A p : IsFiniteSet(Settled(p))
  BY CountsFinite
<1>2. /\ Cardinality(LiveDocs') <= Cardinality(LiveDocs)
      /\ IsFiniteSet(LiveDocs')
  BY <1>1, FS_Subset DEF Shrinks
<1>3. ASSUME NEW p \in Projects
      PROVE  /\ Cardinality(Settled(p)') <= Cardinality(Settled(p))
             /\ IsFiniteSet(Settled(p)')
  BY <1>1, FS_Subset DEF Shrinks
<1> QED BY <1>1, <1>2, <1>3, FS_CardinalityType

LEMMA RoomKept ==
  ASSUME WorkspaceShape, WorkspaceShape', Shrinks, CapsHeld
  PROVE  /\ CapsHeld'
         /\ Cardinality(LiveDocs) < MaxDocs => Cardinality(LiveDocs') < MaxDocs
         /\ \A p \in Projects :
              Cardinality(Settled(p)) < MaxPerProject => Cardinality(Settled(p)') < MaxPerProject
<1>1. MaxDocs \in Nat /\ MaxPerProject \in Nat
  BY WorkspaceAssumption
<1>2. /\ Cardinality(LiveDocs') <= MaxDocs
      /\ Cardinality(LiveDocs) < MaxDocs => Cardinality(LiveDocs') < MaxDocs
  BY <1>1, Shrunk DEF CapsHeld
<1>3. ASSUME NEW p \in Projects
      PROVE  /\ Cardinality(Settled(p)') <= MaxPerProject
             /\ Cardinality(Settled(p)) < MaxPerProject => Cardinality(Settled(p)') < MaxPerProject
  <2>1. Cardinality(Settled(p)) <= MaxPerProject
    BY DEF CapsHeld, Settled
  <2>2. /\ Cardinality(Settled(p)') <= Cardinality(Settled(p))
        /\ Cardinality(Settled(p)) \in Nat /\ Cardinality(Settled(p)') \in Nat
    BY Shrunk
  <2> HIDE DEF Settled
  <2> QED BY <1>1, <2>1, <2>2
<1>4. CapsHeld'
  BY <1>2, <1>3 DEF CapsHeld, Settled
<1> QED BY <1>2, <1>3, <1>4

\* A call that counts on as it did.
LEMMA CountsOn ==
  ASSUME CapsInv, WorkspaceShape', Shrinks, NEW c \in Calls,
         lock = c => lock' = c, call'[c].op = call[c].op,
         call'[c].project = call[c].project,
         \/ call'[c].pc = call[c].pc
         \/ call[c].pc = "look" /\ call'[c].pc = "write"
         \/ call'[c].pc \notin {"folder", "look", "write"}
  PROVE  Counting(c)'
<1> SUFFICES ASSUME call'[c].op = "create", call'[c].pc \in {"folder", "look", "write"}
             PROVE  Counting(c)'
  BY DEF Counting
<1>1. /\ lock' = c
      /\ Cardinality(LiveDocs) < MaxDocs
      /\ call[c].pc # "folder" /\ call[c].project # None =>
           Cardinality(Settled(call[c].project)) < MaxPerProject
      /\ call'[c].pc = "folder" <=> call[c].pc = "folder"
  BY DEF Counting, CapsInv
<1>2. call[c].project \in Projects \cup {None}
  BY DEF CapsInv, WorkspaceShape, Request, Folders
<1>3. Cardinality(LiveDocs') < MaxDocs
  BY <1>1, RoomKept DEF CapsInv
<1>4. ASSUME NEW p \in Projects, Cardinality(Settled(p)) < MaxPerProject
      PROVE  Cardinality(Settled(p)') < MaxPerProject
  BY <1>4, RoomKept DEF CapsInv
<1>5. ASSUME call[c].pc # "folder", call[c].project # None
      PROVE  Cardinality(Settled(call[c].project)') < MaxPerProject
  <2>1. PICK p \in Projects : p = call[c].project
    BY <1>2, <1>5
  <2>2. Cardinality(Settled(p)') < MaxPerProject
    BY <1>1, <1>4, <1>5, <2>1
  <2> QED BY <2>1, <2>2 DEF Settled, DocsIn
<1> QED BY <1>1, <1>3, <1>5 DEF Counting

\* The other calls are told at most that somebody wrote.
OthersGoOn(c) ==
  \A e \in Calls \ {c} :
    /\ call'[e] \in {call[e], [call[e] EXCEPT !.raced = TRUE]}
    /\ call[e].pc = "idle" => call'[e] = call[e]

LEMMA OthersKeepShape ==
  ASSUME CapsInv, WorkspaceShape', Shrinks, NEW c, OthersGoOn(c),
         \A e \in Calls \ {c} : lock = e => lock' = e
  PROVE  \A e \in Calls \ {c} : CallShape(e)' /\ Counting(e)'
<1> SUFFICES ASSUME NEW e \in Calls \ {c} PROVE CallShape(e)' /\ Counting(e)'
  OBVIOUS
<1>1. call[e] \in Request /\ CallShape(e)
  BY DEF CapsInv, WorkspaceShape
<1>2. /\ call'[e].pc = call[e].pc /\ call'[e].op = call[e].op /\ call'[e].doc = call[e].doc
      /\ call'[e].project = call[e].project /\ call'[e].path = call[e].path
      /\ call[e].pc = "idle" => call'[e] = call[e]
  BY <1>1 DEF OthersGoOn, Request
<1>3. CallShape(e)'
  BY <1>1, <1>2 DEF CallShape
<1>4. Counting(e)'
  BY <1>2, CountsOn
<1> QED BY <1>3, <1>4

LEMMA Concluded ==
  ASSUME CapsInv, WorkspaceShape', Shrinks, \A c \in Calls : CallShape(c)' /\ Counting(c)'
  PROVE  CapsInv'
  BY RoomKept DEF CapsInv

\* A step of one call that writes no row.
LEMMA CallStepKeepsCaps ==
  ASSUME CapsInv, NEW c \in Calls, NEW next \in Request,
         call' = [call EXCEPT ![c] = next],
         UNCHANGED <<document, projects, strayed>>,
         lock' \in Calls \cup {None}, \A e \in Calls \ {c} : lock = e => lock' = e,
         CallShape(c)', Counting(c)'
  PROVE  CapsInv'
<1>1. WorkspaceShape'
  BY DEF CapsInv, WorkspaceShape
<1>2. Shrinks
  BY DEF Shrinks, LiveDocs, Live, Settled, DocsIn
<1>3. OthersGoOn(c)
  BY DEF OthersGoOn, CapsInv, WorkspaceShape
<1>4. \A e \in Calls : CallShape(e)' /\ Counting(e)'
  BY <1>1, <1>2, <1>3, OthersKeepShape
<1> QED BY <1>1, <1>2, <1>4, Concluded

LEMMA IdleFits ==
  ASSUME CapsInv, NEW c \in Calls, call'[c] = Idle
  PROVE  Idle \in Request /\ CallShape(c)' /\ Counting(c)'
  BY WorkspaceAssumption DEF Idle, Request, Folders, CallShape, Counting

\* A refusal, an exception and its answer.
LEMMA EndKeepsCaps ==
  ASSUME CapsInv, NEW c \in Calls,
         \/ Refused(c)
         \/ Raises(c) /\ call[c].pc = "write"
         \/ Answer(c)
  PROVE  CapsInv'
<1>1. WorkspaceShape /\ call[c] \in Request /\ CallShape(c)
  BY DEF CapsInv, WorkspaceShape
<1>2. /\ UNCHANGED <<document, projects, strayed>>
      /\ lock' \in Calls \cup {None} /\ \A e \in Calls \ {c} : lock = e => lock' = e
  BY <1>1 DEF Refused, Raises, Answer, Same, Unlocked, WorkspaceShape
<1>3. CASE Refused(c) \/ Answer(c)
  <2>1. call' = [call EXCEPT ![c] = Idle]
    BY <1>3 DEF Refused, Answer, Ends
  <2>2. call'[c] = Idle
    BY <1>1, <2>1 DEF WorkspaceShape
  <2> QED BY <1>2, <2>1, <2>2, IdleFits, CallStepKeepsCaps
<1>4. CASE Raises(c) /\ call[c].pc = "write"
  <2>1. PICK next : next = [call[c] EXCEPT !.pc = "raw"]
    OBVIOUS
  <2>2. next \in Request /\ next.pc = "raw" /\ next.op = call[c].op /\ next.doc = call[c].doc
    BY <1>1, <2>1 DEF Request
  <2>3. call' = [call EXCEPT ![c] = next] /\ call'[c] = next
    BY <1>1, <1>4, <2>1 DEF Raises, Goes, WorkspaceShape
  <2>4. CallShape(c)' /\ Counting(c)'
    BY <1>1, <1>4, <2>2, <2>3 DEF CallShape, Counting
  <2> QED BY <1>2, <2>2, <2>3, <2>4, CallStepKeepsCaps
<1> QED BY <1>3, <1>4

\* A call begins.
LEMMA BeginKeepsCaps ==
  ASSUME CapsInv, NEW c \in Calls, NEW first \in Request, Begin(c, first),
         \/ first.pc = "count" /\ first.op = "create" /\ first.doc = 0
         \/ first.pc = "look" /\ first.op \in {"push", "move"} /\ first.doc \in Docs
  PROVE  CapsInv'
<1>1. WorkspaceShape
  BY DEF CapsInv
<1>2. call' = [call EXCEPT ![c] = first] /\ call'[c] = first
  BY <1>1 DEF Begin, WorkspaceShape
<1>3. CallShape(c)' /\ Counting(c)'
  BY <1>2 DEF CallShape, Counting
<1> QED
  BY <1>1, <1>2, <1>3, CallStepKeepsCaps DEF Begin, WorkspaceShape

LEMMA CountDocsKeepsCaps ==
  ASSUME CapsInv, NEW c \in Calls, CountDocs(c)
  PROVE  CapsInv'
<1>1. WorkspaceShape /\ call[c] \in Request /\ CallShape(c) /\ call[c].pc = "count"
  BY DEF CapsInv, WorkspaceShape, CountDocs, At
<1>2. CASE ~Refused(c)
  <2>1. /\ Cardinality(LiveDocs) < MaxDocs
        /\ lock = None /\ lock' = c /\ Same /\ Goes(c, "folder")
    BY <1>2 DEF CountDocs, TakesLock
  <2>2. PICK next : next = [call[c] EXCEPT !.pc = "folder"]
    OBVIOUS
  <2>3. /\ next \in Request /\ next.pc = "folder" /\ next.op = call[c].op
        /\ next.doc = call[c].doc
    BY <1>1, <2>2 DEF Request
  <2>4. call' = [call EXCEPT ![c] = next] /\ call'[c] = next
    BY <1>1, <2>1, <2>2 DEF Goes, WorkspaceShape
  <2>5. LiveDocs' = LiveDocs
    BY <2>1 DEF Same, LiveDocs, Live
  <2>6. CallShape(c)' /\ Counting(c)'
    BY <1>1, <2>1, <2>3, <2>4, <2>5 DEF CallShape, Counting
  <2> QED
    BY <2>1, <2>3, <2>4, <2>6, WorkspaceAssumption, CallStepKeepsCaps DEF Same
<1> QED BY <1>2, EndKeepsCaps

LEMMA CountInProjectKeepsCaps ==
  ASSUME CapsInv, NEW c \in Calls, CountInProject(c)
  PROVE  CapsInv'
<1>1. WorkspaceShape /\ call[c] \in Request /\ CallShape(c) /\ call[c].pc = "folder"
  BY DEF CapsInv, WorkspaceShape, CountInProject, At
<1>2. CASE ~Refused(c)
  <2>1. /\ call[c].project # None => ~(Cardinality(DocsIn(call[c].project)) >= MaxPerProject)
        /\ lock' = lock /\ Same /\ Goes(c, "look")
    BY <1>2 DEF CountInProject
  <2>2. PICK next : next = [call[c] EXCEPT !.pc = "look"]
    OBVIOUS
  <2>3. /\ next \in Request /\ next.pc = "look" /\ next.op = call[c].op
        /\ next.project = call[c].project /\ next.doc = call[c].doc
    BY <1>1, <2>2 DEF Request
  <2>4. call' = [call EXCEPT ![c] = next] /\ call'[c] = next
    BY <1>1, <2>1, <2>2 DEF Goes, WorkspaceShape
  <2>5. LiveDocs' = LiveDocs /\ \A p : Settled(p)' = Settled(p)
    BY <2>1 DEF Same, LiveDocs, Live, Settled, DocsIn
  <2>6. lock = c /\ Cardinality(LiveDocs) < MaxDocs
    BY <1>1 DEF CapsInv, CallShape, Counting
  <2>7. ASSUME NEW p, p = call[c].project, p # None
        PROVE  Cardinality(Settled(p)) < MaxPerProject
    <3>1. DocsIn(p) \subseteq Docs /\ Settled(p) \subseteq DocsIn(p)
      BY DEF DocsIn, LiveDocs, Settled
    <3>2. IsFiniteSet(DocsIn(p))
      BY <3>1, FS_Subset, WorkspaceAssumption
    <3>3. /\ Cardinality(Settled(p)) <= Cardinality(DocsIn(p))
          /\ Cardinality(Settled(p)) \in Nat /\ Cardinality(DocsIn(p)) \in Nat
      BY <3>1, <3>2, FS_Subset, FS_CardinalityType
    <3>4. ~(Cardinality(DocsIn(p)) >= MaxPerProject)
      BY <2>1, <2>7
    <3> QED BY <3>3, <3>4, WorkspaceAssumption
  <2>8. /\ call'[c].pc = "look" /\ call'[c].project = call[c].project
        /\ call'[c].op = call[c].op
    BY <2>3, <2>4
  <2>9. Counting(c)'
    <3>1. Cardinality(LiveDocs') < MaxDocs /\ lock' = c
      BY <2>1, <2>5, <2>6
    <3>2. ASSUME call'[c].project # None
          PROVE  (Cardinality(Settled(call[c].project)) < MaxPerProject)'
      <4>1. PICK p : p = call[c].project
        OBVIOUS
      <4>2. Settled(p)' = Settled(p) /\ p # None
        BY <2>5, <2>8, <3>2, <4>1
      <4>3. Cardinality(Settled(p)') < MaxPerProject
        BY <2>7, <4>1, <4>2
      <4>4. call'[c].project = p
        BY <2>8, <4>1
      <4> QED BY <4>3, <4>4 DEF Settled, DocsIn
    <3> QED BY <3>1, <3>2 DEF Counting
  <2>10. CallShape(c)'
    BY <1>1, <2>3, <2>4 DEF CallShape
  <2> QED
    BY <1>1, <2>1, <2>3, <2>4, <2>9, <2>10, CallStepKeepsCaps DEF Same, WorkspaceShape
<1> QED BY <1>2, EndKeepsCaps

LEMMA LookKeepsCaps ==
  ASSUME CapsInv, NEW c \in Calls, Look(c)
  PROVE  CapsInv'
<1>1. WorkspaceShape /\ call[c] \in Request /\ CallShape(c) /\ call[c].pc = "look"
  BY DEF CapsInv, WorkspaceShape, Look, At
<1>2. CASE ~Refused(c)
  <2>1. lock' = lock /\ Same /\ Goes(c, "write")
    BY <1>2 DEF Look
  <2>2. PICK next : next = [call[c] EXCEPT !.pc = "write"]
    OBVIOUS
  <2>3. /\ next \in Request /\ next.pc = "write" /\ next.op = call[c].op
        /\ next.project = call[c].project /\ next.doc = call[c].doc
    BY <1>1, <2>2 DEF Request
  <2>4. call' = [call EXCEPT ![c] = next] /\ call'[c] = next
    BY <1>1, <2>1, <2>2 DEF Goes, WorkspaceShape
  <2>5. WorkspaceShape'
    BY <1>1, <2>1, <2>3, <2>4 DEF WorkspaceShape, Same
  <2>6. Shrinks
    BY <2>1 DEF Same, Shrinks, LiveDocs, Live, Settled, DocsIn
  <2>7. CallShape(c)'
    BY <1>1, <2>3, <2>4 DEF CallShape
  <2>8. Counting(c)'
    BY <1>1, <2>1, <2>3, <2>4, <2>5, <2>6, CountsOn
  <2> QED
    BY <1>1, <2>1, <2>3, <2>4, <2>7, <2>8, CallStepKeepsCaps DEF Same, WorkspaceShape
<1> QED BY <1>2, EndKeepsCaps

-----------------------------------------------------------------------------
\* The writes of a call.
LEMMA RacingGoesOn ==
  ASSUME WorkspaceShape, NEW c, NEW next, NEW rest, NEW own \in Request,
         c \in Calls => next = [call EXCEPT ![c] = own],
         c \notin Calls => next = call,
         call' = Racing(c, next, rest)
  PROVE  /\ call' \in [Calls -> Request]
         /\ c \in Calls => call'[c] = own
         /\ OthersGoOn(c)
<1>1. next \in [Calls -> Request]
  BY DEF WorkspaceShape
<1>2. \A e \in Calls \ {c} : next[e] = call[e] /\ call[e] \in Request
  BY DEF WorkspaceShape
<1>3. \A r \in Request : [r EXCEPT !.raced = TRUE] \in Request
  BY DEF Request
<1>4. ASSUME NEW e \in Calls \ {c}
      PROVE  /\ call'[e] \in {call[e], [call[e] EXCEPT !.raced = TRUE]}
             /\ call[e].pc = "idle" => call'[e] = call[e]
  <2>1. call'[e] = IF call[e].pc # "idle" /\ call[e].op \in rest
                   THEN [next[e] EXCEPT !.raced = TRUE] ELSE next[e]
    BY DEF Racing
  <2> QED BY <1>2, <2>1
<1>5. c \in Calls => call'[c] = own
  BY <1>1 DEF Racing, WorkspaceShape
<1>6. call' \in [Calls -> Request]
  <2>1. \A e \in Calls : call'[e] \in Request
    BY <1>2, <1>3, <1>4, <1>5
  <2> QED BY <2>1 DEF Racing
<1> QED BY <1>4, <1>5, <1>6 DEF OthersGoOn

LEMMA RowFits ==
  ASSUME NEW p \in Folders, NEW path \in Paths \cup {None}
  PROVE  [Row(p, Now) EXCEPT !.path = path] \in Document
<1>1. Now \in 0 .. Now
  BY WorkspaceAssumption
<1>2. Row(p, Now) \in Document
  BY <1>1 DEF Row, Document
<1> QED BY <1>2 DEF Document

LEMMA InsertKeepsCaps ==
  ASSUME CapsInv, NEW c \in Calls, NEW d \in Docs, Insert(c, d)
  PROVE  CapsInv'
<1>1. /\ WorkspaceShape /\ call[c] \in Request /\ CallShape(c) /\ Counting(c)
      /\ call[c].pc = "write" /\ call[c].op = "create" /\ document[d].state = "none"
  BY DEF CapsInv, WorkspaceShape, Insert, At, Op
<1>2. CASE ~Raises(c)
  <2>1. /\ document' = [document EXCEPT ![d] =
             [Row(call[c].project, Now) EXCEPT !.path = call[c].path]]
        /\ call' = Racing(c, [call EXCEPT ![c].pc = "put", ![c].doc = d], {"push", "move"})
        /\ lock' = Unlocked(c)
        /\ UNCHANGED <<projects, strayed>>
    BY <1>2 DEF Insert
  <2>2. lock = c /\ lock' = None
    BY <1>1, <2>1 DEF Counting, Unlocked
  <2>3. [Row(call[c].project, Now) EXCEPT !.path = call[c].path] \in Document
    <3>1. call[c].project \in Folders /\ call[c].path \in Paths \cup {None}
      BY <1>1 DEF Request
    <3> QED BY <3>1, RowFits
  <2>4. /\ document' \in [Docs -> Document]
        /\ document'[d].state = "live" /\ document'[d].project = call[c].project
        /\ \A e \in Docs \ {d} : document'[e] = document[e]
    BY <1>1, <2>1, <2>3 DEF WorkspaceShape, Row
  <2>5. PICK own \in Request : /\ own = [call[c] EXCEPT !.pc = "put", !.doc = d]
                                /\ own.pc = "put" /\ own.op = "create"
    <3>1. [call[c] EXCEPT !.pc = "put", !.doc = d] \in Request
      BY <1>1 DEF Request
    <3>2. /\ [call[c] EXCEPT !.pc = "put", !.doc = d].pc = "put"
          /\ [call[c] EXCEPT !.pc = "put", !.doc = d].op = "create"
      BY <1>1 DEF Request
    <3> QED BY <3>1, <3>2
  <2>6. [call EXCEPT ![c].pc = "put", ![c].doc = d] = [call EXCEPT ![c] = own]
    BY <1>1, <2>5 DEF WorkspaceShape
  <2>7. call' \in [Calls -> Request] /\ call'[c] = own /\ OthersGoOn(c)
    <3>1. PICK next : next = [call EXCEPT ![c] = own]
      OBVIOUS
    <3>2. call' = Racing(c, next, {"push", "move"})
      BY <2>1, <2>6, <3>1
    <3> QED BY <1>1, <3>1, <3>2, RacingGoesOn
  <2>8. WorkspaceShape'
    BY <1>1, <2>1, <2>2, <2>4, <2>7 DEF WorkspaceShape
  <2>9. \A e \in Calls : CallShape(e)' /\ Counting(e)'
    <3>1. CallShape(c)' /\ Counting(c)'
      BY <2>5, <2>7 DEF CallShape, Counting
    <3>2. ASSUME NEW e \in Calls \ {c}
          PROVE  CallShape(e)' /\ Counting(e)'
      <4>1. call[e] \in Request /\ CallShape(e) /\ Counting(e)
        BY <1>1 DEF CapsInv, WorkspaceShape
      <4>2. /\ call'[e].pc = call[e].pc /\ call'[e].op = call[e].op
            /\ call'[e].doc = call[e].doc
            /\ call[e].pc = "idle" => call'[e] = call[e]
        BY <2>7, <4>1 DEF OthersGoOn, Request
      <4>3. ~(call[e].op = "create" /\ call[e].pc \in {"folder", "look", "write"})
        BY <2>2, <4>1 DEF Counting
      <4> QED BY <4>1, <4>2, <4>3 DEF CallShape, Counting
    <3> QED BY <3>1, <3>2
  <2>10. /\ LiveDocs' = LiveDocs \cup {d} /\ d \notin LiveDocs
         /\ Cardinality(LiveDocs) < MaxDocs /\ IsFiniteSet(LiveDocs)
    BY <1>1, <2>4, CountsFinite DEF LiveDocs, Live, Counting
  <2>11. Cardinality(LiveDocs') <= MaxDocs
    <3>1. Cardinality(LiveDocs \cup {d}) = Cardinality(LiveDocs) + 1
      BY <2>10, FS_AddElement
    <3>2. Cardinality(LiveDocs) \in Nat
      BY <2>10, FS_CardinalityType
    <3> QED BY <2>10, <3>1, <3>2, WorkspaceAssumption
  <2>12. ASSUME NEW p \in Projects
         PROVE  Cardinality(Settled(p)') <= MaxPerProject
    <3>1. Cardinality(Settled(p)) <= MaxPerProject /\ IsFiniteSet(Settled(p))
      BY CountsFinite, <1>1 DEF CapsInv, CapsHeld, Settled
    <3>2. CASE p # call[c].project
      <4>1. Settled(p)' = Settled(p)
        BY <2>1, <2>4, <2>10, <3>2 DEF Settled, DocsIn
      <4> QED BY <3>1, <4>1
    <3>3. CASE p = call[c].project
      <4>1. Settled(p)' \subseteq Settled(p) \cup {d} /\ d \notin Settled(p)
        BY <2>1, <2>4, <2>10 DEF Settled, DocsIn
      <4>2. Cardinality(Settled(p)) < MaxPerProject
        BY <1>1, <3>3, WorkspaceAssumption DEF Counting
      <4>3. /\ IsFiniteSet(Settled(p) \cup {d})
            /\ Cardinality(Settled(p) \cup {d}) = Cardinality(Settled(p)) + 1
        BY <3>1, <4>1, FS_AddElement
      <4>4. /\ Cardinality(Settled(p)') <= Cardinality(Settled(p) \cup {d})
            /\ IsFiniteSet(Settled(p)')
        BY <4>1, <4>3, FS_Subset
      <4>5. Cardinality(Settled(p)) \in Nat /\ Cardinality(Settled(p)') \in Nat
        BY <3>1, <4>4, FS_CardinalityType
      <4> HIDE DEF Settled
      <4> QED BY <4>2, <4>3, <4>4, <4>5, WorkspaceAssumption
    <3> QED BY <3>2, <3>3
  <2>13. CapsHeld'
    BY <2>11, <2>12 DEF CapsHeld, Settled
  <2> QED BY <2>8, <2>9, <2>13 DEF CapsInv
<1> QED BY <1>1, <1>2, EndKeepsCaps

LEMMA FinishKeepsCaps ==
  ASSUME CapsInv, NEW c \in Calls, Finish(c)
  PROVE  CapsInv'
<1>1. WorkspaceShape /\ call' = [call EXCEPT ![c] = Idle] /\ UNCHANGED <<projects, strayed, lock>>
  BY DEF CapsInv, Finish, Ends
<1>2. /\ document' \in [Docs -> Document]
      /\ \A d \in Docs : /\ document'[d].project = document[d].project
                         /\ document'[d].state = "live" => document[d].state = "live"
  BY <1>1 DEF Finish, WorkspaceShape, Document
<1>3. call'[c] = Idle
  BY <1>1 DEF WorkspaceShape
<1>4. Idle \in Request /\ CallShape(c)' /\ Counting(c)'
  BY <1>3, IdleFits
<1>5. WorkspaceShape'
  BY <1>1, <1>2, <1>4 DEF WorkspaceShape
<1>6. Shrinks
  BY <1>1, <1>2 DEF Shrinks, LiveDocs, Live, Settled, DocsIn
<1>7. OthersGoOn(c)
  BY <1>1 DEF OthersGoOn, WorkspaceShape
<1>8. \A e \in Calls : CallShape(e)' /\ Counting(e)'
  BY <1>1, <1>4, <1>5, <1>6, <1>7, OthersKeepShape
<1> QED BY <1>5, <1>6, <1>8, Concluded

LEMMA UpdateKeepsCaps ==
  ASSUME CapsInv, NEW c \in Calls, Update(c)
  PROVE  CapsInv'
<1>1. /\ WorkspaceShape /\ call[c] \in Request /\ CallShape(c)
      /\ call[c].pc = "write" /\ call[c].op \in {"push", "move"} /\ call[c].doc \in Docs
  BY DEF CapsInv, WorkspaceShape, CallShape, Update, At
<1> DEFINE d == call[c].doc
<1>2. CASE ~(Raises(c) \/ Refused(c))
  <2>1. /\ Live(d)
        /\ document' = [document EXCEPT ![d] = Written(c)]
        /\ strayed' = IF Op(c, "move") THEN strayed \cup {d} ELSE strayed
        /\ call' = Racing(c, Ends(c), {"create", "push", "move"})
        /\ UNCHANGED <<projects, lock>>
    BY <1>2 DEF Update
  <2>2. /\ Written(c) \in Document /\ Written(c).state = "live"
        /\ ~Op(c, "move") => Written(c).project = document[d].project
    <3>1. document[d] \in Document /\ document[d].state = "live"
      BY <1>1, <2>1 DEF WorkspaceShape, Live
    <3>2. /\ call[c].path \in Paths \cup {None} /\ call[c].project \in Folders
          /\ Now \in 0 .. Now
      BY <1>1, WorkspaceAssumption DEF Request
    <3>3. CASE Op(c, "push")
      BY <1>1, <3>1, <3>2, <3>3 DEF Written, Op, Document
    <3>4. CASE ~Op(c, "push")
      BY <1>1, <3>1, <3>2, <3>4 DEF Written, Op, Document
    <3> QED BY <3>3, <3>4
  <2>3. /\ document' \in [Docs -> Document]
        /\ document'[d] = Written(c)
        /\ \A e \in Docs \ {d} : document'[e] = document[e]
    BY <1>1, <2>1, <2>2 DEF WorkspaceShape
  <2>4. Idle \in Request
    BY DEF Idle, Request, Folders
  <2>5. call' \in [Calls -> Request] /\ call'[c] = Idle /\ OthersGoOn(c)
    BY <1>1, <2>1, <2>4, RacingGoesOn DEF Ends
  <2>6. WorkspaceShape'
    BY <1>1, <2>1, <2>3, <2>5 DEF WorkspaceShape
  <2>7. Shrinks
    <3>1. LiveDocs' \subseteq LiveDocs
      BY <2>1, <2>3 DEF LiveDocs, Live
    <3>2. CASE Op(c, "move")
      BY <2>1, <2>3, <3>1, <3>2 DEF Shrinks, Settled, DocsIn
    <3>3. CASE ~Op(c, "move")
      BY <2>1, <2>2, <2>3, <3>1, <3>3 DEF Shrinks, Settled, DocsIn
    <3> QED BY <3>2, <3>3
  <2>8. \A e \in Calls : CallShape(e)' /\ Counting(e)'
    BY <1>1, <2>1, <2>5, <2>6, <2>7, IdleFits, OthersKeepShape
  <2> QED BY <2>6, <2>7, <2>8, Concluded
<1> QED BY <1>1, <1>2, EndKeepsCaps

-----------------------------------------------------------------------------
\* What happens beside the calls.
LEMMA BesideKeepsCaps ==
  ASSUME CapsInv,
         \/ \E d \in Docs :
              \/ \E archived \in BOOLEAN : setDocumentArchived(d, archived)
              \/ softDelete(d) \/ Touch(d)
         \/ \E p \in Projects : CreateProject(p)
  PROVE  CapsInv'
<1>1. WorkspaceShape
  BY DEF CapsInv
<1>2. /\ document' \in [Docs -> Document]
      /\ \A d \in Docs : /\ document'[d].project = document[d].project
                         /\ document'[d].state = "live" => document[d].state = "live"
      /\ projects' \subseteq Projects
      /\ UNCHANGED <<strayed, lock, call>>
  <2>1. CASE \E d \in Docs, archived \in BOOLEAN : setDocumentArchived(d, archived)
    BY <1>1, <2>1 DEF setDocumentArchived, WorkspaceShape, Document
  <2>2. CASE \E d \in Docs : softDelete(d)
    BY <1>1, <2>2 DEF softDelete, WorkspaceShape, Document
  <2>3. CASE \E d \in Docs : Touch(d)
    <3>1. Now \in 0 .. Now
      BY WorkspaceAssumption
    <3> QED BY <1>1, <2>3, <3>1 DEF Touch, WorkspaceShape, Document
  <2>4. CASE \E p \in Projects : CreateProject(p)
    BY <1>1, <2>4 DEF CreateProject, WorkspaceShape
  <2> QED BY <2>1, <2>2, <2>3, <2>4
<1>3. WorkspaceShape'
  BY <1>1, <1>2 DEF WorkspaceShape
<1>4. Shrinks
  BY <1>2 DEF Shrinks, LiveDocs, Live, Settled, DocsIn
<1>5. \A e \in Calls : CallShape(e)' /\ Counting(e)'
  BY <1>2, <1>3, <1>4, CountsOn DEF CapsInv, CallShape
<1> QED BY <1>3, <1>4, <1>5, Concluded

LEMMA RemoveProjectKeepsCaps ==
  ASSUME CapsInv, NEW p \in Projects, RemoveProject(p)
  PROVE  CapsInv'
<1>1. WorkspaceShape
  BY DEF CapsInv
<1>2. /\ document' = Unfiled(p) /\ projects' = projects \ {p} /\ lock' = lock
      /\ strayed' = strayed \cup DocsIn(p)
      /\ call' = Racing(None, call, {"push", "move", "create"})
  BY DEF RemoveProject, Racing
<1>3. ASSUME NEW d \in Docs
      PROVE  /\ document'[d] \in Document
             /\ document'[d].state = document[d].state
             /\ document'[d].project \in {document[d].project, None}
  BY <1>1, <1>2 DEF Unfiled, WorkspaceShape, Document, Folders
<1>4. PICK next : next = call
  OBVIOUS
<1>5. PICK own \in Request : TRUE
  <2>1. Idle \in Request
    BY DEF Idle, Request, Folders
  <2> QED BY <2>1
<1>6. call' \in [Calls -> Request] /\ OthersGoOn(None)
  <2>1. None \notin Calls
    BY WorkspaceAssumption
  <2>2. call' = Racing(None, next, {"push", "move", "create"})
    BY <1>2, <1>4
  <2> QED BY <1>1, <1>4, <2>1, <2>2, RacingGoesOn
<1>7. WorkspaceShape'
  BY <1>1, <1>2, <1>3, <1>6 DEF WorkspaceShape, Unfiled, DocsIn, LiveDocs
<1>8. Shrinks
  <2>1. LiveDocs' = LiveDocs
    BY <1>3 DEF LiveDocs, Live
  <2>2. None \notin Projects
    BY WorkspaceAssumption
  <2>3. ASSUME NEW q \in Projects, NEW d \in Settled(q)'
        PROVE  d \in Settled(q)
    <3>1. /\ d \in LiveDocs /\ d \in Docs
          /\ document'[d].project = q /\ d \notin strayed'
      BY <2>1, <2>3 DEF Settled, DocsIn, LiveDocs
    <3>2. document[d].project = q
      BY <1>3, <2>2, <3>1
    <3> QED BY <1>2, <3>1, <3>2 DEF Settled, DocsIn
  <2> QED BY <2>1, <2>3 DEF Shrinks
<1>9. \A e \in Calls : CallShape(e)' /\ Counting(e)'
  <2>1. None \notin Calls
    BY WorkspaceAssumption
  <2> QED BY <1>2, <1>6, <1>7, <1>8, <2>1, OthersKeepShape
<1> QED BY <1>7, <1>8, <1>9, Concluded

LEMMA CallsKeepCaps ==
  ASSUME CapsInv, NEW c \in Calls, CallNext(c)
  PROVE  CapsInv'
<1>1. ASSUME NEW p \in Folders, NEW path \in Paths \cup {None}, Create(c, p, path)
      PROVE  CapsInv'
  <2>1. PICK first : first = [Idle EXCEPT !.pc = "count", !.op = "create", !.project = p, !.path = path]
    OBVIOUS
  <2>2. first \in Request /\ first.pc = "count" /\ first.op = "create" /\ first.doc = 0
    BY <2>1 DEF Idle, Request
  <2> QED BY <1>1, <2>1, <2>2, BeginKeepsCaps DEF Create
<1>2. ASSUME NEW d \in Docs, NEW path \in Paths, Push(c, d, path)
      PROVE  CapsInv'
  <2>1. PICK first : first = [Idle EXCEPT !.pc = "look", !.op = "push", !.doc = d, !.path = path,
                                          !.project = document[d].project]
    OBVIOUS
  <2>2. document[d].project \in Folders
    BY DEF CapsInv, WorkspaceShape, Document
  <2>3. first \in Request /\ first.pc = "look" /\ first.op = "push" /\ first.doc = d
    BY <2>1, <2>2 DEF Idle, Request
  <2> QED BY <1>2, <2>1, <2>3, BeginKeepsCaps DEF Push
<1>3. ASSUME NEW d \in Docs, NEW p \in Folders, Move(c, d, p)
      PROVE  CapsInv'
  <2>1. PICK first : first = [Idle EXCEPT !.pc = "look", !.op = "move", !.doc = d, !.project = p,
                                          !.path = document[d].path]
    OBVIOUS
  <2>2. document[d].path \in Paths \cup {None}
    BY DEF CapsInv, WorkspaceShape, Document
  <2>3. first \in Request /\ first.pc = "look" /\ first.op = "move" /\ first.doc = d
    BY <2>1, <2>2 DEF Idle, Request
  <2> QED BY <1>3, <2>1, <2>3, BeginKeepsCaps DEF Move
<1> QED
  BY <1>1, <1>2, <1>3, CountDocsKeepsCaps, CountInProjectKeepsCaps, LookKeepsCaps,
     InsertKeepsCaps, UpdateKeepsCaps, FinishKeepsCaps, EndKeepsCaps DEF CallNext

LEMMA WorkspaceKeepsCaps ==
  ASSUME CapsInv, WorkspaceNext
  PROVE  CapsInv'
  BY CallsKeepCaps, BesideKeepsCaps, RemoveProjectKeepsCaps DEF WorkspaceNext

LEMMA LookingKeepsCaps ==
  ASSUME CapsInv, UNCHANGED <<document, projects, strayed, lock, call>>
  PROVE  CapsInv'
<1>1. WorkspaceShape' /\ LiveDocs' = LiveDocs /\ \A p : DocsIn(p)' = DocsIn(p) /\ Settled(p)' = Settled(p)
  BY DEF CapsInv, WorkspaceShape, LiveDocs, Live, DocsIn, Settled
<1>2. \A c \in Calls : CallShape(c)' /\ Counting(c)'
  BY <1>1 DEF CapsInv, CallShape, Counting
<1>3. Shrinks
  BY <1>1 DEF Shrinks
<1> QED BY <1>1, <1>2, <1>3, Concluded

LEMMA InitCaps == WorkspaceInit => CapsInv
<1> SUFFICES ASSUME WorkspaceInit PROVE CapsInv
  OBVIOUS
<1>1. {Absent} \cup {Row(None, at) : at \in 0 .. Now - 1} \subseteq Document
  <2>1. Absent \in Document
    BY WorkspaceAssumption DEF Absent, Document, Folders
  <2>2. ASSUME NEW at \in 0 .. Now - 1
        PROVE  Row(None, at) \in Document
    <3>1. at \in 0 .. Now
      BY WorkspaceAssumption
    <3> QED BY <3>1 DEF Row, Document, Folders
  <2> QED BY <2>1, <2>2
<1>2. Idle \in Request
  BY DEF Idle, Request, Folders
<1>3. WorkspaceShape
  BY <1>1, <1>2 DEF WorkspaceInit, WorkspaceShape
<1>4. \A c \in Calls : CallShape(c) /\ Counting(c)
  BY DEF WorkspaceInit, Idle, CallShape, Counting
<1>5. LiveDocs \subseteq Old
  BY DEF WorkspaceInit, LiveDocs, Live, Absent
<1>6. Cardinality(LiveDocs) <= MaxDocs
  <2>1. IsFiniteSet(Old)
    BY FS_Subset, WorkspaceAssumption
  <2>2. IsFiniteSet(LiveDocs) /\ Cardinality(LiveDocs) <= Cardinality(Old)
    BY <1>5, <2>1, FS_Subset
  <2> QED BY <2>1, <2>2, FS_CardinalityType, WorkspaceAssumption
<1>7. ASSUME NEW p \in Projects
      PROVE  Cardinality(Settled(p)) <= MaxPerProject
  <2>1. \A d \in Docs : document[d].project = None
    BY DEF WorkspaceInit, Absent, Row
  <2>2. Settled(p) = {}
    BY <2>1, WorkspaceAssumption DEF Settled, DocsIn, LiveDocs
  <2> QED BY <2>2, FS_EmptySet, WorkspaceAssumption
<1> QED BY <1>3, <1>4, <1>6, <1>7 DEF CapsInv, CapsHeld, Settled

\* However many creates run at once, and whatever is moved, archived, deleted, removed or
\* paged meanwhile, no cap is passed.
THEOREM CapsAreHeld == HomeSpec => []CapsHeld
<1>1. HomeInit => CapsInv
  BY InitCaps DEF HomeInit
<1>2. CapsInv /\ [HomeNext]_<<workspaceVars, homeVars>> => CapsInv'
  BY WorkspaceKeepsCaps, LookingKeepsCaps DEF HomeNext, workspaceVars
<1>3. CapsInv => CapsHeld
  BY DEF CapsInv
<1> QED BY <1>1, <1>2, <1>3, PTL DEF HomeSpec

-----------------------------------------------------------------------------
\* What a call that was not raced may rely on: its project is there, the document it
\* writes is where it read it, and the path it looked up is still free.
Sees(c) ==
  LET q == call[c]
  IN  /\ q.pc \in {"count", "folder", "look", "write"} => ~Dangles(q.project)
      /\ q.op = "push" /\ q.pc \in {"look", "write"} /\ Live(q.doc) =>
           document[q.doc].project = q.project
      /\ q.op = "move" /\ q.pc \in {"look", "write"} /\ Live(q.doc) =>
           document[q.doc].path = q.path
      /\ q.pc = "write" => \/ q.path = None
                           \/ documentIdsAtPath(q.project, q.path) \ {q.doc} = {}

Fresh(c) ==
  /\ call[c].pc = "raw" => call[c].raced
  /\ ~call[c].raced => Sees(c)

\* The foreign key.
Filed == \A d \in Docs : Live(d) => ~Dangles(document[d].project)

RaceInv ==
  /\ CapsInv
  /\ Filed
  /\ \A c \in Calls : Fresh(c)

\* No document is where it was not, and no project is gone.
NoneWritten ==
  /\ \A d \in Docs : /\ document'[d].project = document[d].project
                     /\ document'[d].path = document[d].path
                     /\ Live(d)' => Live(d)
  /\ projects \subseteq projects'

LEMMA FiledStays ==
  ASSUME Filed, NoneWritten
  PROVE  Filed'
  BY DEF Filed, NoneWritten, Dangles

LEMMA PathsStay ==
  ASSUME NoneWritten
  PROVE  \A p, path : documentIdsAtPath(p, path)' \subseteq documentIdsAtPath(p, path)
  BY DEF NoneWritten, documentIdsAtPath, LiveDocs, Live

LEMMA FreshStays ==
  ASSUME RaceInv, NoneWritten, NEW e \in Calls, call'[e] = call[e]
  PROVE  Fresh(e)'
<1>1. Fresh(e) /\ CallShape(e) /\ call[e] \in Request
  BY DEF RaceInv, CapsInv, WorkspaceShape
<1> SUFFICES ASSUME ~call[e].raced PROVE Sees(e)'
  BY <1>1 DEF Fresh
<1>2. Sees(e)
  BY <1>1 DEF Fresh
<1>3. PICK q \in Request : q = call[e]
  BY <1>1
<1>4. q.op \in {"push", "move"} /\ q.pc \in {"look", "write"} => q.doc \in Docs
  BY <1>1, <1>3 DEF CallShape
<1>5. documentIdsAtPath(q.project, q.path)' \subseteq documentIdsAtPath(q.project, q.path)
  BY PathsStay
<1>6. /\ q.pc \in {"count", "folder", "look", "write"} => ~Dangles(q.project)'
      /\ q.op = "push" /\ q.pc \in {"look", "write"} /\ Live(q.doc)' =>
           document'[q.doc].project = q.project
      /\ q.op = "move" /\ q.pc \in {"look", "write"} /\ Live(q.doc)' =>
           document'[q.doc].path = q.path
  BY <1>2, <1>3, <1>4 DEF Sees, NoneWritten, Dangles
<1>7. q.pc = "write" => \/ q.path = None
                        \/ documentIdsAtPath(q.project, q.path)' \ {q.doc} = {}
  BY <1>2, <1>3, <1>5 DEF Sees
<1>8. call'[e] = q
  BY <1>3
<1> QED
  BY <1>6, <1>7, <1>8 DEF Sees, Dangles, Live, documentIdsAtPath, LiveDocs

\* A step of one call that writes no row.
LEMMA OwnStep ==
  ASSUME RaceInv, NEW c \in Calls, NoneWritten,
         \A e \in Calls \ {c} : call'[e] = call[e], Fresh(c)'
  PROVE  Filed' /\ \A e \in Calls : Fresh(e)'
<1>1. Filed'
  BY FiledStays DEF RaceInv
<1>2. \A e \in Calls \ {c} : Fresh(e)'
  BY FreshStays
<1> QED BY <1>1, <1>2

LEMMA SameIsUnwritten ==
  ASSUME document' = document, projects' = projects
  PROVE  NoneWritten
  BY DEF NoneWritten, Live

LEMMA EndIsFresh ==
  ASSUME RaceInv, NEW c \in Calls, Refused(c) \/ Answer(c)
  PROVE  Filed' /\ \A e \in Calls : Fresh(e)'
<1>1. call' = [call EXCEPT ![c] = Idle] /\ NoneWritten /\ call \in [Calls -> Request]
  BY SameIsUnwritten DEF Refused, Answer, Ends, Same, RaceInv, CapsInv, WorkspaceShape
<1>2. call'[c] = Idle /\ \A e \in Calls \ {c} : call'[e] = call[e]
  BY <1>1
<1>3. Fresh(c)'
  BY <1>2 DEF Fresh, Sees, Idle
<1> QED BY <1>1, <1>2, <1>3, OwnStep

\* The exception is a raced call's.
LEMMA RaiseIsFresh ==
  ASSUME RaceInv, NEW c \in Calls, Raises(c), call[c].raced
  PROVE  Filed' /\ \A e \in Calls : Fresh(e)'
<1>1. /\ call' = [call EXCEPT ![c].pc = "raw"] /\ NoneWritten
      /\ call \in [Calls -> Request]
  BY SameIsUnwritten DEF Raises, Goes, Same, RaceInv, CapsInv, WorkspaceShape
<1>2. call'[c].raced /\ \A e \in Calls \ {c} : call'[e] = call[e]
  BY <1>1 DEF Request
<1>3. Fresh(c)'
  BY <1>2 DEF Fresh
<1> QED BY <1>1, <1>2, <1>3, OwnStep

\* A call that begins has just read what it relies on.
LEMMA BeginIsFresh ==
  ASSUME RaceInv, NEW c \in Calls, NEW first \in Request, Begin(c, first),
         \/ first.pc = "count" /\ first.op = "create"
         \/ /\ first.pc = "look" /\ first.op = "push" /\ first.doc \in Docs
            /\ document[first.doc].project = first.project
         \/ /\ first.pc = "look" /\ first.op = "move" /\ first.doc \in Docs
            /\ document[first.doc].path = first.path,
         ~Dangles(first.project)
  PROVE  Filed' /\ \A e \in Calls : Fresh(e)'
<1>1. /\ call' = [call EXCEPT ![c] = first] /\ NoneWritten
      /\ call \in [Calls -> Request] /\ UNCHANGED <<document, projects>>
  BY SameIsUnwritten DEF Begin, RaceInv, CapsInv, WorkspaceShape
<1>2. call'[c] = first /\ \A e \in Calls \ {c} : call'[e] = call[e]
  BY <1>1
<1>3. Fresh(c)'
  BY <1>1, <1>2 DEF Fresh, Sees, Dangles, Live
<1> QED BY <1>1, <1>2, <1>3, OwnStep

LEMMA StartsAreFresh ==
  ASSUME RaceInv, NEW c \in Calls,
         \/ \E p \in Folders, path \in Paths \cup {None} : Create(c, p, path)
         \/ \E d \in Docs, path \in Paths : Push(c, d, path)
         \/ \E d \in Docs, p \in Folders : Move(c, d, p)
  PROVE  Filed' /\ \A e \in Calls : Fresh(e)'
<1>0. document \in [Docs -> Document] /\ Filed
  BY DEF RaceInv, CapsInv, WorkspaceShape
<1>1. ASSUME NEW p \in Folders, NEW path \in Paths \cup {None}, Create(c, p, path)
      PROVE  Filed' /\ \A e \in Calls : Fresh(e)'
  <2>1. PICK first : first = [Idle EXCEPT !.pc = "count", !.op = "create", !.project = p, !.path = path]
    OBVIOUS
  <2>2. first \in Request /\ first.pc = "count" /\ first.op = "create" /\ first.project = p
    BY <2>1 DEF Idle, Request
  <2>3. ~Dangles(p)
    BY <1>1 DEF Create, Dangles
  <2> QED BY <1>1, <2>1, <2>2, <2>3, BeginIsFresh DEF Create
<1>2. ASSUME NEW d \in Docs, NEW path \in Paths, Push(c, d, path)
      PROVE  Filed' /\ \A e \in Calls : Fresh(e)'
  <2>1. PICK first : first = [Idle EXCEPT !.pc = "look", !.op = "push", !.doc = d, !.path = path,
                                          !.project = document[d].project]
    OBVIOUS
  <2>2. document[d].project \in Folders /\ ~Dangles(document[d].project)
    BY <1>0, <1>2 DEF Document, Push, Filed
  <2>3. /\ first \in Request /\ first.pc = "look" /\ first.op = "push" /\ first.doc = d
        /\ first.project = document[d].project
    BY <2>1, <2>2 DEF Idle, Request
  <2> QED BY <1>2, <2>1, <2>2, <2>3, BeginIsFresh DEF Push
<1>3. ASSUME NEW d \in Docs, NEW p \in Folders, Move(c, d, p)
      PROVE  Filed' /\ \A e \in Calls : Fresh(e)'
  <2>1. PICK first : first = [Idle EXCEPT !.pc = "look", !.op = "move", !.doc = d, !.project = p,
                                          !.path = document[d].path]
    OBVIOUS
  <2>2. document[d].path \in Paths \cup {None} /\ ~Dangles(p)
    BY <1>0, <1>3 DEF Document, Move, Dangles
  <2>3. /\ first \in Request /\ first.pc = "look" /\ first.op = "move" /\ first.doc = d
        /\ first.project = p /\ first.path = document[d].path
    BY <2>1, <2>2 DEF Idle, Request
  <2> QED BY <1>3, <2>1, <2>2, <2>3, BeginIsFresh DEF Move
<1> QED BY <1>1, <1>2, <1>3

LEMMA ChecksAreFresh ==
  ASSUME RaceInv, NEW c \in Calls, CountDocs(c) \/ CountInProject(c) \/ Look(c)
  PROVE  Filed' /\ \A e \in Calls : Fresh(e)'
<1>1. /\ call \in [Calls -> Request] /\ call[c] \in Request /\ CallShape(c) /\ Fresh(c)
  BY DEF RaceInv, CapsInv, WorkspaceShape
<1>2. CASE ~Refused(c)
  <2>1. PICK pc \in {"folder", "look", "write"} :
          /\ Goes(c, pc) /\ Same
          /\ pc = "folder" => call[c].pc = "count"
          /\ pc = "look" => call[c].pc = "folder"
          /\ pc = "write" =>
               /\ call[c].pc = "look"
               /\ \/ call[c].path = None
                  \/ documentIdsAtPath(call[c].project, call[c].path) \ {call[c].doc} = {}
    <3>1. CASE CountDocs(c)
      BY <1>2, <3>1 DEF CountDocs, At
    <3>2. CASE CountInProject(c)
      BY <1>2, <3>2 DEF CountInProject, At
    <3>3. CASE Look(c)
      BY <1>2, <3>3 DEF Look, At
    <3> QED BY <3>1, <3>2, <3>3
  <2>2. PICK q \in Request : q = call[c]
    BY <1>1
  <2>3. /\ call'[c].pc = pc /\ call'[c].op = q.op /\ call'[c].doc = q.doc
        /\ call'[c].project = q.project /\ call'[c].path = q.path
        /\ call'[c].raced = q.raced
        /\ \A e \in Calls \ {c} : call'[e] = call[e]
    BY <1>1, <2>1, <2>2 DEF Goes, Request
  <2>4. UNCHANGED <<document, projects>> /\ NoneWritten
    BY <2>1, SameIsUnwritten DEF Same
  <2>5. ASSUME ~q.raced
        PROVE  Sees(c)'
    <3>1. Sees(c)
      BY <1>1, <2>2, <2>5 DEF Fresh
    <3>2. q.pc \in {"count", "folder", "look"} /\ ~Dangles(q.project)
      BY <2>1, <2>2, <3>1 DEF Sees
    <3>3. q.op \in {"push", "move"} => q.pc = "look" /\ pc = "write"
      BY <1>1, <2>1, <2>2, <3>2 DEF CallShape
    <3>4. /\ q.op = "push" /\ Live(q.doc) => document[q.doc].project = q.project
          /\ q.op = "move" /\ Live(q.doc) => document[q.doc].path = q.path
      BY <2>2, <3>1, <3>3 DEF Sees
    <3>5. pc = "write" => q.path = None \/ documentIdsAtPath(q.project, q.path) \ {q.doc} = {}
      BY <2>1, <2>2
    <3>6. documentIdsAtPath(q.project, q.path)' = documentIdsAtPath(q.project, q.path)
      BY <2>4 DEF documentIdsAtPath, LiveDocs, Live
    <3> QED
      BY <2>3, <2>4, <3>2, <3>4, <3>5, <3>6
      DEF Sees, Dangles, Live, documentIdsAtPath, LiveDocs
  <2>6. Fresh(c)'
    BY <2>1, <2>2, <2>3, <2>5 DEF Fresh
  <2> QED BY <2>3, <2>4, <2>6, OwnStep
<1> QED BY <1>2, EndIsFresh

LEMMA CreateHasNoRow ==
  ASSUME RaceInv, NEW c \in Calls, call[c].op = "create", call[c].pc \notin {"idle", "put"}
  PROVE  call[c].doc \notin Docs
<1>1. CallShape(c)
  BY DEF RaceInv, CapsInv
<1> QED BY <1>1, WorkspaceAssumption DEF CallShape

\* A call that was not raced fails on nothing.
LEMMA FailsOnlyRaced ==
  ASSUME RaceInv, NEW c \in Calls, call[c].pc = "write", ~call[c].raced
  PROVE  /\ ~Dangles(call[c].project)
         /\ call[c].op = "create" => \A d : ~Conflict(d, call[c].project, call[c].path)
         /\ call[c].op \in {"push", "move"} /\ Live(call[c].doc) =>
              /\ ~Conflict(call[c].doc, Written(c).project, Written(c).path)
              /\ ~Dangles(Written(c).project)
<1>1. /\ call[c] \in Request /\ CallShape(c) /\ Sees(c) /\ Filed
      /\ document \in [Docs -> Document]
  BY DEF RaceInv, CapsInv, WorkspaceShape, Fresh
<1>2. PICK q \in Request : q = call[c]
  BY <1>1
<1>3. /\ ~Dangles(q.project)
      /\ q.op = "push" /\ Live(q.doc) => document[q.doc].project = q.project
      /\ q.op = "move" /\ Live(q.doc) => document[q.doc].path = q.path
      /\ q.path = None \/ documentIdsAtPath(q.project, q.path) \ {q.doc} = {}
  BY <1>1, <1>2 DEF Sees
<1>4. ~Conflict(q.doc, q.project, q.path)
  BY <1>3 DEF Conflict, documentIdsAtPath
<1>5. ASSUME q.op = "create"
      PROVE  \A d : ~Conflict(d, q.project, q.path)
  <2>1. q.doc \notin Docs
    BY <1>2, <1>5, CreateHasNoRow
  <2> QED BY <1>3, <2>1 DEF Conflict, documentIdsAtPath, LiveDocs
<1>6. ASSUME q.op \in {"push", "move"}, Live(q.doc)
      PROVE  /\ ~Conflict(q.doc, Written(c).project, Written(c).path)
             /\ ~Dangles(Written(c).project)
  <2>1. q.doc \in Docs /\ document[q.doc] \in Document
    BY <1>1, <1>2, <1>6 DEF CallShape
  <2>2. CASE q.op = "push"
    <3>1. Written(c).project = q.project /\ Written(c).path = q.path
      BY <1>2, <1>3, <1>6, <2>1, <2>2 DEF Written, Op, Document
    <3> QED BY <1>3, <1>4, <3>1
  <2>3. CASE q.op = "move"
    <3>1. Written(c).project = q.project /\ Written(c).path = q.path
      BY <1>2, <1>3, <1>6, <2>1, <2>3 DEF Written, Op, Document
    <3> QED BY <1>3, <1>4, <3>1
  <2> QED BY <1>6, <2>2, <2>3
<1> QED BY <1>2, <1>3, <1>5, <1>6

\* Whoever wrote tells the rest.
LEMMA TellsTheOthers ==
  ASSUME RaceInv, NEW c, NEW next, NEW rest,
         \A e \in Calls \ {c} : next[e] = call[e],
         call' = Racing(c, next, rest), document' \in [Docs -> Document],
         {"push", "move"} \subseteq rest,
         NEW e \in Calls \ {c}, projects \subseteq projects' \/ "create" \in rest,
         "create" \in rest \/ ~(call[e].op = "create" /\ call[e].pc \in {"folder", "look", "write"})
  PROVE  Fresh(e)'
<1>1. call[e] \in Request /\ CallShape(e) /\ Fresh(e)
  BY DEF RaceInv, CapsInv, WorkspaceShape
<1>2. call'[e] = IF call[e].pc # "idle" /\ call[e].op \in rest
                 THEN [call[e] EXCEPT !.raced = TRUE] ELSE call[e]
  BY DEF Racing
<1>3. CASE call[e].pc # "idle" /\ call[e].op \in rest
  <2>1. call'[e].raced
    BY <1>1, <1>2, <1>3 DEF Request
  <2> QED BY <2>1 DEF Fresh
<1>4. CASE call[e].pc = "idle"
  BY <1>2, <1>4, <1>1 DEF Fresh, Sees, CallShape, Idle
<1>5. CASE call[e].pc # "idle" /\ call[e].op \notin rest
  <2>1. call[e].op = "create" /\ "create" \notin rest
    BY <1>1, <1>5 DEF CallShape
  <2>2. call[e].pc \notin {"folder", "look", "write"} /\ projects \subseteq projects'
    BY <2>1
  <2>3. call'[e] = call[e]
    BY <1>2, <1>5
  <2>4. PICK q \in Request : q = call[e]
    BY <1>1
  <2>5. ~q.raced => (q.pc = "count" => ~Dangles(q.project)')
    BY <1>1, <2>2, <2>4 DEF Fresh, Sees, Dangles
  <2> QED BY <1>1, <2>1, <2>2, <2>3, <2>4, <2>5 DEF Fresh, Sees, Dangles
<1> QED BY <1>3, <1>4, <1>5

LEMMA InsertIsFresh ==
  ASSUME RaceInv, NEW c \in Calls, NEW d \in Docs, Insert(c, d)
  PROVE  Filed' /\ \A e \in Calls : Fresh(e)'
<1>1. /\ WorkspaceShape /\ call[c] \in Request /\ CallShape(c) /\ Counting(c) /\ Fresh(c) /\ Filed
      /\ call[c].pc = "write" /\ call[c].op = "create"
  BY DEF RaceInv, CapsInv, WorkspaceShape, Insert, At, Op
<1>2. CASE Conflict(d, call[c].project, call[c].path) \/ Dangles(call[c].project)
  <2>1. Raises(c)
    BY <1>2 DEF Insert
  <2>2. call[c].raced
    BY <1>1, <1>2, FailsOnlyRaced DEF Request
  <2> QED BY <2>1, <2>2, RaiseIsFresh
<1>3. CASE ~(Conflict(d, call[c].project, call[c].path) \/ Dangles(call[c].project))
  <2>1. /\ document' = [document EXCEPT ![d] =
             [Row(call[c].project, Now) EXCEPT !.path = call[c].path]]
        /\ call' = Racing(c, [call EXCEPT ![c].pc = "put", ![c].doc = d], {"push", "move"})
        /\ projects' = projects
        /\ ~Dangles(call[c].project)
    BY <1>3 DEF Insert
  <2>2. document' \in [Docs -> Document]
    <3>1. call[c].project \in Folders /\ call[c].path \in Paths \cup {None}
      BY <1>1 DEF Request
    <3> QED BY <1>1, <2>1, <3>1, RowFits DEF WorkspaceShape
  <2>3. PICK next : next = [call EXCEPT ![c].pc = "put", ![c].doc = d]
    OBVIOUS
  <2>4. /\ \A e \in Calls \ {c} : next[e] = call[e]
        /\ next[c].pc = "put"
        /\ call' = Racing(c, next, {"push", "move"})
    BY <1>1, <2>1, <2>3 DEF WorkspaceShape, Request
  <2>5. ASSUME NEW e \in Calls \ {c}
        PROVE  Fresh(e)'
    <3>1. ~(call[e].op = "create" /\ call[e].pc \in {"folder", "look", "write"})
      BY <1>1 DEF RaceInv, CapsInv, Counting
    <3> QED BY <2>1, <2>2, <2>4, <3>1, TellsTheOthers
  <2>6. Fresh(c)'
    BY <2>4 DEF Racing, Fresh, Sees
  <2>7. Filed'
    <3>1. document'[d].project = call[c].project
      BY <1>1, <2>1 DEF WorkspaceShape, Row
    <3>2. \A e \in Docs \ {d} : document'[e] = document[e]
      BY <1>1, <2>1 DEF WorkspaceShape
    <3> QED BY <1>1, <2>1, <3>1, <3>2 DEF Filed, Dangles, Live
  <2> QED BY <2>5, <2>6, <2>7
<1> QED BY <1>2, <1>3

LEMMA UpdateIsFresh ==
  ASSUME RaceInv, NEW c \in Calls, Update(c)
  PROVE  Filed' /\ \A e \in Calls : Fresh(e)'
<1>1. /\ WorkspaceShape /\ call[c] \in Request /\ CallShape(c) /\ Filed
      /\ call[c].pc = "write" /\ call[c].op \in {"push", "move"} /\ call[c].doc \in Docs
  BY DEF RaceInv, CapsInv, WorkspaceShape, CallShape, Update, At
<1> DEFINE d == call[c].doc
           fails == Live(d) /\ (\/ Conflict(d, Written(c).project, Written(c).path)
                                \/ Dangles(Written(c).project))
<1>2. CASE fails
  <2>1. Raises(c)
    BY <1>2 DEF Update
  <2>2. call[c].raced
    BY <1>1, <1>2, FailsOnlyRaced DEF Request
  <2> QED BY <2>1, <2>2, RaiseIsFresh
<1>3. CASE ~Live(d)
  <2>1. Refused(c)
    BY <1>3 DEF Update
  <2> QED BY <2>1, EndIsFresh
<1>4. CASE Live(d) /\ ~fails
  <2>1. /\ document' = [document EXCEPT ![d] = Written(c)]
        /\ call' = Racing(c, Ends(c), {"create", "push", "move"})
        /\ projects' = projects
    BY <1>4 DEF Update
  <2>2. CapsInv'
    BY UpdateKeepsCaps DEF RaceInv
  <2>3. /\ document' \in [Docs -> Document]
        /\ document'[d] = Written(c)
        /\ \A e \in Docs \ {d} : document'[e] = document[e]
    BY <1>1, <2>1, <2>2 DEF CapsInv, WorkspaceShape
  <2>4. PICK next : next = Ends(c)
    OBVIOUS
  <2>5. /\ \A e \in Calls \ {c} : next[e] = call[e]
        /\ next[c] = Idle
        /\ call' = Racing(c, next, {"create", "push", "move"})
    BY <1>1, <2>1, <2>4 DEF WorkspaceShape, Ends
  <2>6. \A e \in Calls \ {c} : Fresh(e)'
    BY <2>3, <2>5, TellsTheOthers
  <2>7. Fresh(c)'
    BY <2>5 DEF Racing, Fresh, Sees, Idle
  <2>8. Filed'
    <3>1. \A e \in Docs \ {d} : document'[e] = document[e]
      BY <2>3
    <3>2. ~Dangles(document'[d].project)
      BY <1>4, <2>3
    <3>3. d \in Docs
      BY <1>1
    <3> HIDE DEF d
    <3> QED BY <1>1, <2>1, <3>1, <3>2, <3>3 DEF Filed, Dangles, Live
  <2> QED BY <2>6, <2>7, <2>8
<1> HIDE DEF fails
<1> QED BY <1>2, <1>3, <1>4

LEMMA FinishIsFresh ==
  ASSUME RaceInv, NEW c \in Calls, Finish(c)
  PROVE  Filed' /\ \A e \in Calls : Fresh(e)'
<1>1. /\ document \in [Docs -> Document] /\ call \in [Calls -> Request]
      /\ call' = [call EXCEPT ![c] = Idle] /\ projects' = projects
  BY DEF RaceInv, CapsInv, WorkspaceShape, Finish, Ends
<1>2. NoneWritten
  BY <1>1 DEF NoneWritten, Finish, Live, Document
<1>3. call'[c] = Idle /\ \A e \in Calls \ {c} : call'[e] = call[e]
  BY <1>1
<1>4. Fresh(c)'
  BY <1>3 DEF Fresh, Sees, Idle
<1> QED BY <1>2, <1>3, <1>4, OwnStep

LEMMA BesideIsFresh ==
  ASSUME RaceInv,
         \/ \E d \in Docs :
              \/ \E archived \in BOOLEAN : setDocumentArchived(d, archived)
              \/ softDelete(d) \/ Touch(d)
         \/ \E p \in Projects : CreateProject(p)
         \/ UNCHANGED <<document, projects, call>>
  PROVE  Filed' /\ \A e \in Calls : Fresh(e)'
<1>1. document \in [Docs -> Document]
  BY DEF RaceInv, CapsInv, WorkspaceShape
<1>2. NoneWritten /\ call' = call
  <2>1. CASE \E d \in Docs, archived \in BOOLEAN : setDocumentArchived(d, archived)
    BY <1>1, <2>1 DEF setDocumentArchived, NoneWritten, Document, Live
  <2>2. CASE \E d \in Docs : softDelete(d)
    BY <1>1, <2>2 DEF softDelete, NoneWritten, Document, Live
  <2>3. CASE \E d \in Docs : Touch(d)
    BY <1>1, <2>3 DEF Touch, NoneWritten, Document, Live
  <2>4. CASE \E p \in Projects : CreateProject(p)
    BY <2>4 DEF CreateProject, NoneWritten, Live
  <2>5. CASE UNCHANGED <<document, projects, call>>
    BY <2>5, SameIsUnwritten
  <2> QED BY <2>1, <2>2, <2>3, <2>4, <2>5
<1>3. \A e \in Calls : Fresh(e)'
  BY <1>2, FreshStays
<1> QED BY <1>2, <1>3, FiledStays DEF RaceInv

LEMMA RemoveProjectIsFresh ==
  ASSUME RaceInv, NEW p \in Projects, RemoveProject(p)
  PROVE  Filed' /\ \A e \in Calls : Fresh(e)'
<1>1. /\ document \in [Docs -> Document] /\ Filed
      /\ document' = Unfiled(p) /\ projects' = projects \ {p}
      /\ call' = Racing(None, call, {"create", "push", "move"})
  BY DEF RaceInv, CapsInv, WorkspaceShape, RemoveProject
<1>2. CapsInv'
  BY RemoveProjectKeepsCaps DEF RaceInv
<1>3. document' \in [Docs -> Document]
  BY <1>2 DEF CapsInv, WorkspaceShape
<1>4. PICK next : next = call
  OBVIOUS
<1>5. \A e \in Calls : Fresh(e)'
  <2>1. call' = Racing(None, next, {"create", "push", "move"})
    BY <1>1, <1>4
  <2>2. \A e \in Calls : e \in Calls \ {None}
    BY WorkspaceAssumption
  <2> QED BY <1>3, <1>4, <2>1, <2>2, TellsTheOthers
<1>6. Filed'
  <2>1. ASSUME NEW d \in Docs, Live(d)'
        PROVE  ~Dangles(document[d].project)'
    <3>1. /\ document'[d].state = document[d].state
          /\ document'[d].project = IF document[d].project = p THEN None ELSE document[d].project
      BY <1>1 DEF Unfiled, Document
    <3>2. ~Dangles(document[d].project)
      BY <1>1, <2>1, <3>1 DEF Filed, Live
    <3> QED BY <1>1, <3>1, <3>2 DEF Dangles
  <2> QED BY <2>1 DEF Filed
<1> QED BY <1>5, <1>6

LEMMA WorkspaceIsFresh ==
  ASSUME RaceInv, WorkspaceNext
  PROVE  RaceInv'
<1>1. CapsInv'
  BY WorkspaceKeepsCaps DEF RaceInv
<1>2. Filed' /\ \A e \in Calls : Fresh(e)'
  BY StartsAreFresh, ChecksAreFresh, InsertIsFresh, UpdateIsFresh, FinishIsFresh, EndIsFresh,
     BesideIsFresh, RemoveProjectIsFresh DEF WorkspaceNext, CallNext
<1> QED BY <1>1, <1>2 DEF RaceInv

\* The index and the foreign key raise only in a race, and never between two creates.
THEOREM ExceptionsAreRaces == HomeSpec => []RawConflictsAreRaces
<1>1. HomeInit => RaceInv
  <2> SUFFICES ASSUME HomeInit PROVE RaceInv
    OBVIOUS
  <2>1. CapsInv
    BY InitCaps DEF HomeInit
  <2>2. Filed
    BY DEF HomeInit, WorkspaceInit, Filed, Absent, Row, Dangles, Live
  <2>3. \A c \in Calls : Fresh(c)
    BY DEF HomeInit, WorkspaceInit, Fresh, Sees, Idle
  <2> QED BY <2>1, <2>2, <2>3 DEF RaceInv
<1>2. RaceInv /\ [HomeNext]_<<workspaceVars, homeVars>> => RaceInv'
  <2> SUFFICES ASSUME RaceInv, [HomeNext]_<<workspaceVars, homeVars>> PROVE RaceInv'
    OBVIOUS
  <2>1. CASE WorkspaceNext
    BY <2>1, WorkspaceIsFresh
  <2>2. CASE UNCHANGED <<document, projects, strayed, lock, call>>
    BY <2>2, LookingKeepsCaps, BesideIsFresh DEF RaceInv
  <2> QED BY <2>1, <2>2 DEF HomeNext, workspaceVars
<1>3. RaceInv => RawConflictsAreRaces
  BY DEF RaceInv, Fresh, RawConflictsAreRaces, At
<1> QED BY <1>1, <1>2, <1>3, PTL DEF HomeSpec

-----------------------------------------------------------------------------
Changes == {"create", "resolve", "delete"}
Refreshes == {"open", "all"}
Loads == {"open", "resolved", "all"}

PageRequest ==
  [pc : {"none", "sent", "served", "refused"},
   kind : Changes \cup Loads \cup {"upvote", "upload", "version", Unset},
   thread : Threads \cup {Unset}, seq : Nat, list : (SUBSET Listed) \cup {Unset},
   text : Seqs \cup {Unset}, on : Seqs \cup BOOLEAN \cup {Unset}, vote : BOOLEAN]

PageShape ==
  /\ status \in [Threads -> {"none", "open", "resolved", "deleted"}]
  /\ voted \in [Threads -> BOOLEAN]
  /\ threads \in SUBSET Listed
  /\ resolvedThreads \in (SUBSET Listed) \cup {Unset}
  /\ filter \in {"none", "open", "resolved"}
  /\ current \in Seqs /\ source \in Seqs /\ against \in Seqs
  /\ viewVersion \in Seqs \cup {Unset} /\ oldSource \in Seqs \cup {Unset}
  /\ triageSeq \in 2 .. (MaxSeq + 1) \cup {Unset}
  /\ request \in [Requests -> PageRequest]
  /\ mine \in SUBSET Threads
  /\ ahead \in [Requests -> SUBSET Requests]

\* What is known of a request from how far it has come.
RequestFits(q) ==
  /\ q.pc = "none" => q = NoRequest
  /\ q.pc = "refused" => q.kind \in Changes \cup {"upvote"}
  /\ q.pc # "none" /\ q.kind \in Changes \cup {"upvote"} => q.thread \in Threads
  /\ q.pc # "none" /\ q.kind \in {"upload", "all"} => q.seq \in 2 .. (MaxSeq + 1)
  /\ q.pc # "none" /\ q.kind = "version" => q.seq \in Seqs
  /\ q.list # Unset => Begun(q) /\ q.kind \in Loads
  /\ q.pc = "sent" /\ q.kind # "all" => q.list = Unset
  /\ q.list # Unset /\ q.kind \in Refreshes => q.on \in Seqs
  /\ q.pc = "served" /\ q.kind \in Loads => q.list # Unset
  /\ q.pc = "served" /\ q.kind = "all" => q.text # Unset
  /\ q.pc = "served" /\ q.kind = "upvote" => q.on \in BOOLEAN

\* Nothing is listed or voted on that was never there.
Existing(list) == \A l \in list : status[l[1]] # "none"

RequestKnown(q) ==
  /\ q.list # Unset => Existing(q.list)
  /\ q.pc # "none" /\ q.kind = "upvote" => status[q.thread] # "none"
  /\ q.pc = "refused" /\ q.kind = "upvote" => status[q.thread] = "deleted"

PageKnown ==
  /\ Existing(threads) /\ Existing(Cached)
  /\ \A r \in Requests : RequestKnown(request[r])

\* The resolved threads, when they are to be loaded, are being loaded.
Loading ==
  filter # "open" /\ resolvedThreads = Unset =>
    \E r \in Requests : request[r].pc # "none" /\ request[r].kind = "resolved"

\* An answer that lists thread t where the server no longer has it.
Misplaced(q, t) ==
  /\ q.list # Unset
  /\ \/ q.kind \in Refreshes /\ ~(t \in ThreadsIn(q.list) <=> status[t] = "open")
     \/ q.kind = "resolved" /\ ~(t \in ThreadsIn(q.list) <=> status[t] = "resolved")

OnRail(t) ==
  /\ t \in ThreadsIn(threads) <=> status[t] = "open"
  /\ resolvedThreads # Unset => (t \in ThreadsIn(resolvedThreads) <=> status[t] = "resolved")

\* A change was made that is to be answered, and read back, after all such answers.
Overrules(c, t) ==
  /\ request[c].pc = "served" /\ request[c].kind \in Changes
  /\ \A r \in Requests : Misplaced(request[r], t) => r \in ahead[c]

\* The rail has the thread where it stands, or will have, once all is answered in order.
Settles(t) ==
  \/ \E c \in Requests : Overrules(c, t)
  \/ /\ \A r \in Requests : ~Misplaced(request[r], t)
     /\ \/ \E r \in Requests : request[r].pc # "none" /\ request[r].kind \in Refreshes
        \/ OnRail(t)

\* An answer with another vote than the server has.
Misvoted(q, t) ==
  \/ q.list # Unset /\ \E l \in q.list : l[1] = t /\ l[2] # voted[t]
  \/ q.pc = "served" /\ q.kind = "upvote" /\ q.thread = t /\ q.on # voted[t]

VoteOnRail(t) == \A l \in threads \cup Cached : l[1] = t => l[2] = voted[t]

Voting(u, t) ==
  /\ request[u].kind = "upvote" /\ request[u].thread = t
  /\ \/ request[u].pc = "sent"
     \/ /\ request[u].pc = "served"
        /\ \A r \in Requests : Misvoted(request[r], t) => r \in ahead[u]

\* The same of the reader's vote.
VoteSettles(t) ==
  \/ \E u \in Requests : Voting(u, t)
  \/ (\A r \in Requests : ~Misvoted(request[r], t)) /\ VoteOnRail(t)

AllSettles ==
  /\ \A t \in mine : Settles(t)
  /\ \A t \in Threads : status[t] # "deleted" => VoteSettles(t)

ViewerInv ==
  /\ PageShape
  /\ \A r \in Requests : RequestFits(request[r])
  /\ PageKnown
  /\ ~failed => Loading
  /\ inOrder /\ ~failed => AllSettles

-----------------------------------------------------------------------------
LEMMA UnsetApart ==
  /\ Unset \notin Nat /\ Unset \notin Seqs /\ Seqs \subseteq Nat
  /\ \A list \in SUBSET Listed : list # Unset
  BY ViewerAssumption DEF Listed, Seqs

LEMMA NoRequestFits == NoRequest \in PageRequest /\ RequestFits(NoRequest)
  BY UnsetApart DEF NoRequest, PageRequest, RequestFits, Begun

\* A request just made.
JustSent(q) ==
  /\ q.pc = "sent" /\ q.list = Unset /\ q.text = Unset /\ q.on = Unset

LEMMA FreshFits ==
  ASSUME NEW q \in PageRequest, JustSent(q),
         q.kind \in Changes \cup {"upvote"} => q.thread \in Threads,
         q.kind \in {"upload", "all"} => q.seq \in 2 .. (MaxSeq + 1),
         q.kind = "version" => q.seq \in Seqs
  PROVE  RequestFits(q)
  BY DEF JustSent, RequestFits, Begun, Changes

LEMMA OneRequest ==
  ASSUME request \in [Requests -> PageRequest], \A x \in Requests : RequestFits(request[x]),
         NEW r \in Requests, NEW next \in PageRequest, RequestFits(next),
         request' = [request EXCEPT ![r] = next]
  PROVE  /\ request' \in [Requests -> PageRequest]
         /\ \A x \in Requests : RequestFits(request'[x])
         /\ \A x \in Requests : request'[x] = IF x = r THEN next ELSE request[x]
<1>1. request' \in [Requests -> PageRequest]
  OBVIOUS
<1>2. \A x \in Requests : request'[x] = IF x = r THEN next ELSE request[x]
  OBVIOUS
<1> QED BY <1>1, <1>2

PageSound == PageShape /\ \A r \in Requests : RequestFits(request[r])

\* What is listed is a thread and the reader's vote.
LEMMA ListedTyped ==
  ASSUME PageShape, NEW l \in threads \cup Cached
  PROVE  l[1] \in Threads /\ l[2] \in BOOLEAN
  BY DEF PageShape, Listed, Cached

LEMMA PatchedFits ==
  ASSUME NEW list \in (SUBSET Listed) \cup {Unset}, NEW t \in Threads, NEW vote \in BOOLEAN
  PROVE  /\ Patched(list, t, vote) \in (SUBSET Listed) \cup {Unset}
         /\ Patched(list, t, vote) = Unset <=> list = Unset
         /\ list # Unset => Patched(list, t, vote) \in SUBSET Listed
<1>1. ASSUME list # Unset PROVE Patched(list, t, vote) \in SUBSET Listed
  BY <1>1 DEF Patched, Listed
<1>2. list = Unset => Patched(list, t, vote) = Unset
  BY DEF Patched
<1> QED BY <1>1, <1>2, UnsetApart

\* What the reader asks for next.
LEMMA AskedIsSound ==
  ASSUME PageSound, NEW r \in Requests, Reader(r)
  PROVE  PageSound' /\ \E next : /\ request' = [request EXCEPT ![r] = next]
                                 /\ next = NoRequest \/ JustSent(next)
<1> USE DEF PageSound
<1>1. MaxSeq \in Nat \ {0}
  BY ViewerAssumption
<1>2. ASSUME NEW t \in Threads, NEW kind \in Changes, Change(r, kind, t)
      PROVE  PageSound' /\ \E next : request' = [request EXCEPT ![r] = next] /\ JustSent(next)
  <2> DEFINE next == [New(kind) EXCEPT !.thread = t]
  <2>1. next \in PageRequest /\ JustSent(next) /\ next.kind = kind /\ next.thread = t
    BY DEF New, NoRequest, PageRequest, JustSent, Changes, Loads
  <2>2. RequestFits(next)
    BY <2>1, FreshFits DEF Changes
  <2> HIDE DEF next
  <2>3. /\ request' = [request EXCEPT ![r] = next]
        /\ UNCHANGED <<serverVars, shownVars, mine, ahead>>
    BY <1>2 DEF Change, Acts, next
  <2>4. PageShape' /\ \A x \in Requests : RequestFits(request'[x])
    BY <2>1, <2>2, <2>3, OneRequest DEF PageShape, serverVars, shownVars
  <2> QED BY <2>1, <2>3, <2>4
<1>3. ASSUME NEW l \in threads \cup Cached, Upvote(r, l)
      PROVE  PageSound' /\ \E next : request' = [request EXCEPT ![r] = next] /\ JustSent(next)
  <2> DEFINE next == [New("upvote") EXCEPT !.thread = l[1], !.vote = l[2]]
  <2>1. l[1] \in Threads /\ l[2] \in BOOLEAN
    BY <1>3, ListedTyped
  <2>2. next \in PageRequest /\ JustSent(next) /\ next.kind = "upvote" /\ next.thread = l[1]
    BY <2>1 DEF New, NoRequest, PageRequest, JustSent, Changes, Loads
  <2>3. RequestFits(next)
    BY <2>1, <2>2, FreshFits
  <2> HIDE DEF next
  <2>4. /\ request' = [request EXCEPT ![r] = next]
        /\ UNCHANGED <<serverVars, filter, source, against, viewVersion, oldSource, triageSeq,
                       mine, ahead>>
        /\ threads' = Patched(threads, l[1], ~l[2])
        /\ resolvedThreads' = Patched(resolvedThreads, l[1], ~l[2])
    BY <1>3 DEF Upvote, patchUpvote, Acts, next
  <2>5. threads # Unset /\ threads \in SUBSET Listed /\ resolvedThreads \in (SUBSET Listed) \cup {Unset}
    BY UnsetApart DEF PageShape
  <2>6. threads' \in SUBSET Listed /\ resolvedThreads' \in (SUBSET Listed) \cup {Unset}
    <3>1. (~l[2]) \in BOOLEAN
      BY <2>1
    <3>2. Patched(threads, l[1], ~l[2]) \in SUBSET Listed
      BY <2>1, <2>5, <3>1, PatchedFits
    <3>3. Patched(resolvedThreads, l[1], ~l[2]) \in (SUBSET Listed) \cup {Unset}
      BY <2>1, <2>5, <3>1, PatchedFits
    <3> QED BY <2>4, <3>2, <3>3
  <2>7. PageShape' /\ \A x \in Requests : RequestFits(request'[x])
    BY <2>2, <2>3, <2>4, <2>6, OneRequest DEF PageShape, serverVars
  <2> QED BY <2>2, <2>4, <2>7
<1>4. ASSUME Upload(r)
      PROVE  PageSound' /\ \E next : request' = [request EXCEPT ![r] = next] /\ JustSent(next)
  <2> DEFINE next == [New("upload") EXCEPT !.seq = source + 1]
  <2>1. source + 1 \in Nat /\ source + 1 \in 2 .. (MaxSeq + 1)
    BY <1>1 DEF PageShape, Seqs
  <2>2. next \in PageRequest /\ JustSent(next) /\ next.kind = "upload" /\ next.seq = source + 1
    BY <2>1 DEF New, NoRequest, PageRequest, JustSent, Changes, Loads
  <2>3. RequestFits(next)
    BY <2>1, <2>2, FreshFits DEF Changes
  <2> HIDE DEF next
  <2>4. /\ request' = [request EXCEPT ![r] = next]
        /\ UNCHANGED <<serverVars, threads, resolvedThreads, filter, source, against, triageSeq,
                       mine, ahead>>
        /\ viewVersion' = Unset /\ oldSource' = Unset
    BY <1>4 DEF Upload, Acts, next
  <2>5. PageShape' /\ \A x \in Requests : RequestFits(request'[x])
    BY <2>2, <2>3, <2>4, OneRequest DEF PageShape, serverVars
  <2> QED BY <2>2, <2>4, <2>5
<1>5. ASSUME NEW f \in {"none", "open", "resolved"}, SetFilter(r, f)
      PROVE  PageSound' /\ \E next : /\ request' = [request EXCEPT ![r] = next]
                                     /\ next = NoRequest \/ JustSent(next)
  <2> DEFINE next == IF NeedsResolved(f, resolvedThreads) THEN New("resolved") ELSE NoRequest
  <2>1. next \in PageRequest /\ (next = NoRequest \/ (JustSent(next) /\ next.kind = "resolved"))
    <3>1. New("resolved") \in PageRequest /\ JustSent(New("resolved")) /\ New("resolved").kind = "resolved"
      BY DEF New, NoRequest, PageRequest, JustSent, Loads
    <3>2. CASE NeedsResolved(f, resolvedThreads)
      BY <3>1, <3>2
    <3>3. CASE ~NeedsResolved(f, resolvedThreads)
      BY <3>3, NoRequestFits
    <3> QED BY <3>2, <3>3
  <2>2. RequestFits(next)
    BY <2>1, NoRequestFits, FreshFits DEF Changes
  <2> HIDE DEF next
  <2>3. /\ request' = [request EXCEPT ![r] = next]
        /\ UNCHANGED <<serverVars, threads, resolvedThreads, source, against, viewVersion, oldSource,
                       triageSeq, mine, ahead>>
        /\ filter' = f
    BY <1>5 DEF SetFilter, Acts, next
  <2>4. PageShape' /\ \A x \in Requests : RequestFits(request'[x])
    BY <2>1, <2>2, <2>3, OneRequest DEF PageShape, serverVars
  <2> QED BY <2>1, <2>3, <2>4
<1>6. ASSUME NEW v \in Seqs, SelectVersion(r, v)
      PROVE  PageSound' /\ \E next : request' = [request EXCEPT ![r] = next] /\ JustSent(next)
  <2> DEFINE next == [New("version") EXCEPT !.seq = v]
  <2>1. next \in PageRequest /\ JustSent(next) /\ next.kind = "version" /\ next.seq = v
    BY UnsetApart DEF New, NoRequest, PageRequest, JustSent, Changes, Loads
  <2>2. RequestFits(next)
    BY <2>1, FreshFits DEF Changes
  <2> HIDE DEF next
  <2>3. /\ request' = [request EXCEPT ![r] = next]
        /\ UNCHANGED <<serverVars, threads, resolvedThreads, filter, source, against, oldSource,
                       triageSeq, mine, ahead>>
        /\ viewVersion' = v
    BY <1>6 DEF SelectVersion, Acts, next
  <2>4. PageShape' /\ \A x \in Requests : RequestFits(request'[x])
    BY <2>1, <2>2, <2>3, OneRequest DEF PageShape, serverVars
  <2> QED BY <2>1, <2>3, <2>4
<1>7. ASSUME BackToCurrent(r)
      PROVE  PageSound' /\ request' = [request EXCEPT ![r] = NoRequest]
  <2>1. /\ request' = [request EXCEPT ![r] = NoRequest]
        /\ UNCHANGED <<serverVars, threads, resolvedThreads, filter, source, against,
                       triageSeq, mine, ahead>>
        /\ viewVersion' = Unset /\ oldSource' = Unset
    BY <1>7 DEF BackToCurrent, Acts
  <2>2. PageShape' /\ \A x \in Requests : RequestFits(request'[x])
    BY <2>1, NoRequestFits, OneRequest DEF PageShape, serverVars
  <2> QED BY <2>1, <2>2
<1> QED BY <1>2, <1>3, <1>4, <1>5, <1>6, <1>7 DEF Reader, Changes

LEMMA ListsFit ==
  ASSUME PageShape, NEW s
  PROVE  ListOf(s) \in SUBSET Listed /\ ListOf(s) # Unset
<1>1. ListOf(s) \in SUBSET Listed
  BY DEF ListOf, Listed, PageShape
<1> QED BY <1>1, UnsetApart

\* What the server refuses, and what it does.
LEMMA RespondIsSound ==
  ASSUME PageSound, NEW r \in Requests, Respond(r)
  PROVE  PageSound'
<1> USE DEF PageSound
<1> DEFINE q == request[r]
<1>1. /\ q \in PageRequest /\ RequestFits(q) /\ q.pc = "sent" /\ q.kind # "all"
      /\ ahead' \in [Requests -> SUBSET Requests]
      /\ UNCHANGED shownVars
  BY DEF PageShape, Respond, Follows, SameShown
<1>2. CASE ~Allowed(q) /\ request' = [request EXCEPT ![r].pc = "refused"] /\ UNCHANGED <<serverVars, mine>>
  <2> DEFINE next == [q EXCEPT !.pc = "refused"]
  <2>1. q.kind \in Changes \cup {"upvote"}
    BY <1>2 DEF Allowed, Changes
  <2>2. next \in PageRequest /\ RequestFits(next)
    BY <1>1, <2>1 DEF PageRequest, RequestFits, Begun, Changes, Loads, Refreshes
  <2>3. request' = [request EXCEPT ![r] = next]
    BY <1>2 DEF PageShape, PageRequest
  <2> HIDE DEF next
  <2> QED BY <1>1, <1>2, <2>2, <2>3, OneRequest DEF PageShape, serverVars, shownVars
<1>3. CASE Allowed(q) /\ Effect(q) /\ request' = [request EXCEPT ![r] = Reply(q)]
  <2>1. /\ status' \in [Threads -> {"none", "open", "resolved", "deleted"}]
        /\ mine' \in SUBSET Threads
    BY <1>1, <1>3 DEF Effect, Becomes, PageShape, RequestFits, Changes
  <2>2. voted' \in [Threads -> BOOLEAN]
    <3>1. CASE q.kind = "upvote"
      <4>1. q.thread \in Threads /\ voted' = [voted EXCEPT ![q.thread] = ~voted[q.thread]]
        BY <1>1, <1>3, <3>1 DEF Effect, RequestFits
      <4> QED BY <4>1 DEF PageShape
    <3> QED BY <1>3, <3>1 DEF Effect, PageShape
  <2>3. current' \in Seqs
    BY <1>3, ViewerAssumption DEF Effect, PageShape, Seqs
  <2>4. Reply(q) \in PageRequest /\ RequestFits(Reply(q))
    <3>1. ListOf("open") \in SUBSET Listed /\ ListOf("open") # Unset
      BY ListsFit
    <3>2. ListOf("resolved") \in SUBSET Listed /\ ListOf("resolved") # Unset
      BY ListsFit
    <3>3. current \in Seqs
      BY DEF PageShape
    <3>4. CASE q.kind = "upvote"
      <4>1. (~voted[q.thread]) \in BOOLEAN
        BY <1>1, <3>4 DEF RequestFits, PageShape
      <4>2. Reply(q) = [q EXCEPT !.pc = "served", !.on = ~voted[q.thread]]
        BY <3>4 DEF Reply
      <4> QED BY <1>1, <3>4, <4>1, <4>2
              DEF PageRequest, RequestFits, Begun, Changes, Loads, Refreshes
    <3>5. CASE q.kind = "open"
      <4>1. Reply(q) = [q EXCEPT !.pc = "served", !.list = ListOf("open"), !.on = current]
        BY <3>5 DEF Reply
      <4> QED BY <1>1, <3>1, <3>3, <3>5, <4>1
              DEF PageRequest, RequestFits, Begun, Changes, Loads, Refreshes
    <3>6. CASE q.kind = "resolved"
      <4>1. Reply(q) = [q EXCEPT !.pc = "served", !.list = ListOf("resolved")]
        BY <3>6 DEF Reply
      <4> QED BY <1>1, <3>2, <3>6, <4>1
              DEF PageRequest, RequestFits, Begun, Changes, Loads, Refreshes
    <3>7. CASE q.kind \notin {"upvote", "open", "resolved"}
      <4>1. Reply(q) = [q EXCEPT !.pc = "served"]
        BY <3>7 DEF Reply
      <4> QED BY <1>1, <3>7, <4>1
              DEF PageRequest, RequestFits, Begun, Changes, Loads, Refreshes
    <3> QED BY <3>4, <3>5, <3>6, <3>7
  <2> QED BY <1>1, <1>3, <2>1, <2>2, <2>3, <2>4, OneRequest DEF PageShape, shownVars
<1> QED BY <1>2, <1>3 DEF Respond

\* What one of the two reads side by side makes of its request.
LEMMA PartIsSound ==
  ASSUME PageSound, NEW r \in Requests, RespondInPart(r)
  PROVE  /\ PageSound'
         /\ \E next : /\ request' = [request EXCEPT ![r] = next]
                      /\ next.kind = "all" /\ next.pc \in {"sent", "served"}
                      /\ \/ next.list = request[r].list
                         \/ next.list = ListOf("open")
<1> USE DEF PageSound
<1> DEFINE q == request[r]
<1>1. /\ q \in PageRequest /\ RequestFits(q) /\ q.pc = "sent" /\ q.kind = "all"
      /\ ahead' \in [Requests -> SUBSET Requests]
      /\ UNCHANGED shownVars /\ UNCHANGED <<serverVars, mine>>
  BY DEF PageShape, RespondInPart, Follows, SameShown
<1>2. ListOf("open") \in SUBSET Listed /\ ListOf("open") # Unset /\ current \in Seqs /\ current # Unset
  BY ListsFit, UnsetApart DEF PageShape
<1>3. \E next : /\ request' = [request EXCEPT ![r] = next]
                /\ next \in PageRequest /\ RequestFits(next)
                /\ next.kind = "all" /\ next.pc \in {"sent", "served"}
                /\ \/ next.list = q.list
                   \/ next.list = ListOf("open")
  <2>1. CASE q.text = Unset /\ Part(r, [q EXCEPT !.text = current])
    <3> DEFINE p == [q EXCEPT !.text = current]
               next == IF p.text # Unset /\ p.list # Unset THEN [p EXCEPT !.pc = "served"] ELSE p
    <3>1. request' = [request EXCEPT ![r] = next]
      BY <2>1 DEF Part
    <3>2. next \in PageRequest /\ RequestFits(next)
      BY <1>1, <1>2, <2>1 DEF PageRequest, RequestFits, Begun, Changes, Loads, Refreshes
    <3>3. next.kind = "all" /\ next.pc \in {"sent", "served"} /\ next.list = q.list
      BY <1>1 DEF PageRequest
    <3> QED BY <3>1, <3>2, <3>3
  <2>2. CASE q.list = Unset /\ Part(r, [q EXCEPT !.list = ListOf("open"), !.on = current])
    <3> DEFINE p == [q EXCEPT !.list = ListOf("open"), !.on = current]
               next == IF p.text # Unset /\ p.list # Unset THEN [p EXCEPT !.pc = "served"] ELSE p
    <3>1. request' = [request EXCEPT ![r] = next]
      BY <2>2 DEF Part
    <3>2. next \in PageRequest /\ RequestFits(next)
      BY <1>1, <1>2, <2>2 DEF PageRequest, RequestFits, Begun, Changes, Loads, Refreshes
    <3>3. next.kind = "all" /\ next.pc \in {"sent", "served"} /\ next.list = ListOf("open")
      BY <1>1 DEF PageRequest
    <3> QED BY <3>1, <3>2, <3>3
  <2> QED BY <2>1, <2>2 DEF RespondInPart
<1>4. PageSound'
  <2>1. PICK next : /\ request' = [request EXCEPT ![r] = next]
                    /\ next \in PageRequest /\ RequestFits(next)
    BY <1>3
  <2> QED BY <1>1, <2>1, OneRequest DEF PageShape, serverVars, shownVars
<1> QED BY <1>3, <1>4

LEMMA TakenIsSound ==
  ASSUME PageSound, NEW r \in Requests, NEW next, Takes(r, next),
         next = NoRequest \/ (next \in PageRequest /\ RequestFits(next)),
         threads' \in SUBSET Listed, resolvedThreads' \in (SUBSET Listed) \cup {Unset},
         filter' = filter, viewVersion' = viewVersion,
         source' \in Seqs, against' \in Seqs, oldSource' \in Seqs \cup {Unset},
         triageSeq' \in 2 .. (MaxSeq + 1) \cup {Unset}
  PROVE  PageSound'
<1>1. next \in PageRequest /\ RequestFits(next)
  BY NoRequestFits
<1>2. request' = [request EXCEPT ![r] = next] /\ UNCHANGED <<serverVars, mine>>
  BY DEF Takes
<1>3. ahead' \in [Requests -> SUBSET Requests]
  BY DEF Takes, Answered, PageSound, PageShape
<1> QED BY <1>1, <1>2, <1>3, OneRequest DEF PageSound, PageShape, serverVars

LEMMA ReloadsFit ==
  /\ Reloads = NoRequest \/ (Reloads \in PageRequest /\ RequestFits(Reloads))
  /\ Reloads = NoRequest \/ (JustSent(Reloads) /\ Reloads.kind = "resolved")
<1>1. LET q == New("resolved") IN q \in PageRequest /\ JustSent(q) /\ q.kind = "resolved" /\ RequestFits(q)
  BY DEF New, NoRequest, PageRequest, JustSent, RequestFits, Begun, Changes, Loads, Refreshes
<1> QED BY <1>1 DEF Reloads

\* A vote patched in is a patched list wherever there is a list.
LEMMA PatchIsSound ==
  ASSUME PageShape, NEW t \in Threads, NEW vote \in BOOLEAN, patchUpvote(t, vote)
  PROVE  threads' \in SUBSET Listed /\ resolvedThreads' \in (SUBSET Listed) \cup {Unset}
<1>1. threads # Unset /\ threads \in SUBSET Listed /\ resolvedThreads \in (SUBSET Listed) \cup {Unset}
  BY UnsetApart DEF PageShape
<1>2. Patched(threads, t, vote) \in SUBSET Listed
  BY <1>1, PatchedFits
<1>3. Patched(resolvedThreads, t, vote) \in (SUBSET Listed) \cup {Unset}
  BY <1>1, PatchedFits
<1> QED BY <1>2, <1>3 DEF patchUpvote

LEMMA AnswersAreSound ==
  ASSUME PageSound, NEW r \in Requests, Answers(r)
  PROVE  PageSound'
<1> DEFINE q == request[r]
<1>1. q \in PageRequest /\ RequestFits(q) /\ PageShape
  BY DEF PageSound, PageShape
<1>2. CASE Done(r)
  <2>1. New("open") \in PageRequest /\ RequestFits(New("open"))
    BY DEF New, NoRequest, PageRequest, RequestFits, Begun, Changes, Loads, Refreshes
  <2> QED BY <1>1, <1>2, <2>1, TakenIsSound DEF Done, shownVars, PageShape
<1>3. CASE Uploaded(r)
  <2> DEFINE next == [New("all") EXCEPT !.seq = q.seq]
  <2>1. q.seq \in 2 .. (MaxSeq + 1) /\ q.seq \in Nat
    BY <1>1, <1>3 DEF Uploaded, Takes, RequestFits, PageRequest
  <2>2. next \in PageRequest /\ RequestFits(next)
    BY <2>1 DEF New, NoRequest, PageRequest, RequestFits, Begun, Changes, Loads, Refreshes
  <2> HIDE DEF next
  <2>3. Takes(r, next)
    BY <1>3 DEF Uploaded, next
  <2> QED BY <1>1, <1>3, <2>2, <2>3, TakenIsSound DEF Uploaded, shownVars, PageShape
<1>4. CASE Upvoted(r)
  <2>1. q.thread \in Threads /\ q.on \in BOOLEAN
    BY <1>1, <1>4 DEF Upvoted, Takes, RequestFits
  <2>2. threads' \in SUBSET Listed /\ resolvedThreads' \in (SUBSET Listed) \cup {Unset}
    BY <1>1, <1>4, <2>1, PatchIsSound DEF Upvoted
  <2> QED BY <1>1, <1>4, <2>2, TakenIsSound DEF Upvoted, patchUpvote, PageShape
<1>5. CASE refreshThreads(r)
  <2>1. q.list \in SUBSET Listed /\ q.on \in Seqs
    BY <1>1, <1>5 DEF refreshThreads, Takes, RequestFits, PageRequest, Loads, Refreshes
  <2> QED BY <1>1, <1>5, <2>1, TakenIsSound, ReloadsFit
          DEF refreshThreads, CacheDropped, PageShape
<1>6. CASE refreshAll(r)
  <2>1. /\ q.list \in SUBSET Listed /\ q.on \in Seqs /\ q.text \in Seqs
        /\ q.seq \in 2 .. (MaxSeq + 1)
    BY <1>1, <1>6 DEF refreshAll, Takes, RequestFits, PageRequest, Loads, Refreshes
  <2> QED BY <1>1, <1>6, <2>1, TakenIsSound, ReloadsFit
          DEF refreshAll, CacheDropped, PageShape
<1>7. CASE ResolvedLoaded(r)
  <2>1. q.list \in SUBSET Listed
    BY <1>1, <1>7 DEF ResolvedLoaded, Takes, RequestFits, PageRequest, Loads
  <2> QED BY <1>1, <1>7, <2>1, TakenIsSound DEF ResolvedLoaded, PageShape
<1>8. CASE VersionLoaded(r)
  <2>1. q.seq \in Seqs
    BY <1>1, <1>8 DEF VersionLoaded, Takes, RequestFits
  <2> QED BY <1>1, <1>8, <2>1, TakenIsSound DEF VersionLoaded, PageShape
<1>9. CASE RequestFails(r)
  <2>1. /\ request' = [request EXCEPT ![r] = NoRequest] /\ UNCHANGED <<serverVars, mine>>
        /\ ahead' \in [Requests -> SUBSET Requests]
    BY <1>1, <1>9 DEF RequestFails, Answered, PageShape
  <2>2. /\ threads' \in SUBSET Listed /\ resolvedThreads' \in (SUBSET Listed) \cup {Unset}
        /\ viewVersion' \in Seqs \cup {Unset} /\ oldSource' \in Seqs \cup {Unset}
        /\ UNCHANGED <<filter, source, against, triageSeq>>
    <3>1. CASE q.kind = "upvote"
      <4>1. patchUpvote(q.thread, q.vote)
        BY <1>9, <3>1 DEF RequestFails, Undone
      <4>2. q.thread \in Threads /\ q.vote \in BOOLEAN
        BY <1>1, <1>9, <3>1 DEF RequestFails, RequestFits, PageRequest
      <4>3. threads' \in SUBSET Listed /\ resolvedThreads' \in (SUBSET Listed) \cup {Unset}
        BY <1>1, <4>1, <4>2, PatchIsSound
      <4> QED BY <1>1, <4>1, <4>3 DEF patchUpvote, PageShape
    <3>2. CASE q.kind = "version"
      BY <1>1, <1>9, <3>2 DEF RequestFails, Undone, PageShape
    <3>3. CASE q.kind \notin {"upvote", "version"}
      BY <1>1, <1>9, <3>3 DEF RequestFails, Undone, PageShape, shownVars
    <3> QED BY <3>1, <3>2, <3>3
  <2> QED BY <1>1, <2>1, <2>2, NoRequestFits, OneRequest DEF PageSound, PageShape, serverVars
<1> QED BY <1>2, <1>3, <1>4, <1>5, <1>6, <1>7, <1>8, <1>9 DEF Answers

LEMMA OthersAreSound ==
  ASSUME PageSound,
         (\E t \in Threads, kind \in Changes : Other(t, kind)) \/ OtherUpload
  PROVE  PageSound'
<1>1. CASE \E t \in Threads, kind \in Changes : Other(t, kind)
  <2>1. PICK t \in Threads, kind \in Changes : Other(t, kind)
    BY <1>1
  <2>2. /\ status' = [status EXCEPT ![t] = Becomes(kind)] /\ mine' = mine \ {t}
        /\ UNCHANGED <<voted, current, shownVars, request, ahead>>
        /\ Becomes(kind) \in {"open", "resolved", "deleted"}
    BY <2>1 DEF Other, Becomes, Changes
  <2> QED BY <2>2 DEF PageSound, PageShape, shownVars
<1>2. CASE OtherUpload
  <2>1. current' \in Seqs /\ UNCHANGED <<status, voted, shownVars, request, mine, ahead>>
    BY <1>2, ViewerAssumption DEF OtherUpload, PageSound, PageShape, Seqs
  <2> QED BY <2>1 DEF PageSound, PageShape, shownVars
<1> QED BY <1>1, <1>2

-----------------------------------------------------------------------------
\* A thread that was there is never again as if it had not been.
StatusGrows ==
  \A t \in Threads :
    /\ status[t] # "none" => status'[t] # "none"
    /\ status[t] = "deleted" => status'[t] = "deleted"

LEMMA EffectGrows ==
  ASSUME PageSound, NEW r \in Requests, Respond(r)
  PROVE  StatusGrows
<1> DEFINE q == request[r]
<1>1. q \in PageRequest /\ RequestFits(q) /\ q.pc = "sent" /\ PageShape
  BY DEF PageSound, PageShape, Respond
<1>2. CASE UNCHANGED serverVars
  BY <1>2 DEF StatusGrows, serverVars
<1>3. CASE Allowed(q) /\ Effect(q)
  <2>1. CASE q.kind \in Changes
    <3>1. q.thread \in Threads /\ status' = [status EXCEPT ![q.thread] = Becomes(q.kind)]
      BY <1>1, <1>3, <2>1 DEF Effect, RequestFits, Changes
    <3>2. Becomes(q.kind) # "none" /\ status[q.thread] # "deleted"
      BY <1>3, <2>1 DEF Allowed, Becomes, Changes
    <3> QED BY <1>1, <3>1, <3>2 DEF StatusGrows, PageShape
  <2>2. CASE q.kind \notin Changes
    BY <1>3, <2>2 DEF Effect, Changes, StatusGrows
  <2> QED BY <2>1, <2>2
<1> QED BY <1>2, <1>3 DEF Respond

LEMMA OtherGrows ==
  ASSUME PageSound, NEW t \in Threads, NEW kind \in Changes, Other(t, kind)
  PROVE  /\ StatusGrows
         /\ status' = [status EXCEPT ![t] = Becomes(kind)]
<1> DEFINE q == [NoRequest EXCEPT !.kind = kind, !.thread = t]
<1>1. q.kind = kind /\ q.thread = t
  BY DEF NoRequest
<1>2. Allowed(q) /\ status' = [status EXCEPT ![t] = Becomes(kind)]
  BY DEF Other
<1> HIDE DEF q
<1>3. Becomes(kind) # "none" /\ status[t] # "deleted"
  BY <1>1, <1>2 DEF Allowed, Becomes, Changes
<1> QED BY <1>2, <1>3 DEF StatusGrows, PageSound, PageShape

LEMMA ExistingKept ==
  ASSUME StatusGrows, NEW list \in SUBSET Listed, Existing(list)
  PROVE  Existing(list)'
  BY DEF StatusGrows, Existing, Listed

LEMMA RequestKnownKept ==
  ASSUME StatusGrows, NEW q \in PageRequest, RequestFits(q), RequestKnown(q)
  PROVE  RequestKnown(q)'
<1>1. q.list # Unset => Existing(q.list)'
  <2>1. ASSUME q.list # Unset PROVE Existing(q.list)'
    <3>1. q.list \in SUBSET Listed /\ Existing(q.list)
      BY <2>1 DEF PageRequest, RequestKnown
    <3> QED BY <3>1 DEF StatusGrows, Existing, Listed
  <2> QED BY <2>1
<1>2. q.pc # "none" /\ q.kind = "upvote" => q.thread \in Threads
  BY DEF RequestFits
<1> QED BY <1>1, <1>2 DEF RequestKnown, StatusGrows

LEMMA KnownKept ==
  ASSUME PageSound, PageKnown, StatusGrows, Existing(threads)', Existing(Cached)',
         NEW r \in Requests, NEW next, request' = [request EXCEPT ![r] = next],
         RequestKnown(next)'
  PROVE  PageKnown'
<1> SUFFICES ASSUME NEW x \in Requests PROVE RequestKnown(request[x])'
  BY DEF PageKnown
<1>1. CASE x = r
  BY <1>1 DEF PageSound, PageShape
<1>2. CASE x # r
  <2>1. PICK q \in PageRequest : q = request[x]
    BY DEF PageSound, PageShape
  <2>2. RequestFits(q) /\ RequestKnown(q)
    BY <2>1 DEF PageSound, PageKnown
  <2>3. RequestKnown(q)'
    BY <2>2, RequestKnownKept
  <2>4. request'[x] = q
    BY <1>2, <2>1 DEF PageSound, PageShape
  <2> QED BY <2>3, <2>4
<1> QED BY <1>1, <1>2

LEMMA ShownKnown ==
  ASSUME PageSound, PageKnown, StatusGrows, threads' = threads, resolvedThreads' = resolvedThreads
  PROVE  Existing(threads)' /\ Existing(Cached)'
  BY DEF PageSound, PageShape, PageKnown, StatusGrows, Existing, Cached, Listed

LEMMA PatchedKnown ==
  ASSUME PageSound, PageKnown, status' = status, NEW t, NEW vote, patchUpvote(t, vote)
  PROVE  Existing(threads)' /\ Existing(Cached)'
<1>1. threads # Unset
  BY UnsetApart DEF PageSound, PageShape
<1>2. ASSUME NEW list, list # Unset, Existing(list)
      PROVE  Existing(Patched(list, t, vote))
  BY <1>2 DEF Existing, Patched
<1>3. ASSUME NEW list, Existing(list) PROVE Existing(list)'
  BY <1>3 DEF Existing
<1>4. Existing(threads')
  BY <1>1, <1>2 DEF patchUpvote, PageKnown
<1>5. Existing(Cached')
  BY <1>2 DEF patchUpvote, PageKnown, Cached, Existing, Patched
<1> QED BY <1>4, <1>5 DEF Existing

LEMMA SameGrows ==
  ASSUME status' = status
  PROVE  StatusGrows
  BY DEF StatusGrows

LEMMA FreshKnown ==
  ASSUME NEW q, q = NoRequest \/ (JustSent(q) /\ q.kind # "upvote")
  PROVE  RequestKnown(q)'
  BY DEF NoRequest, JustSent, RequestKnown

LEMMA AskedIsKnown ==
  ASSUME PageSound, PageKnown, NEW r \in Requests, Reader(r)
  PROVE  PageKnown'
<1>1. ASSUME NEW l \in threads \cup Cached, Upvote(r, l)
      PROVE  PageKnown'
  <2>1. PICK next : next = [New("upvote") EXCEPT !.thread = l[1], !.vote = l[2]]
    OBVIOUS
  <2>2. /\ request' = [request EXCEPT ![r] = next] /\ status' = status
        /\ patchUpvote(l[1], ~l[2])
    BY <1>1, <2>1 DEF Upvote, Acts, serverVars
  <2>3. next.list = Unset /\ next.pc = "sent" /\ next.thread = l[1]
    BY <2>1 DEF New, NoRequest
  <2>4. status[l[1]] # "none"
    BY DEF PageKnown, Existing
  <2>5. RequestKnown(next)'
    BY <2>2, <2>3, <2>4 DEF RequestKnown
  <2>6. StatusGrows
    BY <2>2, SameGrows
  <2>7. Existing(threads)' /\ Existing(Cached)'
    BY <2>2, PatchedKnown
  <2> QED BY <2>2, <2>5, <2>6, <2>7, KnownKept
<1>2. ASSUME NEW next, request' = [request EXCEPT ![r] = next], status' = status,
             next = NoRequest \/ (JustSent(next) /\ next.kind # "upvote"),
             threads' = threads, resolvedThreads' = resolvedThreads
      PROVE  PageKnown'
  <2>1. StatusGrows
    BY <1>2, SameGrows
  <2>2. Existing(threads)' /\ Existing(Cached)'
    BY <1>2, <2>1, ShownKnown
  <2>3. RequestKnown(next)'
    BY <1>2, FreshKnown
  <2> QED BY <1>2, <2>1, <2>2, <2>3, KnownKept
<1>3. ASSUME NEW t \in Threads, NEW kind \in Changes, Change(r, kind, t)
      PROVE  PageKnown'
  <2>1. PICK next : next = [New(kind) EXCEPT !.thread = t]
    OBVIOUS
  <2>2. JustSent(next) /\ next.kind # "upvote"
    BY <2>1 DEF New, NoRequest, JustSent, Changes
  <2>3. request' = [request EXCEPT ![r] = next] /\ UNCHANGED <<status, threads, resolvedThreads>>
    BY <1>3, <2>1 DEF Change, Acts, serverVars, shownVars
  <2> QED BY <1>2, <2>2, <2>3
<1>4. ASSUME Upload(r) PROVE PageKnown'
  <2>1. PICK next : next = [New("upload") EXCEPT !.seq = source + 1]
    OBVIOUS
  <2>2. JustSent(next) /\ next.kind # "upvote"
    BY <2>1 DEF New, NoRequest, JustSent
  <2>3. request' = [request EXCEPT ![r] = next] /\ UNCHANGED <<status, threads, resolvedThreads>>
    BY <1>4, <2>1 DEF Upload, Acts, serverVars
  <2> QED BY <1>2, <2>2, <2>3
<1>5. ASSUME NEW f, SetFilter(r, f) PROVE PageKnown'
  <2>1. PICK next : next = IF NeedsResolved(f, resolvedThreads) THEN New("resolved") ELSE NoRequest
    OBVIOUS
  <2>2. New("resolved").kind = "resolved" /\ JustSent(New("resolved"))
    BY DEF New, NoRequest, JustSent
  <2>3. next = NoRequest \/ (JustSent(next) /\ next.kind # "upvote")
    BY <2>1, <2>2
  <2>4. request' = [request EXCEPT ![r] = next] /\ UNCHANGED <<status, threads, resolvedThreads>>
    BY <1>5, <2>1 DEF SetFilter, Acts, serverVars
  <2> QED BY <1>2, <2>3, <2>4
<1>6. ASSUME NEW v, SelectVersion(r, v) PROVE PageKnown'
  <2>1. PICK next : next = [New("version") EXCEPT !.seq = v]
    OBVIOUS
  <2>2. JustSent(next) /\ next.kind # "upvote"
    BY <2>1 DEF New, NoRequest, JustSent
  <2>3. request' = [request EXCEPT ![r] = next] /\ UNCHANGED <<status, threads, resolvedThreads>>
    BY <1>6, <2>1 DEF SelectVersion, Acts, serverVars
  <2> QED BY <1>2, <2>2, <2>3
<1>7. ASSUME BackToCurrent(r) PROVE PageKnown'
  <2>1. /\ request' = [request EXCEPT ![r] = NoRequest]
        /\ UNCHANGED <<status, threads, resolvedThreads>>
    BY <1>7 DEF BackToCurrent, Acts, serverVars
  <2> QED BY <1>2, <2>1
<1> QED BY <1>1, <1>3, <1>4, <1>5, <1>6, <1>7 DEF Reader, Changes

LEMMA RespondIsKnown ==
  ASSUME PageSound, PageKnown, NEW r \in Requests, Respond(r)
  PROVE  PageKnown'
<1>1. PICK q : q = request[r]
  OBVIOUS
<1>2. /\ q \in PageRequest /\ RequestFits(q) /\ q.pc = "sent" /\ RequestKnown(q) /\ PageShape
      /\ UNCHANGED shownVars
  BY <1>1 DEF PageSound, PageShape, PageKnown, Respond, SameShown
<1>3. StatusGrows
  BY EffectGrows
<1>4. Existing(threads)' /\ Existing(Cached)'
  BY <1>2, <1>3, ShownKnown DEF shownVars
<1>5. RequestKnown(q)'
  BY <1>2, <1>3, RequestKnownKept
<1>6. CASE ~Allowed(q) /\ request' = [request EXCEPT ![r].pc = "refused"] /\ UNCHANGED serverVars
  <2>1. PICK next : next = [q EXCEPT !.pc = "refused"]
    OBVIOUS
  <2>2. request' = [request EXCEPT ![r] = next]
    BY <1>1, <1>6, <2>1 DEF PageShape, PageRequest
  <2>3. next.list = q.list /\ next.kind = q.kind /\ next.thread = q.thread
    BY <1>2, <2>1 DEF PageRequest
  <2>4. q.kind = "upvote" => status[q.thread] = "deleted"
    BY <1>2, <1>6 DEF Allowed, RequestKnown, RequestFits, PageShape
  <2>5. RequestKnown(next)'
    BY <1>2, <1>5, <1>6, <2>3, <2>4 DEF RequestKnown, serverVars
  <2> QED BY <1>3, <1>4, <2>2, <2>5, KnownKept
<1>7. CASE Effect(q) /\ request' = [request EXCEPT ![r] = Reply(q)]
  <2>1. PICK next : next = Reply(q)
    OBVIOUS
  <2>2. /\ next.pc = "served" /\ next.kind = q.kind /\ next.thread = q.thread
        /\ next.list = q.list \/ \E s \in {"open", "resolved"} : q.kind = s /\ next.list = ListOf(s)
    BY <1>2, <2>1 DEF Reply, PageRequest
  <2>3. ASSUME NEW s \in {"open", "resolved"}, q.kind = s PROVE Existing(ListOf(s))'
    <3>1. status' = status
      BY <1>7, <2>3 DEF Effect
    <3> QED BY <3>1 DEF Existing, ListOf
  <2>4. next.list # Unset => Existing(next.list)'
    <3>1. CASE next.list = q.list
      BY <1>5, <3>1 DEF RequestKnown
    <3>2. CASE \E s \in {"open", "resolved"} : q.kind = s /\ next.list = ListOf(s)
      <4>1. PICK s \in {"open", "resolved"} : q.kind = s /\ next.list = ListOf(s)
        BY <3>2
      <4>2. status' = status
        BY <1>7, <4>1 DEF Effect
      <4> QED BY <4>1, <4>2 DEF Existing, ListOf
    <3> QED BY <2>2, <3>1, <3>2
  <2>5. RequestKnown(next)'
    BY <1>2, <1>5, <2>2, <2>4 DEF RequestKnown
  <2>6. request' = [request EXCEPT ![r] = next]
    BY <1>7, <2>1
  <2> QED BY <1>3, <1>4, <2>5, <2>6, KnownKept
<1> QED BY <1>1, <1>6, <1>7 DEF Respond

LEMMA PartIsKnown ==
  ASSUME PageSound, PageKnown, NEW r \in Requests, RespondInPart(r)
  PROVE  PageKnown'
<1>1. /\ UNCHANGED shownVars /\ UNCHANGED serverVars
      /\ RequestKnown(request[r])
  BY DEF RespondInPart, SameShown, PageKnown
<1>2. StatusGrows
  BY <1>1, SameGrows DEF serverVars
<1>3. Existing(threads)' /\ Existing(Cached)'
  BY <1>1, <1>2, ShownKnown DEF shownVars
<1>4. PICK next : /\ request' = [request EXCEPT ![r] = next]
                  /\ next.kind = "all" /\ next.pc \in {"sent", "served"}
                  /\ \/ next.list = request[r].list
                     \/ next.list = ListOf("open")
  BY PartIsSound
<1>5. Existing(ListOf("open"))
  BY DEF Existing, ListOf
<1>6. next.list # Unset => Existing(next.list)
  BY <1>1, <1>4, <1>5 DEF RequestKnown
<1>7. RequestKnown(next)'
  BY <1>1, <1>4, <1>6 DEF RequestKnown, Existing, serverVars
<1> QED BY <1>2, <1>3, <1>4, <1>7, KnownKept

LEMMA AnswersAreKnown ==
  ASSUME PageSound, PageKnown, NEW r \in Requests, Answers(r)
  PROVE  PageKnown'
<1>1. PICK q : q = request[r]
  OBVIOUS
<1>2. q \in PageRequest /\ RequestFits(q) /\ PageShape /\ RequestKnown(q)
  BY <1>1 DEF PageSound, PageShape, PageKnown
<1>3. ASSUME NEW next, request' = [request EXCEPT ![r] = next], status' = status,
             next = NoRequest \/ (JustSent(next) /\ next.kind # "upvote"),
             Existing(threads)' /\ Existing(Cached)'
      PROVE  PageKnown'
  <2>1. StatusGrows
    BY <1>3, SameGrows
  <2>2. RequestKnown(next)'
    BY <1>3, FreshKnown
  <2> QED BY <1>3, <2>1, <2>2, KnownKept
<1>4. ASSUME status' = status, threads' = threads, resolvedThreads' = resolvedThreads
      PROVE  Existing(threads)' /\ Existing(Cached)'
  BY <1>4, SameGrows, ShownKnown
<1>5. PICK next : next = Reloads
  OBVIOUS
<1>6. next = NoRequest \/ (JustSent(next) /\ next.kind # "upvote")
  BY <1>5, ReloadsFit
<1>7. CASE Done(r)
  <2>1. PICK read : read = New("open")
    OBVIOUS
  <2>2. JustSent(read) /\ read.kind # "upvote"
    BY <2>1 DEF New, NoRequest, JustSent
  <2> QED BY <1>3, <1>4, <1>7, <2>1, <2>2 DEF Done, Takes, serverVars, shownVars
<1>8. CASE Uploaded(r)
  <2>1. PICK read : read = [New("all") EXCEPT !.seq = q.seq]
    OBVIOUS
  <2>2. JustSent(read) /\ read.kind # "upvote"
    BY <2>1 DEF New, NoRequest, JustSent
  <2> QED BY <1>1, <1>3, <1>4, <1>8, <2>1, <2>2 DEF Uploaded, Takes, serverVars, shownVars
<1>9. CASE Upvoted(r)
  <2>1. Existing(threads)' /\ Existing(Cached)'
    BY <1>9, PatchedKnown DEF Upvoted, Takes, serverVars
  <2> QED BY <1>3, <1>9, <2>1 DEF Upvoted, Takes, serverVars
<1>10. CASE refreshThreads(r) \/ refreshAll(r)
  <2>1. /\ request' = [request EXCEPT ![r] = next] /\ status' = status
        /\ threads' = q.list /\ resolvedThreads' = Unset /\ q.list # Unset
    BY <1>1, <1>2, <1>5, <1>10
       DEF refreshThreads, refreshAll, Takes, serverVars, CacheDropped, RequestFits, Loads
  <2>2. Existing(threads)' /\ Existing(Cached)'
    BY <1>2, <2>1 DEF RequestKnown, Existing, Cached
  <2> QED BY <1>3, <1>6, <2>1, <2>2
<1>11. CASE ResolvedLoaded(r)
  <2>1. /\ request' = [request EXCEPT ![r] = NoRequest] /\ status' = status
        /\ threads' = threads /\ resolvedThreads' = q.list /\ q.list # Unset
    BY <1>1, <1>2, <1>11 DEF ResolvedLoaded, Takes, serverVars, RequestFits, Loads
  <2>2. Existing(threads)' /\ Existing(Cached)'
    BY <1>2, <2>1 DEF RequestKnown, Existing, Cached, PageKnown
  <2> QED BY <1>3, <2>1, <2>2
<1>12. CASE VersionLoaded(r)
  BY <1>3, <1>4, <1>12 DEF VersionLoaded, Takes, serverVars
<1>13. CASE RequestFails(r)
  <2>1. request' = [request EXCEPT ![r] = NoRequest] /\ status' = status
    BY <1>13 DEF RequestFails, serverVars
  <2>2. CASE q.kind = "upvote"
    <3>1. Existing(threads)' /\ Existing(Cached)'
      BY <1>1, <1>13, <2>1, <2>2, PatchedKnown DEF RequestFails, Undone
    <3> QED BY <1>3, <2>1, <3>1
  <2>3. CASE q.kind # "upvote"
    <3>1. threads' = threads /\ resolvedThreads' = resolvedThreads
      BY <1>1, <1>13, <2>3 DEF RequestFails, Undone, shownVars
    <3> QED BY <1>3, <1>4, <2>1, <3>1
  <2> QED BY <2>2, <2>3
<1> QED BY <1>7, <1>8, <1>9, <1>10, <1>11, <1>12, <1>13 DEF Answers

LEMMA OthersAreKnown ==
  ASSUME PageSound, PageKnown,
         (\E t \in Threads, kind \in Changes : Other(t, kind)) \/ OtherUpload
  PROVE  PageKnown'
<1>1. StatusGrows /\ UNCHANGED <<shownVars, request>>
  BY OtherGrows, SameGrows DEF Other, OtherUpload
<1>2. Existing(threads)' /\ Existing(Cached)'
  BY <1>1, ShownKnown DEF shownVars
<1>3. ASSUME NEW x \in Requests PROVE RequestKnown(request[x])'
  <2>1. PICK q \in PageRequest : q = request[x]
    BY DEF PageSound, PageShape
  <2>2. RequestFits(q) /\ RequestKnown(q)
    BY <2>1 DEF PageSound, PageKnown
  <2>3. RequestKnown(q)'
    BY <1>1, <2>2, RequestKnownKept
  <2> QED BY <1>1, <2>1, <2>3
<1> QED BY <1>2, <1>3 DEF PageKnown

-----------------------------------------------------------------------------
LEMMA LoadingKept ==
  ASSUME PageSound, Loading, NEW r \in Requests, NEW next,
         request' = [request EXCEPT ![r] = next],
         filter' = filter, resolvedThreads' = Unset => resolvedThreads = Unset,
         request[r].pc # "none" /\ request[r].kind = "resolved" =>
           \/ next.pc # "none" /\ next.kind = "resolved"
           \/ resolvedThreads' # Unset
  PROVE  Loading'
<1> SUFFICES ASSUME filter' # "open", resolvedThreads' = Unset
             PROVE  \E x \in Requests : request'[x].pc # "none" /\ request'[x].kind = "resolved"
  BY DEF Loading
<1>1. PICK x \in Requests : request[x].pc # "none" /\ request[x].kind = "resolved"
  BY DEF Loading
<1> QED BY <1>1 DEF PageSound, PageShape

LEMMA PatchedLoaded ==
  ASSUME PageSound, NEW t \in Threads, NEW vote \in BOOLEAN, patchUpvote(t, vote)
  PROVE  /\ filter' = filter
         /\ resolvedThreads' = Unset <=> resolvedThreads = Unset
<1>1. resolvedThreads \in (SUBSET Listed) \cup {Unset}
  BY DEF PageSound, PageShape
<1> QED BY <1>1, PatchedFits DEF patchUpvote

LEMMA AskedIsLoading ==
  ASSUME PageSound, Loading, NEW r \in Requests, Reader(r)
  PROVE  Loading'
<1>1. PICK next : request' = [request EXCEPT ![r] = next]
  BY AskedIsSound
<1>2. request[r].pc = "none"
  BY DEF Reader, Change, Upvote, Upload, SetFilter, SelectVersion, BackToCurrent, Acts, Free
<1>3. CASE \E l \in threads \cup Cached : Upvote(r, l)
  <2>1. PICK l \in threads \cup Cached : Upvote(r, l)
    BY <1>3
  <2>2. PICK vote : vote = ~l[2]
    OBVIOUS
  <2>3. l[1] \in Threads /\ l[2] \in BOOLEAN
    BY ListedTyped DEF PageSound
  <2>4. vote \in BOOLEAN
    BY <2>2
  <2>5. patchUpvote(l[1], vote)
    BY <2>1, <2>2 DEF Upvote
  <2> QED BY <1>1, <1>2, <2>3, <2>4, <2>5, PatchedLoaded, LoadingKept
<1>4. CASE \E f \in {"none", "open", "resolved"} : SetFilter(r, f)
  <2>1. PICK f \in {"none", "open", "resolved"} : SetFilter(r, f)
    BY <1>4
  <2>2. /\ filter' = f /\ resolvedThreads' = resolvedThreads
        /\ request' = [request EXCEPT ![r] =
             IF NeedsResolved(f, resolvedThreads) THEN New("resolved") ELSE NoRequest]
    BY <2>1 DEF SetFilter, Acts
  <2>3. New("resolved").pc # "none" /\ New("resolved").kind = "resolved"
    BY DEF New, NoRequest
  <2>4. CASE f # "open" /\ resolvedThreads = Unset
    <3>1. request'[r] = New("resolved")
      BY <2>2, <2>4 DEF NeedsResolved, PageSound, PageShape
    <3> QED BY <2>3, <3>1 DEF Loading
  <2>5. CASE f = "open" \/ resolvedThreads # Unset
    BY <2>2, <2>5 DEF Loading
  <2> QED BY <2>4, <2>5
<1>5. CASE UNCHANGED <<filter, resolvedThreads>>
  BY <1>1, <1>2, <1>5, LoadingKept
<1> QED BY <1>3, <1>4, <1>5 DEF Reader, Change, Upload, SelectVersion, BackToCurrent, shownVars

LEMMA ServedIsLoading ==
  ASSUME PageSound, Loading, NEW r \in Requests, Respond(r) \/ RespondInPart(r)
  PROVE  Loading'
<1>1. UNCHANGED <<filter, resolvedThreads>>
  BY DEF Respond, RespondInPart, SameShown, shownVars
<1>2. request[r] \in PageRequest /\ request \in [Requests -> PageRequest] /\ request[r].pc = "sent"
  BY DEF PageSound, PageShape, Respond, RespondInPart
<1>3. CASE Respond(r)
  <2>1. PICK next : request' = [request EXCEPT ![r] = next] /\
                    next \in {Reply(request[r]), [request[r] EXCEPT !.pc = "refused"]}
    BY <1>2, <1>3 DEF Respond
  <2>2. next.pc # "none" /\ next.kind = request[r].kind
    BY <1>2, <2>1 DEF Reply, PageRequest
  <2> QED BY <1>1, <2>1, <2>2, LoadingKept
<1>4. CASE RespondInPart(r)
  <2>1. request[r].kind = "all" /\ \E next : request' = [request EXCEPT ![r] = next]
    BY <1>4, PartIsSound DEF RespondInPart
  <2> QED BY <1>1, <2>1, LoadingKept
<1> QED BY <1>3, <1>4

LEMMA AnswersAreLoading ==
  ASSUME PageSound, Loading, NEW r \in Requests, Answers(r), ~failed'
  PROVE  Loading'
<1>1. request[r] \in PageRequest /\ RequestFits(request[r])
  BY DEF PageSound, PageShape
<1>2. CASE Done(r) \/ Uploaded(r) \/ VersionLoaded(r)
  <2>1. /\ request[r].kind # "resolved" /\ UNCHANGED <<filter, resolvedThreads>>
        /\ \E next : request' = [request EXCEPT ![r] = next]
    BY <1>2 DEF Done, Uploaded, VersionLoaded, Takes, shownVars
  <2> QED BY <2>1, LoadingKept
<1>3. CASE Upvoted(r)
  <2>1. /\ request[r].kind = "upvote" /\ request' = [request EXCEPT ![r] = NoRequest]
        /\ patchUpvote(request[r].thread, request[r].on)
        /\ request[r].thread \in Threads /\ request[r].on \in BOOLEAN
    BY <1>1, <1>3 DEF Upvoted, Takes, RequestFits
  <2>2. filter' = filter /\ (resolvedThreads' = Unset <=> resolvedThreads = Unset)
    BY <2>1, PatchedLoaded
  <2> QED BY <2>1, <2>2, LoadingKept
<1>4. CASE refreshThreads(r) \/ refreshAll(r)
  <2>1. /\ request[r].kind # "resolved" /\ request' = [request EXCEPT ![r] = Reloads]
        /\ filter' = filter /\ resolvedThreads' = Unset
    BY <1>4 DEF refreshThreads, refreshAll, Takes, CacheDropped
  <2>2. CASE resolvedThreads = Unset
    BY <2>1, <2>2, LoadingKept
  <2>3. CASE resolvedThreads # Unset /\ filter # "open"
    <3>1. Reloads = New("resolved")
      BY <2>3 DEF Reloads, CacheDropped, PageSound, PageShape
    <3>2. Reloads.pc # "none" /\ Reloads.kind = "resolved"
      BY <3>1 DEF New, NoRequest
    <3> QED BY <2>1, <3>2 DEF Loading, PageSound, PageShape
  <2>4. CASE filter = "open"
    BY <2>1, <2>4 DEF Loading
  <2> QED BY <2>2, <2>3, <2>4
<1>5. CASE ResolvedLoaded(r)
  <2>1. resolvedThreads' = request[r].list /\ request[r].list # Unset
    BY <1>1, <1>5 DEF ResolvedLoaded, Takes, RequestFits, Loads
  <2> QED BY <2>1 DEF Loading
<1>6. CASE RequestFails(r)
  <2>1. request[r].pc = "refused" /\ request' = [request EXCEPT ![r] = NoRequest]
    BY <1>6 DEF RequestFails
  <2>2. request[r].kind \in Changes \cup {"upvote"}
    BY <1>1, <2>1 DEF RequestFits
  <2>3. CASE request[r].kind = "upvote"
    <3>1. /\ patchUpvote(request[r].thread, request[r].vote)
          /\ request[r].thread \in Threads /\ request[r].vote \in BOOLEAN
      BY <1>1, <1>6, <2>1, <2>3 DEF RequestFails, Undone, RequestFits, PageRequest
    <3>2. filter' = filter /\ (resolvedThreads' = Unset <=> resolvedThreads = Unset)
      BY <3>1, PatchedLoaded
    <3> QED BY <2>1, <2>3, <3>2, LoadingKept
  <2>4. CASE request[r].kind \in Changes
    <3>1. UNCHANGED <<filter, resolvedThreads>> /\ request[r].kind # "resolved"
      BY <1>6, <2>4 DEF RequestFails, Undone, shownVars, Changes
    <3> QED BY <2>1, <3>1, LoadingKept
  <2> QED BY <2>2, <2>3, <2>4
<1> QED BY <1>2, <1>3, <1>4, <1>5, <1>6 DEF Answers

-----------------------------------------------------------------------------
\* A step of request r alone: what was served before another one still was, but for r,
\* once it is answered.
StepOf(r, next, wrong) ==
  /\ request' = [request EXCEPT ![r] = next]
  /\ \A c \in Requests \ {r} : \A x \in ahead[c] : x \in ahead'[c] \/ (x = r /\ ~wrong)

LEMMA OverrulesKept ==
  ASSUME PageSound, NEW t, status'[t] = status[t], NEW r \in Requests, NEW next,
         StepOf(r, next, Misplaced(next, t)'), Misplaced(next, t)' => Misplaced(request[r], t),
         NEW c \in Requests \ {r}, Overrules(c, t)
  PROVE  Overrules(c, t)'
<1>1. \A x \in Requests : request'[x] = IF x = r THEN next ELSE request[x]
  BY DEF StepOf, PageSound, PageShape
<1>2. \A x \in Requests \ {r} : Misplaced(request[x], t)' => Misplaced(request[x], t)
  BY <1>1 DEF Misplaced
<1>3. \A x \in Requests : Misplaced(request[x], t)' => x \in ahead'[c]
  BY <1>1, <1>2 DEF Overrules, StepOf, Misplaced
<1> QED BY <1>1, <1>3 DEF Overrules

LEMMA NoneMisplaced ==
  ASSUME PageSound, NEW t, status'[t] = status[t], NEW r \in Requests, NEW next,
         request' = [request EXCEPT ![r] = next],
         \A x \in Requests \ {r} : ~Misplaced(request[x], t), ~Misplaced(next, t)'
  PROVE  \A x \in Requests : ~Misplaced(request[x], t)'
<1>1. \A x \in Requests : request'[x] = IF x = r THEN next ELSE request[x]
  BY DEF PageSound, PageShape
<1> QED BY <1>1 DEF Misplaced

\* A step that neither answers a change nor shows a listing.
LEMMA SettlesKept ==
  ASSUME PageSound, NEW t, status'[t] = status[t], Settles(t), NEW r \in Requests, NEW next,
         StepOf(r, next, Misplaced(next, t)'), Misplaced(next, t)' => Misplaced(request[r], t),
         request[r].pc = "served" => request[r].kind \notin Changes,
         request[r].pc # "none" /\ request[r].kind \in Refreshes =>
           next.pc # "none" /\ next.kind \in Refreshes,
         OnRail(t) => OnRail(t)'
  PROVE  Settles(t)'
<1>1. CASE \E c \in Requests : Overrules(c, t)
  <2>1. PICK c \in Requests : Overrules(c, t)
    BY <1>1
  <2>2. c # r
    BY <2>1 DEF Overrules
  <2>3. Overrules(c, t)'
    BY <2>1, <2>2, OverrulesKept
  <2> QED BY <2>3 DEF Settles
<1>2. CASE /\ \A x \in Requests : ~Misplaced(request[x], t)
           /\ \/ \E x \in Requests : request[x].pc # "none" /\ request[x].kind \in Refreshes
              \/ OnRail(t)
  <2>1. \A x \in Requests : ~Misplaced(request[x], t)'
    BY <1>2, NoneMisplaced DEF StepOf
  <2>2. CASE \E x \in Requests : request[x].pc # "none" /\ request[x].kind \in Refreshes
    <3>1. \E x \in Requests : request'[x].pc # "none" /\ request'[x].kind \in Refreshes
      BY <2>2 DEF StepOf, PageSound, PageShape
    <3> QED BY <2>1, <3>1 DEF Settles
  <2>3. CASE OnRail(t)
    BY <2>1, <2>3 DEF Settles
  <2> QED BY <1>2, <2>2, <2>3
<1> QED BY <1>1, <1>2 DEF Settles

LEMMA RailKept ==
  ASSUME NEW t, status'[t] = status[t], OnRail(t),
         t \in ThreadsIn(threads') <=> t \in ThreadsIn(threads),
         resolvedThreads' = Unset <=> resolvedThreads = Unset,
         resolvedThreads # Unset =>
           (t \in ThreadsIn(resolvedThreads') <=> t \in ThreadsIn(resolvedThreads))
  PROVE  OnRail(t)'
  BY DEF OnRail, ThreadsIn

\* A vote patched in takes no thread off the rail.
LEMMA PatchKeepsRail ==
  ASSUME PageSound, NEW u \in Threads, NEW vote \in BOOLEAN, patchUpvote(u, vote),
         NEW t, status'[t] = status[t], OnRail(t)
  PROVE  OnRail(t)'
<1>1. ASSUME NEW list, list # Unset
      PROVE  t \in ThreadsIn(Patched(list, u, vote)) <=> t \in ThreadsIn(list)
  <2> DEFINE patched(l) == IF l[1] = u THEN <<u, vote>> ELSE l
  <2>1. \A l : patched(l)[1] = l[1]
    OBVIOUS
  <2>2. Patched(list, u, vote) = {patched(l) : l \in list}
    BY <1>1 DEF Patched
  <2> HIDE DEF patched
  <2> QED BY <2>1, <2>2 DEF ThreadsIn
<1>2. threads # Unset
  BY UnsetApart DEF PageSound, PageShape
<1>3. resolvedThreads' = Unset <=> resolvedThreads = Unset
  BY PatchedLoaded
<1> QED BY <1>1, <1>2, <1>3, RailKept DEF patchUpvote

LEMMA FreshPlaced ==
  ASSUME NEW t, NEW q, q = NoRequest \/ JustSent(q)
  PROVE  ~Misplaced(q, t)'
  BY DEF NoRequest, JustSent, Misplaced

LEMMA AskedSettles ==
  ASSUME PageSound, NEW t \in Threads, Settles(t), NEW r \in Requests, Reader(r)
  PROVE  Settles(t)'
<1>1. PICK next : request' = [request EXCEPT ![r] = next] /\ (next = NoRequest \/ JustSent(next))
  BY AskedIsSound
<1>2. request[r].pc = "none" /\ ahead' = ahead /\ status' = status
  BY DEF Reader, Change, Upvote, Upload, SetFilter, SelectVersion, BackToCurrent, Acts, Free, serverVars
<1>3. ~Misplaced(next, t)'
  BY <1>1, FreshPlaced
<1>4. StepOf(r, next, Misplaced(next, t)')
  BY <1>1, <1>2 DEF StepOf
<1>5. OnRail(t) => OnRail(t)'
  <2>1. CASE \E l \in threads \cup Cached : Upvote(r, l)
    <3>1. PICK l \in threads \cup Cached : Upvote(r, l)
      BY <2>1
    <3>2. PICK vote : vote = ~l[2]
      OBVIOUS
    <3>3. l[1] \in Threads /\ l[2] \in BOOLEAN
      BY ListedTyped DEF PageSound
    <3>4. vote \in BOOLEAN /\ patchUpvote(l[1], vote)
      BY <3>1, <3>2 DEF Upvote
    <3> QED BY <1>2, <3>3, <3>4, PatchKeepsRail
  <2>2. CASE UNCHANGED <<threads, resolvedThreads>>
    BY <1>2, <2>2 DEF OnRail
  <2> QED BY <2>1, <2>2
          DEF Reader, Change, Upload, SetFilter, SelectVersion, BackToCurrent, shownVars
<1> QED BY <1>1, <1>2, <1>3, <1>4, <1>5, SettlesKept

\* Whatever lists a thread wrongly was begun before.
LEMMA MisplacedIsBegun ==
  ASSUME PageSound, NEW x \in Requests, NEW t, Misplaced(request[x], t)
  PROVE  Begun(request[x])
  BY DEF PageSound, RequestFits, Misplaced

LEMMA ListedThere ==
  ASSUME NEW t \in Threads, NEW s
  PROVE  t \in ThreadsIn(ListOf(s)) <=> status[t] = s
<1>1. \A l \in ListOf(s) : status[l[1]] = s
  BY DEF ListOf
<1>2. ASSUME status[t] = s PROVE t \in ThreadsIn(ListOf(s))
  <2>1. <<t, voted[t]>> \in ListOf(s)
    BY <1>2 DEF ListOf
  <2>2. <<t, voted[t]>>[1] = t
    OBVIOUS
  <2> QED BY <2>1, <2>2 DEF ThreadsIn
<1> QED BY <1>1, <1>2 DEF ThreadsIn

LEMMA RespondSettles ==
  ASSUME PageSound, NEW t \in Threads, t \in mine => Settles(t), t \in mine',
         NEW r \in Requests, Respond(r)
  PROVE  Settles(t)'
<1>1. PICK q : q = request[r]
  OBVIOUS
<1>2. /\ q \in PageRequest /\ RequestFits(q) /\ q.pc = "sent" /\ q.kind # "all" /\ PageShape
      /\ UNCHANGED <<threads, resolvedThreads>>
      /\ ahead' = [ahead EXCEPT ![r] = {x \in Requests : Begun(request[x])}]
  BY <1>1 DEF PageSound, PageShape, Respond, SameShown, shownVars, Follows
<1>3. \A c \in Requests \ {r} : ahead'[c] = ahead[c]
  BY <1>2 DEF PageShape
<1>4. q.list = Unset
  BY <1>2 DEF RequestFits, Begun, Loads
  \* What it does to thread t, if anything, is not yet answered.
<1>5. CASE q.kind \in Changes /\ q.thread = t /\ Effect(q) /\ request' = [request EXCEPT ![r] = Reply(q)]
  <2>1. Reply(q) = [q EXCEPT !.pc = "served"]
    BY <1>5 DEF Reply, Changes
  <2>2. Reply(q).pc = "served" /\ Reply(q).kind = q.kind /\ Reply(q).list = Unset
    BY <1>2, <1>4, <2>1 DEF PageRequest
  <2>3. \A x \in Requests : request'[x] = IF x = r THEN Reply(q) ELSE request[x]
    BY <1>5 DEF PageSound, PageShape
  <2>4. ASSUME NEW x \in Requests, Misplaced(request[x], t)' PROVE x \in ahead'[r]
    <3>1. x # r /\ request'[x] = request[x] /\ request[x].list # Unset
      BY <2>2, <2>3, <2>4 DEF Misplaced
    <3>2. Begun(request[x])
      BY <3>1 DEF PageSound, RequestFits
    <3> QED BY <1>2, <3>2 DEF PageShape
  <2>5. Overrules(r, t)'
    BY <1>5, <2>2, <2>3, <2>4 DEF Overrules
  <2> QED BY <2>5 DEF Settles
<1>6. ASSUME NEW next, status'[t] = status[t], t \in mine,
             request' = [request EXCEPT ![r] = next],
             next.list = Unset \/ (q.kind = "open" /\ next.kind = "open" /\ next.list = ListOf("open"))
             \/ (q.kind = "resolved" /\ next.kind = "resolved" /\ next.list = ListOf("resolved")),
             next.pc # "none" /\ next.kind = q.kind
      PROVE  Settles(t)'
  <2>1. \A s : t \in ThreadsIn(ListOf(s)) <=> status[t] = s
    BY ListedThere
  <2>2. ~Misplaced(next, t)'
    BY <1>6, <2>1 DEF Misplaced, Refreshes, ThreadsIn
  <2>3. StepOf(r, next, Misplaced(next, t)')
    BY <1>3, <1>6 DEF StepOf
  <2>4. OnRail(t) => OnRail(t)'
    BY <1>2, <1>6 DEF OnRail
  <2> QED BY <1>1, <1>2, <1>6, <2>2, <2>3, <2>4, SettlesKept
<1>7. CASE ~Allowed(q) /\ request' = [request EXCEPT ![r].pc = "refused"] /\ UNCHANGED <<serverVars, mine>>
  <2>1. PICK next : next = [q EXCEPT !.pc = "refused"]
    OBVIOUS
  <2>2. next.list = Unset /\ next.pc # "none" /\ next.kind = q.kind
    BY <1>2, <1>4, <2>1 DEF PageRequest
  <2>3. request' = [request EXCEPT ![r] = next] /\ status' = status /\ t \in mine
    BY <1>1, <1>2, <1>7, <2>1 DEF PageShape, PageRequest, serverVars
  <2> QED BY <1>4, <1>6, <2>2, <2>3
<1>8. CASE Effect(q) /\ request' = [request EXCEPT ![r] = Reply(q)] /\ ~(q.kind \in Changes /\ q.thread = t)
  <2>1. PICK next : next = Reply(q)
    OBVIOUS
  <2>2. status'[t] = status[t] /\ t \in mine
    BY <1>2, <1>8 DEF Effect, Changes, PageShape, RequestFits
  <2>3. next.pc # "none" /\ next.kind = q.kind
    BY <1>2, <2>1 DEF Reply, PageRequest
  <2>4. \/ next.list = Unset
        \/ q.kind = "open" /\ next.list = ListOf("open")
        \/ q.kind = "resolved" /\ next.list = ListOf("resolved")
    BY <1>2, <1>4, <2>1 DEF Reply, PageRequest
  <2>5. request' = [request EXCEPT ![r] = next]
    BY <1>8, <2>1
  <2> QED BY <1>6, <1>8, <2>2, <2>3, <2>4, <2>5
<1> QED BY <1>1, <1>5, <1>7, <1>8 DEF Respond

LEMMA PartSettles ==
  ASSUME PageSound, NEW t \in Threads, Settles(t), NEW r \in Requests, RespondInPart(r)
  PROVE  Settles(t)'
<1>1. /\ UNCHANGED <<status, threads, resolvedThreads>>
      /\ request[r].pc = "sent" /\ request[r].kind = "all"
      /\ \A c \in Requests \ {r} : ahead'[c] = ahead[c]
  BY DEF PageSound, PageShape, RespondInPart, SameShown, shownVars, serverVars, Follows
<1>2. PICK next : /\ request' = [request EXCEPT ![r] = next]
                  /\ next.kind = "all" /\ next.pc \in {"sent", "served"}
                  /\ \/ next.list = request[r].list
                     \/ next.list = ListOf("open")
  BY PartIsSound
<1>3. t \in ThreadsIn(ListOf("open")) <=> status[t] = "open"
  BY ListedThere
<1>4. Misplaced(next, t) => Misplaced(request[r], t)
  BY <1>1, <1>2, <1>3 DEF Misplaced, Refreshes
<1>5. Misplaced(next, t)' => Misplaced(request[r], t)
  BY <1>1, <1>4 DEF Misplaced
<1>6. StepOf(r, next, Misplaced(next, t)')
  BY <1>1, <1>2 DEF StepOf
<1>7. OnRail(t) => OnRail(t)'
  BY <1>1 DEF OnRail
<1> QED BY <1>1, <1>2, <1>5, <1>6, <1>7, SettlesKept DEF Refreshes

LEMMA AnswersSettle ==
  ASSUME PageSound, NEW t \in Threads, Settles(t), NEW r \in Requests, Answers(r),
         inOrder', ~failed'
  PROVE  Settles(t)'
<1>1. PICK q : q = request[r]
  OBVIOUS
<1>2. q \in PageRequest /\ RequestFits(q) /\ PageShape /\ status' = status
  BY <1>1 DEF PageSound, PageShape, Answers, Done, Uploaded, Upvoted, refreshThreads, refreshAll,
              ResolvedLoaded, VersionLoaded, RequestFails, Takes, serverVars
<1>3. ahead[r] = {} /\ ahead' = [x \in Requests |-> IF x = r THEN {} ELSE ahead[x] \ {r}]
  BY DEF Answers, Done, Uploaded, Upvoted, refreshThreads, refreshAll, ResolvedLoaded,
         VersionLoaded, RequestFails, Takes, Answered
<1>4. ASSUME NEW next, request' = [request EXCEPT ![r] = next], next = NoRequest \/ JustSent(next)
      PROVE  ~Misplaced(next, t)' /\ StepOf(r, next, Misplaced(next, t)')
  <2>1. ~Misplaced(next, t)'
    BY <1>4, FreshPlaced
  <2> QED BY <1>3, <1>4, <2>1 DEF StepOf
<1>5. ASSUME NEW next, request' = [request EXCEPT ![r] = next], next = NoRequest \/ JustSent(next),
             q.kind \notin Changes \cup Refreshes \/ q.pc = "refused", OnRail(t) => OnRail(t)'
      PROVE  Settles(t)'
  <2>1. ~Misplaced(next, t)' /\ StepOf(r, next, Misplaced(next, t)')
    BY <1>4, <1>5
  <2>2. q.pc = "refused" => q.kind \in Changes \cup {"upvote"}
    BY <1>2 DEF RequestFits
  <2> QED BY <1>1, <1>2, <1>5, <2>1, <2>2, SettlesKept DEF Changes, Refreshes
  \* An answer to no change, with another one still to overrule it.
<1>6. ASSUME NEW next, request' = [request EXCEPT ![r] = next], next = NoRequest \/ JustSent(next),
             NEW c \in Requests \ {r}, Overrules(c, t)
      PROVE  Settles(t)'
  <2>1. ~Misplaced(next, t)' /\ StepOf(r, next, Misplaced(next, t)')
    BY <1>4, <1>6
  <2>2. Overrules(c, t)'
    BY <1>2, <1>6, <2>1, OverrulesKept
  <2> QED BY <2>2 DEF Settles
<1>7. ASSUME NEW next, request' = [request EXCEPT ![r] = next], next = NoRequest \/ JustSent(next),
             \A x \in Requests \ {r} : ~Misplaced(request[x], t)
      PROVE  \A x \in Requests : ~Misplaced(request[x], t)'
  BY <1>2, <1>4, <1>7, NoneMisplaced
<1>8. CASE Done(r)
  <2>1. PICK next : next = New("open")
    OBVIOUS
  <2>2. /\ request' = [request EXCEPT ![r] = next] /\ JustSent(next) /\ next.kind = "open"
        /\ UNCHANGED <<threads, resolvedThreads>>
    BY <1>8, <2>1 DEF Done, Takes, shownVars, New, NoRequest, JustSent
  <2>3. CASE \E c \in Requests \ {r} : Overrules(c, t)
    BY <1>6, <2>2, <2>3
  <2>4. CASE \A x \in Requests : ~Misplaced(request[x], t)
    <3>1. \A x \in Requests : ~Misplaced(request[x], t)'
      BY <1>7, <2>2, <2>4
    <3>2. request'[r].pc # "none" /\ request'[r].kind \in Refreshes
      BY <2>2 DEF PageSound, PageShape, JustSent, Refreshes
    <3> QED BY <3>1, <3>2 DEF Settles
  <2>5. CASE Overrules(r, t)
    BY <1>3, <2>4, <2>5 DEF Overrules
  <2> QED BY <2>3, <2>4, <2>5 DEF Settles
<1>9. CASE Uploaded(r) \/ VersionLoaded(r)
  <2>1. PICK next : request' = [request EXCEPT ![r] = next] /\ (next = NoRequest \/ JustSent(next))
    <3>1. JustSent([New("all") EXCEPT !.seq = q.seq])
      BY DEF New, NoRequest, JustSent
    <3> QED BY <1>1, <1>9, <3>1 DEF Uploaded, VersionLoaded, Takes
  <2>2. q.kind \notin Changes \cup Refreshes /\ UNCHANGED <<threads, resolvedThreads>>
    BY <1>1, <1>9 DEF Uploaded, VersionLoaded, shownVars, Changes, Refreshes
  <2> QED BY <1>2, <1>5, <2>1, <2>2 DEF OnRail
<1>10. CASE Upvoted(r)
  <2>1. /\ q.kind = "upvote" /\ request' = [request EXCEPT ![r] = NoRequest]
        /\ patchUpvote(q.thread, q.on) /\ q.thread \in Threads /\ q.on \in BOOLEAN
    BY <1>1, <1>2, <1>10 DEF Upvoted, Takes, RequestFits
  <2>2. OnRail(t) => OnRail(t)'
    BY <1>2, <2>1, PatchKeepsRail
  <2> QED BY <1>5, <2>1, <2>2 DEF Changes, Refreshes
<1>11. CASE refreshThreads(r) \/ refreshAll(r)
  <2>1. PICK next : next = Reloads
    OBVIOUS
  <2>2. /\ q.kind \in Refreshes /\ request' = [request EXCEPT ![r] = next]
        /\ next = NoRequest \/ JustSent(next)
        /\ threads' = q.list /\ q.list # Unset /\ resolvedThreads' = Unset
    BY <1>1, <1>2, <1>11, <2>1, ReloadsFit
       DEF refreshThreads, refreshAll, Takes, CacheDropped, Refreshes, Loads, RequestFits
  <2>3. CASE \E c \in Requests : Overrules(c, t)
    <3>1. PICK c \in Requests : Overrules(c, t)
      BY <2>3
    <3>2. c # r
      BY <1>1, <2>2, <3>1 DEF Overrules, Changes, Refreshes
    <3> QED BY <1>6, <2>2, <3>1, <3>2
  <2>4. CASE \A x \in Requests : ~Misplaced(request[x], t)
    <3>1. \A x \in Requests : ~Misplaced(request[x], t)'
      BY <1>7, <2>2, <2>4
    <3>2. ~Misplaced(q, t)
      BY <1>1, <2>4
    <3>3. OnRail(t)'
      BY <1>2, <2>2, <3>2 DEF OnRail, Misplaced, ThreadsIn
    <3> QED BY <3>1, <3>3 DEF Settles
  <2> QED BY <2>3, <2>4 DEF Settles
<1>12. CASE ResolvedLoaded(r)
  <2>1. /\ q.kind = "resolved" /\ request' = [request EXCEPT ![r] = NoRequest]
        /\ threads' = threads /\ resolvedThreads' = q.list /\ q.list # Unset
    BY <1>1, <1>2, <1>12 DEF ResolvedLoaded, Takes, Loads, RequestFits
  <2>2. CASE \E c \in Requests : Overrules(c, t)
    <3>1. PICK c \in Requests : Overrules(c, t)
      BY <2>2
    <3>2. c # r
      BY <1>1, <2>1, <3>1 DEF Overrules, Changes
    <3> QED BY <1>6, <2>1, <3>1, <3>2
  <2>3. CASE \A x \in Requests : ~Misplaced(request[x], t)
    <3>1. ~Misplaced(q, t)
      BY <1>1, <2>3
    <3>2. OnRail(t) => OnRail(t)'
      BY <1>2, <2>1, <3>1 DEF OnRail, Misplaced, ThreadsIn
    <3> QED BY <1>5, <2>1, <3>2 DEF Changes, Refreshes
  <2> QED BY <2>2, <2>3 DEF Settles
<1>13. CASE RequestFails(r)
  <2>1. q.pc = "refused" /\ request' = [request EXCEPT ![r] = NoRequest]
    BY <1>1, <1>13 DEF RequestFails
  <2>2. OnRail(t) => OnRail(t)'
    <3>1. CASE q.kind = "upvote"
      <4>1. /\ patchUpvote(q.thread, q.vote)
            /\ q.thread \in Threads /\ q.vote \in BOOLEAN
        BY <1>1, <1>2, <1>13, <2>1, <3>1 DEF RequestFails, Undone, RequestFits, PageRequest
      <4> QED BY <1>2, <4>1, PatchKeepsRail
    <3>2. CASE q.kind # "upvote"
      <4>1. UNCHANGED <<threads, resolvedThreads>>
        BY <1>1, <1>13, <3>2 DEF RequestFails, Undone, shownVars
      <4> QED BY <1>2, <4>1 DEF OnRail
    <3> QED BY <3>1, <3>2
  <2> QED BY <1>5, <2>1, <2>2
<1> QED BY <1>8, <1>9, <1>10, <1>11, <1>12, <1>13 DEF Answers

-----------------------------------------------------------------------------
LEMMA VotingKept ==
  ASSUME PageSound, NEW t, voted'[t] = voted[t], NEW r \in Requests, NEW next,
         StepOf(r, next, Misvoted(next, t)'), Misvoted(next, t)' => Misvoted(request[r], t),
         NEW u \in Requests \ {r}, Voting(u, t)
  PROVE  Voting(u, t)'
<1>1. \A x \in Requests : request'[x] = IF x = r THEN next ELSE request[x]
  BY DEF StepOf, PageSound, PageShape
<1>2. \A x \in Requests \ {r} : Misvoted(request[x], t)' => Misvoted(request[x], t)
  BY <1>1 DEF Misvoted
<1>3. ASSUME NEW x \in Requests, Misvoted(request[x], t)', request[u].pc = "served"
      PROVE  x \in ahead'[u]
  <2>1. CASE x = r
    <3>1. Misvoted(next, t)'
      BY <1>1, <1>3, <2>1 DEF Misvoted
    <3> QED BY <1>3, <2>1, <3>1 DEF Voting, StepOf
  <2>2. CASE x # r
    BY <1>2, <1>3, <2>2 DEF Voting, StepOf
  <2> QED BY <2>1, <2>2
<1> QED BY <1>1, <1>3 DEF Voting

LEMMA NoneMisvoted ==
  ASSUME PageSound, NEW t, voted'[t] = voted[t], NEW r \in Requests, NEW next,
         request' = [request EXCEPT ![r] = next],
         \A x \in Requests \ {r} : ~Misvoted(request[x], t), ~Misvoted(next, t)'
  PROVE  \A x \in Requests : ~Misvoted(request[x], t)'
<1>1. \A x \in Requests : request'[x] = IF x = r THEN next ELSE request[x]
  BY DEF PageSound, PageShape
<1> QED BY <1>1 DEF Misvoted

\* A step that neither answers a vote on the thread nor shows a listing.
LEMMA VoteKept ==
  ASSUME PageSound, NEW t, voted'[t] = voted[t], VoteSettles(t), NEW r \in Requests, NEW next,
         StepOf(r, next, Misvoted(next, t)'), Misvoted(next, t)' => Misvoted(request[r], t),
         ~Voting(r, t), VoteOnRail(t) => VoteOnRail(t)'
  PROVE  VoteSettles(t)'
<1>1. CASE \E u \in Requests : Voting(u, t)
  <2>1. PICK u \in Requests : Voting(u, t)
    BY <1>1
  <2>2. u # r
    BY <2>1
  <2>3. Voting(u, t)'
    BY <2>1, <2>2, VotingKept
  <2> QED BY <2>3 DEF VoteSettles
<1>2. CASE (\A x \in Requests : ~Misvoted(request[x], t)) /\ VoteOnRail(t)
  <2>1. \A x \in Requests : ~Misvoted(request[x], t)'
    BY <1>2, NoneMisvoted DEF StepOf
  <2> QED BY <1>2, <2>1 DEF VoteSettles
<1> QED BY <1>1, <1>2 DEF VoteSettles

LEMMA VoteRailKept ==
  ASSUME NEW t, voted'[t] = voted[t], VoteOnRail(t), UNCHANGED <<threads, resolvedThreads>>
  PROVE  VoteOnRail(t)'
  BY DEF VoteOnRail, Cached

\* A vote patched in stands wherever the thread is listed, and leaves the others alone.
LEMMA PatchedVotes ==
  ASSUME PageSound, NEW u \in Threads, NEW vote \in BOOLEAN, patchUpvote(u, vote),
         NEW t, voted'[t] = voted[t]
  PROVE  /\ t # u /\ VoteOnRail(t) => VoteOnRail(t)'
         /\ t = u /\ vote = voted[t] => VoteOnRail(t)'
<1>1. ASSUME NEW list, list # Unset, NEW l \in Patched(list, u, vote), l[1] = t
      PROVE  /\ t = u => l[2] = vote
             /\ t # u => l \in list
  <2>1. PICK m \in list : l = IF m[1] = u THEN <<u, vote>> ELSE m
    BY <1>1 DEF Patched
  <2> QED BY <1>1, <2>1
<1>2. threads # Unset
  BY UnsetApart DEF PageSound, PageShape
<1>3. resolvedThreads' = Unset <=> resolvedThreads = Unset
  BY PatchedLoaded
<1>4. /\ threads' = Patched(threads, u, vote)
      /\ resolvedThreads' = Patched(resolvedThreads, u, vote)
  BY DEF patchUpvote
<1>5. ASSUME NEW l \in threads' \cup Cached', l[1] = t
      PROVE  /\ t = u => l[2] = vote
             /\ t # u => l \in threads \cup Cached
  <2>1. CASE l \in threads'
    BY <1>1, <1>2, <1>4, <1>5, <2>1
  <2>2. CASE l \in Cached'
    <3>1. resolvedThreads # Unset /\ l \in Patched(resolvedThreads, u, vote)
      BY <1>3, <1>4, <2>2 DEF Cached
    <3> QED BY <1>1, <1>5, <3>1 DEF Cached
  <2> QED BY <1>5, <2>1, <2>2
<1> QED BY <1>5 DEF VoteOnRail

LEMMA FreshVoted ==
  ASSUME NEW t, NEW q, q = NoRequest \/ JustSent(q)
  PROVE  ~Misvoted(q, t)'
  BY DEF NoRequest, JustSent, Misvoted

LEMMA AskedVotes ==
  ASSUME PageSound, NEW t \in Threads, VoteSettles(t), NEW r \in Requests, Reader(r)
  PROVE  VoteSettles(t)'
<1>1. PICK next : request' = [request EXCEPT ![r] = next] /\ (next = NoRequest \/ JustSent(next))
  BY AskedIsSound
<1>2. request[r].pc = "none" /\ ahead' = ahead /\ voted' = voted
  BY DEF Reader, Change, Upvote, Upload, SetFilter, SelectVersion, BackToCurrent, Acts, Free, serverVars
<1>3. ~Misvoted(next, t)' /\ StepOf(r, next, Misvoted(next, t)') /\ ~Voting(r, t)
  BY <1>1, <1>2, FreshVoted DEF StepOf, Voting
<1>4. CASE \E l \in threads \cup Cached : Upvote(r, l)
  <2>1. PICK l \in threads \cup Cached : Upvote(r, l)
    BY <1>4
  <2>2. l[1] \in Threads /\ l[2] \in BOOLEAN
    BY ListedTyped DEF PageSound
  <2>3. CASE l[1] = t
    <3>1. request'[r] = [New("upvote") EXCEPT !.thread = l[1], !.vote = l[2]]
      BY <2>1 DEF Upvote, Acts, PageSound, PageShape
    <3>2. request'[r].kind = "upvote" /\ request'[r].thread = t /\ request'[r].pc = "sent"
      BY <2>3, <3>1 DEF New, NoRequest
    <3> QED BY <3>2 DEF VoteSettles, Voting
  <2>4. CASE l[1] # t
    <3>1. PICK vote : vote = ~l[2]
      OBVIOUS
    <3>2. vote \in BOOLEAN /\ patchUpvote(l[1], vote)
      BY <2>1, <2>2, <3>1 DEF Upvote
    <3>3. VoteOnRail(t) => VoteOnRail(t)'
      BY <1>2, <2>2, <2>4, <3>2, PatchedVotes
    <3> QED BY <1>1, <1>2, <1>3, <3>3, VoteKept
  <2> QED BY <2>3, <2>4
<1>5. CASE UNCHANGED <<threads, resolvedThreads>>
  <2>1. VoteOnRail(t) => VoteOnRail(t)'
    BY <1>2, <1>5, VoteRailKept
  <2> QED BY <1>1, <1>2, <1>3, <2>1, VoteKept
<1> QED BY <1>4, <1>5
        DEF Reader, Change, Upload, SetFilter, SelectVersion, BackToCurrent, shownVars

LEMMA ListedVotes ==
  ASSUME NEW s
  PROVE  \A l \in ListOf(s) : l[2] = voted[l[1]]
  BY DEF ListOf

LEMMA RespondVotes ==
  ASSUME PageSound, PageKnown, NEW t \in Threads,
         status[t] # "deleted" => VoteSettles(t), status'[t] # "deleted",
         NEW r \in Requests, Respond(r)
  PROVE  VoteSettles(t)'
<1>1. PICK q : q = request[r]
  OBVIOUS
<1>2. /\ q \in PageRequest /\ RequestFits(q) /\ q.pc = "sent" /\ q.kind # "all" /\ PageShape
      /\ UNCHANGED <<threads, resolvedThreads>>
      /\ ahead' = [ahead EXCEPT ![r] = {x \in Requests : Begun(request[x])}]
      /\ q.list = Unset
  BY <1>1 DEF PageSound, PageShape, Respond, SameShown, shownVars, Follows, RequestFits
<1>3. \A c \in Requests \ {r} : ahead'[c] = ahead[c]
  BY <1>2 DEF PageShape
<1>4. VoteSettles(t)
  BY EffectGrows DEF StatusGrows
  \* The vote on thread t was done, and is to be answered.
<1>5. CASE q.kind = "upvote" /\ q.thread = t /\ Effect(q) /\ request' = [request EXCEPT ![r] = Reply(q)]
  <2>1. Reply(q) = [q EXCEPT !.pc = "served", !.on = ~voted[t]] /\ voted'[t] = ~voted[t]
    BY <1>2, <1>5 DEF Reply, Effect, PageShape
  <2>2. /\ Reply(q).pc = "served" /\ Reply(q).kind = "upvote" /\ Reply(q).thread = t
        /\ Reply(q).list = Unset /\ Reply(q).on = voted'[t]
    BY <1>2, <1>5, <2>1 DEF PageRequest
  <2>3. \A x \in Requests : request'[x] = IF x = r THEN Reply(q) ELSE request[x]
    BY <1>5 DEF PageSound, PageShape
  <2>4. ASSUME NEW x \in Requests, Misvoted(request[x], t)' PROVE x \in ahead'[r]
    <3>1. x # r
      BY <2>2, <2>3, <2>4 DEF Misvoted
    <3>2. request[x].list # Unset \/ request[x].pc = "served"
      BY <2>3, <2>4, <3>1 DEF Misvoted
    <3>3. Begun(request[x])
      BY <3>2 DEF PageSound, RequestFits, Begun
    <3> QED BY <1>2, <3>3 DEF PageShape
  <2>5. Voting(r, t)'
    BY <2>2, <2>3, <2>4 DEF Voting
  <2> QED BY <2>5 DEF VoteSettles
<1>6. ASSUME NEW next, voted'[t] = voted[t], ~Voting(r, t), request' = [request EXCEPT ![r] = next],
             next.list = Unset \/ \E s : next.list = ListOf(s),
             next.kind = q.kind /\ next.thread = q.thread,
             next.pc = "refused" \/ ~(q.kind = "upvote" /\ q.thread = t)
      PROVE  VoteSettles(t)'
  <2>1. next.list # Unset => \A l \in next.list : l[2] = voted[l[1]]
    BY <1>6, ListedVotes
  <2>2. ~Misvoted(next, t)'
    BY <1>6, <2>1 DEF Misvoted
  <2>3. StepOf(r, next, Misvoted(next, t)')
    BY <1>3, <1>6 DEF StepOf
  <2>4. VoteOnRail(t) => VoteOnRail(t)'
    BY <1>2, <1>6, VoteRailKept
  <2> QED BY <1>4, <1>6, <2>2, <2>3, <2>4, VoteKept
<1>7. CASE ~Allowed(q) /\ request' = [request EXCEPT ![r].pc = "refused"] /\ UNCHANGED serverVars
  <2>1. PICK next : next = [q EXCEPT !.pc = "refused"]
    OBVIOUS
  <2>2. next.list = Unset /\ next.pc = "refused" /\ next.kind = q.kind /\ next.thread = q.thread
    BY <1>2, <2>1 DEF PageRequest
  <2>3. request' = [request EXCEPT ![r] = next] /\ voted' = voted /\ status' = status
    BY <1>1, <1>2, <1>7, <2>1 DEF PageShape, PageRequest, serverVars
  <2>4. q.kind = "upvote" => status[q.thread] = "deleted"
    BY <1>1, <1>2, <1>7 DEF Allowed, RequestFits, PageShape, PageKnown, RequestKnown
  <2>5. ~Voting(r, t)
    BY <1>1, <2>3, <2>4 DEF Voting
  <2> QED BY <1>6, <2>2, <2>3, <2>5
<1>8. CASE Effect(q) /\ request' = [request EXCEPT ![r] = Reply(q)] /\ ~(q.kind = "upvote" /\ q.thread = t)
  <2>1. PICK next : next = Reply(q)
    OBVIOUS
  <2>2. voted'[t] = voted[t]
    BY <1>2, <1>8 DEF Effect, PageShape, RequestFits
  <2>3. next.kind = q.kind /\ next.thread = q.thread
    BY <1>2, <2>1 DEF Reply, PageRequest
  <2>4. next.list = Unset \/ \E s : next.list = ListOf(s)
    BY <1>2, <2>1 DEF Reply, PageRequest
  <2>5. request' = [request EXCEPT ![r] = next] /\ ~Voting(r, t)
    BY <1>1, <1>8, <2>1 DEF Voting
  <2> QED BY <1>6, <1>8, <2>2, <2>3, <2>4, <2>5
<1> QED BY <1>1, <1>5, <1>7, <1>8 DEF Respond

LEMMA PartVotes ==
  ASSUME PageSound, NEW t \in Threads, VoteSettles(t), NEW r \in Requests, RespondInPart(r)
  PROVE  VoteSettles(t)'
<1>1. /\ UNCHANGED <<voted, threads, resolvedThreads>>
      /\ request[r].kind = "all"
      /\ \A c \in Requests \ {r} : ahead'[c] = ahead[c]
  BY DEF PageSound, PageShape, RespondInPart, SameShown, shownVars, serverVars, Follows
<1>2. PICK next : /\ request' = [request EXCEPT ![r] = next]
                  /\ next.kind = "all" /\ next.pc \in {"sent", "served"}
                  /\ \/ next.list = request[r].list
                     \/ next.list = ListOf("open")
  BY PartIsSound
<1>3. Misvoted(next, t)' => Misvoted(request[r], t)
  BY <1>1, <1>2, ListedVotes DEF Misvoted
<1>4. StepOf(r, next, Misvoted(next, t)') /\ ~Voting(r, t)
  BY <1>1, <1>2 DEF StepOf, Voting
<1>5. VoteOnRail(t) => VoteOnRail(t)'
  BY <1>1, VoteRailKept
<1> QED BY <1>1, <1>3, <1>4, <1>5, VoteKept

LEMMA AnswersVote ==
  ASSUME PageSound, PageKnown, NEW t \in Threads, VoteSettles(t), status[t] # "deleted",
         NEW r \in Requests, Answers(r), inOrder', ~failed'
  PROVE  VoteSettles(t)'
<1>1. PICK q : q = request[r]
  OBVIOUS
<1>2. q \in PageRequest /\ RequestFits(q) /\ PageShape /\ voted' = voted /\ q.pc # "none"
  BY <1>1 DEF PageSound, PageShape, Answers, Done, Uploaded, Upvoted, refreshThreads, refreshAll,
              ResolvedLoaded, VersionLoaded, RequestFails, Takes, serverVars
<1>3. ahead[r] = {} /\ ahead' = [x \in Requests |-> IF x = r THEN {} ELSE ahead[x] \ {r}]
  BY DEF Answers, Done, Uploaded, Upvoted, refreshThreads, refreshAll, ResolvedLoaded,
         VersionLoaded, RequestFails, Takes, Answered
<1>4. ASSUME NEW next, request' = [request EXCEPT ![r] = next], next = NoRequest \/ JustSent(next)
      PROVE  ~Misvoted(next, t)' /\ StepOf(r, next, Misvoted(next, t)')
  <2>1. ~Misvoted(next, t)'
    BY <1>4, FreshVoted
  <2> QED BY <1>3, <1>4, <2>1 DEF StepOf
<1>5. ASSUME NEW next, request' = [request EXCEPT ![r] = next], next = NoRequest \/ JustSent(next),
             ~Voting(r, t),
             (\A x \in Requests : ~Misvoted(request[x], t)) /\ VoteOnRail(t) => VoteOnRail(t)'
      PROVE  VoteSettles(t)'
  <2>1. ~Misvoted(next, t)' /\ StepOf(r, next, Misvoted(next, t)')
    BY <1>4, <1>5
  <2>2. CASE \E u \in Requests : Voting(u, t)
    <3>1. PICK u \in Requests : Voting(u, t)
      BY <2>2
    <3>2. u # r
      BY <1>5, <3>1
    <3>3. Voting(u, t)'
      BY <1>2, <2>1, <3>1, <3>2, VotingKept
    <3> QED BY <3>3 DEF VoteSettles
  <2>3. CASE (\A x \in Requests : ~Misvoted(request[x], t)) /\ VoteOnRail(t)
    <3>1. \A x \in Requests : ~Misvoted(request[x], t)'
      BY <1>2, <1>5, <2>1, <2>3, NoneMisvoted
    <3> QED BY <1>5, <2>3, <3>1 DEF VoteSettles
  <2> QED BY <2>2, <2>3 DEF VoteSettles
<1>6. CASE Done(r) \/ Uploaded(r) \/ VersionLoaded(r)
  <2>1. PICK next : request' = [request EXCEPT ![r] = next] /\ (next = NoRequest \/ JustSent(next))
    <3>1. JustSent([New("all") EXCEPT !.seq = q.seq]) /\ JustSent(New("open"))
      BY DEF New, NoRequest, JustSent
    <3> QED BY <1>1, <1>6, <3>1 DEF Done, Uploaded, VersionLoaded, Takes
  <2>2. ~Voting(r, t) /\ UNCHANGED <<threads, resolvedThreads>>
    BY <1>6 DEF Done, Uploaded, VersionLoaded, shownVars, Voting
  <2>3. VoteOnRail(t) => VoteOnRail(t)'
    BY <1>2, <2>2, VoteRailKept
  <2> QED BY <1>5, <2>1, <2>2, <2>3
<1>7. CASE Upvoted(r)
  <2>1. /\ q.kind = "upvote" /\ request' = [request EXCEPT ![r] = NoRequest] /\ q.pc = "served"
        /\ patchUpvote(q.thread, q.on) /\ q.thread \in Threads /\ q.on \in BOOLEAN
    BY <1>1, <1>2, <1>7 DEF Upvoted, Takes, RequestFits
  <2>2. CASE q.thread # t
    <3>1. VoteOnRail(t) => VoteOnRail(t)'
      BY <1>2, <2>1, <2>2, PatchedVotes
    <3>2. ~Voting(r, t)
      BY <1>1, <2>2 DEF Voting
    <3> QED BY <1>5, <2>1, <3>1, <3>2
  <2>3. CASE q.thread = t /\ \E u \in Requests \ {r} : Voting(u, t)
    <3>1. PICK u \in Requests \ {r} : Voting(u, t)
      BY <2>3
    <3>2. ~Misvoted(NoRequest, t)' /\ StepOf(r, NoRequest, Misvoted(NoRequest, t)')
      BY <1>4, <2>1
    <3>3. Voting(u, t)'
      BY <1>2, <3>1, <3>2, VotingKept
    <3> QED BY <3>3 DEF VoteSettles
  <2>4. CASE q.thread = t /\ \A x \in Requests : ~Misvoted(request[x], t)
    <3>1. \A x \in Requests : ~Misvoted(request[x], t)'
      BY <1>2, <1>4, <2>1, <2>4, NoneMisvoted
    <3>2. q.on = voted[t]
      BY <1>1, <2>1, <2>4 DEF Misvoted
    <3>3. VoteOnRail(t)'
      BY <1>2, <2>1, <2>4, <3>2, PatchedVotes
    <3> QED BY <3>1, <3>3 DEF VoteSettles
  <2>5. Voting(r, t) => \A x \in Requests : ~Misvoted(request[x], t)
    BY <1>1, <1>3, <2>1 DEF Voting
  <2> QED BY <2>2, <2>3, <2>4, <2>5 DEF VoteSettles
<1>8. CASE refreshThreads(r) \/ refreshAll(r)
  <2>1. PICK next : next = Reloads
    OBVIOUS
  <2>2. /\ q.kind \in Refreshes /\ request' = [request EXCEPT ![r] = next]
        /\ next = NoRequest \/ JustSent(next)
        /\ threads' = q.list /\ q.list # Unset /\ resolvedThreads' = Unset
    BY <1>1, <1>2, <1>8, <2>1, ReloadsFit
       DEF refreshThreads, refreshAll, Takes, CacheDropped, Refreshes, Loads, RequestFits
  <2>3. ~Voting(r, t)
    BY <1>1, <2>2 DEF Voting, Refreshes
  <2>4. (\A x \in Requests : ~Misvoted(request[x], t)) => VoteOnRail(t)'
    BY <1>1, <1>2, <2>2 DEF Misvoted, VoteOnRail, Cached
  <2> QED BY <1>5, <2>2, <2>3, <2>4
<1>9. CASE ResolvedLoaded(r)
  <2>1. /\ q.kind = "resolved" /\ request' = [request EXCEPT ![r] = NoRequest]
        /\ threads' = threads /\ resolvedThreads' = q.list /\ q.list # Unset
    BY <1>1, <1>2, <1>9 DEF ResolvedLoaded, Takes, Loads, RequestFits
  <2>2. ~Voting(r, t)
    BY <1>1, <2>1 DEF Voting
  <2>3. (\A x \in Requests : ~Misvoted(request[x], t)) /\ VoteOnRail(t) => VoteOnRail(t)'
    BY <1>1, <1>2, <2>1 DEF Misvoted, VoteOnRail, Cached
  <2> QED BY <1>5, <2>1, <2>2, <2>3
<1>10. CASE RequestFails(r)
  <2>1. q.pc = "refused" /\ request' = [request EXCEPT ![r] = NoRequest]
    BY <1>1, <1>10 DEF RequestFails
  <2>2. ~Voting(r, t)
    BY <1>1, <2>1 DEF Voting
  <2>3. VoteOnRail(t) => VoteOnRail(t)'
    <3>1. CASE q.kind = "upvote"
      <4>1. /\ patchUpvote(q.thread, q.vote)
            /\ q.thread \in Threads /\ q.vote \in BOOLEAN
        BY <1>1, <1>2, <1>10, <2>1, <3>1 DEF RequestFails, Undone, RequestFits, PageRequest
      <4>2. q.thread # t
        BY <1>1, <2>1, <3>1 DEF PageKnown, RequestKnown
      <4> QED BY <1>2, <4>1, <4>2, PatchedVotes
    <3>2. CASE q.kind # "upvote"
      <4>1. UNCHANGED <<threads, resolvedThreads>>
        BY <1>1, <1>10, <2>1, <3>2, <1>2 DEF RequestFails, Undone, shownVars, RequestFits, Changes
      <4> QED BY <1>2, <4>1, VoteRailKept
    <3> QED BY <3>1, <3>2
  <2> QED BY <1>5, <2>1, <2>2, <2>3
<1> QED BY <1>6, <1>7, <1>8, <1>9, <1>10 DEF Answers

-----------------------------------------------------------------------------
LEMMA InitViewer ==
  ASSUME ViewerInit
  PROVE  ViewerInv
<1>1. ListOf("open") \in SUBSET Listed /\ ListOf("resolved") \in SUBSET Listed /\ ListOf("resolved") # Unset
  <2>1. voted \in [Threads -> BOOLEAN]
    BY DEF ViewerInit
  <2>2. ListOf("open") \in SUBSET Listed /\ ListOf("resolved") \in SUBSET Listed
    BY <2>1 DEF ListOf, Listed
  <2> QED BY <2>2, UnsetApart
<1>2. PageSound
  <2>1. request \in [Requests -> PageRequest] /\ \A r \in Requests : RequestFits(request[r])
    BY NoRequestFits DEF ViewerInit
  <2> QED BY <1>1, <2>1 DEF ViewerInit, PageSound, PageShape, Seqs
<1>3. PageKnown
  <2>1. \A r \in Requests : RequestKnown(request[r])
    BY DEF ViewerInit, RequestKnown, NoRequest
  <2>2. Existing(ListOf("open")) /\ Existing(ListOf("resolved"))
    BY DEF Existing, ListOf
  <2>3. threads = ListOf("open") /\ Cached = ListOf("resolved")
    BY <1>1 DEF ViewerInit, Cached
  <2> QED BY <2>1, <2>2, <2>3 DEF PageKnown
<1>4. Loading
  BY <1>1 DEF ViewerInit, Loading
<1>5. mine = {}
  BY DEF ViewerInit
<1>6. ASSUME NEW t \in Threads PROVE VoteSettles(t)
  <2>1. \A r \in Requests : ~Misvoted(request[r], t)
    BY DEF ViewerInit, Misvoted, NoRequest
  <2>2. VoteOnRail(t)
    BY <1>1, ListedVotes DEF ViewerInit, VoteOnRail, Cached
  <2> QED BY <2>1, <2>2 DEF VoteSettles
<1> QED BY <1>2, <1>3, <1>4, <1>5, <1>6 DEF ViewerInv, PageSound, AllSettles

LEMMA ViewerKept ==
  ASSUME ViewerInv, [ViewerNext]_viewerVars
  PROVE  ViewerInv'
<1>1. PageSound /\ PageKnown /\ (~failed => Loading) /\ (inOrder /\ ~failed => AllSettles)
  BY DEF ViewerInv, PageSound
<1>2. SUFFICES /\ PageSound' /\ PageKnown' /\ (~failed' => Loading')
               /\ inOrder' /\ ~failed' => AllSettles'
  BY DEF ViewerInv, PageSound
<1>3. ASSUME NEW r \in Requests, Reader(r)
      PROVE  /\ PageSound' /\ PageKnown' /\ (~failed' => Loading')
             /\ inOrder' /\ ~failed' => AllSettles'
  <2>1. UNCHANGED <<mine, status, inOrder, failed>>
    BY <1>3 DEF Reader, Change, Upvote, Upload, SetFilter, SelectVersion, BackToCurrent, Acts, serverVars
  <2>2. mine \subseteq Threads
    BY <1>1 DEF PageSound, PageShape
  <2>3. PageSound' /\ PageKnown' /\ (~failed' => Loading')
    BY <1>1, <1>3, <2>1, AskedIsSound, AskedIsKnown, AskedIsLoading
  <2>4. ASSUME inOrder', ~failed' PROVE AllSettles'
    <3>1. AllSettles
      BY <1>1, <2>1, <2>4
    <3>2. ASSUME NEW t \in mine PROVE Settles(t)'
      BY <1>1, <1>3, <2>2, <3>1, AskedSettles DEF AllSettles
    <3>3. ASSUME NEW t \in Threads, status[t] # "deleted" PROVE VoteSettles(t)'
      BY <1>1, <1>3, <3>1, <3>3, AskedVotes DEF AllSettles
    <3> QED BY <2>1, <3>2, <3>3 DEF AllSettles
  <2> QED BY <2>3, <2>4
<1>4. ASSUME NEW r \in Requests, Respond(r)
      PROVE  /\ PageSound' /\ PageKnown' /\ (~failed' => Loading')
             /\ inOrder' /\ ~failed' => AllSettles'
  <2>1. UNCHANGED <<inOrder, failed>>
    BY <1>4 DEF Respond, SameShown
  <2>2. PageSound' /\ PageKnown' /\ (~failed' => Loading')
    BY <1>1, <1>4, <2>1, RespondIsSound, RespondIsKnown, ServedIsLoading
  <2>3. mine' \subseteq Threads
    BY <2>2 DEF PageSound, PageShape
  <2>4. ASSUME inOrder', ~failed' PROVE AllSettles'
    <3>1. AllSettles
      BY <1>1, <2>1, <2>4
    <3>2. ASSUME NEW t \in mine' PROVE Settles(t)'
      BY <1>1, <1>4, <2>3, <3>1, RespondSettles DEF AllSettles
    <3>3. ASSUME NEW t \in Threads, status'[t] # "deleted" PROVE VoteSettles(t)'
      BY <1>1, <1>4, <3>1, <3>3, RespondVotes DEF AllSettles
    <3> QED BY <3>2, <3>3 DEF AllSettles
  <2> QED BY <2>2, <2>4
<1>5. ASSUME NEW r \in Requests, RespondInPart(r)
      PROVE  /\ PageSound' /\ PageKnown' /\ (~failed' => Loading')
             /\ inOrder' /\ ~failed' => AllSettles'
  <2>1. UNCHANGED <<mine, status, inOrder, failed>>
    BY <1>5 DEF RespondInPart, SameShown, serverVars
  <2>2. mine \subseteq Threads
    BY <1>1 DEF PageSound, PageShape
  <2>3. PageSound' /\ PageKnown' /\ (~failed' => Loading')
    BY <1>1, <1>5, <2>1, PartIsSound, PartIsKnown, ServedIsLoading
  <2>4. ASSUME inOrder', ~failed' PROVE AllSettles'
    <3>1. AllSettles
      BY <1>1, <2>1, <2>4
    <3>2. ASSUME NEW t \in mine PROVE Settles(t)'
      BY <1>1, <1>5, <2>2, <3>1, PartSettles DEF AllSettles
    <3>3. ASSUME NEW t \in Threads, status[t] # "deleted" PROVE VoteSettles(t)'
      BY <1>1, <1>5, <3>1, <3>3, PartVotes DEF AllSettles
    <3> QED BY <2>1, <3>2, <3>3 DEF AllSettles
  <2> QED BY <2>3, <2>4
<1>6. ASSUME NEW r \in Requests, Answers(r)
      PROVE  /\ PageSound' /\ PageKnown' /\ (~failed' => Loading')
             /\ inOrder' /\ ~failed' => AllSettles'
  <2>1. UNCHANGED <<mine, status>> /\ (inOrder' => inOrder) /\ (~failed' => ~failed)
    <3>1. CASE \E next : Takes(r, next)
      <4>1. UNCHANGED <<mine, status, failed>> /\ \E b : inOrder' = (inOrder /\ b)
        BY <3>1 DEF Takes, serverVars
      <4> QED BY <4>1
    <3>2. CASE RequestFails(r)
      <4>1. UNCHANGED <<mine, status>>
        BY <3>2 DEF RequestFails, serverVars
      <4>2. /\ \E b : inOrder' = (inOrder /\ b)
            /\ \E b : failed' = (failed \/ b)
        BY <3>2 DEF RequestFails
      <4> QED BY <4>1, <4>2
    <3> QED BY <1>6, <3>1, <3>2
            DEF Answers, Done, Uploaded, Upvoted, refreshThreads, refreshAll, ResolvedLoaded,
                VersionLoaded
  <2>2. mine \subseteq Threads
    BY <1>1 DEF PageSound, PageShape
  <2>3. PageSound' /\ PageKnown' /\ (~failed' => Loading')
    BY <1>1, <1>6, <2>1, AnswersAreSound, AnswersAreKnown, AnswersAreLoading
  <2>4. ASSUME inOrder', ~failed' PROVE AllSettles'
    <3>1. AllSettles
      BY <1>1, <2>1, <2>4
    <3>2. ASSUME NEW t \in mine PROVE Settles(t)'
      BY <1>1, <1>6, <2>2, <2>4, <3>1, AnswersSettle DEF AllSettles
    <3>3. ASSUME NEW t \in Threads, status[t] # "deleted" PROVE VoteSettles(t)'
      BY <1>1, <1>6, <2>4, <3>1, <3>3, AnswersVote DEF AllSettles
    <3> QED BY <2>1, <3>2, <3>3 DEF AllSettles
  <2> QED BY <2>3, <2>4
<1>7. ASSUME (\E t \in Threads, kind \in Changes : Other(t, kind)) \/ OtherUpload
      PROVE  /\ PageSound' /\ PageKnown' /\ (~failed' => Loading')
             /\ inOrder' /\ ~failed' => AllSettles'
  <2>1. UNCHANGED <<voted, threads, resolvedThreads, filter, request, ahead, inOrder, failed>>
    BY <1>7 DEF Other, OtherUpload, shownVars
  <2>2. PageSound' /\ PageKnown'
    BY <1>1, <1>7, OthersAreSound, OthersAreKnown
  <2>3. Loading => Loading'
    BY <2>1 DEF Loading
  <2>4. \A t \in mine' : t \in mine /\ status'[t] = status[t]
    BY <1>1, <1>7, OtherGrows DEF Other, OtherUpload, PageSound, PageShape
  <2>5. StatusGrows
    BY <1>1, <1>7, OtherGrows, SameGrows DEF OtherUpload
  <2>6. ASSUME NEW t, status'[t] = status[t], Settles(t) PROVE Settles(t)'
    BY <2>1, <2>6 DEF Settles, Overrules, Misplaced, OnRail
  <2>7. ASSUME NEW t, VoteSettles(t) PROVE VoteSettles(t)'
    BY <2>1, <2>7 DEF VoteSettles, Voting, Misvoted, VoteOnRail, Cached
  <2>8. AllSettles => AllSettles'
    BY <2>4, <2>5, <2>6, <2>7 DEF AllSettles, StatusGrows
  <2> QED BY <1>1, <2>1, <2>2, <2>3, <2>8
<1>8. CASE UNCHANGED viewerVars
  <2> USE <1>8 DEF viewerVars, serverVars, shownVars
  <2>1. PageSound' /\ PageKnown'
    BY <1>1 DEF PageSound, PageShape, PageKnown, RequestKnown, Existing, Cached
  <2>2. Loading => Loading'
    BY DEF Loading
  <2>3. AllSettles => AllSettles'
    <3>1. ASSUME NEW t, Settles(t) PROVE Settles(t)'
      BY <3>1 DEF Settles, Overrules, Misplaced, OnRail
    <3>2. ASSUME NEW t, VoteSettles(t) PROVE VoteSettles(t)'
      BY <3>2 DEF VoteSettles, Voting, Misvoted, VoteOnRail, Cached
    <3> QED BY <3>1, <3>2 DEF AllSettles
  <2> QED BY <1>1, <2>1, <2>2, <2>3
<1> QED BY <1>3, <1>4, <1>5, <1>6, <1>7, <1>8 DEF ViewerNext, Changes

THEOREM ViewerInvariant == ViewerSpec => []ViewerInv
<1>1. ViewerInit => ViewerInv
  BY InitViewer
<1>2. ViewerInv /\ [ViewerNext]_viewerVars => ViewerInv'
  BY ViewerKept
<1> QED BY <1>1, <1>2, PTL DEF ViewerSpec

\* Once all is answered, the rail shows whatever the reader changed last and each vote as
\* the server has them, unless an answer was overtaken or a request failed.
THEOREM RailShowsWhatIChanged == ViewerSpec => []RailShowsMyChanges
<1>1. ViewerInv => RailShowsMyChanges
  <2> SUFFICES ASSUME ViewerInv, Quiet, inOrder, ~failed
               PROVE  VotesShown /\ \A t \in mine : Placed(t)
    BY DEF RailShowsMyChanges
  <2>1. Loading /\ AllSettles /\ PageShape
    BY DEF ViewerInv
  <2>2. \A r \in Requests : request[r].pc = "none"
    BY DEF Quiet
  <2>3. resolvedThreads # Unset \/ filter = "open"
    BY <2>1, <2>2 DEF Loading
  <2>4. ASSUME NEW t \in mine PROVE Placed(t)
    <3>1. OnRail(t)
      BY <2>1, <2>2 DEF AllSettles, Settles, Overrules
    <3> QED BY <2>3, <3>1 DEF OnRail, Placed, Cached
  <2>5. ASSUME NEW l \in threads \cup Cached, status[l[1]] # "deleted" PROVE l[2] = voted[l[1]]
    <3>1. l[1] \in Threads
      BY <2>1 DEF PageShape, Cached, Listed
    <3>2. VoteSettles(l[1])
      BY <2>1, <2>5, <3>1 DEF AllSettles
    <3>3. VoteOnRail(l[1])
      BY <2>2, <3>2 DEF VoteSettles, Voting
    <3> QED BY <3>3 DEF VoteOnRail
  <2> QED BY <2>4, <2>5 DEF VotesShown
<1> QED BY <1>1, ViewerInvariant, PTL

\* Every variable of the page has its type.
THEOREM ViewerTypesHold == ViewerSpec => []ViewerTypeOK
<1>1. ViewerInv => ViewerTypeOK
  BY DEF ViewerInv, PageShape, ViewerTypeOK, PageRequest, Changes, Loads
<1> QED BY <1>1, ViewerInvariant, PTL

-----------------------------------------------------------------------------
(* The home screen: a listing of the overview, page by page. *)

\* A row with the key that the overview compares.
KeyOf(r) == <<r[1], Truncated(r[2])>>

Ahead(r, s) == After(KeyOf(r), KeyOf(s))

\* The rows still to be listed.
Rest(rows, cursor) == {r \in rows : cursor = <<>> \/ After(cursor, KeyOf(r))}

PlaceIn(rest, r) == Cardinality({s \in rest : Ahead(s, r)}) + 1

PageSize(rest, limit) == IF Cardinality(rest) < limit THEN Cardinality(rest) ELSE limit

RowsShown(rest, limit) ==
  [i \in 1 .. PageSize(rest, limit) |-> CHOOSE r \in rest : PlaceIn(rest, r) = i]

LEMMA OverviewPage ==
  ASSUME NEW rows, NEW cursor, NEW limit, NEW rest, rest = Rest(rows, cursor)
  PROVE  overviewPage(rows, cursor, limit) =
           [rows |-> RowsShown(rest, limit),
            next |-> IF Cardinality(rest) > limit THEN KeyOf(RowsShown(rest, limit)[limit]) ELSE <<>>]
  BY DEF overviewPage, PageOf, Rest, RowsShown, PlaceIn, PageSize, KeyOf, Ahead, encodeCursor

\* Rows as a table has them: stamped, and each with an id of its own.
Table(rows) ==
  /\ rows \subseteq Nat \X Nat /\ IsFiniteSet(rows)
  /\ \A r, s \in rows : r[1] = s[1] => r = s

LEMMA KeysCompare ==
  ASSUME NEW r \in Nat \X Nat
  PROVE  KeyOf(r) \in Nat \X Nat /\ KeyOf(r)[1] = r[1] /\ KeyOf(r) # <<>>
<1>1. Truncated(r[2]) \in Nat
  <2>1. \A n, m \in Nat : m # 0 => n \div m \in Nat
    OBVIOUS
  <2>2. \A n, m \in Nat : m * n \in Nat
    OBVIOUS
  <2> QED BY <2>1, <2>2, KeysetAssumption DEF Truncated
<1> QED BY <1>1 DEF KeyOf

LEMMA AfterOrders ==
  /\ \A a \in Nat \X Nat : ~After(a, a)
  /\ \A a, b, c \in Nat \X Nat : After(a, b) /\ After(b, c) => After(a, c)
  /\ \A a, b \in Nat \X Nat : a[1] # b[1] => After(a, b) \/ After(b, a)
  BY DEF After, Before

LEMMA AheadOrders ==
  ASSUME NEW rows, Table(rows)
  PROVE  /\ \A r \in rows : ~Ahead(r, r)
         /\ \A r, s, t \in rows : Ahead(r, s) /\ Ahead(s, t) => Ahead(r, t)
         /\ \A r, s \in rows : r # s => Ahead(r, s) \/ Ahead(s, r)
<1>1. \A r \in rows : KeyOf(r) \in Nat \X Nat /\ KeyOf(r)[1] = r[1]
  BY KeysCompare DEF Table
<1> QED BY <1>1, AfterOrders DEF Ahead, Table

\* Each row has a place of its own, and none is free.
LEMMA Places ==
  ASSUME NEW rest, Table(rest)
  PROVE  /\ Cardinality(rest) \in Nat
         /\ \A r \in rest : PlaceIn(rest, r) \in 1 .. Cardinality(rest)
         /\ \A r, s \in rest : Ahead(r, s) => PlaceIn(rest, r) < PlaceIn(rest, s)
         /\ \A i \in 1 .. Cardinality(rest) : \E r \in rest : PlaceIn(rest, r) = i
<1> DEFINE Above(r) == {s \in rest : Ahead(s, r)}
           n == Cardinality(rest)
<1>1. IsFiniteSet(rest) /\ n \in Nat
  BY FS_CardinalityType DEF Table
<1>2. \A r \in rest : Above(r) \in SUBSET rest /\ r \notin Above(r)
  BY AheadOrders
<1>3. \A r \in rest : IsFiniteSet(Above(r)) /\ Cardinality(Above(r)) \in Nat
  BY <1>1, <1>2, FS_Subset, FS_CardinalityType
<1>4. ASSUME NEW r \in rest PROVE PlaceIn(rest, r) \in 1 .. n
  <2>1. Cardinality(Above(r)) <= n /\ (n = Cardinality(Above(r)) => rest = Above(r))
    BY <1>1, <1>2, FS_Subset
  <2>2. Cardinality(Above(r)) < n
    BY <1>1, <1>2, <1>3, <2>1
  <2>3. PlaceIn(rest, r) = Cardinality(Above(r)) + 1
    BY DEF PlaceIn
  <2> HIDE DEF Above, n
  <2> QED BY <1>1, <1>3, <2>2, <2>3
<1>5. ASSUME NEW r \in rest, NEW s \in rest, Ahead(r, s)
      PROVE  PlaceIn(rest, r) < PlaceIn(rest, s)
  <2>1. Above(r) \in SUBSET Above(s) /\ r \in Above(s) /\ r \notin Above(r)
    BY <1>5, AheadOrders
  <2>2. Cardinality(Above(r)) <= Cardinality(Above(s))
        /\ (Cardinality(Above(s)) = Cardinality(Above(r)) => Above(s) = Above(r))
    BY <1>3, <2>1, FS_Subset
  <2>3. PlaceIn(rest, r) = Cardinality(Above(r)) + 1 /\ PlaceIn(rest, s) = Cardinality(Above(s)) + 1
    BY DEF PlaceIn
  <2>4. Above(s) # Above(r)
    BY <2>1
  <2> HIDE DEF Above
  <2> QED BY <1>3, <2>2, <2>3, <2>4
<1>6. ASSUME NEW i \in 1 .. n PROVE \E r \in rest : PlaceIn(rest, r) = i
  <2> DEFINE f == [r \in rest |-> PlaceIn(rest, r)]
  <2>1. f \in Injection(rest, 1 .. n)
    <3>1. f \in [rest -> 1 .. n]
      BY <1>4
    <3>2. \A r, s \in rest : f[r] = f[s] => r = s
      <4> SUFFICES ASSUME NEW r \in rest, NEW s \in rest, PlaceIn(rest, r) = PlaceIn(rest, s), r # s
                   PROVE  FALSE
        OBVIOUS
      <4>1. PlaceIn(rest, r) \in Nat /\ PlaceIn(rest, s) \in Nat
        BY <1>4
      <4>2. PlaceIn(rest, r) < PlaceIn(rest, s) \/ PlaceIn(rest, s) < PlaceIn(rest, r)
        BY <1>5, AheadOrders
      <4> QED BY <4>1, <4>2
    <3> HIDE DEF f
    <3>3. DOMAIN f = rest
      BY <3>1
    <3> QED BY <3>1, <3>2, <3>3 DEF Injection, IsInjective
  <2>2. IsFiniteSet(1 .. n) /\ Cardinality(1 .. n) = n
    BY <1>1, FS_Interval
  <2>3. f \in Surjection(rest, 1 .. n)
    <3> HIDE DEF f
    <3> QED BY <2>1, <2>2, FS_Injection
  <2>4. PICK r \in rest : f[r] = i
    BY <2>3 DEF Surjection
  <2> QED BY <2>4
<1> QED BY <1>1, <1>4, <1>5, <1>6

LEMMA ShownInPlace ==
  ASSUME NEW rest, Table(rest), NEW limit \in Nat
  PROVE  /\ PageSize(rest, limit) \in Nat /\ PageSize(rest, limit) <= Cardinality(rest)
         /\ DOMAIN RowsShown(rest, limit) = 1 .. PageSize(rest, limit)
         /\ \A i \in 1 .. PageSize(rest, limit) :
              /\ RowsShown(rest, limit)[i] \in rest
              /\ PlaceIn(rest, RowsShown(rest, limit)[i]) = i
<1>1. PageSize(rest, limit) \in Nat /\ PageSize(rest, limit) <= Cardinality(rest)
  BY Places DEF PageSize
<1>2. \A i \in 1 .. PageSize(rest, limit) : i \in 1 .. Cardinality(rest)
  BY <1>1, Places
<1>3. ASSUME NEW i \in 1 .. PageSize(rest, limit)
      PROVE  /\ RowsShown(rest, limit)[i] \in rest
             /\ PlaceIn(rest, RowsShown(rest, limit)[i]) = i
  <2>1. \E r \in rest : PlaceIn(rest, r) = i
    BY <1>2, Places
  <2>2. RowsShown(rest, limit)[i] = CHOOSE r \in rest : PlaceIn(rest, r) = i
    BY DEF RowsShown
  <2> QED BY <2>1, <2>2
<1> QED BY <1>1, <1>3 DEF RowsShown

Once(x, s) == \E i \in DOMAIN s : s[i] = x /\ \A j \in DOMAIN s : s[j] = x => j = i
Never(x, s) == \A i \in DOMAIN s : s[i] # x

\* A page shows each row once that follows its cursor and does not follow the next one.
LEMMA PageShows ==
  ASSUME NEW rows, Table(rows), NEW cursor, NEW limit \in Nat \ {0},
         NEW page, page = overviewPage(rows, cursor, limit)
  PROVE  /\ page.rows \in Seq(rows)
         /\ \A r \in rows :
              IF /\ cursor = <<>> \/ After(cursor, KeyOf(r))
                 /\ page.next = <<>> \/ ~After(page.next, KeyOf(r))
              THEN Once(r, page.rows) ELSE Never(r, page.rows)
         /\ \/ page.next = <<>>
            \/ \E r \in rows : /\ cursor = <<>> \/ After(cursor, KeyOf(r))
                               /\ page.next = KeyOf(r)
<1> DEFINE rest == Rest(rows, cursor)
           shown == RowsShown(rest, limit)
           n == Cardinality(rest)
           m == PageSize(rest, limit)
<1>1. rest \subseteq rows /\ Table(rest)
  <2>1. rest \in SUBSET rows
    BY DEF Rest
  <2>2. IsFiniteSet(rest)
    BY <2>1, FS_Subset DEF Table
  <2> QED BY <2>1, <2>2 DEF Table
<1>2. page.rows = shown /\ page.next = IF n > limit THEN KeyOf(shown[limit]) ELSE <<>>
  BY OverviewPage
<1>3. /\ m \in Nat /\ m <= n /\ DOMAIN shown = 1 .. m
      /\ \A i \in 1 .. m : shown[i] \in rest /\ PlaceIn(rest, shown[i]) = i
  BY <1>1, ShownInPlace
<1>4. /\ n \in Nat
      /\ \A r \in rest : PlaceIn(rest, r) \in 1 .. n
      /\ \A r, s \in rest : Ahead(r, s) => PlaceIn(rest, r) < PlaceIn(rest, s)
  BY <1>1, Places
<1>5. m = IF n < limit THEN n ELSE limit
  BY DEF PageSize
<1>6. shown = [i \in 1 .. m |-> shown[i]]
  BY DEF RowsShown
<1>7. \A r \in rest : KeyOf(r) # <<>>
  BY <1>1, KeysCompare DEF Table
<1>8. \A r, s \in rest : PlaceIn(rest, r) = PlaceIn(rest, s) => r = s
  <2> SUFFICES ASSUME NEW r \in rest, NEW s \in rest, PlaceIn(rest, r) = PlaceIn(rest, s), r # s
               PROVE  FALSE
    OBVIOUS
  <2>1. PlaceIn(rest, r) < PlaceIn(rest, s) \/ PlaceIn(rest, s) < PlaceIn(rest, r)
    BY <1>1, <1>4, AheadOrders
  <2>2. PlaceIn(rest, r) \in Nat /\ PlaceIn(rest, s) \in Nat
    BY <1>4
  <2> QED BY <2>1, <2>2
<1> HIDE DEF shown, n, m, rest
<1>9. page.rows \in Seq(rows)
  <2>1. shown \in [1 .. m -> rows]
    BY <1>1, <1>3, <1>6
  <2> QED BY <1>2, <1>3, <2>1
  \* Whether a row that is to come has its place on this page.
<1>10. ASSUME NEW r \in rest
       PROVE  (page.next = <<>> \/ ~After(page.next, KeyOf(r))) <=> PlaceIn(rest, r) <= m
  <2>1. CASE n > limit
    <3>1. m = limit /\ limit \in 1 .. m /\ shown[limit] \in rest /\ PlaceIn(rest, shown[limit]) = limit
      BY <1>3, <1>4, <1>5, <2>1
    <3>2. page.next = KeyOf(shown[limit]) /\ page.next # <<>>
      BY <1>2, <1>7, <2>1, <3>1
    <3>3. After(page.next, KeyOf(r)) <=> Ahead(shown[limit], r)
      BY <3>2 DEF Ahead
    <3>4. CASE Ahead(shown[limit], r)
      <4>1. limit < PlaceIn(rest, r)
        BY <1>4, <3>1, <3>4
      <4>2. PlaceIn(rest, r) \in Nat
        BY <1>4
      <4> QED BY <3>1, <3>2, <3>3, <3>4, <4>1, <4>2
    <3>5. CASE ~Ahead(shown[limit], r)
      <4>1. r = shown[limit] \/ Ahead(r, shown[limit])
        BY <1>1, <3>1, <3>5, AheadOrders
      <4>2. PlaceIn(rest, r) <= limit
        BY <1>4, <3>1, <4>1
      <4> QED BY <3>1, <3>3, <3>5, <4>2
    <3> QED BY <3>4, <3>5
  <2>2. CASE ~(n > limit)
    <3>1. m = n /\ page.next = <<>>
      BY <1>2, <1>3, <1>4, <1>5, <2>2
    <3> QED BY <1>4, <3>1
  <2> QED BY <2>1, <2>2
<1>11. ASSUME NEW r \in rest, PlaceIn(rest, r) <= m PROVE Once(r, shown)
  <2> DEFINE i == PlaceIn(rest, r)
  <2>1. i \in 1 .. m
    BY <1>3, <1>4, <1>11
  <2>2. shown[i] = r
    BY <1>3, <1>8, <2>1
  <2>3. \A j \in 1 .. m : shown[j] = r => j = i
    BY <1>3
  <2> QED BY <1>3, <2>1, <2>2, <2>3 DEF Once
<1>12. ASSUME NEW r \in rows, r \notin rest \/ ~(PlaceIn(rest, r) <= m) PROVE Never(r, shown)
  BY <1>3, <1>12 DEF Never
<1>13. \A r \in rows : r \in rest <=> (cursor = <<>> \/ After(cursor, KeyOf(r)))
  BY DEF rest, Rest
<1>14. ASSUME NEW r \in rows
       PROVE  IF /\ cursor = <<>> \/ After(cursor, KeyOf(r))
                 /\ page.next = <<>> \/ ~After(page.next, KeyOf(r))
              THEN Once(r, page.rows) ELSE Never(r, page.rows)
  BY <1>2, <1>10, <1>11, <1>12, <1>13
<1>15. \/ page.next = <<>>
       \/ \E r \in rows : /\ cursor = <<>> \/ After(cursor, KeyOf(r))
                          /\ page.next = KeyOf(r)
  <2>1. CASE n > limit
    <3>1. shown[limit] \in rest
      BY <1>3, <1>4, <1>5, <2>1
    <3> QED BY <1>1, <1>2, <1>13, <2>1, <3>1
  <2> QED BY <1>2, <2>1
<1> QED BY <1>9, <1>14, <1>15
-----------------------------------------------------------------------------
\* Whether a document comes after a cursor.
Past(cursor, d) == After(cursor, KeyOf(<<d, document[d].at>>))

Cursors == {<<>>} \cup (Nat \X Nat)

Pages == [rows : Seq(Docs \X Nat), next : Cursors]

Fetch ==
  [pc : {"none", "sent", "answered"}, more : BOOLEAN, lane : Lanes, cursor : Cursors,
   page : Pages \cup {None}]

ScreenShape ==
  /\ lane \in Lanes
  /\ listed \in Seq(Docs)
  /\ nextCursor \in Cursors
  /\ fetch \in [Fetches -> Fetch]
  /\ \A f \in Fetches : fetch[f].pc = "answered" => fetch[f].page \in Pages

\* So far each document of the lane is listed once up to the cursor, and no other.
SoFar ==
  \A d \in Docs \ touched :
    IF InLane(d, lane) /\ (nextCursor = <<>> \/ ~Past(nextCursor, d))
    THEN Once(d, listed) ELSE Never(d, listed)

\* A page has the documents of the lane between its cursor and the next one.
PageFits(page, cursor) ==
  /\ \A d \in Docs \ touched :
       IF /\ InLane(d, lane)
          /\ cursor = <<>> \/ Past(cursor, d)
          /\ page.next = <<>> \/ ~Past(page.next, d)
       THEN Once(d, Ids(page.rows)) ELSE Never(d, Ids(page.rows))
  /\ page.next = <<>> \/ cursor = <<>> \/ After(cursor, page.next)

\* A request of the only listing there is.
Continues(q) ==
  /\ q.lane = lane
  /\ q.more => nextCursor # <<>> /\ q.cursor = nextCursor /\ SoFar
  /\ ~q.more => q.cursor = <<>>
  /\ q.pc = "answered" => PageFits(q.page, q.cursor)

Listing ==
  /\ \A f, g \in Fetches : fetch[f].pc # "none" /\ fetch[g].pc # "none" => f = g
  /\ \A f \in Fetches : fetch[f].pc # "none" => Continues(fetch[f])
  /\ Alone => SoFar

ListInv == CapsInv /\ ScreenShape /\ (steady => Listing)

LEMMA RowsAreTables ==
  ASSUME document \in [Docs -> Document], NEW l
  PROVE  /\ Table(Rows(l))
         /\ \A r \in Rows(l) : r[1] \in Docs /\ r[2] = document[r[1]].at /\ InLane(r[1], l)
         /\ \A d \in Docs : InLane(d, l) <=> <<d, document[d].at>> \in Rows(l)
<1> DEFINE rows == Rows(l)
<1>1. \A d \in Docs : d \in Nat /\ document[d].at \in Nat
  BY WorkspaceAssumption DEF Document
<1>2. \A r \in rows : \E d \in Docs : r = <<d, document[d].at>> /\ InLane(d, l)
  BY DEF Rows
<1>3. \A d \in Docs : InLane(d, l) <=> <<d, document[d].at>> \in rows
  BY DEF Rows
<1> HIDE DEF rows
<1>4. \A r \in rows : r[1] \in Docs /\ r[2] = document[r[1]].at /\ InLane(r[1], l)
  BY <1>2
<1>5. rows \subseteq Nat \X Nat
  BY <1>1, <1>2
<1>6. \A r, s \in rows : r[1] = s[1] => r = s
  BY <1>2
<1>7. IsFiniteSet(rows)
  <2> DEFINE f == [r \in rows |-> r[1]]
  <2>1. f \in [rows -> Docs] /\ DOMAIN f = rows
    BY <1>4
  <2>2. \A r, s \in rows : f[r] = f[s] => r = s
    BY <1>6
  <2> HIDE DEF f
  <2>3. f \in Injection(rows, Docs)
    BY <2>1, <2>2 DEF Injection, IsInjective
  <2> QED BY <2>3, FS_Injection, WorkspaceAssumption
<1> QED BY <1>3, <1>4, <1>5, <1>6, <1>7 DEF Table, rows

\* What the server answers, for a lane as it is.
LEMMA OverviewShows ==
  ASSUME document \in [Docs -> Document], NEW l, NEW cursor \in Cursors,
         NEW page, page = homeOverview(l, cursor)
  PROVE  /\ page \in Pages
         /\ Ids(page.rows) \in Seq(Docs)
         /\ \A d \in Docs :
              IF /\ InLane(d, l)
                 /\ cursor = <<>> \/ Past(cursor, d)
                 /\ page.next = <<>> \/ ~Past(page.next, d)
              THEN Once(d, Ids(page.rows)) ELSE Never(d, Ids(page.rows))
         /\ page.next = <<>> \/ cursor = <<>> \/ After(cursor, page.next)
<1>1. PICK rows : rows = Rows(l)
  OBVIOUS
<1>2. /\ Table(rows)
      /\ \A r \in rows : r[1] \in Docs /\ r[2] = document[r[1]].at /\ InLane(r[1], l)
      /\ \A d \in Docs : InLane(d, l) <=> <<d, document[d].at>> \in rows
  BY <1>1, RowsAreTables
<1>3. page = overviewPage(rows, cursor, Limit) /\ Limit \in Nat \ {0}
  BY <1>1, HomeAssumption DEF homeOverview
<1>4. /\ page.rows \in Seq(rows)
      /\ \A r \in rows :
           IF /\ cursor = <<>> \/ After(cursor, KeyOf(r))
              /\ page.next = <<>> \/ ~After(page.next, KeyOf(r))
           THEN Once(r, page.rows) ELSE Never(r, page.rows)
      /\ \/ page.next = <<>>
         \/ \E r \in rows : /\ cursor = <<>> \/ After(cursor, KeyOf(r))
                            /\ page.next = KeyOf(r)
  BY <1>2, <1>3, PageShows
<1>5. /\ page.next \in Cursors
      /\ page.next = <<>> \/ cursor = <<>> \/ After(cursor, page.next)
  BY <1>2, <1>4, KeysCompare DEF Table, Cursors
<1>6. page \in Pages
  <2>1. rows \subseteq Docs \X Nat
    BY <1>2 DEF Table
  <2>2. page.rows \in Seq(Docs \X Nat)
    BY <1>4, <2>1
  <2>3. page = [rows |-> page.rows, next |-> page.next]
    BY <1>3, OverviewPage
  <2> QED BY <1>5, <2>2, <2>3 DEF Pages
<1>7. /\ DOMAIN Ids(page.rows) = DOMAIN page.rows /\ DOMAIN page.rows = 1 .. Len(page.rows)
      /\ \A i \in DOMAIN page.rows : page.rows[i] \in rows /\ Ids(page.rows)[i] = page.rows[i][1]
  BY <1>4 DEF Ids
<1>8. Ids(page.rows) \in Seq(Docs)
  <2>1. \A i \in 1 .. Len(page.rows) : Ids(page.rows)[i] \in Docs
    BY <1>2, <1>7
  <2>2. Len(page.rows) \in Nat /\ Ids(page.rows) = [i \in 1 .. Len(page.rows) |-> Ids(page.rows)[i]]
    BY <1>4, <1>7 DEF Ids
  <2>3. PICK ids, n : ids = Ids(page.rows) /\ n = Len(page.rows)
    OBVIOUS
  <2>4. n \in Nat /\ ids = [i \in 1 .. n |-> ids[i]] /\ \A i \in 1 .. n : ids[i] \in Docs
    BY <2>1, <2>2, <2>3
  <2>5. ids \in [1 .. n -> Docs]
    BY <2>4
  <2>6. ids \in Seq(Docs)
    BY <2>4, <2>5
  <2> QED BY <2>3, <2>6
<1>9. ASSUME NEW d \in Docs
      PROVE  IF /\ InLane(d, l)
                /\ cursor = <<>> \/ Past(cursor, d)
                /\ page.next = <<>> \/ ~Past(page.next, d)
             THEN Once(d, Ids(page.rows)) ELSE Never(d, Ids(page.rows))
  <2>1. PICK r : r = <<d, document[d].at>>
    OBVIOUS
  <2>2. \A c : Past(c, d) <=> After(c, KeyOf(r))
    BY <2>1 DEF Past
  <2>3. \A s \in rows : s[1] = d => s = r
    BY <1>2, <2>1 DEF Table
  <2>4. r[1] = d
    BY <2>1
  <2>5. Once(r, page.rows) => Once(d, Ids(page.rows))
    BY <1>7, <2>3, <2>4 DEF Once
  <2>6. Never(r, page.rows) \/ r \notin rows => Never(d, Ids(page.rows))
    BY <1>7, <2>3 DEF Never
  <2>7. InLane(d, l) <=> r \in rows
    BY <1>2, <2>1
  <2> QED BY <1>4, <2>2, <2>5, <2>6, <2>7
<1> QED BY <1>5, <1>6, <1>8, <1>9

LEMMA Concatenated ==
  ASSUME NEW s \in Seq(Docs), NEW t \in Seq(Docs), NEW d
  PROVE  /\ s \o t \in Seq(Docs)
         /\ Once(d, s) /\ Never(d, t) => Once(d, s \o t)
         /\ Never(d, s) /\ Once(d, t) => Once(d, s \o t)
         /\ Never(d, s) /\ Never(d, t) => Never(d, s \o t)
<1>1. /\ s \o t \in Seq(Docs) /\ Len(s) \in Nat /\ Len(t) \in Nat
      /\ DOMAIN s = 1 .. Len(s) /\ DOMAIN t = 1 .. Len(t)
      /\ DOMAIN (s \o t) = 1 .. Len(s) + Len(t)
      /\ \A i \in 1 .. Len(s) + Len(t) :
           (s \o t)[i] = IF i <= Len(s) THEN s[i] ELSE t[i - Len(s)]
  OBVIOUS
<1>2. ASSUME NEW i \in DOMAIN (s \o t)
      PROVE  i \in DOMAIN s \/ (i - Len(s) \in DOMAIN t /\ (s \o t)[i] = t[i - Len(s)])
  BY <1>1
<1>3. \A i \in DOMAIN s : i \in DOMAIN (s \o t) /\ (s \o t)[i] = s[i]
  BY <1>1
<1>4. \A i \in DOMAIN t : Len(s) + i \in DOMAIN (s \o t) /\ (s \o t)[Len(s) + i] = t[i]
  BY <1>1
<1>5. ASSUME Once(d, s), Never(d, t) PROVE Once(d, s \o t)
  BY <1>2, <1>3, <1>5 DEF Once, Never
<1>6. ASSUME Never(d, s), Once(d, t) PROVE Once(d, s \o t)
  <2>1. PICK i \in DOMAIN t : t[i] = d /\ \A j \in DOMAIN t : t[j] = d => j = i
    BY <1>6 DEF Once
  <2>2. Len(s) + i \in DOMAIN (s \o t) /\ (s \o t)[Len(s) + i] = d
    BY <1>4, <2>1
  <2>3. ASSUME NEW j \in DOMAIN (s \o t), (s \o t)[j] = d PROVE j = Len(s) + i
    <3>1. j \notin DOMAIN s
      BY <1>3, <1>6, <2>3 DEF Never
    <3>2. j - Len(s) = i
      BY <1>2, <2>1, <2>3, <3>1
    <3> QED BY <1>1, <2>1, <2>3, <3>2
  <2> QED BY <2>2, <2>3 DEF Once
<1>7. ASSUME Never(d, s), Never(d, t) PROVE Never(d, s \o t)
  BY <1>2, <1>3, <1>7 DEF Never
<1> QED BY <1>1, <1>5, <1>6, <1>7

LEMMA NoFetchFits == NoFetch \in Fetch
  BY HomeAssumption DEF NoFetch, Fetch, Cursors

\* What others write takes documents out of what is said, and changes nothing else.
LEMMA WritesKeepListing ==
  ASSUME ListInv, touched' = touched \cup {d \in Docs : document'[d] # document[d]},
         UNCHANGED <<lane, listed, nextCursor, fetch, steady>>
  PROVE  ScreenShape' /\ (steady' => Listing')
<1>1. ScreenShape'
  BY DEF ListInv, ScreenShape
<1>2. \A d \in Docs \ touched' : d \in Docs \ touched /\ document'[d] = document[d]
  OBVIOUS
<1>3. ASSUME NEW d \in Docs \ touched'
      PROVE  /\ InLane(d, lane)' <=> InLane(d, lane)
             /\ \A c : Past(c, d)' <=> Past(c, d)
  BY <1>2 DEF InLane, Live, Past
<1>4. SoFar => SoFar'
  BY <1>2, <1>3 DEF SoFar
<1>5. ASSUME NEW q, Continues(q) PROVE Continues(q)'
  <2>1. ASSUME PageFits(q.page, q.cursor) PROVE PageFits(q.page, q.cursor)'
    BY <1>2, <1>3, <2>1 DEF PageFits
  <2> QED BY <1>4, <1>5, <2>1 DEF Continues
<1>6. Listing => Listing'
  BY <1>4, <1>5 DEF Listing, Alone
<1> QED BY <1>1, <1>6 DEF ListInv

LEMMA OneFetch ==
  ASSUME ScreenShape, NEW f \in Fetches, NEW q \in Fetch,
         q.pc = "answered" => q.page \in Pages, fetch' = [fetch EXCEPT ![f] = q]
  PROVE  /\ fetch' \in [Fetches -> Fetch]
         /\ \A g \in Fetches : fetch'[g].pc = "answered" => fetch'[g].page \in Pages
         /\ \A g \in Fetches : fetch'[g] = IF g = f THEN q ELSE fetch[g]
<1>1. fetch' \in [Fetches -> Fetch]
  BY DEF ScreenShape
<1>2. \A g \in Fetches : fetch'[g] = IF g = f THEN q ELSE fetch[g]
  BY DEF ScreenShape
<1> QED BY <1>1, <1>2 DEF ScreenShape

\* A request that is the only one.
LEMMA OnlyOne ==
  ASSUME ScreenShape, NEW f \in Fetches, NEW q,
         fetch' = [fetch EXCEPT ![f] = q],
         \A g \in Fetches \ {f} : fetch[g].pc = "none",
         q.pc # "none" => Continues(q)', q.pc = "none" => SoFar'
  PROVE  Listing'
<1>1. \A g \in Fetches : fetch'[g] = IF g = f THEN q ELSE fetch[g]
  BY DEF ScreenShape
<1>2. \A g \in Fetches : fetch'[g].pc # "none" => g = f
  BY <1>1
<1>3. \A g \in Fetches : fetch'[g].pc # "none" => Continues(fetch[g])'
  BY <1>1, <1>2
<1>4. Alone' => SoFar'
  BY <1>1 DEF Alone
<1> QED BY <1>2, <1>3, <1>4 DEF Listing

\* A first page is asked for.
LEMMA BeginsListing ==
  ASSUME ListInv, NEW f \in Fetches, (\E l \in Lanes : SelectLane(f, l)) \/ Act(f)
  PROVE  ScreenShape' /\ (steady' => Listing')
<1>1. PICK q : q = [NoFetch EXCEPT !.pc = "sent", !.lane = lane']
  OBVIOUS
<1>2. /\ fetch' = [fetch EXCEPT ![f] = q] /\ lane' \in Lanes /\ steady' = Alone
      /\ UNCHANGED <<listed, nextCursor, touched>> /\ ScreenShape
  BY <1>1 DEF SelectLane, Act, Asks, Unseen, ListInv, ScreenShape
<1>3. /\ q \in Fetch /\ q.pc = "sent" /\ ~q.more /\ q.lane = lane' /\ q.cursor = <<>>
  BY <1>1, <1>2 DEF NoFetch, Fetch, Cursors
<1>4. ScreenShape'
  BY <1>2, <1>3, OneFetch DEF ScreenShape
<1>5. ASSUME steady' PROVE Listing'
  <2>1. \A g \in Fetches : fetch[g].pc = "none"
    BY <1>2, <1>5 DEF Alone
  <2>2. Continues(q)'
    BY <1>3 DEF Continues
  <2> QED BY <1>2, <1>3, <2>1, <2>2, OnlyOne
<1> QED BY <1>4, <1>5

LEMMA MoreListing ==
  ASSUME ListInv, NEW f \in Fetches, loadMore(f), UNCHANGED document
  PROVE  ScreenShape' /\ (steady' => Listing')
<1>1. PICK q : q = [NoFetch EXCEPT !.pc = "sent", !.more = TRUE, !.lane = lane, !.cursor = nextCursor]
  OBVIOUS
<1>2. /\ fetch' = [fetch EXCEPT ![f] = q] /\ steady' = (steady /\ Alone) /\ nextCursor # <<>>
      /\ UNCHANGED <<lane, listed, nextCursor, touched>> /\ ScreenShape
  BY <1>1 DEF loadMore, Asks, Unseen, ListInv
<1>3. /\ q \in Fetch /\ q.pc = "sent" /\ q.more /\ q.lane = lane /\ q.cursor = nextCursor
  BY <1>1, <1>2 DEF NoFetch, Fetch, ScreenShape
<1>4. ScreenShape'
  BY <1>2, <1>3, OneFetch DEF ScreenShape
<1>5. ASSUME steady' PROVE Listing'
  <2>1. steady /\ Alone
    BY <1>2, <1>5
  <2>2. (\A g \in Fetches : fetch[g].pc = "none") /\ SoFar
    BY <2>1 DEF Alone, ListInv, Listing
  <2>3. SoFar'
    BY <1>2, <2>2 DEF SoFar, InLane, Live, Past
  <2>4. Continues(q)'
    BY <1>2, <1>3, <2>3 DEF Continues
  <2> QED BY <1>2, <1>3, <2>2, <2>4, OnlyOne
<1> QED BY <1>4, <1>5

LEMMA ServesListing ==
  ASSUME ListInv, NEW f \in Fetches, Serve(f), UNCHANGED document
  PROVE  ScreenShape' /\ (steady' => Listing')
<1>1. PICK p \in Fetch : p = fetch[f]
  BY DEF ListInv, ScreenShape
<1>2. PICK page : page = homeOverview(p.lane, p.cursor)
  OBVIOUS
<1>3. PICK q : q = [p EXCEPT !.pc = "answered", !.page = page]
  OBVIOUS
<1>4. /\ ScreenShape /\ document \in [Docs -> Document] /\ p.cursor \in Cursors /\ p.pc = "sent"
  BY <1>1 DEF ListInv, CapsInv, WorkspaceShape, Fetch, Serve
<1>5. /\ fetch' = [fetch EXCEPT ![f] = q] /\ touched' = IF p.more THEN touched ELSE {}
      /\ UNCHANGED <<lane, listed, nextCursor, steady>>
  BY <1>1, <1>2, <1>3, <1>4 DEF Serve, ScreenShape, Fetch
<1>6. /\ page \in Pages
      /\ \A d \in Docs :
           IF /\ InLane(d, p.lane)
              /\ p.cursor = <<>> \/ Past(p.cursor, d)
              /\ page.next = <<>> \/ ~Past(page.next, d)
           THEN Once(d, Ids(page.rows)) ELSE Never(d, Ids(page.rows))
      /\ page.next = <<>> \/ p.cursor = <<>> \/ After(p.cursor, page.next)
  BY <1>2, <1>4, OverviewShows
<1>7. /\ q \in Fetch /\ q.pc = "answered" /\ q.page = page /\ q.more = p.more
      /\ q.lane = p.lane /\ q.cursor = p.cursor
  BY <1>3, <1>6 DEF Fetch
<1>8. ScreenShape'
  BY <1>4, <1>5, <1>6, <1>7, OneFetch DEF ScreenShape
<1>9. ASSUME steady' PROVE Listing'
  <2>1. Listing
    BY <1>5, <1>9 DEF ListInv
  <2>2. (\A g \in Fetches \ {f} : fetch[g].pc = "none") /\ Continues(p)
    BY <1>1, <1>4, <2>1 DEF Listing
  <2>3. \A d \in Docs : \A l, c : (InLane(d, l)' <=> InLane(d, l)) /\ (Past(c, d)' <=> Past(c, d))
    BY DEF InLane, Live, Past
  <2>4. q.more => SoFar'
    BY <1>5, <1>7, <2>2, <2>3 DEF SoFar, Continues
  <2>5. PageFits(page, p.cursor)'
    BY <1>5, <1>6, <2>2, <2>3 DEF PageFits, Continues
  <2>6. Continues(q)'
    BY <1>5, <1>7, <2>2, <2>4, <2>5 DEF Continues
  <2> QED BY <1>4, <1>5, <1>7, <2>2, <2>6, OnlyOne
<1> QED BY <1>8, <1>9

LEMMA DeliversListing ==
  ASSUME ListInv, NEW f \in Fetches, Deliver(f), UNCHANGED document
  PROVE  ScreenShape' /\ (steady' => Listing')
<1>1. PICK q \in Fetch : q = fetch[f]
  BY DEF ListInv, ScreenShape
<1>2. /\ q.pc = "answered" /\ q.page \in Pages /\ ScreenShape
      /\ fetch' = [fetch EXCEPT ![f] = NoFetch] /\ UNCHANGED <<lane, touched, steady>>
      /\ listed' = (IF q.more THEN listed \o Ids(q.page.rows) ELSE Ids(q.page.rows))
      /\ nextCursor' = q.page.next
  BY <1>1 DEF Deliver, ListInv, ScreenShape
<1>3. Ids(q.page.rows) \in Seq(Docs) /\ q.page.next \in Cursors
  <2>1. q.page.rows \in Seq(Docs \X Nat) /\ q.page.next \in Cursors
    BY <1>2 DEF Pages
  <2>2. Ids(q.page.rows) \in Seq(Docs)
    BY <2>1 DEF Ids
  <2> QED BY <2>1, <2>2
<1>4. listed \in Seq(Docs) /\ listed' \in Seq(Docs)
  BY <1>2, <1>3, Concatenated DEF ScreenShape
<1>5. ScreenShape'
  <2>1. NoFetch.pc = "none"
    BY DEF NoFetch
  <2> QED BY <1>2, <1>3, <1>4, <2>1, NoFetchFits, OneFetch DEF ScreenShape
<1>6. ASSUME steady' PROVE Listing'
  <2>1. Listing
    BY <1>2, <1>6 DEF ListInv
  <2>2. (\A g \in Fetches \ {f} : fetch[g].pc = "none") /\ Continues(q)
    BY <1>1, <1>2, <2>1 DEF Listing
  <2>3. \A d \in Docs : \A c : (InLane(d, lane)' <=> InLane(d, lane)) /\ (Past(c, d)' <=> Past(c, d))
    BY <1>2 DEF InLane, Live, Past
  <2>4. ASSUME NEW d \in Docs \ touched
        PROVE  IF InLane(d, lane) /\ (q.page.next = <<>> \/ ~Past(q.page.next, d))
               THEN Once(d, listed') ELSE Never(d, listed')
    <3>1. IF /\ InLane(d, lane)
             /\ q.cursor = <<>> \/ Past(q.cursor, d)
             /\ q.page.next = <<>> \/ ~Past(q.page.next, d)
          THEN Once(d, Ids(q.page.rows)) ELSE Never(d, Ids(q.page.rows))
      BY <1>2, <2>2 DEF Continues, PageFits
    <3>2. CASE ~q.more
      BY <1>2, <2>2, <3>1, <3>2 DEF Continues
    <3>3. CASE q.more
      <4>1. /\ q.cursor = nextCursor /\ nextCursor # <<>>
            /\ IF InLane(d, lane) /\ ~Past(q.cursor, d) THEN Once(d, listed) ELSE Never(d, listed)
        BY <2>2, <3>3 DEF Continues, SoFar
      <4>2. q.page.next # <<>> /\ Past(q.page.next, d) => Past(q.cursor, d)
        <5> SUFFICES ASSUME q.page.next # <<>>, Past(q.page.next, d) PROVE Past(q.cursor, d)
          OBVIOUS
        <5>1. q.page.next \in Nat \X Nat /\ q.cursor \in Nat \X Nat /\ After(q.cursor, q.page.next)
          BY <1>2, <1>3, <2>2, <4>1 DEF Cursors, Fetch, Continues, PageFits
        <5>2. d \in Nat /\ document[d].at \in Nat
          BY WorkspaceAssumption DEF ListInv, CapsInv, WorkspaceShape, Document
        <5>3. KeyOf(<<d, document[d].at>>) \in Nat \X Nat
          BY <5>2, KeysCompare
        <5> QED BY <5>1, <5>3, AfterOrders DEF Past
      <4>3. listed' = listed \o Ids(q.page.rows)
        BY <1>2, <3>3
      <4> QED BY <1>3, <1>4, <3>1, <4>1, <4>2, <4>3, Concatenated
    <3> QED BY <3>2, <3>3
  <2>5. SoFar'
    BY <1>2, <2>3, <2>4 DEF SoFar
  <2> QED BY <1>2, <2>2, <2>5, OnlyOne DEF NoFetch
<1> QED BY <1>5, <1>6

LEMMA FailsListing ==
  ASSUME ListInv, NEW f \in Fetches, Fail(f)
  PROVE  ScreenShape' /\ ~steady'
<1>1. NoFetch.pc = "none"
  BY DEF NoFetch
<1>2. /\ fetch' = [fetch EXCEPT ![f] = NoFetch] /\ UNCHANGED <<lane, listed, nextCursor>> /\ ~steady'
      /\ ScreenShape
  BY DEF Fail, Unseen, ListInv
<1> QED BY <1>1, <1>2, NoFetchFits, OneFetch DEF ScreenShape

THEOREM ListingInvariant == HomeSpec => []ListInv
<1>1. HomeInit => ListInv
  <2> SUFFICES ASSUME HomeInit PROVE ListInv
    OBVIOUS
  <2>1. CapsInv
    BY InitCaps DEF HomeInit
  <2>2. ScreenShape
    <3>1. NoFetch.pc = "none" /\ <<>> \in Seq(Docs)
      BY DEF NoFetch
    <3> QED BY <3>1, NoFetchFits, HomeAssumption DEF HomeInit, ScreenShape, Cursors
  <2> QED BY <2>1, <2>2 DEF HomeInit, ListInv
<1>2. ListInv /\ [HomeNext]_<<workspaceVars, homeVars>> => ListInv'
  <2> SUFFICES ASSUME ListInv, [HomeNext]_<<workspaceVars, homeVars>> PROVE ListInv'
    OBVIOUS
  <2>1. CapsInv'
    BY WorkspaceKeepsCaps, LookingKeepsCaps DEF HomeNext, workspaceVars, ListInv
  <2>2. CASE /\ touched' = touched \cup {d \in Docs : document'[d] # document[d]}
             /\ UNCHANGED <<lane, listed, nextCursor, fetch, steady>>
    BY <2>1, <2>2, WritesKeepListing DEF ListInv
  <2>3. ASSUME NEW f \in Fetches, ScreenNext(f), UNCHANGED document
        PROVE  ScreenShape' /\ (steady' => Listing')
    BY <2>3, BeginsListing, MoreListing, ServesListing, DeliversListing, FailsListing DEF ScreenNext
  <2>4. CASE UNCHANGED <<workspaceVars, homeVars>>
    <3>1. touched' = touched \cup {d \in Docs : document'[d] # document[d]}
      BY <2>4 DEF workspaceVars, homeVars
    <3> QED BY <2>1, <2>4, <3>1, WritesKeepListing DEF ListInv, homeVars
  <2> QED BY <2>1, <2>2, <2>3, <2>4 DEF HomeNext, ListInv
<1> QED BY <1>1, <1>2, PTL DEF HomeSpec

\* Who pages a lane to its end sees each document of it once and no other, except those
\* written meanwhile, unless requests overlapped or failed.
THEOREM LanesAreListedOnce == HomeSpec => []ListedOnce
<1>1. ListInv => ListedOnce
  <2> SUFFICES ASSUME ListInv, steady, Alone, nextCursor = <<>>, NEW d \in Docs \ touched
               PROVE  Cardinality({i \in DOMAIN listed : listed[i] = d})
                        = (IF InLane(d, lane) THEN 1 ELSE 0)
    BY DEF ListedOnce
  <2> DEFINE places == {i \in DOMAIN listed : listed[i] = d}
  <2>1. IF InLane(d, lane) THEN Once(d, listed) ELSE Never(d, listed)
    BY DEF ListInv, Listing, SoFar
  <2>2. CASE InLane(d, lane)
    <3>1. PICK i \in DOMAIN listed : listed[i] = d /\ \A j \in DOMAIN listed : listed[j] = d => j = i
      BY <2>1, <2>2 DEF Once
    <3>2. places = {i}
      BY <3>1
    <3> QED BY <2>2, <3>2, FS_Singleton
  <2>3. CASE ~InLane(d, lane)
    <3>1. places = {}
      BY <2>1, <2>3 DEF Never
    <3> QED BY <2>3, <3>1, FS_EmptySet
  <2> QED BY <2>2, <2>3
<1> QED BY <1>1, ListingInvariant, PTL
=============================================================================
