---------------------------- MODULE ReviewProofs ----------------------------
(***************************************************************************)
(* What holds of review sign-off and of suggested edits for any number of  *)
(* people, versions, comments and calls, checked by TLAPS.                 *)
(*                                                                         *)
(* The gate is read, the open comments are counted and the approval is     *)
(* inserted in three transactions.  What the last one may rely on is that  *)
(* comments never open again: the ones there were when the gate was read   *)
(* were all resolved when they were counted, and stay so (Owing).          *)
(*                                                                         *)
(* The status is derived from a table of verdicts.  Of a reviewer's newest *)
(* ones, of one millisecond, the one read last counts; a verdict added     *)
(* behind the others therefore counts, or leaves what counted as it was    *)
(* (OneVerdictMore).  A version that has just appeared has none (Filed).   *)
(*                                                                         *)
(* OneDecisionWins of suggestions is not inductive: that the second winner *)
(* finds the suggestion decided takes a call to be about one suggestion    *)
(* and its decision to be none of "open".  AppliedIsTrue needs versions to *)
(* keep their text, i.e. appear only once.                                 *)
(***************************************************************************)
EXTENDS Review, Suggestions, SequenceTheorems, FiniteSetTheorems, WellFoundedInduction,
        TLAPS

-----------------------------------------------------------------------------
(* Review sign-off.                                                         *)

Underway == {"requests", "gate", "count", "create"}

\* Each call that inserted its approval inserted one.
Inserted == {s \in Submissions : submission[s].pc = "done"}

\* A call under way knows whose verdict it is and on which version, owes nothing before it
\* has read the gate, and only comments that were open once.
Owing(s) ==
  /\ submission[s].pc \in Underway =>
       submission[s].reviewer \in Reviewers /\ submission[s].version # 0
  /\ submission[s].pc \in {"requests", "gate"} => submission[s].owed = {}
  /\ \A c \in submission[s].owed : comment[c].status \in {"open", "resolved", "deleted"}

ReviewInv ==
  /\ ReviewTypeOK
  /\ Len(approvals) = Cardinality(Inserted)
  /\ \A s \in Submissions : Owing(s)
  /\ OneActiveRequest
  /\ GateSeesOlderComments

USE DEF Versions, Unwritten, threadVars

-----------------------------------------------------------------------------
LEMMA InsertedFew ==
  IsFiniteSet(Inserted) /\ Cardinality(Inserted) <= Cardinality(Submissions)
  BY FS_Subset, ReviewAssumption DEF Inserted

LEMMA InitInv == Init => ReviewInv
<1> SUFFICES ASSUME Init PROVE ReviewInv
  OBVIOUS
<1> USE DEF Init, ThreadsInit, NotSubmitted
<1>1. Inserted = {}
  BY DEF Inserted
<1>2. Cardinality(Inserted) = 0 /\ Len(approvals) = 0 /\ approvals \in Seq(Approval)
  BY <1>1, FS_EmptySet
<1>3. ReviewTypeOK
  BY <1>2, InsertedFew, ReviewAssumption, MaxVersionAssumption
     DEF ReviewTypeOK, ThreadsTypeOK, SubmissionStates, Verdicts
<1>4. (\A s \in Submissions : Owing(s)) /\ OneActiveRequest /\ GateSeesOlderComments
  BY DEF Owing, Underway, OneActiveRequest, GateSeesOlderComments
<1> QED BY <1>2, <1>3, <1>4 DEF ReviewInv

-----------------------------------------------------------------------------
\* Comments go one way: what was open once is never open again, once it is not.
LEMMA CommentsGoOneWay ==
  ASSUME ThreadsTypeOK, NEW c \in Comments, Comment(c)
  PROVE  /\ ThreadsTypeOK' /\ published' = published /\ current' = current
         /\ \A d \in Comments :
              comment[d].status \in {"open", "resolved", "deleted"} =>
                /\ comment'[d].status \in {"open", "resolved", "deleted"}
                /\ comment'[d].status = "open" => comment[d].status = "open"
<1> USE DEF ThreadsTypeOK
<1>1. CASE DraftComment(c)
  BY <1>1 DEF DraftComment
<1>2. CASE InsertComment(c)
  BY <1>2 DEF InsertComment
<1>3. CASE ResolveComment(c)
  BY <1>3 DEF ResolveComment
<1>4. CASE DeleteComment(c)
  BY <1>4 DEF DeleteComment
<1> QED BY <1>1, <1>2, <1>3, <1>4 DEF Comment

LEMMA VersionsAppear ==
  ASSUME ThreadsTypeOK, NEW v \in Versions, Publish(v)
  PROVE  ThreadsTypeOK' /\ published \subseteq published' /\ comment' = comment
  BY DEF ThreadsTypeOK, Publish

LEMMA SurroundingsKeepInv ==
  ASSUME ReviewInv, Surroundings
  PROVE  ReviewInv'
<1> USE DEF Surroundings
<1>1. ThreadsTypeOK
  BY DEF ReviewInv, ReviewTypeOK
<1>2. /\ ThreadsTypeOK' /\ published \subseteq published'
      /\ \A d \in Comments :
           comment[d].status \in {"open", "resolved", "deleted"} =>
             /\ comment'[d].status \in {"open", "resolved", "deleted"}
             /\ comment'[d].status = "open" => comment[d].status = "open"
  BY <1>1, CommentsGoOneWay, VersionsAppear
<1>3. ReviewTypeOK'
  BY <1>2 DEF ReviewInv, ReviewTypeOK
<1>4. Len(approvals') = Cardinality(Inserted')
  BY DEF ReviewInv, Inserted
<1>5. \A s \in Submissions : submission[s].owed \subseteq Comments
  BY DEF ReviewInv, ReviewTypeOK
<1>6. \A s \in Submissions : Owing(s)'
  BY <1>2, <1>5 DEF ReviewInv, Owing
<1>7. GateSeesOlderComments'
  BY <1>2, <1>5 DEF ReviewInv, Owing, GateSeesOlderComments, OpenComments
<1>8. OneActiveRequest'
  BY DEF ReviewInv, OneActiveRequest
<1> QED BY <1>3, <1>4, <1>6, <1>7, <1>8 DEF ReviewInv

-----------------------------------------------------------------------------
LEMMA AskKeepsInv ==
  ASSUME ReviewInv, NEW a \in Asks, Ask(a)
  PROVE  ReviewInv'
<1>1. UNCHANGED <<threadVars, submission, approvals, gate, ms>>
  BY DEF Ask, AskCheck, AskCreate, Revoke
<1>2. /\ ask' \in [Asks -> [pc : {"idle", "checked", "active", "revoked", "refused"},
                            reviewer : Reviewers \cup {None}]]
      /\ OneActiveRequest'
  <2> USE DEF ReviewInv, ReviewTypeOK, OneActiveRequest, activeReviewerIds
  <2>1. CASE \E r \in Reviewers : AskCheck(a, r)
    BY <2>1 DEF AskCheck
  <2>2. CASE AskCreate(a)
    BY <2>2 DEF AskCreate
  <2>3. CASE Revoke(a)
    BY <2>3 DEF Revoke
  <2> QED BY <2>1, <2>2, <2>3 DEF Ask
<1>3. ReviewTypeOK'
  BY <1>1, <1>2 DEF ReviewInv, ReviewTypeOK, ThreadsTypeOK
<1>4. /\ Len(approvals') = Cardinality(Inserted')
      /\ (\A s \in Submissions : Owing(s)') /\ GateSeesOlderComments'
  BY <1>1 DEF ReviewInv, Inserted, Owing, GateSeesOlderComments, OpenComments
<1> QED BY <1>2, <1>3, <1>4 DEF ReviewInv

LEMMA OthersKeepInv ==
  ASSUME ReviewInv, (\E g \in {"soft", "hard"} : SetGate(g)) \/ Tick \/ UNCHANGED vars
  PROVE  ReviewInv'
<1>1. /\ UNCHANGED <<threadVars, ask, submission, approvals>>
      /\ gate' \in {"soft", "hard"} /\ ms' \in 0 .. MaxMs
  BY ReviewAssumption DEF SetGate, Tick, vars, ReviewInv, ReviewTypeOK
<1>2. ReviewTypeOK'
  BY <1>1 DEF ReviewInv, ReviewTypeOK, ThreadsTypeOK
<1> QED BY <1>1, <1>2 DEF ReviewInv, Inserted, Owing, GateSeesOlderComments, OpenComments,
                          OneActiveRequest

-----------------------------------------------------------------------------
\* A step of one call that inserts nothing.
LEMMA CallKeepsInv ==
  ASSUME ReviewInv, NEW s \in Submissions, UNCHANGED <<threadVars, ask, approvals, gate, ms>>,
         NEW q, submission' = [submission EXCEPT ![s] = q],
         q \in [pc : SubmissionStates \ {"done"}, reviewer : Reviewers \cup {None},
                verdict : Verdicts, version : published \cup {0}, gate : {"soft", "hard"},
                owed : SUBSET Comments],
         submission[s].pc # "done",
         q.pc \in Underway => q.reviewer \in Reviewers /\ q.version # 0,
         q.pc \in {"requests", "gate"} => q.owed = {},
         \A c \in q.owed : comment[c].status \in {"open", "resolved", "deleted"},
         q.pc = "create" => q.owed \cap OpenComments = {}
  PROVE  ReviewInv'
<1>1. ReviewTypeOK'
  BY DEF ReviewInv, ReviewTypeOK, ThreadsTypeOK
<1>2. Inserted' = Inserted
  BY DEF ReviewInv, ReviewTypeOK, Inserted
<1>3. (\A t \in Submissions : Owing(t)') /\ GateSeesOlderComments'
  BY DEF ReviewInv, ReviewTypeOK, Owing, GateSeesOlderComments, OpenComments
<1> QED BY <1>1, <1>2, <1>3 DEF ReviewInv, OneActiveRequest

LEMMA CreateKeepsInv ==
  ASSUME ReviewInv, NEW s \in Submissions, SubmitCreate(s)
  PROVE  ReviewInv'
<1> USE DEF SubmitCreate
<1> DEFINE row == [reviewer |-> submission[s].reviewer, version |-> submission[s].version,
                   verdict |-> submission[s].verdict, ms |-> ms]
<1>1. submission' = [submission EXCEPT ![s] = [NotSubmitted EXCEPT !.pc = "done"]]
  BY DEF SubmissionGoto, NotSubmitted
<1>2. row \in Approval
  <2>1. Owing(s) /\ submission[s].version \in published \cup {0}
    BY DEF ReviewInv, ReviewTypeOK
  <2>2. submission[s].reviewer \in Reviewers /\ submission[s].version \in Versions
    BY <2>1 DEF ReviewInv, ReviewTypeOK, ThreadsTypeOK, Owing, Underway
  <2> QED BY <2>2 DEF ReviewInv, ReviewTypeOK, Approval
<1>3. Inserted' = Inserted \cup {s} /\ s \notin Inserted
  BY <1>1 DEF ReviewInv, ReviewTypeOK, Inserted, NotSubmitted
<1>4. Cardinality(Inserted') = Cardinality(Inserted) + 1
  BY <1>3, InsertedFew, FS_AddElement
<1>5. IsFiniteSet(Inserted') /\ Cardinality(Inserted') <= Cardinality(Submissions)
  <2>1. Inserted' \subseteq Submissions
    BY DEF Inserted
  <2> QED BY <2>1, FS_Subset, ReviewAssumption
<1>6. approvals' \in Seq(Approval) /\ Len(approvals') = Len(approvals) + 1
  <2>1. approvals \in Seq(Approval)
    BY DEF ReviewInv, ReviewTypeOK
  <2> QED BY <1>2, <2>1, AppendProperties
<1>7. Len(approvals') = Cardinality(Inserted')
  BY <1>4, <1>6 DEF ReviewInv
<1>8. submission' \in [Submissions ->
        [pc : SubmissionStates, reviewer : Reviewers \cup {None}, verdict : Verdicts,
         version : published \cup {0}, gate : {"soft", "hard"}, owed : SUBSET Comments]]
  BY <1>1 DEF ReviewInv, ReviewTypeOK, NotSubmitted, SubmissionStates, Verdicts
<1>9. ReviewTypeOK'
  BY <1>5, <1>6, <1>7, <1>8 DEF ReviewInv, ReviewTypeOK, ThreadsTypeOK
<1>10. (\A t \in Submissions : Owing(t)') /\ GateSeesOlderComments'
  BY <1>1 DEF ReviewInv, ReviewTypeOK, Owing, Underway, NotSubmitted, GateSeesOlderComments,
              OpenComments
<1> QED BY <1>7, <1>9, <1>10 DEF ReviewInv, OneActiveRequest

LEMMA SubmitKeepsInv ==
  ASSUME ReviewInv, NEW s \in Submissions, Submit(s)
  PROVE  ReviewInv'
<1> DEFINE Going(label) == IF label = "refused" THEN [NotSubmitted EXCEPT !.pc = label]
                           ELSE [submission[s] EXCEPT !.pc = label]
<1>1. /\ submission[s] \in [pc : SubmissionStates, reviewer : Reviewers \cup {None},
                            verdict : Verdicts, version : published \cup {0},
                            gate : {"soft", "hard"}, owed : SUBSET Comments]
      /\ Owing(s) /\ submission \in [Submissions -> [pc : SubmissionStates,
           reviewer : Reviewers \cup {None}, verdict : Verdicts, version : published \cup {0},
           gate : {"soft", "hard"}, owed : SUBSET Comments]]
      /\ current \in published \cup {0} /\ gate \in {"soft", "hard"}
  BY DEF ReviewInv, ReviewTypeOK, ThreadsTypeOK
<1> USE <1>1 DEF SubmissionStates, Verdicts, NotSubmitted, Underway, Owing
<1>2. CASE \E r \in Reviewers, verdict \in Verdicts : SubmitBegin(s, r, verdict)
  <2>1. PICK r \in Reviewers, verdict \in Verdicts : SubmitBegin(s, r, verdict)
    BY <1>2
  <2> USE <2>1 DEF SubmitBegin
  <2>2. PICK q : q = [pc |-> "requests", reviewer |-> r, verdict |-> verdict,
                      version |-> current, gate |-> "soft", owed |-> {}]
    OBVIOUS
  <2>3. q \in [pc : SubmissionStates \ {"done"}, reviewer : Reviewers \cup {None},
                verdict : Verdicts, version : published \cup {0}, gate : {"soft", "hard"},
                owed : SUBSET Comments]
    BY <2>2
  <2>4. submission' = [submission EXCEPT ![s] = q] /\ submission[s].pc = "idle"
    BY <2>2
  <2>5. q.pc = "requests" /\ q.reviewer \in Reviewers /\ q.version # 0 /\ q.owed = {}
    BY <2>2
  <2> QED BY <2>3, <2>4, <2>5, CallKeepsInv
<1>3. CASE SubmitRequests(s)
  <2> USE <1>3 DEF SubmitRequests, SubmissionGoto
  <2>1. PICK q : q = Going(IF submission[s].reviewer \in activeReviewerIds
                             THEN "gate" ELSE "refused")
    OBVIOUS
  <2>2. submission' = [submission EXCEPT ![s] = q]
    BY <2>1
  <2>3. q \in [pc : SubmissionStates \ {"done"}, reviewer : Reviewers \cup {None},
                verdict : Verdicts, version : published \cup {0}, gate : {"soft", "hard"},
                owed : SUBSET Comments]
    BY <2>1
  <2>4. /\ q.pc \in Underway => q.reviewer \in Reviewers /\ q.version # 0
        /\ q.pc \in {"requests", "gate"} => q.owed = {}
        /\ \A c \in q.owed : comment[c].status \in {"open", "resolved", "deleted"}
        /\ q.pc = "create" => q.owed \cap OpenComments = {}
    BY <2>1
  <2> QED BY <2>2, <2>3, <2>4, CallKeepsInv
<1>4. CASE SubmitGate(s)
  <2> USE <1>4 DEF SubmitGate
  <2>1. PICK q : q = IF submission[s].verdict = "approved" /\ gate = "hard"
                       THEN [submission[s] EXCEPT !.pc = "count", !.gate = gate,
                                                  !.owed = OpenComments]
                       ELSE [submission[s] EXCEPT !.pc = "create", !.gate = gate]
    OBVIOUS
  <2>2. submission' = [submission EXCEPT ![s] = q]
    BY <2>1
  <2>3. q \in [pc : SubmissionStates \ {"done"}, reviewer : Reviewers \cup {None},
                verdict : Verdicts, version : published \cup {0}, gate : {"soft", "hard"},
                owed : SUBSET Comments]
    BY <2>1 DEF OpenComments
  <2>4. /\ q.pc \in Underway => q.reviewer \in Reviewers /\ q.version # 0
        /\ q.pc \in {"requests", "gate"} => q.owed = {}
        /\ \A c \in q.owed : comment[c].status \in {"open", "resolved", "deleted"}
        /\ q.pc = "create" => q.owed \cap OpenComments = {}
    BY <2>1 DEF OpenComments
  <2> QED BY <2>2, <2>3, <2>4, CallKeepsInv
<1>5. CASE SubmitCount(s)
  <2> USE <1>5 DEF SubmitCount, SubmissionGoto
  <2>1. PICK q : q = Going(IF OpenComments = {} THEN "create" ELSE "refused")
    OBVIOUS
  <2>2. submission' = [submission EXCEPT ![s] = q]
    BY <2>1
  <2>3. q \in [pc : SubmissionStates \ {"done"}, reviewer : Reviewers \cup {None},
                verdict : Verdicts, version : published \cup {0}, gate : {"soft", "hard"},
                owed : SUBSET Comments]
    BY <2>1
  <2>4. /\ q.pc \in Underway => q.reviewer \in Reviewers /\ q.version # 0
        /\ q.pc \in {"requests", "gate"} => q.owed = {}
        /\ \A c \in q.owed : comment[c].status \in {"open", "resolved", "deleted"}
        /\ q.pc = "create" => q.owed \cap OpenComments = {}
    BY <2>1
  <2> QED BY <2>2, <2>3, <2>4, CallKeepsInv
<1>6. CASE SubmitCreate(s)
  BY <1>6, CreateKeepsInv
<1> QED BY <1>2, <1>3, <1>4, <1>5, <1>6 DEF Submit

LEMMA ReviewInvariantKept == ReviewInv /\ [Next]_vars => ReviewInv'
  BY AskKeepsInv, SubmitKeepsInv, SurroundingsKeepInv, OthersKeepInv DEF Next

-----------------------------------------------------------------------------
\* The inductive invariant: types, approvals counted, what calls owe, and both properties.
THEOREM ReviewInvariant == Spec => []ReviewInv
<1>1. ReviewInv /\ [Next]_vars => ReviewInv'
  BY ReviewInvariantKept
<1> QED BY <1>1, InitInv, PTL DEF Spec

\* The rows stay in their types and nobody is asked twice at the same time, although
\* requestReview looks in one transaction and inserts in another, for any number of calls.
THEOREM NobodyIsAskedTwice == Spec => []RequestsAreWellFormed
<1>1. ReviewInv => RequestsAreWellFormed
  BY DEF ReviewInv, RequestsAreWellFormed
<1> QED BY <1>1, ReviewInvariant, PTL

\* An approval under the hard gate has seen each comment that was open when it read the
\* gate resolved, however many comments, versions and verdicts overlap.
THEOREM ApprovalsSeeOlderComments == Spec => []GateSeesOlderComments
<1>1. ReviewInv => GateSeesOlderComments
  BY DEF ReviewInv
<1> QED BY <1>1, ReviewInvariant, PTL

-----------------------------------------------------------------------------
(* The derived status.                                                      *)

\* A table of verdicts: places are numbers, and times pass up to a bound.
IsTable(rows) == DOMAIN rows \subseteq Nat /\ \A i \in DOMAIN rows : rows[i].ms \in 0 .. MaxMs

RowsOf(rows, r) == {i \in DOMAIN rows : rows[i].reviewer = r}

NewestOf(rows, r) == {i \in RowsOf(rows, r) : \A j \in RowsOf(rows, r) : rows[j].ms <= rows[i].ms}

\* A set of numbers has a least one.
LEMMA LeastExists ==
  ASSUME NEW S, S \subseteq Nat, S # {}
  PROVE  \E i \in S : \A j \in S : i <= j
<1>1. PICK i \in S : \A j \in S : ~(<<j, i>> \in OpToRel(<, Nat))
  BY NatLessThanWellFounded, WFMin
<1>2. \A j \in S : ~(j < i)
  BY <1>1 DEF OpToRel
<1> QED BY <1>2

\* Whoever gave a verdict gave a newest one.
LEMMA NewestExists ==
  ASSUME NEW rows, NEW r, IsTable(rows), RowsOf(rows, r) # {}
  PROVE  NewestOf(rows, r) # {}
<1> DEFINE S == {MaxMs - rows[i].ms : i \in RowsOf(rows, r)}
<1>1. S \subseteq Nat /\ S # {}
  BY ReviewAssumption DEF IsTable, RowsOf
<1>2. PICK m \in S : \A n \in S : m <= n
  BY <1>1, LeastExists
<1>3. PICK i \in RowsOf(rows, r) : m = MaxMs - rows[i].ms
  OBVIOUS
<1>4. \A j \in RowsOf(rows, r) : MaxMs - rows[i].ms <= MaxMs - rows[j].ms
  BY <1>2, <1>3
<1>5. \A j \in RowsOf(rows, r) : rows[j].ms <= rows[i].ms
  BY <1>4, ReviewAssumption DEF IsTable, RowsOf
<1> QED BY <1>3, <1>5 DEF NewestOf

\* Read newest first, the oldest of the newest verdicts is the one that counts.
LEMMA LatestIsOldest ==
  ASSUME NEW rows, NEW r, IsTable(rows), NEW i \in NewestOf(rows, r),
         \A j \in NewestOf(rows, r) : i <= j
  PROVE  LatestVerdict(rows, r, TRUE) = rows[i].verdict
<1>1. NewestOf(rows, r) \subseteq Nat
  BY DEF IsTable, NewestOf, RowsOf
<1>2. \A k \in NewestOf(rows, r) : (\A j \in NewestOf(rows, r) : k <= j) => k = i
  BY <1>1
<1> DEFINE last == CHOOSE k \in NewestOf(rows, r) :
                     \A j \in NewestOf(rows, r) : ReadNoLater(j, k, TRUE)
<1>3. last \in NewestOf(rows, r) /\ \A j \in NewestOf(rows, r) : last <= j
  BY DEF ReadNoLater
<1>4. last = i
  BY <1>2, <1>3
<1> QED BY <1>4 DEF LatestVerdict, NewestOf, RowsOf

\* Where times differ, the order of reading makes no difference.
LEMMA OrderDoesNotMatter ==
  ASSUME NEW rows, NEW r, IsTable(rows), RowsOf(rows, r) # {},
         \A i, j \in RowsOf(rows, r) : i # j => rows[i].ms # rows[j].ms
  PROVE  LatestVerdict(rows, r, TRUE) = LatestVerdict(rows, r, FALSE)
<1>1. PICK i : i \in NewestOf(rows, r)
  BY NewestExists
<1>2. \A j \in NewestOf(rows, r) : rows[j].ms <= rows[i].ms /\ rows[i].ms <= rows[j].ms
  BY <1>1 DEF NewestOf
<1>3. \A j \in NewestOf(rows, r) : rows[j].ms = rows[i].ms
  BY <1>1, <1>2 DEF IsTable, NewestOf, RowsOf
<1>4. NewestOf(rows, r) = {i}
  BY <1>1, <1>3 DEF NewestOf
<1>5. i \in Nat
  BY <1>1 DEF IsTable, NewestOf, RowsOf
<1>6. ASSUME NEW first \in BOOLEAN PROVE LatestVerdict(rows, r, first) = rows[i].verdict
  <2> DEFINE last == CHOOSE k \in NewestOf(rows, r) :
                       \A j \in NewestOf(rows, r) : ReadNoLater(j, k, first)
  <2>1. last = i
    BY <1>4, <1>5 DEF ReadNoLater
  <2> QED BY <2>1 DEF LatestVerdict, NewestOf, RowsOf
<1> QED BY <1>6

\* Whose verdicts are heard, and what it takes to be approved.
Heard(active, rows) == {r \in active : RowsOf(rows, r) # {}}

LEMMA ApprovedMeans ==
  ASSUME NEW active, NEW rows, NEW first
  PROVE  deriveReviewStatus(active, rows, first) = "approved" <=>
           /\ active # {} /\ Heard(active, rows) = active
           /\ \A r \in active : LatestVerdict(rows, r, first) = "approved"
<1> DEFINE heard == {r \in active : \E i \in DOMAIN rows : rows[i].reviewer = r}
           L(r) == LatestVerdict(rows, r, first)
<1>1. heard = Heard(active, rows)
  BY DEF Heard, RowsOf
<1>2. deriveReviewStatus(active, rows, first) =
        CASE active = {} -> "draft"
          [] \E r \in heard : L(r) = "changes_requested" -> "changes_requested"
          [] active # {} /\ heard = active /\ \A r \in heard : L(r) = "approved" -> "approved"
          [] OTHER -> "in_review"
  BY DEF deriveReviewStatus
<1> HIDE DEF heard, L
<1>3. (deriveReviewStatus(active, rows, first) = "approved") <=>
        (active # {} /\ heard = active /\ \A r \in heard : L(r) = "approved")
  <2>1. CASE active = {}
    BY <1>2, <2>1
  <2>2. CASE active # {} /\ \E r \in heard : L(r) = "changes_requested"
    BY <1>2, <2>2
  <2>3. CASE active # {} /\ ~(\E r \in heard : L(r) = "changes_requested")
    BY <1>2, <2>3
  <2> QED BY <2>1, <2>2, <2>3
<1> QED BY <1>1, <1>3 DEF L

\* The status is the same in any order that gives each reviewer the same verdict.
LEMMA SameVerdictsSameStatus ==
  ASSUME NEW active, NEW rows,
         \A r \in active : RowsOf(rows, r) # {} =>
           LatestVerdict(rows, r, TRUE) = LatestVerdict(rows, r, FALSE)
  PROVE  deriveReviewStatus(active, rows, TRUE) = deriveReviewStatus(active, rows, FALSE)
<1> DEFINE heard == {r \in active : \E i \in DOMAIN rows : rows[i].reviewer = r}
           L(r) == LatestVerdict(rows, r, TRUE)
           K(r) == LatestVerdict(rows, r, FALSE)
<1>1. \A r \in heard : L(r) = K(r)
  BY DEF RowsOf
<1>2. /\ deriveReviewStatus(active, rows, TRUE) =
           CASE active = {} -> "draft"
             [] \E r \in heard : L(r) = "changes_requested" -> "changes_requested"
             [] active # {} /\ heard = active /\ \A r \in heard : L(r) = "approved" -> "approved"
             [] OTHER -> "in_review"
      /\ deriveReviewStatus(active, rows, FALSE) =
           CASE active = {} -> "draft"
             [] \E r \in heard : K(r) = "changes_requested" -> "changes_requested"
             [] active # {} /\ heard = active /\ \A r \in heard : K(r) = "approved" -> "approved"
             [] OTHER -> "in_review"
  BY DEF deriveReviewStatus
<1>3. heard \subseteq active
  OBVIOUS
<1> HIDE DEF heard, L, K
<1> QED
  <2>1. (\E r \in heard : L(r) = "changes_requested")
          <=> (\E r \in heard : K(r) = "changes_requested")
    BY <1>1
  <2>2. (\A r \in heard : L(r) = "approved") <=> (\A r \in heard : K(r) = "approved")
    BY <1>1
  <2> DEFINE some == \E r \in heard : L(r) = "changes_requested"
             all == active # {} /\ heard = active /\ \A r \in heard : L(r) = "approved"
  <2>3. CASE active = {}
    BY <1>2, <1>3, <2>3
  <2>4. CASE active # {} /\ some
    BY <1>2, <2>1, <2>4
  <2>5. CASE active # {} /\ ~some /\ all
    BY <1>2, <2>1, <2>2, <2>5
  <2>6. CASE active # {} /\ ~some /\ ~all
    BY <1>2, <2>1, <2>2, <2>6
  <2> QED BY <2>3, <2>4, <2>5, <2>6

LEMMA CurrentIsTable ==
  ASSUME ReviewInv
  PROVE  /\ IsTable(OnCurrentVersion(approvals)) /\ DOMAIN approvals = 1 .. Len(approvals)
         /\ \A i \in DOMAIN approvals : approvals[i] \in Approval
<1>1. approvals \in Seq(Approval)
  BY DEF ReviewInv, ReviewTypeOK
<1>2. DOMAIN approvals = 1 .. Len(approvals) /\ Len(approvals) \in Nat
  BY <1>1, LenProperties
<1>3. \A i \in DOMAIN approvals : approvals[i] \in Approval
  BY <1>1, <1>2, ElementOfSeq
<1> QED BY <1>2, <1>3 DEF IsTable, OnCurrentVersion, Approval

\* The overview and the panel show the same status, in whatever order they read the
\* verdicts (reviewRollup, approvalsForDocument), as long as a reviewer's verdicts differ
\* in their milliseconds.
THEOREM OverviewsAgree == Spec => []OverviewAgrees
<1>1. ReviewInv => OverviewAgrees
  <2> SUFFICES ASSUME ReviewInv, DistinctTimes PROVE OverviewStatus = PanelStatus
    BY DEF OverviewAgrees
  <2> DEFINE rows == OnCurrentVersion(approvals)
  <2>1. IsTable(rows)
    BY CurrentIsTable
  <2>2. \A r : \A i, j \in RowsOf(rows, r) : i # j => rows[i].ms # rows[j].ms
    BY DEF RowsOf, OnCurrentVersion, DistinctTimes
  <2> HIDE DEF rows
  <2>3. \A r : RowsOf(rows, r) # {} =>
          LatestVerdict(rows, r, TRUE) = LatestVerdict(rows, r, FALSE)
    BY <2>1, <2>2, OrderDoesNotMatter
  <2> QED BY <2>3, SameVerdictsSameStatus DEF OverviewStatus, PanelStatus, rows
<1> QED BY <1>1, ReviewInvariant, PTL

\* A verdict is on a version that exists, and was given by now.
Filed ==
  \A i \in DOMAIN approvals : approvals[i].version \in published /\ approvals[i].ms <= ms

\* What a step does to the verdicts: it adds one, or leaves them.
LEMMA VerdictsGrow ==
  ASSUME ReviewInv, [Next]_vars
  PROVE  /\ published \subseteq published' /\ ms <= ms'
         /\ \/ UNCHANGED <<approvals, ask>>
            \/ UNCHANGED <<approvals, current>>
            \/ \E s \in Submissions : SubmitCreate(s)
         /\ current' # current => UNCHANGED approvals /\ current' \in published' \ published
<1>1. ms \in Nat
  BY ReviewAssumption DEF ReviewInv, ReviewTypeOK
<1>2. CASE \E a \in Asks : Ask(a)
  BY <1>1, <1>2 DEF Ask, AskCheck, AskCreate, Revoke
<1>3. CASE \E s \in Submissions : Submit(s)
  <2>1. PICK s \in Submissions : Submit(s)
    BY <1>3
  <2>2. UNCHANGED <<published, current, ask, ms>> /\ (UNCHANGED approvals \/ SubmitCreate(s))
    BY <2>1 DEF Submit, SubmitBegin, SubmitRequests, SubmitGate, SubmitCount, SubmitCreate
  <2> QED BY <1>1, <2>2
<1>4. CASE Surroundings
  BY <1>1, <1>4 DEF Surroundings, Publish, Comment, DraftComment, InsertComment,
                    ResolveComment, DeleteComment
<1>5. CASE (\E g \in {"soft", "hard"} : SetGate(g)) \/ Tick \/ UNCHANGED vars
  BY <1>1, <1>5 DEF SetGate, Tick, vars
<1> QED BY <1>2, <1>3, <1>4, <1>5 DEF Next

\* The row an approval adds.
LEMMA VerdictAdded ==
  ASSUME ReviewInv, Filed, NEW s \in Submissions, SubmitCreate(s)
  PROVE  \E n \in Nat \ DOMAIN approvals :
           /\ DOMAIN approvals' = DOMAIN approvals \cup {n}
           /\ \A i \in DOMAIN approvals : i < n /\ approvals'[i] = approvals[i]
           /\ approvals'[n].version = submission[s].version
           /\ approvals'[n].verdict = submission[s].verdict
           /\ approvals'[n].version \in published
           /\ approvals'[n].ms = ms /\ ms \in 0 .. MaxMs
           /\ submission'[s].pc = "done" /\ submission[s].pc = "create"
           /\ submission[s].verdict \in Verdicts
           /\ UNCHANGED <<published, current, ask, ms>>
<1>1. /\ submission[s].pc = "create" /\ submission[s].version \in published \cup {0}
      /\ submission[s].version # 0 /\ submission[s].reviewer \in Reviewers
      /\ submission[s].verdict \in Verdicts /\ ms \in 0 .. MaxMs
      /\ submission \in [Submissions -> [pc : SubmissionStates,
           reviewer : Reviewers \cup {None}, verdict : Verdicts, version : published \cup {0},
           gate : {"soft", "hard"}, owed : SUBSET Comments]]
  BY DEF SubmitCreate, ReviewInv, ReviewTypeOK, Owing, Underway
<1> DEFINE row == [reviewer |-> submission[s].reviewer, version |-> submission[s].version,
                   verdict |-> submission[s].verdict, ms |-> ms]
           n == Len(approvals) + 1
<1>2. approvals \in Seq(Approval) /\ published \subseteq Versions
  BY DEF ReviewInv, ReviewTypeOK, ThreadsTypeOK
<1>3. approvals' = Append(approvals, row)
  BY DEF SubmitCreate
<1>4. row \in Approval
  BY <1>1, <1>2 DEF Approval
<1>5. /\ Len(approvals) \in Nat /\ DOMAIN approvals = 1 .. Len(approvals)
      /\ DOMAIN approvals' = 1 .. n /\ approvals'[n] = row
      /\ \A i \in 1 .. Len(approvals) : approvals'[i] = approvals[i]
  BY <1>2, <1>3, <1>4, AppendProperties, LenProperties
<1>6. submission'[s].pc = "done"
  BY <1>1 DEF SubmitCreate, SubmissionGoto, NotSubmitted
<1>7. UNCHANGED <<published, current, ask, ms>>
  BY DEF SubmitCreate
<1>8. n \in Nat \ DOMAIN approvals /\ DOMAIN approvals' = DOMAIN approvals \cup {n}
  BY <1>5
<1>9. \A i \in DOMAIN approvals : i < n /\ approvals'[i] = approvals[i]
  BY <1>5
<1>10. /\ approvals'[n].version = submission[s].version
       /\ approvals'[n].verdict = submission[s].verdict
       /\ approvals'[n].version \in published /\ approvals'[n].ms = ms
  BY <1>1, <1>5
<1> HIDE DEF n
<1>11. n \in Nat \ DOMAIN approvals
  BY <1>8
<1> WITNESS <1>11
<1> QED BY <1>1, <1>6, <1>7, <1>8, <1>9, <1>10

LEMMA FiledKept == ReviewInv /\ Filed /\ [Next]_vars => Filed'
<1> SUFFICES ASSUME ReviewInv, Filed, [Next]_vars PROVE Filed'
  OBVIOUS
<1>1. published \subseteq published' /\ ms <= ms'
  BY VerdictsGrow
<1>2. ms \in Nat /\ ms' \in Nat
  BY ReviewAssumption, ReviewInvariantKept DEF ReviewInv, ReviewTypeOK
<1>3. \A i \in DOMAIN approvals : approvals[i].ms \in Nat
  BY CurrentIsTable, ReviewAssumption DEF Approval
<1>4. CASE UNCHANGED approvals
  BY <1>1, <1>2, <1>3, <1>4 DEF Filed
<1>5. CASE \E s \in Submissions : SubmitCreate(s)
  <2>1. PICK s \in Submissions : SubmitCreate(s)
    BY <1>5
  <2>2. PICK n \in Nat \ DOMAIN approvals :
          /\ DOMAIN approvals' = DOMAIN approvals \cup {n}
          /\ \A i \in DOMAIN approvals : approvals'[i] = approvals[i]
          /\ approvals'[n].version \in published /\ approvals'[n].ms = ms
          /\ UNCHANGED <<published, ms>>
    BY <2>1, VerdictAdded
  <2> QED BY <1>2, <2>2 DEF Filed
<1> QED BY <1>4, <1>5, VerdictsGrow

LEMMA AlwaysFiled == Spec => [](ReviewInv /\ Filed)
<1>1. Init => Filed
  BY DEF Init, Filed
<1>2. ReviewInv /\ Filed /\ [Next]_vars => Filed'
  BY FiledKept
<1> QED BY <1>1, <1>2, ReviewInvariant, PTL DEF Spec

\* A verdict is added behind the others, and is not older than any of them.
Adds(more, rows, n) ==
  /\ IsTable(rows) /\ IsTable(more) /\ n \in Nat
  /\ DOMAIN more = DOMAIN rows \cup {n} /\ n \notin DOMAIN rows
  /\ \A i \in DOMAIN rows : i < n /\ more[i] = rows[i] /\ rows[i].ms <= more[n].ms

\* It counts for its reviewer, or leaves what counted.
LEMMA OneVerdictMore ==
  ASSUME NEW rows, NEW more, NEW n, NEW r, Adds(more, rows, n), RowsOf(more, r) # {}
  PROVE  \/ LatestVerdict(more, r, TRUE) = more[n].verdict
         \/ /\ RowsOf(rows, r) # {}
            /\ LatestVerdict(more, r, TRUE) = LatestVerdict(rows, r, TRUE)
<1> USE DEF Adds
<1>1. r # more[n].reviewer => RowsOf(more, r) = RowsOf(rows, r)
  BY DEF RowsOf
<1>2. r = more[n].reviewer => RowsOf(more, r) = RowsOf(rows, r) \cup {n}
  BY DEF RowsOf
<1>3. \A i \in DOMAIN more : more[i].ms \in Nat /\ i \in Nat
  BY ReviewAssumption DEF IsTable
<1>4. RowsOf(rows, r) \subseteq DOMAIN rows
  BY DEF RowsOf
<1>5. ASSUME RowsOf(rows, r) = {}, r = more[n].reviewer
      PROVE  LatestVerdict(more, r, TRUE) = more[n].verdict
  <2>1. NewestOf(more, r) = {n}
    BY <1>2, <1>3, <1>5 DEF NewestOf
  <2>2. n \in NewestOf(more, r) /\ \A j \in NewestOf(more, r) : n <= j
    BY <2>1
  <2> QED BY <2>2, LatestIsOldest
<1>6. ASSUME RowsOf(rows, r) # {}
      PROVE  \/ LatestVerdict(more, r, TRUE) = LatestVerdict(rows, r, TRUE)
             \/ r = more[n].reviewer /\ LatestVerdict(more, r, TRUE) = more[n].verdict
  <2>1. NewestOf(rows, r) \subseteq Nat /\ NewestOf(rows, r) # {}
    BY <1>6, NewestExists DEF IsTable, NewestOf, RowsOf
  <2>2. PICK i \in NewestOf(rows, r) : \A j \in NewestOf(rows, r) : i <= j
    BY <2>1, LeastExists
  <2>3. LatestVerdict(rows, r, TRUE) = rows[i].verdict
    BY <2>2, LatestIsOldest
  <2>4. i \in RowsOf(rows, r) /\ more[i] = rows[i] /\ i < n
    BY <1>4 DEF NewestOf
  <2>5. CASE r # more[n].reviewer \/ rows[i].ms = more[n].ms
    <3>1. \A j \in RowsOf(rows, r) : more[j] = rows[j]
      BY <1>4
    <3>2. NewestOf(rows, r) \subseteq NewestOf(more, r)
          /\ NewestOf(more, r) \subseteq NewestOf(rows, r) \cup {n}
      BY <1>1, <1>2, <1>3, <1>4, <2>2, <2>4, <2>5, <3>1 DEF NewestOf
    <3>3. \A j \in NewestOf(more, r) : i <= j
      BY <1>3, <1>4, <2>2, <2>4, <3>2
    <3> QED BY <2>2, <2>3, <2>4, <3>2, <3>3, LatestIsOldest
  <2>6. CASE r = more[n].reviewer /\ rows[i].ms # more[n].ms
    <3>1. \A j \in RowsOf(rows, r) : more[j].ms < more[n].ms
      BY <1>3, <1>4, <2>2, <2>4, <2>6 DEF NewestOf
    <3>2. NewestOf(more, r) = {n}
      BY <1>2, <1>3, <1>4, <2>6, <3>1 DEF NewestOf
    <3>3. n \in NewestOf(more, r) /\ \A j \in NewestOf(more, r) : n <= j
      BY <3>2
    <3>4. LatestVerdict(more, r, TRUE) = more[n].verdict
      BY <3>3, LatestIsOldest
    <3> QED BY <2>6, <3>4
  <2> QED BY <2>5, <2>6
<1> QED BY <1>1, <1>5, <1>6

\* What the panel shows of given verdicts.
Panel(active, rows) == deriveReviewStatus(active, rows, TRUE)

LEMMA StaysApproved ==
  ASSUME NEW active, NEW rows, NEW more, NEW n, Adds(more, rows, n),
         more[n].verdict # "approved", Panel(active, more) = "approved"
  PROVE  Panel(active, rows) = "approved"
<1>1. /\ active # {} /\ Heard(active, more) = active
      /\ \A r \in active : LatestVerdict(more, r, TRUE) = "approved"
  BY ApprovedMeans DEF Panel
<1>2. ASSUME NEW r \in active
      PROVE  RowsOf(rows, r) # {} /\ LatestVerdict(rows, r, TRUE) = "approved"
  <2>1. RowsOf(more, r) # {} /\ LatestVerdict(more, r, TRUE) = "approved"
    BY <1>1 DEF Heard
  <2> QED BY <2>1, OneVerdictMore
<1>3. Heard(active, rows) = active
  BY <1>2 DEF Heard
<1> QED BY <1>1, <1>2, <1>3, ApprovedMeans DEF Panel

\* Nobody has given a verdict on a version that has just appeared.
LEMMA NewVersionIsNotApproved ==
  ASSUME ReviewInv, Filed, [Next]_vars, current' # current
  PROVE  PanelStatus' # "approved"
<1>1. UNCHANGED approvals /\ current' \notin published
  BY VerdictsGrow
<1> DEFINE rows == OnCurrentVersion(approvals)
<1>2. DOMAIN rows' = {}
  BY <1>1 DEF Filed, OnCurrentVersion
<1> HIDE DEF rows
<1>3. Heard(activeReviewerIds', rows') = {}
  BY <1>2 DEF Heard, RowsOf
<1>4. Panel(activeReviewerIds', rows') # "approved"
  BY <1>3, ApprovedMeans DEF Panel
<1> QED BY <1>4 DEF PanelStatus, Panel, rows

\* Neither a request for changes nor a verdict on another version approves a document.
LEMMA OnlyApprovalsApprove ==
  ASSUME ReviewInv, Filed, NEW s \in Submissions, SubmitCreate(s),
         submission[s].verdict # "approved" \/ submission[s].version # current,
         PanelStatus' = "approved"
  PROVE  PanelStatus = "approved"
<1>1. PICK n \in Nat \ DOMAIN approvals :
        /\ DOMAIN approvals' = DOMAIN approvals \cup {n}
        /\ \A i \in DOMAIN approvals : i < n /\ approvals'[i] = approvals[i]
        /\ approvals'[n].version = submission[s].version
        /\ approvals'[n].verdict = submission[s].verdict
        /\ approvals'[n].ms = ms /\ ms \in 0 .. MaxMs
        /\ submission[s].verdict \in Verdicts
        /\ UNCHANGED <<published, current, ask, ms>>
  BY VerdictAdded
<1> DEFINE rows == OnCurrentVersion(approvals)
           more == rows'
           active == activeReviewerIds
<1>2. activeReviewerIds' = active
  BY <1>1 DEF activeReviewerIds
<1>3. IsTable(rows) /\ IsTable(more)
  BY <1>1, CurrentIsTable DEF IsTable, OnCurrentVersion
<1>4. Panel(active, more) = "approved"
  BY <1>2 DEF PanelStatus, Panel
<1>5. CASE submission[s].version # current
  <2>1. more = rows
    BY <1>1, <1>5 DEF OnCurrentVersion
  <2> QED BY <1>4, <2>1 DEF PanelStatus, Panel
<1>6. CASE submission[s].version = current /\ submission[s].verdict # "approved"
  <2>1. /\ DOMAIN more = DOMAIN rows \cup {n} /\ n \notin DOMAIN rows
        /\ more[n].verdict = "changes_requested"
        /\ \A i \in DOMAIN rows : i < n /\ more[i] = rows[i] /\ rows[i].ms <= more[n].ms
    BY <1>1, <1>6 DEF OnCurrentVersion, Verdicts, Filed
  <2>2. Adds(more, rows, n)
    BY <1>3, <2>1 DEF Adds
  <2>3. Panel(active, rows) = "approved"
    BY <1>4, <1>6, <2>1, <2>2, StaysApproved
  <2> QED BY <2>3 DEF PanelStatus, Panel
<1> QED BY <1>5, <1>6

\* A document turns approved by an approval of the version that is current, or by a change
\* of who is asked, and a new version starts without verdicts (statusOf,
\* deriveReviewStatus), for any number of reviewers and verdicts in any order.
THEOREM StatusChangesHaveReasons == Spec => StatusChangesForAReason
<1>1. ReviewInv /\ Filed /\ [Next]_vars =>
        [current' # current => PanelStatus' # "approved"]_vars
  BY NewVersionIsNotApproved
<1>2. ReviewInv /\ Filed /\ [Next]_vars =>
        [PanelStatus # "approved" /\ PanelStatus' = "approved" =>
           \/ \E s \in Submissions :
                /\ submission[s].pc = "create" /\ submission'[s].pc = "done"
                /\ submission[s].verdict = "approved" /\ submission[s].version = current
           \/ activeReviewerIds' # activeReviewerIds]_vars
  <2> SUFFICES ASSUME ReviewInv, Filed, [Next]_vars,
                      PanelStatus # "approved", PanelStatus' = "approved",
                      activeReviewerIds' = activeReviewerIds
               PROVE  \E s \in Submissions :
                        /\ submission[s].pc = "create" /\ submission'[s].pc = "done"
                        /\ submission[s].verdict = "approved"
                        /\ submission[s].version = current
    OBVIOUS
  <2>1. current' = current
    BY NewVersionIsNotApproved
  <2>2. CASE UNCHANGED approvals
    <3>1. OnCurrentVersion(approvals)' = OnCurrentVersion(approvals)
      BY <2>1, <2>2 DEF OnCurrentVersion
    <3>2. PanelStatus' = PanelStatus
      BY <3>1 DEF PanelStatus
    <3> QED BY <3>2
  <2>3. CASE \E s \in Submissions : SubmitCreate(s)
    <3>1. PICK s \in Submissions : SubmitCreate(s)
      BY <2>3
    <3>2. submission[s].verdict = "approved" /\ submission[s].version = current
      BY <3>1, OnlyApprovalsApprove
    <3>3. submission[s].pc = "create" /\ submission'[s].pc = "done"
      BY <3>1, VerdictAdded
    <3> QED BY <3>2, <3>3
  <2> QED BY <2>2, <2>3, VerdictsGrow
<1> QED BY <1>1, <1>2, AlwaysFiled, PTL
        DEF Spec, StatusChangesForAReason, NewVersionResets, ApprovalHasACause

-----------------------------------------------------------------------------
(* Suggested edits.                                                         *)

\* A call decides about one suggestion, and never decides that it is open.
DecisionShape ==
  \A x \in Deciders :
    /\ \A c, d \in decider[x].on : c = d
    /\ decider[x].pc \in {"update", "won"} => decider[x].outcome # "open"

SuggestionsInv ==
  /\ SuggestionsTypeOK
  /\ DecisionShape
  /\ OneDecisionWins
  /\ AppliedIsTrue

USE DEF Outcomes, Versions, Unwritten, threadVars

-----------------------------------------------------------------------------
\* Versions and comments keep their types in the steps that leave them alone.
LEMMA ThreadsUntouched == ThreadsTypeOK /\ UNCHANGED threadVars => ThreadsTypeOK'
  BY DEF ThreadsTypeOK

LEMMA InitSuggestions == SuggestInit => SuggestionsInv
  BY MaxVersionAssumption
     DEF SuggestInit, ThreadsInit, SuggestionsInv, SuggestionsTypeOK, ThreadsTypeOK, DecisionShape,
         OneDecisionWins, AppliedIsTrue

\* A version that appears had no text before, so no record of it was made.
LEMMA PublishTextInv ==
  ASSUME SuggestionsInv, NEW v \in Versions, NEW proposals \in SUBSET Comments,
         PublishText(v, proposals)
  PROVE  SuggestionsInv'
<1> USE DEF PublishText, Publish
<1>1. SuggestionsTypeOK'
  <2>1. ThreadsTypeOK'
    BY DEF SuggestionsInv, SuggestionsTypeOK, ThreadsTypeOK
  <2>2. contains' \in [Versions -> SUBSET Comments]
    BY DEF SuggestionsInv, SuggestionsTypeOK
  <2>3. /\ suggestion' \in [Comments -> [outcome : Outcomes, applied : published' \cup {0}]]
        /\ reader' \in [Readers -> [pc : {"idle", "document", "resolve"},
                                    threads : SUBSET Comments, version : published' \cup {0}]]
    BY DEF SuggestionsInv, SuggestionsTypeOK
  <2> QED BY <2>1, <2>2, <2>3 DEF SuggestionsInv, SuggestionsTypeOK
<1>2. DecisionShape' /\ OneDecisionWins'
  BY DEF SuggestionsInv, DecisionShape, OneDecisionWins
<1>3. AppliedIsTrue'
  <2> SUFFICES ASSUME NEW c \in Comments, suggestion[c].applied # 0
               PROVE  /\ suggestion[c].outcome = "accepted"
                      /\ c \in contains'[suggestion[c].applied]
    BY DEF AppliedIsTrue
  <2>1. suggestion[c].applied \in published
    BY DEF SuggestionsInv, SuggestionsTypeOK
  <2>2. suggestion[c].applied # v
    BY <2>1
  <2>3. contains'[suggestion[c].applied] = contains[suggestion[c].applied]
    BY <2>1, <2>2 DEF SuggestionsInv, SuggestionsTypeOK, ThreadsTypeOK
  <2> QED BY <2>3 DEF SuggestionsInv, AppliedIsTrue
<1> QED BY <1>1, <1>2, <1>3 DEF SuggestionsInv

LEMMA CommentInv ==
  ASSUME SuggestionsInv, NEW c \in Comments, Comment(c), UNCHANGED suggestionVars
  PROVE  SuggestionsInv'
<1> USE DEF suggestionVars
<1>1. published' = published /\ current' = current
  BY DEF Comment, DraftComment, InsertComment, ResolveComment, DeleteComment
<1>2. ThreadsTypeOK'
  <2> USE <1>1 DEF SuggestionsInv, SuggestionsTypeOK, ThreadsTypeOK
  <2>1. CASE DraftComment(c)
    BY <2>1 DEF DraftComment
  <2>2. CASE InsertComment(c)
    BY <2>2 DEF InsertComment
  <2>3. CASE ResolveComment(c)
    BY <2>3 DEF ResolveComment
  <2>4. CASE DeleteComment(c)
    BY <2>4 DEF DeleteComment
  <2> QED BY <2>1, <2>2, <2>3, <2>4 DEF Comment
<1>3. SuggestionsTypeOK'
  BY <1>1, <1>2 DEF SuggestionsInv, SuggestionsTypeOK
<1> QED BY <1>1, <1>3 DEF SuggestionsInv, DecisionShape, OneDecisionWins, AppliedIsTrue

LEMMA DecideReadInv ==
  ASSUME SuggestionsInv, NEW x \in Deciders, NEW c \in Comments,
         NEW outcome \in {"accepted", "rejected"}, DecideRead(x, c, outcome)
  PROVE  SuggestionsInv'
<1> USE DEF DecideRead
<1>1. SuggestionsTypeOK'
  BY DEF SuggestionsInv, SuggestionsTypeOK, ThreadsTypeOK
<1>2. DecisionShape' /\ OneDecisionWins'
  BY DEF SuggestionsInv, SuggestionsTypeOK, DecisionShape, OneDecisionWins
<1>3. AppliedIsTrue'
  BY DEF SuggestionsInv, AppliedIsTrue
<1> QED BY <1>1, <1>2, <1>3 DEF SuggestionsInv

\* The winner finds the suggestion open, so nobody has won before.
LEMMA DecideUpdateInv ==
  ASSUME SuggestionsInv, NEW x \in Deciders, NEW c \in Comments, DecideUpdate(x, c)
  PROVE  SuggestionsInv'
<1> USE DEF DecideUpdate
<1>1. CASE CanSetOutcome(c)
  <2> USE <1>1 DEF CanSetOutcome, setSuggestionOutcome
  <2>1. SuggestionsTypeOK'
    <3> USE DEF SuggestionsInv, SuggestionsTypeOK
    <3>1. suggestion' \in [Comments -> [outcome : Outcomes, applied : published \cup {0}]]
      OBVIOUS
    <3>2. decider' \in [Deciders -> [pc : {"idle", "update", "won", "lost"},
                                     on : SUBSET Comments, outcome : Outcomes]]
      OBVIOUS
    <3>3. UNCHANGED <<contains, reader, published>>
      OBVIOUS
    <3> QED BY ThreadsUntouched, <3>1, <3>2, <3>3
  <2>2. DecisionShape'
    <3>1. \A y \in Deciders : /\ decider'[y].on = decider[y].on
                              /\ decider'[y].outcome = decider[y].outcome
                              /\ y # x => decider'[y].pc = decider[y].pc
      BY DEF SuggestionsInv, SuggestionsTypeOK
    <3> QED BY <3>1 DEF SuggestionsInv, DecisionShape
  <2>3. \A y \in Deciders : decider[y].pc = "won" => c \notin decider[y].on
    BY DEF SuggestionsInv, OneDecisionWins, DecisionShape
  <2>4. /\ \A e \in Comments \ {c} : suggestion'[e] = suggestion[e]
        /\ suggestion'[c].outcome = decider[x].outcome
        /\ suggestion'[c].applied = suggestion[c].applied
    BY DEF SuggestionsInv, SuggestionsTypeOK
  <2>5. /\ \A y \in Deciders \ {x} : decider'[y] = decider[y]
        /\ decider'[x].outcome = decider[x].outcome
        /\ decider'[x].on = decider[x].on
        /\ decider[x].on = {c}
    BY DEF SuggestionsInv, SuggestionsTypeOK, DecisionShape
  <2>6. OneDecisionWins'
    <3> SUFFICES ASSUME NEW y \in Deciders, decider'[y].pc = "won", NEW e \in decider'[y].on
                 PROVE  /\ suggestion'[e].outcome = decider'[y].outcome
                        /\ \A z \in Deciders \ {y} :
                             decider'[z].pc = "won" => e \notin decider'[z].on
      BY DEF OneDecisionWins
    <3>1. CASE y = x
      BY <3>1, <2>3, <2>4, <2>5
    <3>2. CASE y # x
      <4>1. e # c /\ e \in Comments
        BY <3>2, <2>3, <2>5 DEF SuggestionsInv, SuggestionsTypeOK
      <4>2. e \notin decider'[x].on
        BY <4>1, <2>5
      <4> QED BY <3>2, <4>1, <4>2, <2>4, <2>5 DEF SuggestionsInv, OneDecisionWins
    <3> QED BY <3>1, <3>2
  <2>7. AppliedIsTrue'
    <3>1. suggestion[c].applied = 0
      BY DEF SuggestionsInv, AppliedIsTrue
    <3> QED BY <3>1, <2>4 DEF SuggestionsInv, AppliedIsTrue
  <2> QED BY <2>1, <2>2, <2>6, <2>7 DEF SuggestionsInv
<1>2. CASE ~CanSetOutcome(c)
  <2> USE <1>2
  <2>1. SuggestionsTypeOK'
    <3> USE DEF SuggestionsInv, SuggestionsTypeOK
    <3>1. decider' \in [Deciders -> [pc : {"idle", "update", "won", "lost"},
                                     on : SUBSET Comments, outcome : Outcomes]]
      OBVIOUS
    <3>2. UNCHANGED <<contains, suggestion, reader, published>>
      OBVIOUS
    <3> QED BY ThreadsUntouched, <3>1, <3>2
  <2>2. DecisionShape' /\ OneDecisionWins'
    BY DEF SuggestionsInv, SuggestionsTypeOK, DecisionShape, OneDecisionWins
  <2>3. AppliedIsTrue'
    BY DEF SuggestionsInv, AppliedIsTrue
  <2> QED BY <2>1, <2>2, <2>3 DEF SuggestionsInv
<1> QED BY <1>1, <1>2

\* Readers that only read.
LEMMA ReadInv ==
  ASSUME SuggestionsInv, NEW x \in Readers,
         ReadThreads(x) \/ ReadDocument(x) \/ ReadDone(x)
  PROVE  SuggestionsInv'
<1>1. SuggestionsTypeOK'
  <2> USE ThreadsUntouched DEF SuggestionsInv, SuggestionsTypeOK
  <2>1. CASE ReadThreads(x)
    BY <2>1 DEF ReadThreads
  <2>2. CASE ReadDocument(x)
    BY <2>2 DEF ReadDocument, ThreadsTypeOK
  <2>3. CASE ReadDone(x)
    BY <2>3 DEF ReadDone
  <2> QED BY <2>1, <2>2, <2>3
<1>2. UNCHANGED <<contains, suggestion, decider>>
  BY DEF ReadThreads, ReadDocument, ReadDone
<1> QED BY <1>1, <1>2 DEF SuggestionsInv, DecisionShape, OneDecisionWins, AppliedIsTrue

\* The version recorded is the one whose text was compared.
LEMMA MaterializeInv ==
  ASSUME SuggestionsInv, NEW x \in Readers, NEW c \in Comments, Materialize(x, c)
  PROVE  SuggestionsInv'
<1> USE DEF Materialize
<1>1. CASE c \in contains[reader[x].version] /\ CanMarkApplied(c)
  <2> USE <1>1 DEF CanMarkApplied, markSuggestionApplied
  <2>1. SuggestionsTypeOK'
    <3> USE DEF SuggestionsInv, SuggestionsTypeOK
    <3>1. reader[x].version \in published \cup {0}
      OBVIOUS
    <3>2. suggestion' \in [Comments -> [outcome : Outcomes, applied : published \cup {0}]]
      BY <3>1
    <3>3. reader' \in [Readers -> [pc : {"idle", "document", "resolve"},
                                   threads : SUBSET Comments, version : published \cup {0}]]
      OBVIOUS
    <3>4. UNCHANGED <<contains, decider, published>>
      OBVIOUS
    <3> QED BY ThreadsUntouched, <3>2, <3>3, <3>4
  <2>2. /\ \A e \in Comments \ {c} : suggestion'[e] = suggestion[e]
        /\ suggestion'[c].outcome = suggestion[c].outcome
        /\ suggestion'[c].applied = reader[x].version
    BY DEF SuggestionsInv, SuggestionsTypeOK
  <2>3. DecisionShape'
    BY DEF SuggestionsInv, DecisionShape
  <2>4. OneDecisionWins'
    BY <2>2 DEF SuggestionsInv, SuggestionsTypeOK, OneDecisionWins
  <2>5. AppliedIsTrue'
    BY <2>2 DEF SuggestionsInv, AppliedIsTrue
  <2> QED BY <2>1, <2>3, <2>4, <2>5 DEF SuggestionsInv
<1>2. CASE ~(c \in contains[reader[x].version] /\ CanMarkApplied(c))
  <2>1. UNCHANGED <<threadVars, contains, decider, suggestion>>
    BY <1>2
  <2>2. SuggestionsTypeOK'
    BY <2>1, ThreadsUntouched DEF SuggestionsInv, SuggestionsTypeOK
  <2> QED BY <2>1, <2>2 DEF SuggestionsInv, DecisionShape, OneDecisionWins, AppliedIsTrue
<1> QED BY <1>1, <1>2

LEMMA NextSuggestions == SuggestionsInv /\ [SuggestNext]_suggestVars => SuggestionsInv'
<1> SUFFICES ASSUME SuggestionsInv, [SuggestNext]_suggestVars PROVE SuggestionsInv'
  OBVIOUS
<1>1. CASE UNCHANGED suggestVars
  BY <1>1 DEF suggestVars, suggestionVars, SuggestionsInv, SuggestionsTypeOK, ThreadsTypeOK, DecisionShape,
              OneDecisionWins, AppliedIsTrue
<1>2. ASSUME NEW v \in Versions, NEW proposals \in SUBSET Comments, PublishText(v, proposals)
      PROVE  SuggestionsInv'
  BY <1>2, PublishTextInv
<1>3. ASSUME NEW c \in Comments, Comment(c), UNCHANGED suggestionVars
      PROVE  SuggestionsInv'
  BY <1>3, CommentInv
<1>4. ASSUME NEW x \in Deciders, Decide(x)
      PROVE  SuggestionsInv'
  BY <1>4, DecideReadInv, DecideUpdateInv DEF Decide
<1>5. ASSUME NEW x \in Readers, Read(x)
      PROVE  SuggestionsInv'
  BY <1>5, ReadInv, MaterializeInv DEF Read
<1> QED BY <1>1, <1>2, <1>3, <1>4, <1>5 DEF SuggestNext

-----------------------------------------------------------------------------
(* The theorems.                                                            *)

\* The invariant holds in every reachable state.
THEOREM SuggestionsInvariant == SuggestSpec => []SuggestionsInv
  BY InitSuggestions, NextSuggestions, PTL DEF SuggestSpec

\* Of any number of racing accepts and rejects of a suggestion, at most one
\* caller wins, and its decision stands.
THEOREM DecisionsAreFinal == SuggestSpec => []OneDecisionWins
<1>1. SuggestionsInv => OneDecisionWins
  BY DEF SuggestionsInv
<1> QED BY <1>1, SuggestionsInvariant, PTL

\* A suggestion recorded as applied was accepted, and the version it names
\* contains its text.
THEOREM AppliedTellsTheTruth == SuggestSpec => []AppliedIsTrue
<1>1. SuggestionsInv => AppliedIsTrue
  BY DEF SuggestionsInv
<1> QED BY <1>1, SuggestionsInvariant, PTL

\* Every variable keeps its type.
THEOREM SuggestionsTyped == SuggestSpec => []SuggestionsTypeOK
<1>1. SuggestionsInv => SuggestionsTypeOK
  BY DEF SuggestionsInv
<1> QED BY <1>1, SuggestionsInvariant, PTL

\* Only an undecided, unapplied suggestion of a comment that is still there is
\* ever written to: the applied version is recorded once.
THEOREM AppliedIsFinal == SuggestSpec => AppliedOnce
<1> DEFINE Once(c) == suggestion'[c] # suggestion[c] => suggestion[c].applied = 0 /\ Present(c)
<1>1. SuggestionsInv /\ [SuggestNext]_suggestVars => [\A c \in Comments : Once(c)]_suggestVars
  <2> SUFFICES ASSUME SuggestionsInv, SuggestNext, NEW c \in Comments PROVE Once(c)
    OBVIOUS
  <2>1. CASE suggestion' = suggestion
    BY <2>1
  <2>2. ASSUME NEW x \in Deciders, NEW d \in Comments, DecideUpdate(x, d), CanSetOutcome(d)
        PROVE  Once(c)
    <3>1. suggestion[d].applied = 0 /\ Present(d)
      BY <2>2 DEF CanSetOutcome, SuggestionsInv, AppliedIsTrue
    <3>2. c # d => suggestion'[c] = suggestion[c]
      BY <2>2 DEF DecideUpdate, setSuggestionOutcome, SuggestionsInv, SuggestionsTypeOK
    <3> QED BY <3>1, <3>2
  <2>3. ASSUME NEW x \in Readers, NEW d \in Comments, Materialize(x, d), CanMarkApplied(d)
        PROVE  Once(c)
    <3>1. c # d => suggestion'[c] = suggestion[c]
      BY <2>3 DEF Materialize, markSuggestionApplied, SuggestionsInv, SuggestionsTypeOK
    <3> QED BY <2>3, <3>1 DEF CanMarkApplied
  <2>4. \/ suggestion' = suggestion
        \/ \E x \in Deciders, d \in Comments : DecideUpdate(x, d) /\ CanSetOutcome(d)
        \/ \E x \in Readers, d \in Comments : Materialize(x, d) /\ CanMarkApplied(d)
    <3>1. ASSUME NEW x \in Deciders, Decide(x)
          PROVE  \/ suggestion' = suggestion
                 \/ \E d \in Comments : DecideUpdate(x, d) /\ CanSetOutcome(d)
      BY <3>1 DEF Decide, DecideRead, DecideUpdate
    <3>2. ASSUME NEW x \in Readers, Read(x)
          PROVE  \/ suggestion' = suggestion
                 \/ \E d \in Comments : Materialize(x, d) /\ CanMarkApplied(d)
      BY <3>2 DEF Read, ReadThreads, ReadDocument, ReadDone, Materialize
    <3> QED BY <3>1, <3>2 DEF SuggestNext, PublishText, suggestionVars
  <2> QED BY <2>1, <2>2, <2>3, <2>4
<1> QED BY <1>1, SuggestionsInvariant, PTL DEF SuggestSpec, AppliedOnce
=============================================================================
