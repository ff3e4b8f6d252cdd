------------------------------- MODULE Review -------------------------------
(***************************************************************************)
(* Review sign-off of one document: requestReview, revokeReviewRequest,    *)
(* submitReview, and the status every reader derives from their rows.      *)
(*                                                                         *)
(* Neither call holds a transaction across its steps: submitReview reads   *)
(* the document, its active requests, the org's gate and the open-comment  *)
(* count in four transactions and inserts the approval in a fifth.         *)
(* Approvals are append-only and pinned to a version, which is the whole   *)
(* of "a new version resets the review".                                   *)
(***************************************************************************)
EXTENDS Threads, Sequences

CONSTANTS
  Reviewers,    \* users who may be asked to review
  Asks,         \* calls of requestReview; each creates at most one request row
  Submissions,  \* calls of submitReview
  None,         \* no reviewer yet
  MaxMs         \* bound: milliseconds that pass

ASSUME ReviewAssumption == MaxMs \in Nat /\ IsFiniteSet(Submissions)

VARIABLES
  ask,          \* each requestReview call, then the row it created
  submission,   \* each submitReview call and what it has read
  approvals,    \* the approvals table, in order of created_at
  gate,         \* organizations.approval_gate
  ms            \* the clock, as far as a JavaScript Date can tell

vars == <<threadVars, ask, submission, approvals, gate, ms>>

Verdicts == {"approved", "changes_requested"}

SubmissionStates == {"idle", "requests", "gate", "count", "create", "done", "refused"}

Approval == [reviewer : Reviewers, version : Versions, verdict : Verdicts, ms : 0 .. MaxMs]

\* gate is the org's gate as the call read it; owed, a history variable, the
\* comments open at that moment if the call must heed them.
ReviewTypeOK ==
  /\ ThreadsTypeOK
  /\ ask \in [Asks -> [pc : {"idle", "checked", "active", "revoked", "refused"},
                       reviewer : Reviewers \cup {None}]]
  /\ submission \in [Submissions ->
       [pc : SubmissionStates, reviewer : Reviewers \cup {None}, verdict : Verdicts,
        version : published \cup {0}, gate : {"soft", "hard"}, owed : SUBSET Comments]]
  /\ approvals \in Seq(Approval) /\ Len(approvals) <= Cardinality(Submissions)
  /\ gate \in {"soft", "hard"}
  /\ ms \in 0 .. MaxMs

-----------------------------------------------------------------------------
(* The derived status, from a table of rows read newest or oldest first.    *)

activeReviewerIds == {ask[a].reviewer : a \in {x \in Asks : ask[x].pc = "active"}}

ReadNoLater(i, j, newestFirst) == IF newestFirst THEN j <= i ELSE i <= j

\* Wrong: the last row read wins, whatever its time.
LastRead(rows, r, newestFirst) ==
  LET mine == {i \in DOMAIN rows : rows[i].reviewer = r}
  IN  rows[CHOOSE i \in mine : \A j \in mine : ReadNoLater(j, i, newestFirst)].verdict

\* The verdict that ends up in the map when rows are read in this order: a row
\* replaces the one before it when it is not older, to the millisecond.
LatestVerdict(rows, r, newestFirst) ==
  LET mine == {i \in DOMAIN rows : rows[i].reviewer = r}
      newest == {i \in mine : \A j \in mine : rows[j].ms <= rows[i].ms}
  IN  rows[CHOOSE i \in newest : \A j \in newest : ReadNoLater(j, i, newestFirst)].verdict

deriveReviewStatus(active, rows, newestFirst) ==
  LET heard == {r \in active : \E i \in DOMAIN rows : rows[i].reviewer = r}
      Latest(r) == LatestVerdict(rows, r, newestFirst)
  IN  CASE active = {} -> "draft"
        [] \E r \in heard : Latest(r) = "changes_requested" -> "changes_requested"
        [] active # {} /\ heard = active /\ \A r \in heard : Latest(r) = "approved" -> "approved"
        [] OTHER -> "in_review"

\* Wrong: verdicts on any version count.
OnAnyVersion(rows) == rows

OnCurrentVersion(rows) == [i \in {j \in DOMAIN rows : rows[j].version = current} |-> rows[i]]

\* The document's panel reads approvals newest first; the overview aggregates
\* them in no stated order, here oldest first.
PanelStatus == deriveReviewStatus(activeReviewerIds, OnCurrentVersion(approvals), TRUE)

OverviewStatus == deriveReviewStatus(activeReviewerIds, OnCurrentVersion(approvals), FALSE)

-----------------------------------------------------------------------------
(* requestReview and revokeReviewRequest.                                   *)

AskCheck(a, r) ==
  /\ ask[a].pc = "idle"
  /\ r \notin activeReviewerIds
  /\ ask' = [ask EXCEPT ![a] = [pc |-> "checked", reviewer |-> r]]
  /\ UNCHANGED <<threadVars, submission, approvals, gate, ms>>

\* Wrong: the insert without the partial unique index.
AskCreateUnchecked(a) ==
  /\ ask[a].pc = "checked"
  /\ ask' = [ask EXCEPT ![a].pc = "active"]
  /\ UNCHANGED <<threadVars, submission, approvals, gate, ms>>

\* The insert throws on review_requests_active_uniq.
AskCreate(a) ==
  /\ ask[a].pc = "checked"
  /\ ask' = [ask EXCEPT ![a].pc =
               IF ask[a].reviewer \in activeReviewerIds THEN "refused" ELSE "active"]
  /\ UNCHANGED <<threadVars, submission, approvals, gate, ms>>

Revoke(a) ==
  /\ ask[a].pc = "active"
  /\ ask' = [ask EXCEPT ![a].pc = "revoked"]
  /\ UNCHANGED <<threadVars, submission, approvals, gate, ms>>

-----------------------------------------------------------------------------
(* submitReview.                                                            *)

NotSubmitted == [pc |-> "idle", reviewer |-> None, verdict |-> "approved", version |-> 0,
                 gate |-> "soft", owed |-> {}]

SubmissionGoto(s, label) ==
  submission' = [submission EXCEPT ![s] =
    IF label \in {"done", "refused"} THEN [NotSubmitted EXCEPT !.pc = label]
                                     ELSE [@ EXCEPT !.pc = label]]

\* documents.byId: the version the verdict will be pinned to.
SubmitBegin(s, r, verdict) ==
  /\ submission[s].pc = "idle"
  /\ current # 0
  /\ submission' = [submission EXCEPT ![s] =
       [pc |-> "requests", reviewer |-> r, verdict |-> verdict, version |-> current,
        gate |-> "soft", owed |-> {}]]
  /\ UNCHANGED <<threadVars, ask, approvals, gate, ms>>

SubmitRequests(s) ==
  /\ submission[s].pc = "requests"
  /\ SubmissionGoto(s, IF submission[s].reviewer \in activeReviewerIds
                         THEN "gate" ELSE "refused")
  /\ UNCHANGED <<threadVars, ask, approvals, gate, ms>>

SubmitGate(s) ==
  /\ submission[s].pc = "gate"
  /\ submission' = [submission EXCEPT ![s] =
       IF @.verdict = "approved" /\ gate = "hard"
         THEN [@ EXCEPT !.pc = "count", !.gate = gate, !.owed = OpenComments]
         ELSE [@ EXCEPT !.pc = "create", !.gate = gate]]
  /\ UNCHANGED <<threadVars, ask, approvals, gate, ms>>

\* Wrong: only comments on the version under review are counted.
SubmitCountOnVersion(s) ==
  /\ submission[s].pc = "count"
  /\ SubmissionGoto(s, IF \A c \in OpenComments : comment[c].version # submission[s].version
                         THEN "create" ELSE "refused")
  /\ UNCHANGED <<threadVars, ask, approvals, gate, ms>>

SubmitCount(s) ==
  /\ submission[s].pc = "count"
  /\ SubmissionGoto(s, IF OpenComments = {} THEN "create" ELSE "refused")
  /\ UNCHANGED <<threadVars, ask, approvals, gate, ms>>

SubmitCreate(s) ==
  /\ submission[s].pc = "create"
  /\ approvals' = Append(approvals,
       [reviewer |-> submission[s].reviewer, version |-> submission[s].version,
        verdict |-> submission[s].verdict, ms |-> ms])
  /\ SubmissionGoto(s, "done")
  /\ UNCHANGED <<threadVars, ask, gate, ms>>

-----------------------------------------------------------------------------
\* updateOrgSettings, as far as review is concerned.
SetGate(g) ==
  /\ g # gate
  /\ gate' = g
  /\ UNCHANGED <<threadVars, ask, submission, approvals, ms>>

Tick ==
  /\ ms < MaxMs
  /\ ms' = ms + 1
  /\ UNCHANGED <<threadVars, ask, submission, approvals, gate>>

Init ==
  /\ ThreadsInit
  /\ ask = [a \in Asks |-> [pc |-> "idle", reviewer |-> None]]
  /\ submission = [s \in Submissions |-> NotSubmitted]
  /\ approvals = <<>>
  /\ gate \in {"soft", "hard"}
  /\ ms = 0

Ask(a) == (\E r \in Reviewers : AskCheck(a, r)) \/ AskCreate(a) \/ Revoke(a)

Submit(s) ==
  \/ \E r \in Reviewers, verdict \in Verdicts : SubmitBegin(s, r, verdict)
  \/ SubmitRequests(s)
  \/ SubmitGate(s)
  \/ SubmitCount(s)
  \/ SubmitCreate(s)

Surroundings ==
  /\ (\E v \in Versions : Publish(v)) \/ (\E c \in Comments : Comment(c))
  /\ UNCHANGED <<ask, submission, approvals, gate, ms>>

Next ==
  \/ \E a \in Asks : Ask(a)
  \/ \E s \in Submissions : Submit(s)
  \/ Surroundings
  \/ \E g \in {"soft", "hard"} : SetGate(g)
  \/ Tick

Spec == Init /\ [][Next]_vars

-----------------------------------------------------------------------------
(* Properties.                                                              *)

\* A reviewer is never asked twice at the same time, although requestReview
\* looks for an active request in one transaction and inserts in another.
OneActiveRequest ==
  \A a, b \in Asks : ask[a].pc = "active" /\ ask[b].pc = "active" /\ a # b
    => ask[a].reviewer # ask[b].reviewer

\* The rows stay in their types, and nobody is asked twice, whichever calls overlap.
RequestsAreWellFormed == ReviewTypeOK /\ OneActiveRequest

\* A new version resets the review: the step that moves the document's pointer
\* never leaves or makes the document approved, even when the new version has a
\* lower number than the one it replaces and verdicts for others are in flight.
NewVersionResets == [][current' # current => PanelStatus' # "approved"]_vars

\* The status never turns approved behind the reviewers' backs: the step that
\* makes it approved is an approval of the very version that is current, or
\* changes who is asked (a blocker is revoked, an approver is asked again).
ApprovalHasACause ==
  [][PanelStatus # "approved" /\ PanelStatus' = "approved" =>
       \/ \E s \in Submissions :
            /\ submission[s].pc = "create" /\ submission'[s].pc = "done"
            /\ submission[s].verdict = "approved" /\ submission[s].version = current
       \/ activeReviewerIds' # activeReviewerIds]_vars

\* The status changes for a reason: never to approved by a new version or behind the
\* reviewers' backs.
StatusChangesForAReason == NewVersionResets /\ ApprovalHasACause

\* The hard gate sees every comment that was there when the call read the gate:
\* an approval never lands while one of them is still open, whichever version the
\* comment is pinned to.
GateSeesOlderComments ==
  \A s \in Submissions :
    submission[s].pc = "create" => submission[s].owed \cap OpenComments = {}

\* The overview and the document's panel show the same status, although they
\* read the verdicts in different orders.
DistinctTimes ==
  \A i, j \in DOMAIN approvals : i # j /\ approvals[i].reviewer = approvals[j].reviewer
    => approvals[i].ms # approvals[j].ms

OverviewAgrees == DistinctTimes => OverviewStatus = PanelStatus

\* Not so: "Latest verdict per reviewer wins."
LatestVerdictWins ==
  LET rows == OnCurrentVersion(approvals) IN
  \A i \in DOMAIN rows :
    (\A j \in DOMAIN rows : rows[j].reviewer = rows[i].reviewer => j <= i) =>
      LatestVerdict(rows, rows[i].reviewer, TRUE) = rows[i].verdict

\* Not so: under the hard gate "an approve verdict is refused while the document still
\* has open comments".
HardGateHolds ==
  [][\A s \in Submissions :
       submission[s].pc = "create" /\ submission'[s].pc = "done"
         /\ submission[s].verdict = "approved" /\ submission[s].gate = "hard"
         => OpenComments = {}]_vars
=============================================================================
