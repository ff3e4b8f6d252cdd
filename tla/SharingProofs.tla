---------------------------- MODULE SharingProofs ---------------------------
(***************************************************************************)
(* What holds of sharing for any number of people, documents, projects and *)
(* calls, checked by TLAPS.                                                *)
(*                                                                         *)
(* The argument is about time: a call hands a permission out on the ground *)
(* of a row it read some steps ago.  Rows are revoked, expire and are      *)
(* extended, but none is removed and none changes whom it is for, on what, *)
(* or from whom; only a guest's row changes its permission.  So what a     *)
(* call was entitled to, it stays entitled to have been.                   *)
(***************************************************************************)
EXTENDS Sharing, SequenceTheorems, FiniteSetTheorems, TLAPS

RowShape ==
  \A i \in DOMAIN grants :
    /\ grants[i].guest =>
         /\ grants[i].grantee \in Guests
         /\ grants[i].subject \in Documents
         /\ canManageDocument(grants[i].createdBy, grants[i].subject)
    /\ grants[i].grantee = Link =>
         grants[i].subject \in Documents /\ isLinkGrantable(grants[i].permission)

Homes == \A d \in Documents : home[d] \in lived[d] \cup {None}

\* The caller manages the document, or held share on it, and what the call says it held.
Entitled(c) ==
  \/ c.own = None /\ canManageDocument(c.by, c.document)
  \/ /\ c.own \in Permissions /\ permits(c.own, "share")
     /\ \E i \in DOMAIN grants :
          /\ grants[i].grantee = c.by
          /\ grants[i].permission = c.own
          /\ grants[i].subject \in {c.document} \cup lived[c.document]

ShareSteps == {"permission", "mode", "create", "list", "revoke"}
GuestSteps == {"org", "emails", "guest", "newGuest", "existing", "extend", "insert"}

ShareShape(c) ==
  /\ c.by \in Members /\ c.document \in Documents
  /\ c.kind \in {"link", "user", "revoke"}
  /\ c.project \in lived[c.document] \cup {None}
  /\ c.kind = "link" => c.to = Link /\ isLinkGrantable(c.permission)
  /\ c.kind = "user" => c.to \in People /\ c.permission \in Permissions

CreateShape(c) ==
  /\ c.to \in Guests => isGuestGrantable(c.permission)
  /\ c.own # None => canDelegate(c.own, c.permission)

GuestShape(c) ==
  /\ c.by \in Members /\ c.document \in Documents
  /\ canManageDocument(c.by, c.document)
  /\ c.to \in Guests /\ isGuestGrantable(c.permission)

\* The row has a token; a link carries what it carried when it was opened.
OfLink(c) ==
  /\ c.row \in DOMAIN grants
  /\ c.document = grants[c.row].subject /\ isLinkGrantable(c.permission)
  /\ \/ grants[c.row].guest
     \/ grants[c.row].grantee = Link /\ grants[c.row].permission = c.permission

CallShape(c) ==
  /\ c.pc \in ShareSteps => ShareShape(c)
  /\ c.pc \in {"mode", "create"} => c.kind # "revoke" /\ Entitled(c)
  /\ c.pc = "create" => CreateShape(c)
  /\ c.pc = "revoke" => c.row \in DOMAIN grants
  /\ c.pc \in {"already", "redeem"} => c.by \in Members /\ OfLink(c)
  /\ c.pc \in GuestSteps => GuestShape(c)
  /\ c.pc = "extend" => c.row \in DOMAIN grants /\ grants[c.row].guest

SharingInv ==
  /\ SharingTypeOK
  /\ RowShape
  /\ Homes
  /\ \A r \in Requests : CallShape(request[r])

-----------------------------------------------------------------------------
\* What a step leaves of the rows it finds.
RowsKept ==
  \A i \in DOMAIN grants :
    /\ i \in DOMAIN grants'
    /\ grants'[i].subject = grants[i].subject
    /\ grants'[i].grantee = grants[i].grantee
    /\ grants'[i].createdBy = grants[i].createdBy
    /\ grants'[i].guest = grants[i].guest
    /\ ~grants[i].guest => grants'[i].permission = grants[i].permission

LivedGrows == \A d \in Documents : lived[d] \subseteq lived'[d]

GrantsTypeOK ==
  /\ grants \in Seq(Grant)
  /\ \A i \in DOMAIN grants : grants[i].grantee \in Guests => isGuestGrantable(grants[i].permission)

\* What a call was entitled to when it read, it stays entitled to have been.
LEMMA ShapeKept ==
  ASSUME RowShape, RowsKept, LivedGrows, NEW c, CallShape(c)
  PROVE  CallShape(c)'
<1>1. ShareShape(c) => ShareShape(c)'
  BY DEF ShareShape, LivedGrows
<1>2. ASSUME ShareShape(c), Entitled(c)
      PROVE  Entitled(c)'
  <2>1. CASE c.own = None /\ canManageDocument(c.by, c.document)
    BY <2>1 DEF Entitled, canManageDocument
  <2>2. CASE ~(c.own = None /\ canManageDocument(c.by, c.document))
    <3>1. PICK i \in DOMAIN grants :
            /\ grants[i].grantee = c.by
            /\ grants[i].permission = c.own
            /\ grants[i].subject \in {c.document} \cup lived[c.document]
      BY <1>2, <2>2 DEF Entitled
    <3>2. c.by \notin Guests
      BY <1>2, SharingAssumption DEF ShareShape
    <3>3. /\ i \in DOMAIN grants'
          /\ grants'[i].grantee = c.by
          /\ grants'[i].permission = c.own
          /\ grants'[i].subject \in {c.document} \cup lived'[c.document]
      BY <1>2, <3>1, <3>2 DEF ShareShape, RowShape, RowsKept, LivedGrows
    <3> QED BY <1>2, <2>2, <3>3 DEF Entitled
  <2> QED BY <2>1, <2>2
<1>3. OfLink(c) => OfLink(c)'
  BY SharingAssumption DEF OfLink, RowShape, RowsKept
<1> QED
  BY <1>1, <1>2, <1>3 DEF CallShape, CreateShape, GuestShape, ShareSteps, RowsKept

\* A call goes on or answers.
LEMMA CallStep ==
  ASSUME SharingInv, NEW r \in Requests, NEW call \in Call,
         request' = [request EXCEPT ![r] = call], RowsKept, LivedGrows, CallShape(call)'
  PROVE  /\ request' \in [Requests -> Call]
         /\ \A x \in Requests : CallShape(request[x])'
<1>1. request' \in [Requests -> Call]
  BY DEF SharingInv, SharingTypeOK
<1>2. ASSUME NEW x \in Requests
      PROVE  CallShape(request[x])'
  <2>1. CASE x = r
    <3>1. request'[x] = call
      BY <2>1 DEF SharingInv, SharingTypeOK
    <3> QED BY <3>1 DEF CallShape, ShareShape, Entitled, CreateShape, OfLink, GuestShape
  <2>2. CASE x # r
    <3>1. request'[x] = request[x]
      BY <2>2 DEF SharingInv, SharingTypeOK
    <3>2. \A c : CallShape(c) => CallShape(c)'
      BY ShapeKept DEF SharingInv
    <3> QED BY <3>1, <3>2 DEF SharingInv
  <2> QED BY <2>1, <2>2
<1> QED BY <1>1, <1>2

\* A row at the end disturbs none of the others.
LEMMA InsertKeeps ==
  ASSUME SharingInv, NEW g \in Grant, grants' = Append(grants, g),
         g.guest => /\ g.grantee \in Guests /\ g.subject \in Documents
                    /\ canManageDocument(g.createdBy, g.subject),
         g.grantee = Link => g.subject \in Documents /\ isLinkGrantable(g.permission),
         g.grantee \in Guests => isGuestGrantable(g.permission)
  PROVE  RowsKept /\ GrantsTypeOK' /\ RowShape'
<1>1. grants \in Seq(Grant)
  BY DEF SharingInv, SharingTypeOK
<1>2. /\ grants' \in Seq(Grant)
      /\ Len(grants') = Len(grants) + 1
      /\ \A i \in 1 .. Len(grants) : grants'[i] = grants[i]
      /\ grants'[Len(grants) + 1] = g
  BY <1>1, AppendProperties
<1>3. Len(grants) \in Nat /\ DOMAIN grants = 1 .. Len(grants) /\ DOMAIN grants' = 1 .. Len(grants')
  BY <1>1, <1>2, LenProperties
<1>4. \A i \in DOMAIN grants' : i \in DOMAIN grants \/ i = Len(grants) + 1
  BY <1>2, <1>3
<1>5. DOMAIN grants \subseteq DOMAIN grants'
  BY <1>2, <1>3
<1> QED
  BY <1>2, <1>3, <1>4, <1>5
     DEF SharingInv, SharingTypeOK, RowsKept, GrantsTypeOK, RowShape, canManageDocument

\* A row that changes its status, or a guest's row its permission, stays what it is.
LEMMA ChangeKeeps ==
  ASSUME SharingInv, NEW i \in DOMAIN grants, NEW g \in Grant, Change(i, g),
         g.subject = grants[i].subject, g.grantee = grants[i].grantee,
         g.createdBy = grants[i].createdBy, g.guest = grants[i].guest,
         \/ g.permission = grants[i].permission
         \/ grants[i].guest /\ isGuestGrantable(g.permission)
  PROVE  RowsKept /\ GrantsTypeOK' /\ RowShape'
<1>1. grants \in Seq(Grant)
  BY DEF SharingInv, SharingTypeOK
<1>2. DOMAIN grants = 1 .. Len(grants)
  BY <1>1, LenProperties
<1>3. /\ grants' \in Seq(Grant)
      /\ Len(grants') = Len(grants)
      /\ \A j \in 1 .. Len(grants) : grants'[j] = IF j = i THEN g ELSE grants[j]
  BY <1>1, <1>2, ExceptSeq DEF Change
<1>4. DOMAIN grants' = DOMAIN grants
  BY <1>2, <1>3, LenProperties
<1> QED
  BY <1>2, <1>3, <1>4, SharingAssumption
     DEF SharingInv, SharingTypeOK, RowsKept, GrantsTypeOK, RowShape, canManageDocument

\* A call that goes on: what matters is what it knows when it does.
LEMMA GoStep ==
  ASSUME SharingInv, NEW r \in Requests, NEW call \in Call, Goes(r, call), CallShape(call),
         RowsKept, GrantsTypeOK', RowShape', guestUsers' \subseteq Guests
  PROVE  SharingInv'
<1>1. LivedGrows
  BY DEF Goes, LivedGrows
<1>2. CallShape(call)'
  BY <1>1, ShapeKept DEF SharingInv
<1>3. /\ request' \in [Requests -> Call]
      /\ \A x \in Requests : CallShape(request[x])'
  BY <1>1, <1>2, CallStep DEF Goes
<1> QED
  BY <1>3 DEF Goes, SharingInv, SharingTypeOK, GrantsTypeOK, Homes

LEMMA NoRowChanges ==
  ASSUME SharingInv, UNCHANGED grants
  PROVE  RowsKept /\ GrantsTypeOK' /\ RowShape'
  BY DEF RowsKept, GrantsTypeOK, RowShape, SharingInv, SharingTypeOK

LEMMA ReadStep ==
  ASSUME SharingInv, NEW r \in Requests, NEW call \in Call, Reads(r, call), CallShape(call)
  PROVE  SharingInv'
<1>1. UNCHANGED grants /\ guestUsers' \subseteq Guests
  BY DEF Reads, SharingInv, SharingTypeOK
<1> QED BY <1>1, GoStep, NoRowChanges DEF Reads

LEMMA StartStep ==
  ASSUME SharingInv, NEW r \in Requests, NEW call \in Call, Starts(r, call), CallShape(call)
  PROVE  SharingInv'
<1>1. RowsKept /\ LivedGrows /\ RowShape'
  BY DEF Starts, RowsKept, LivedGrows, RowShape, SharingInv
<1>2. CallShape(call)'
  BY <1>1, ShapeKept DEF SharingInv
<1>3. /\ request' \in [Requests -> Call]
      /\ \A x \in Requests : CallShape(request[x])'
  BY <1>1, <1>2, CallStep DEF Starts
<1> QED
  BY <1>1, <1>3 DEF Starts, Counted, SharingInv, SharingTypeOK, Homes

LEMMA IdleIsACall == Idle \in Call /\ CallShape(Idle)
<1>1. Idle \in Call
  BY DEF Idle, Call, Pc
<1>2. CallShape(Idle)
  BY DEF Idle, CallShape, ShareSteps, GuestSteps
<1> QED BY <1>1, <1>2

\* A step that writes rows and answers.
LEMMA WriteStep ==
  ASSUME SharingInv, NEW r \in Requests, Answers(r), UNCHANGED guestUsers,
         RowsKept, GrantsTypeOK', RowShape'
  PROVE  SharingInv'
<1>1. guestUsers' \subseteq Guests
  BY DEF SharingInv, SharingTypeOK
<1> QED BY <1>1, GoStep, IdleIsACall DEF Answers

LEMMA RefusedInv == ASSUME SharingInv, NEW r \in Requests, Refused(r) PROVE SharingInv'
  BY ReadStep, IdleIsACall DEF Refused

-----------------------------------------------------------------------------
LEMMA InitSharing == SharingInit => SharingInv
<1> SUFFICES ASSUME SharingInit PROVE SharingInv
  OBVIOUS
<1>1. SharingTypeOK
  BY IdleIsACall, EmptySeq DEF SharingInit, SharingTypeOK
<1>2. RowShape /\ Homes
  BY DEF SharingInit, RowShape, Homes
<1>3. \A r \in Requests : CallShape(request[r])
  BY IdleIsACall DEF SharingInit
<1> QED BY <1>1, <1>2, <1>3 DEF SharingInv

\* Calls begin.
LEMMA StartInv ==
  ASSUME SharingInv, NEW r \in Requests, Start(r)
  PROVE  SharingInv'
<1> USE SharingAssumption
<1>1. PICK u \in Members, d \in Documents :
        \/ \E v \in People, p \in Offered : StartUserGrant(r, u, d, v, p)
        \/ \E p \in Lent : StartLink(r, u, d, p)
        \/ \E p \in Lent, e \in Guests : StartGuestShare(r, u, d, e, p)
        \/ StartRevoke(r, u, d)
  BY DEF Start
<1>2. /\ home[d] \in lived[d] \cup {None}
      /\ home[d] \in Projects \cup {None}
  BY DEF SharingInv, SharingTypeOK, Homes
<1>3. ASSUME NEW v \in People, NEW p \in Offered, StartUserGrant(r, u, d, v, p)
      PROVE  SharingInv'
  <2> DEFINE call == [ShareCall("user", u, d) EXCEPT !.to = v, !.permission = p]
  <2>1. call \in Call
    BY <1>2 DEF ShareCall, Idle, Call, Pc
  <2>2. CallShape(call)
    BY <1>2 DEF ShareCall, Idle, CallShape, ShareShape, ShareSteps, GuestSteps
  <2> QED BY <1>3, <2>1, <2>2, StartStep DEF StartUserGrant
<1>4. ASSUME NEW p \in Lent, StartLink(r, u, d, p)
      PROVE  SharingInv'
  <2> DEFINE call == [ShareCall("link", u, d) EXCEPT !.to = Link, !.permission = p]
  <2>1. call \in Call
    BY <1>2 DEF ShareCall, Idle, Call, Pc
  <2>2. CallShape(call)
    BY <1>2, <1>4 DEF StartLink, ShareCall, Idle, CallShape, ShareShape, ShareSteps, GuestSteps
  <2> QED BY <1>4, <2>1, <2>2, StartStep DEF StartLink
<1>5. ASSUME NEW p \in Lent, NEW e \in Guests, StartGuestShare(r, u, d, e, p)
      PROVE  SharingInv'
  <2> DEFINE call == [Idle EXCEPT !.pc = "org", !.kind = "guest", !.by = u, !.document = d,
                                  !.to = e, !.permission = p]
  <2>1. call \in Call
    BY DEF Idle, Call, Pc, People
  <2>2. CallShape(call)
    BY <1>5 DEF StartGuestShare, Idle, CallShape, GuestShape, ShareSteps, GuestSteps
  <2> QED BY <1>5, <2>1, <2>2, StartStep DEF StartGuestShare
<1>6. CASE StartRevoke(r, u, d)
  <2>1. ShareCall("revoke", u, d) \in Call
    BY <1>2 DEF ShareCall, Idle, Call, Pc
  <2>2. CallShape(ShareCall("revoke", u, d))
    BY <1>2 DEF ShareCall, Idle, CallShape, ShareShape, ShareSteps, GuestSteps
  <2> QED BY <1>6, <2>1, <2>2, StartStep DEF StartRevoke
<1> QED BY <1>1, <1>3, <1>4, <1>5, <1>6

\* The highest permission of a set is in it, and permits whatever one of them permits.
LEMMA HighestIsHeld ==
  ASSUME NEW own \in SUBSET Permissions, NEW p \in own
  PROVE  highest(own) \in own /\ \A q \in own : permits(highest(own), q)
<1>1. \E m \in own : \A q \in own : permits(m, q)
  <2> USE DEF permits, rank, Permissions
  <2>1. CASE "edit" \in own      BY <2>1
  <2>2. CASE "edit" \notin own /\ "share" \in own      BY <2>2
  <2>3. CASE own \subseteq {"read", "comment"} /\ "comment" \in own      BY <2>3
  <2>4. CASE own \subseteq {"read"}      BY <2>4
  <2> QED BY <2>1, <2>2, <2>3, <2>4
<1> QED BY <1>1 DEF highest

LEMMA PermitsTransitive ==
  ASSUME NEW p \in Permissions, NEW q \in Permissions, NEW s \in Permissions,
         permits(p, q), permits(q, s)
  PROVE  permits(p, s)
  BY DEF permits, rank, Permissions

\* The rows are rows, at their numbers.
LEMMA GrantsTyped ==
  ASSUME SharingInv
  PROVE  /\ grants \in Seq(Grant)
         /\ DOMAIN grants = 1 .. Len(grants)
         /\ \A i \in DOMAIN grants : i \in Nat /\ grants[i] \in Grant
<1>1. grants \in Seq(Grant)
  BY DEF SharingInv, SharingTypeOK
<1>2. DOMAIN grants = 1 .. Len(grants) /\ Len(grants) \in Nat
  BY <1>1, LenProperties
<1>3. \A i \in 1 .. Len(grants) : grants[i] \in Grant
  BY <1>1, ElementOfSeq
<1> QED BY <1>1, <1>2, <1>3

LEMMA RequireShareableInv ==
  ASSUME SharingInv, NEW r \in Requests, RequireShareable(r)
  PROVE  SharingInv'
<1> DEFINE c == request[r]
           own == GrantsOn(c.by, c.document, c.project)
           call == [c EXCEPT !.pc = IF c.kind = "revoke" THEN "list" ELSE "mode",
                             !.own = IF canManageDocument(c.by, c.document)
                                     THEN None ELSE highest(own)]
<1>1. c \in Call /\ c.pc = "permission" /\ ShareShape(c)
  BY DEF SharingInv, SharingTypeOK, RequireShareable, At, CallShape, ShareSteps
<1>2. own \in SUBSET Permissions
  BY GrantsTyped DEF GrantsOn, listForUser, Grant
<1>3. CASE canShareDocument(c.by, c.document, own)
  <2>1. ASSUME ~canManageDocument(c.by, c.document)
        PROVE  highest(own) \in own /\ permits(highest(own), "share")
    <3>1. PICK p \in own : permits(p, "share")
      BY <1>3, <2>1 DEF canShareDocument
    <3>2. highest(own) \in own /\ permits(highest(own), p)
      BY <1>2, <3>1, HighestIsHeld
    <3> QED BY <1>2, <3>1, <3>2, PermitsTransitive DEF Permissions
  <2>2. call \in Call
    <3>1. (IF canManageDocument(c.by, c.document) THEN None ELSE highest(own))
            \in Permissions \cup {None}
      BY <1>2, <2>1
    <3>2. (IF c.kind = "revoke" THEN "list" ELSE "mode") \in Pc
      BY DEF Pc
    <3>3. ASSUME NEW pc \in Pc, NEW p \in Permissions \cup {None}
          PROVE  [c EXCEPT !.pc = pc, !.own = p] \in Call
      BY <1>1 DEF Call
    <3> QED BY <3>1, <3>2, <3>3
  <2>3. Entitled(call)
    <3>1. CASE canManageDocument(c.by, c.document)
      BY <1>1, <3>1 DEF Entitled, Call
    <3>2. CASE ~canManageDocument(c.by, c.document)
      <4>1. call.own = highest(own) /\ call.by = c.by /\ call.document = c.document
        BY <1>1, <3>2 DEF Call
      <4>2. PICK i \in DOMAIN grants :
              /\ grants[i].grantee = c.by
              /\ grants[i].permission = highest(own)
              /\ grants[i].subject \in {c.document, c.project}
        BY <2>1, <3>2 DEF GrantsOn, listForUser
      <4>3. grants[i].subject \in {c.document} \cup lived[c.document]
        <5>1. grants[i].subject # None
          BY GrantsTyped, SharingAssumption DEF Grant, Subjects
        <5> QED BY <1>1, <4>2, <5>1 DEF ShareShape
      <4> QED BY <1>2, <2>1, <3>2, <4>1, <4>2, <4>3 DEF Entitled
    <3> QED BY <3>1, <3>2
  <2>4. CallShape(call)
    BY <1>1, <2>3 DEF CallShape, ShareShape, ShareSteps, GuestSteps, Call
  <2>5. Reads(r, call)
    BY <1>3 DEF RequireShareable
  <2> QED BY <2>2, <2>4, <2>5, ReadStep
<1>4. CASE ~canShareDocument(c.by, c.document, own)
  BY <1>4, RefusedInv DEF RequireShareable
<1> QED BY <1>3, <1>4

LEMMA CheckModeInv ==
  ASSUME SharingInv, NEW r \in Requests, CheckMode(r)
  PROVE  SharingInv'
<1> DEFINE c == request[r]
           call == [c EXCEPT !.pc = "create"]
<1>1. c \in Call /\ c.pc = "mode" /\ ShareShape(c) /\ Entitled(c) /\ c.kind # "revoke"
  BY DEF SharingInv, SharingTypeOK, CheckMode, At, CallShape, ShareSteps
<1>2. CASE AllowedToCreate(c)
  <2>1. call \in Call
    BY <1>1 DEF Call, Pc
  <2>2. c.own # None => canDelegate(c.own, c.permission)
    <3>1. CASE c.kind = "user"
      BY <1>2, <3>1 DEF AllowedToCreate
    <3>2. CASE c.kind = "link"
      BY <1>1, <3>2 DEF ShareShape, Entitled, isLinkGrantable, canDelegate, permits, rank, Permissions
    <3> QED BY <1>1, <3>1, <3>2 DEF ShareShape
  <2>3. CallShape(call)
    BY <1>1, <1>2, <2>2
       DEF CallShape, ShareShape, Entitled, CreateShape, ShareSteps, GuestSteps, Call, AllowedToCreate
  <2>4. Reads(r, call)
    BY <1>2 DEF CheckMode
  <2> QED BY <2>1, <2>3, <2>4, ReadStep
<1>3. CASE ~AllowedToCreate(c)
  BY <1>3, RefusedInv DEF CheckMode
<1> QED BY <1>2, <1>3

LEMMA CreateGrantInv ==
  ASSUME SharingInv, NEW r \in Requests, CreateGrant(r)
  PROVE  SharingInv'
<1> DEFINE c == request[r]
           g == [subject |-> c.document, grantee |-> c.to, permission |-> c.permission,
                 createdBy |-> c.by, guest |-> FALSE, status |-> "live"]
<1>1. ShareShape(c) /\ CreateShape(c) /\ c.kind # "revoke"
  BY DEF SharingInv, CreateGrant, At, CallShape, ShareSteps
<1>2. c.permission \in Permissions /\ c.to \in People \cup {Link}
  BY <1>1 DEF ShareShape, isLinkGrantable, Permissions
<1>3. g \in Grant
  BY <1>1, <1>2 DEF Grant, ShareShape, Subjects
<1>4. g.grantee = Link => g.subject \in Documents /\ isLinkGrantable(g.permission)
  BY <1>1, SharingAssumption DEF ShareShape, People
<1>5. RowsKept /\ GrantsTypeOK' /\ RowShape'
  BY <1>1, <1>3, <1>4, InsertKeeps DEF CreateGrant, Insert, CreateShape
<1> QED BY <1>5, WriteStep DEF CreateGrant

LEMMA ListTargetInv ==
  ASSUME SharingInv, NEW r \in Requests, NEW i \in 1 .. MaxGrants, ListTarget(r, i)
  PROVE  SharingInv'
<1> DEFINE c == request[r]
           call == [c EXCEPT !.pc = "revoke", !.row = i]
<1>1. c \in Call /\ c.pc = "list" /\ ShareShape(c)
  BY DEF SharingInv, SharingTypeOK, ListTarget, At, CallShape, ShareSteps
<1>2. CASE MayRevoke(c, i)
  <2>1. i \in DOMAIN grants
    BY <1>2 DEF MayRevoke, listForDocument
  <2>2. call \in Call
    BY <1>1, <2>1, GrantsTyped DEF Call, Pc
  <2>3. CallShape(call)
    BY <1>1, <2>1 DEF CallShape, ShareShape, ShareSteps, GuestSteps, Call
  <2> QED BY <1>2, <2>2, <2>3, ReadStep DEF ListTarget
<1>3. CASE ~MayRevoke(c, i)
  BY <1>3, RefusedInv DEF ListTarget
<1> QED BY <1>2, <1>3

LEMMA RevokeGrantInv ==
  ASSUME SharingInv, NEW r \in Requests, RevokeGrant(r)
  PROVE  SharingInv'
<1> DEFINE i == request[r].row
           g == [grants[i] EXCEPT !.status = "revoked"]
<1>1. i \in DOMAIN grants
  BY DEF SharingInv, RevokeGrant, At, CallShape
<1>2. grants[i] \in Grant
  BY <1>1, GrantsTyped
<1>3. /\ g \in Grant
      /\ g.subject = grants[i].subject /\ g.grantee = grants[i].grantee
      /\ g.createdBy = grants[i].createdBy /\ g.guest = grants[i].guest
      /\ g.permission = grants[i].permission
  BY <1>2 DEF Grant
<1>4. RowsKept /\ GrantsTypeOK' /\ RowShape'
  BY <1>1, <1>3, ChangeKeeps DEF RevokeGrant
<1> QED BY <1>4, WriteStep DEF RevokeGrant

-----------------------------------------------------------------------------
\* Links.
LEMMA OpenLinkInv ==
  ASSUME SharingInv, NEW r \in Requests, NEW i \in DOMAIN grants, NEW u \in Members,
         OpenLink(r, u, i)
  PROVE  SharingInv'
<1> DEFINE g == grants[i]
           call == [Idle EXCEPT !.pc = "already", !.kind = "redeem", !.by = u, !.row = i,
                                !.document = g.subject, !.permission = g.permission]
<1>1. /\ g \in Grant /\ i \in Nat
      /\ g.grantee = Link \/ g.guest
      /\ isLinkGrantable(g.permission)
  BY GrantsTyped DEF OpenLink
<1>2. g.subject \in Documents
  BY <1>1 DEF SharingInv, RowShape
<1>3. call \in Call
  BY <1>1, <1>2 DEF Idle, Call, Pc, Grant
<1>4. CallShape(call)
  BY <1>1 DEF Idle, CallShape, OfLink, ShareSteps, GuestSteps
<1>5. Starts(r, call)
  BY DEF OpenLink
<1> QED BY <1>3, <1>4, <1>5, StartStep

LEMMA CheckAlreadyInv ==
  ASSUME SharingInv, NEW r \in Requests, CheckAlready(r)
  PROVE  SharingInv'
<1> DEFINE c == request[r]
           call == [c EXCEPT !.pc = "redeem"]
<1>1. c \in Call /\ c.by \in Members /\ OfLink(c)
  BY DEF SharingInv, SharingTypeOK, CheckAlready, At, CallShape
<1>2. call \in Call
  BY <1>1 DEF Call, Pc
<1>3. CallShape(call)
  BY <1>1 DEF CallShape, OfLink, ShareSteps, GuestSteps, Call
<1>4. Refused(r) \/ Reads(r, call)
  BY DEF CheckAlready
<1> QED BY <1>2, <1>3, <1>4, ReadStep, RefusedInv

\* The copy of a link is a member's grant on a document.
LEMMA RedeemedRow ==
  ASSUME SharingInv, NEW r \in Requests, RedeemLink(r)
  PROVE  LET c == request[r]
             g == [subject |-> c.document, grantee |-> c.by, permission |-> c.permission,
                   createdBy |-> grants[c.row].createdBy, guest |-> FALSE, status |-> "live"]
         IN  /\ c.by \in Members /\ c.document \in Documents /\ OfLink(c)
             /\ g \in Grant /\ grants' = Append(grants, g)
<1> DEFINE c == request[r]
<1>1. c.by \in Members /\ OfLink(c)
  BY DEF SharingInv, RedeemLink, At, CallShape
<1>2. grants[c.row] \in Grant /\ c.document \in Documents
  BY <1>1, GrantsTyped DEF OfLink, SharingInv, RowShape
<1>3. c.permission \in Permissions
  BY <1>1 DEF OfLink, isLinkGrantable, Permissions
<1> QED BY <1>1, <1>2, <1>3 DEF RedeemLink, Insert, Grant, Subjects, People

LEMMA RedeemLinkInv ==
  ASSUME SharingInv, NEW r \in Requests, RedeemLink(r)
  PROVE  SharingInv'
<1> DEFINE c == request[r]
           g == [subject |-> c.document, grantee |-> c.by, permission |-> c.permission,
                 createdBy |-> grants[c.row].createdBy, guest |-> FALSE, status |-> "live"]
<1>1. c.by \in Members /\ g \in Grant /\ grants' = Append(grants, g)
  BY RedeemedRow
<1>2. c.by # Link /\ c.by \notin Guests
  BY <1>1, SharingAssumption
<1>3. RowsKept /\ GrantsTypeOK' /\ RowShape'
  BY <1>1, <1>2, InsertKeeps
<1> QED BY <1>3, WriteStep DEF RedeemLink

-----------------------------------------------------------------------------
\* Guest shares.
LEMMA GuestReads ==
  ASSUME SharingInv, NEW r \in Requests, request[r].pc \in GuestSteps,
         NEW pc \in GuestSteps \ {"extend"}
  PROVE  /\ [request[r] EXCEPT !.pc = pc] \in Call
         /\ CallShape([request[r] EXCEPT !.pc = pc])
<1>1. request[r] \in Call /\ GuestShape(request[r])
  BY DEF SharingInv, SharingTypeOK, CallShape
<1>2. [request[r] EXCEPT !.pc = pc] \in Call
  BY <1>1 DEF Call, Pc, GuestSteps
<1>3. CallShape([request[r] EXCEPT !.pc = pc])
  BY <1>1 DEF CallShape, GuestShape, ShareSteps, GuestSteps, Call
<1> QED BY <1>2, <1>3

LEMMA GuestChecksInv ==
  ASSUME SharingInv, NEW r \in Requests,
         CheckExternal(r) \/ CheckGuestCap(r) \/ GuestByEmail(r)
  PROVE  SharingInv'
<1> DEFINE c == request[r]
<1>1. CASE CheckExternal(r)
  <2>1. Refused(r) \/ Reads(r, [c EXCEPT !.pc = "emails"])
    BY <1>1 DEF CheckExternal
  <2>2. c.pc \in GuestSteps
    BY <1>1 DEF CheckExternal, At, GuestSteps
  <2>3. "emails" \in GuestSteps \ {"extend"}
    BY DEF GuestSteps
  <2> QED BY <2>1, <2>2, <2>3, GuestReads, ReadStep, RefusedInv
<1>2. CASE CheckGuestCap(r)
  <2>1. Refused(r) \/ Reads(r, [c EXCEPT !.pc = "guest"])
    BY <1>2 DEF CheckGuestCap
  <2>2. c.pc \in GuestSteps
    BY <1>2 DEF CheckGuestCap, At, GuestSteps
  <2>3. "guest" \in GuestSteps \ {"extend"}
    BY DEF GuestSteps
  <2> QED BY <2>1, <2>2, <2>3, GuestReads, ReadStep, RefusedInv
<1>3. CASE GuestByEmail(r)
  <2>1. PICK pc \in {"existing", "newGuest"} : Reads(r, [c EXCEPT !.pc = pc])
    BY <1>3 DEF GuestByEmail
  <2>2. c.pc \in GuestSteps
    BY <1>3 DEF GuestByEmail, At, GuestSteps
  <2>3. pc \in GuestSteps \ {"extend"}
    BY DEF GuestSteps
  <2> QED BY <2>1, <2>2, <2>3, GuestReads, ReadStep
<1> QED BY <1>1, <1>2, <1>3

LEMMA CreateGuestInv ==
  ASSUME SharingInv, NEW r \in Requests, CreateGuest(r)
  PROVE  SharingInv'
<1> DEFINE c == request[r]
           call == [c EXCEPT !.pc = "existing"]
<1>1. CASE Refused(r)
  BY <1>1, RefusedInv
<1>2. CASE ~Refused(r)
  <2>1. /\ guestUsers' = guestUsers \cup {c.to} /\ Goes(r, call) /\ UNCHANGED grants
        /\ c.pc = "newGuest"
    BY <1>2 DEF CreateGuest, At
  <2>2. call \in Call /\ CallShape(call)
    BY <2>1, GuestReads DEF GuestSteps
  <2>3. guestUsers' \subseteq Guests
    BY <2>1 DEF SharingInv, SharingTypeOK, CallShape, GuestShape, GuestSteps
  <2> QED BY <2>1, <2>2, <2>3, GoStep, NoRowChanges
<1> QED BY <1>1, <1>2

LEMMA FindExistingInv ==
  ASSUME SharingInv, NEW r \in Requests, FindExisting(r)
  PROVE  SharingInv'
<1> DEFINE c == request[r]
<1>1. c \in Call /\ c.pc = "existing" /\ GuestShape(c)
  BY DEF SharingInv, SharingTypeOK, FindExisting, At, CallShape, GuestSteps
<1>2. CASE Reads(r, [c EXCEPT !.pc = "insert"])
  BY <1>1, <1>2, GuestReads, ReadStep DEF GuestSteps
<1>3. ASSUME NEW i \in GuestGrants(c), Reads(r, [c EXCEPT !.pc = "extend", !.row = i])
      PROVE  SharingInv'
  <2> DEFINE call == [c EXCEPT !.pc = "extend", !.row = i]
  <2>1. i \in DOMAIN grants /\ grants[i].guest
    BY <1>3 DEF GuestGrants, listForDocument
  <2>2. call \in Call
    BY <1>1, <2>1, GrantsTyped DEF Call, Pc
  <2>3. CallShape(call)
    BY <1>1, <2>1 DEF CallShape, GuestShape, ShareSteps, GuestSteps, Call
  <2> QED BY <1>3, <2>2, <2>3, ReadStep
<1> QED BY <1>2, <1>3 DEF FindExisting

LEMMA ExtendGuestGrantInv ==
  ASSUME SharingInv, NEW r \in Requests, ExtendGuestGrant(r)
  PROVE  SharingInv'
<1> DEFINE c == request[r]
           i == c.row
           g == [grants[i] EXCEPT !.permission = c.permission,
                                  !.status = IF @ = "expired" THEN "revived" ELSE @]
<1>1. i \in DOMAIN grants /\ grants[i].guest /\ isGuestGrantable(c.permission)
  BY DEF SharingInv, ExtendGuestGrant, At, CallShape, GuestShape, GuestSteps
<1>2. grants[i] \in Grant
  BY <1>1, GrantsTyped
<1>3. /\ g \in Grant
      /\ g.subject = grants[i].subject /\ g.grantee = grants[i].grantee
      /\ g.createdBy = grants[i].createdBy /\ g.guest = grants[i].guest
      /\ g.permission = c.permission
  BY <1>1, <1>2 DEF Grant, isGuestGrantable, Permissions
<1>4. CASE Refused(r)
  BY <1>4, RefusedInv
<1>5. CASE ~Refused(r)
  <2>1. Change(i, g) /\ Answers(r) /\ UNCHANGED guestUsers
    BY <1>5 DEF ExtendGuestGrant
  <2>2. RowsKept /\ GrantsTypeOK' /\ RowShape'
    BY <1>1, <1>3, <2>1, ChangeKeeps
  <2> QED BY <2>1, <2>2, WriteStep
<1> QED BY <1>4, <1>5

LEMMA InsertGuestGrantInv ==
  ASSUME SharingInv, NEW r \in Requests, InsertGuestGrant(r)
  PROVE  SharingInv'
<1> DEFINE c == request[r]
           g == [subject |-> c.document, grantee |-> c.to, permission |-> c.permission,
                 createdBy |-> c.by, guest |-> TRUE, status |-> "live"]
<1>1. GuestShape(c)
  BY DEF SharingInv, InsertGuestGrant, At, CallShape, GuestSteps
<1>2. g \in Grant
  BY <1>1 DEF GuestShape, Grant, Subjects, People, isGuestGrantable, Permissions
<1>3. /\ g.grantee \in Guests /\ g.grantee # Link /\ isGuestGrantable(g.permission)
      /\ g.subject \in Documents /\ canManageDocument(g.createdBy, g.subject)
  BY <1>1, SharingAssumption DEF GuestShape
<1>4. CASE Refused(r)
  BY <1>4, RefusedInv
<1>5. CASE ~Refused(r)
  <2>1. grants' = Append(grants, g) /\ Answers(r) /\ UNCHANGED guestUsers
    BY <1>5 DEF InsertGuestGrant, Insert
  <2>2. RowsKept /\ GrantsTypeOK' /\ RowShape'
    BY <1>2, <1>3, <2>1, InsertKeeps
  <2> QED BY <2>1, <2>2, WriteStep
<1> QED BY <1>4, <1>5

-----------------------------------------------------------------------------
\* What no call waits on.
LEMMA AloneStep ==
  ASSUME SharingInv, RowsKept, LivedGrows, GrantsTypeOK', RowShape', Homes',
         UNCHANGED <<guestUsers, request>>, calls' \in Nat,
         home' \in [Documents -> Projects \cup {None}],
         lived' \in [Documents -> SUBSET Projects],
         sharingMode' \in {"link", "directory"}, externalSharing' \in BOOLEAN
  PROVE  SharingInv'
<1>1. ASSUME NEW x \in Requests
      PROVE  CallShape(request[x])'
  <2>1. PICK c : c = request[x] /\ CallShape(c)
    BY DEF SharingInv
  <2>2. CallShape(c)'
    BY <2>1, ShapeKept DEF SharingInv
  <2>3. request'[x] = c
    BY <2>1
  <2> QED
    BY <2>2, <2>3 DEF CallShape, ShareShape, Entitled, CreateShape, OfLink, GuestShape
<1> QED BY <1>1 DEF SharingInv, SharingTypeOK, GrantsTypeOK

LEMMA StatusStep ==
  ASSUME SharingInv, NEW i \in DOMAIN grants, NEW status \in {"revoked", "expired"},
         Change(i, [grants[i] EXCEPT !.status = status]),
         UNCHANGED <<guestUsers, home, lived, sharingMode, externalSharing, request, calls>>
  PROVE  SharingInv'
<1> DEFINE g == [grants[i] EXCEPT !.status = status]
<1>1. grants[i] \in Grant
  BY GrantsTyped
<1>2. /\ g \in Grant
      /\ g.subject = grants[i].subject /\ g.grantee = grants[i].grantee
      /\ g.createdBy = grants[i].createdBy /\ g.guest = grants[i].guest
      /\ g.permission = grants[i].permission
  BY <1>1 DEF Grant
<1>3. RowsKept /\ GrantsTypeOK' /\ RowShape'
  BY <1>2, ChangeKeeps
<1>4. LivedGrows /\ Homes'
  BY DEF LivedGrows, Homes, SharingInv
<1> QED BY <1>3, <1>4, AloneStep DEF SharingInv, SharingTypeOK

LEMMA GrantProjectInv ==
  ASSUME SharingInv, NEW u \in Members, NEW s \in Projects, NEW v \in People,
         NEW p \in Offered, GrantProject(u, s, v, p)
  PROVE  SharingInv'
<1> DEFINE g == [subject |-> s, grantee |-> v, permission |-> p, createdBy |-> u,
                 guest |-> FALSE, status |-> "live"]
<1>1. g \in Grant /\ g.grantee # Link
  BY SharingAssumption DEF Grant, Subjects, People
<1>2. RowsKept /\ GrantsTypeOK' /\ RowShape'
  BY <1>1, InsertKeeps DEF GrantProject, Insert
<1>3. LivedGrows /\ Homes'
  BY DEF GrantProject, LivedGrows, Homes, SharingInv
<1> QED BY <1>2, <1>3, AloneStep DEF GrantProject, Counted, SharingInv, SharingTypeOK

LEMMA MoveDocumentInv ==
  ASSUME SharingInv, NEW d \in Documents, NEW s \in Projects \cup {None}, MoveDocument(d, s)
  PROVE  SharingInv'
<1>1. /\ home' \in [Documents -> Projects \cup {None}]
      /\ lived' \in [Documents -> SUBSET Projects]
      /\ LivedGrows
  BY DEF MoveDocument, SharingInv, SharingTypeOK, LivedGrows
<1>2. Homes'
  BY DEF MoveDocument, SharingInv, SharingTypeOK, Homes
<1> QED
  BY <1>1, <1>2, NoRowChanges, AloneStep DEF MoveDocument, Counted, SharingInv, SharingTypeOK

LEMMA UpdateOrgSettingsInv ==
  ASSUME SharingInv, NEW mode \in {"link", "directory"}, NEW external \in BOOLEAN,
         UpdateOrgSettings(mode, external)
  PROVE  SharingInv'
<1>1. LivedGrows /\ Homes'
  BY DEF UpdateOrgSettings, LivedGrows, Homes, SharingInv
<1> QED
  BY <1>1, NoRowChanges, AloneStep DEF UpdateOrgSettings, Counted, SharingInv, SharingTypeOK

LEMMA StutterInv == ASSUME SharingInv, UNCHANGED sharingVars PROVE SharingInv'
<1>1. LivedGrows /\ Homes'
  BY DEF sharingVars, LivedGrows, Homes, SharingInv
<1> QED BY <1>1, NoRowChanges, AloneStep DEF sharingVars, SharingInv, SharingTypeOK

LEMMA SharingStep == SharingInv /\ [SharingNext]_sharingVars => SharingInv'
<1> SUFFICES ASSUME SharingInv, [SharingNext]_sharingVars PROVE SharingInv'
  OBVIOUS
<1>1. ASSUME NEW r \in Requests, Step(r) PROVE SharingInv'
  BY <1>1, RequireShareableInv, CheckModeInv, CreateGrantInv, RevokeGrantInv, CheckAlreadyInv,
     RedeemLinkInv, GuestChecksInv, CreateGuestInv, FindExistingInv, ExtendGuestGrantInv,
     InsertGuestGrantInv DEF Step
<1>2. ASSUME NEW r \in Requests, Start(r) PROVE SharingInv'
  BY <1>2, StartInv
<1>3. ASSUME NEW r \in Requests, NEW i \in 1 .. MaxGrants, ListTarget(r, i) PROVE SharingInv'
  BY <1>3, ListTargetInv
<1>4. ASSUME NEW r \in Requests, NEW i \in DOMAIN grants, NEW u \in Members, OpenLink(r, u, i)
      PROVE  SharingInv'
  BY <1>4, OpenLinkInv
<1>5. ASSUME NEW u \in Members, NEW s \in Projects, NEW v \in People, NEW p \in Offered,
             GrantProject(u, s, v, p)
      PROVE  SharingInv'
  BY <1>5, GrantProjectInv
<1>6. ASSUME NEW i \in DOMAIN grants, RevokeProject(i) \/ Expire(i) PROVE SharingInv'
  BY <1>6, StatusStep DEF RevokeProject, Expire
<1>7. ASSUME NEW d \in Documents, NEW s \in Projects \cup {None}, MoveDocument(d, s)
      PROVE  SharingInv'
  BY <1>7, MoveDocumentInv
<1>8. ASSUME NEW mode \in {"link", "directory"}, NEW external \in BOOLEAN,
             UpdateOrgSettings(mode, external)
      PROVE  SharingInv'
  BY <1>8, UpdateOrgSettingsInv
<1>9. CASE UNCHANGED sharingVars
  BY <1>9, StutterInv
<1> QED BY <1>1, <1>2, <1>3, <1>4, <1>5, <1>6, <1>7, <1>8, <1>9 DEF SharingNext

THEOREM SharingInvariant == SharingSpec => []SharingInv
  BY InitSharing, SharingStep, PTL DEF SharingSpec

\* In every reachable state the rows, the calls and the settings are of their types, and a
\* row for a guest carries read or comment and no more, though the guest rule of
\* createUserGrant and the row it lets through are steps apart.
THEOREM SharingTypeCorrect == SharingSpec => []SharingTypeOK
<1>1. SharingInv => SharingTypeOK
  BY DEF SharingInv
<1> QED BY <1>1, SharingInvariant, PTL

-----------------------------------------------------------------------------
\* All that a step can do to the rows.
Changed(i, g) ==
  /\ i \in DOMAIN grants /\ g \in Grant /\ Change(i, g)
  /\ g.subject = grants[i].subject /\ g.grantee = grants[i].grantee
  /\ g.createdBy = grants[i].createdBy /\ g.guest = grants[i].guest
  /\ ~g.guest => g.permission = grants[i].permission
  /\ grants[i].status = "revoked" => g.status = "revoked"
  /\ g.status = "live" => grants[i].status = "live"

ForGuest(g) ==
  g.guest /\ g.grantee \in Guests /\ Cardinality(ActiveGuests \ {g.grantee}) < GuestLimit

ForUser(g) ==
  /\ ~g.guest /\ g.grantee \in People
  /\ g.grantee \in Guests => isGuestGrantable(g.permission)
  /\ \/ g.subject \in Documents /\ Delegated!MayHandOut(g.createdBy, g.subject, g.permission)
     \/ g.subject \in Documents /\ <<g.subject, g.permission, g.createdBy>> \in Links
     \/ g.subject \in Projects /\ g.createdBy \in Admins

ForLink(g) ==
  /\ ~g.guest /\ g.grantee = Link /\ g.subject \in Documents
  /\ isLinkGrantable(g.permission)
  /\ Delegated!MayHandOut(g.createdBy, g.subject, g.permission)

Added(g) ==
  /\ g \in Grant /\ grants' = Append(grants, g)
  /\ ForGuest(g) \/ ForUser(g) \/ ForLink(g)

Moved(d, s) == lived' = [lived EXCEPT ![d] = @ \cup {s}]

RowsStep ==
  \/ UNCHANGED <<grants, lived>>
  \/ UNCHANGED grants /\ \E d \in Documents, s \in Projects : Moved(d, s)
  \/ UNCHANGED lived /\ \E i, g : Changed(i, g)
  \/ UNCHANGED lived /\ \E g : Added(g)

\* Who was found entitled is one the abstract specification lets hand out.
LEMMA EntitledMayHandOut ==
  ASSUME SharingInv, NEW c, ShareShape(c), Entitled(c), c.permission \in Permissions,
         c.own # None => canDelegate(c.own, c.permission)
  PROVE  Delegated!MayHandOut(c.by, c.document, c.permission)
<1>1. CASE c.own = None /\ canManageDocument(c.by, c.document)
  BY <1>1 DEF canManageDocument, Delegated!MayHandOut
<1>2. CASE ~(c.own = None /\ canManageDocument(c.by, c.document))
  <2>1. PICK i \in DOMAIN grants :
          /\ grants[i].grantee = c.by
          /\ grants[i].permission = c.own
          /\ grants[i].subject \in {c.document} \cup lived[c.document]
    BY <1>2 DEF Entitled
  <2>2. c.own \in Permissions /\ permits(c.own, "share") /\ canDelegate(c.own, c.permission)
    BY <1>2, SharingAssumption DEF Entitled
  <2>3. c.by \in Members /\ c.by \notin Guests /\ c.by # Link
    BY SharingAssumption DEF ShareShape
  <2>4. ~grants[i].guest /\ grants[i].grantee # Link
    BY <2>1, <2>3 DEF SharingInv, RowShape
  <2>5. grants[i].createdBy \in Members
    BY GrantsTyped DEF Grant
  <2>6. <<grants[i].subject, c.by, c.own, grants[i].createdBy>> \in Held
    BY <2>1, <2>4 DEF Held
  <2>7. Delegated!permits(c.own, "share") /\ Delegated!canDelegate(c.own, c.permission)
    BY <2>2 DEF permits, rank, canDelegate, Delegated!permits, Delegated!rank, Delegated!canDelegate
  <2>8. c.own \in Delegated!Permissions
    BY <2>2 DEF Permissions, Delegated!Permissions
  <2> QED BY <2>1, <2>5, <2>6, <2>7, <2>8 DEF Delegated!MayHandOut
<1> QED BY <1>1, <1>2

LEMMA CreateGrantRows ==
  ASSUME SharingInv, NEW r \in Requests, CreateGrant(r)
  PROVE  RowsStep
<1> DEFINE c == request[r]
           g == [subject |-> c.document, grantee |-> c.to, permission |-> c.permission,
                 createdBy |-> c.by, guest |-> FALSE, status |-> "live"]
<1>1. ShareShape(c) /\ CreateShape(c) /\ Entitled(c) /\ c.kind # "revoke"
  BY DEF SharingInv, CreateGrant, At, CallShape, ShareSteps
<1>2. c.permission \in Permissions /\ c.to \in People \cup {Link}
  BY <1>1 DEF ShareShape, isLinkGrantable, Permissions
<1>3. g \in Grant
  BY <1>1, <1>2 DEF Grant, ShareShape, Subjects
<1>4. Delegated!MayHandOut(c.by, c.document, c.permission)
  BY <1>1, <1>2, EntitledMayHandOut DEF CreateShape
<1>5. ForUser(g) \/ ForLink(g)
  <2>1. CASE c.to = Link
    <3>1. c.kind = "link"
      BY <1>1, <2>1, SharingAssumption DEF ShareShape, People
    <3> QED BY <1>1, <1>4, <2>1, <3>1 DEF ForLink, ShareShape
  <2>2. CASE c.to # Link
    BY <1>1, <1>2, <1>4, <2>2 DEF ForUser, ShareShape, CreateShape
  <2> QED BY <2>1, <2>2
<1>6. grants' = Append(grants, g) /\ UNCHANGED lived
  BY DEF CreateGrant, Insert, Answers, Goes
<1> QED BY <1>3, <1>5, <1>6 DEF RowsStep, Added

LEMMA RedeemLinkRows ==
  ASSUME SharingInv, NEW r \in Requests, RedeemLink(r)
  PROVE  RowsStep
<1> DEFINE c == request[r]
           creator == grants[c.row].createdBy
           g == [subject |-> c.document, grantee |-> c.by, permission |-> c.permission,
                 createdBy |-> creator, guest |-> FALSE, status |-> "live"]
<1>1. /\ c.by \in Members /\ c.document \in Documents /\ OfLink(c)
      /\ g \in Grant /\ grants' = Append(grants, g)
  BY RedeemedRow
<1>2. \/ Delegated!MayHandOut(creator, c.document, c.permission)
      \/ <<c.document, c.permission, creator>> \in Links
  <2>1. CASE grants[c.row].guest
    BY <1>1, <2>1
       DEF OfLink, SharingInv, RowShape, canManageDocument, Delegated!MayHandOut
  <2>2. CASE ~grants[c.row].guest
    BY <1>1, <2>2 DEF OfLink, Links
  <2> QED BY <2>1, <2>2
<1>3. ForUser(g)
  BY <1>1, <1>2, SharingAssumption DEF ForUser, People
<1>4. UNCHANGED lived
  BY DEF RedeemLink, Answers, Goes
<1> QED BY <1>1, <1>3, <1>4 DEF RowsStep, Added

LEMMA InsertGuestGrantRows ==
  ASSUME SharingInv, NEW r \in Requests, InsertGuestGrant(r)
  PROVE  RowsStep
<1> DEFINE c == request[r]
           g == [subject |-> c.document, grantee |-> c.to, permission |-> c.permission,
                 createdBy |-> c.by, guest |-> TRUE, status |-> "live"]
<1>1. GuestShape(c)
  BY DEF SharingInv, InsertGuestGrant, At, CallShape, GuestSteps
<1>2. g \in Grant
  BY <1>1 DEF GuestShape, Grant, Subjects, People, isGuestGrantable, Permissions
<1>3. CASE Refused(r)
  BY <1>3 DEF Refused, Reads, Goes, RowsStep
<1>4. CASE ~Refused(r)
  <2>1. /\ Cardinality(ActiveGuests \ {c.to}) < GuestLimit
        /\ grants' = Append(grants, g) /\ UNCHANGED lived
    BY <1>4 DEF InsertGuestGrant, Insert, Answers, Goes
  <2>2. ForGuest(g)
    BY <1>1, <2>1 DEF ForGuest, GuestShape
  <2>3. Added(g)
    BY <1>2, <2>1, <2>2 DEF Added
  <2> QED BY <2>1, <2>3 DEF RowsStep
<1> QED BY <1>3, <1>4

LEMMA ExtendGuestGrantRows ==
  ASSUME SharingInv, NEW r \in Requests, ExtendGuestGrant(r)
  PROVE  RowsStep
<1> DEFINE c == request[r]
           i == c.row
           g == [grants[i] EXCEPT !.permission = c.permission,
                                  !.status = IF @ = "expired" THEN "revived" ELSE @]
<1>1. i \in DOMAIN grants /\ grants[i].guest /\ isGuestGrantable(c.permission)
  BY DEF SharingInv, ExtendGuestGrant, At, CallShape, GuestShape, GuestSteps
<1>2. grants[i] \in Grant
  BY <1>1, GrantsTyped
<1>3. CASE Refused(r)
  BY <1>3 DEF Refused, Reads, Goes, RowsStep
<1>4. CASE ~Refused(r)
  <2>1. Change(i, g) /\ UNCHANGED lived
    BY <1>4 DEF ExtendGuestGrant, Answers, Goes
  <2>2. Changed(i, g)
    BY <1>1, <1>2, <2>1 DEF Changed, Grant, isGuestGrantable, Permissions
  <2> QED BY <2>1, <2>2 DEF RowsStep
<1> QED BY <1>3, <1>4

LEMMA StatusRows ==
  ASSUME SharingInv, NEW i \in DOMAIN grants, NEW status \in {"revoked", "expired"},
         Change(i, [grants[i] EXCEPT !.status = status]),
         grants[i].status = "revoked" => status = "revoked", UNCHANGED lived
  PROVE  RowsStep
<1>1. grants[i] \in Grant
  BY GrantsTyped
<1>2. Changed(i, [grants[i] EXCEPT !.status = status])
  BY <1>1 DEF Changed, Grant
<1> QED BY <1>2 DEF RowsStep

LEMMA SharingRows ==
  ASSUME SharingInv, [SharingNext]_sharingVars
  PROVE  RowsStep
<1>1. ASSUME NEW r \in Requests, Step(r)
      PROVE  RowsStep
  <2>1. CASE CreateGrant(r)
    BY <2>1, CreateGrantRows
  <2>2. CASE RedeemLink(r)
    BY <2>2, RedeemLinkRows
  <2>3. CASE InsertGuestGrant(r)
    BY <2>3, InsertGuestGrantRows
  <2>4. CASE ExtendGuestGrant(r)
    BY <2>4, ExtendGuestGrantRows
  <2>5. CASE RevokeGrant(r)
    <3>1. request[r].row \in DOMAIN grants
      BY <2>5 DEF SharingInv, RevokeGrant, At, CallShape
    <3>2. UNCHANGED lived
      BY <2>5 DEF RevokeGrant, Answers, Goes
    <3> QED BY <2>5, <3>1, <3>2, StatusRows DEF RevokeGrant
  <2>6. CASE CreateGuest(r)
    BY <2>6 DEF CreateGuest, Refused, Reads, Goes, RowsStep
  <2>7. CASE RequireShareable(r) \/ CheckMode(r) \/ CheckAlready(r)
    BY <2>7 DEF RequireShareable, CheckMode, CheckAlready, Refused, Reads, Goes, RowsStep
  <2>8. CASE CheckExternal(r) \/ CheckGuestCap(r) \/ GuestByEmail(r) \/ FindExisting(r)
    BY <2>8 DEF CheckExternal, CheckGuestCap, GuestByEmail, FindExisting, Refused, Reads, Goes,
                RowsStep
  <2> QED BY <1>1, <2>1, <2>2, <2>3, <2>4, <2>5, <2>6, <2>7, <2>8 DEF Step
<1>2. ASSUME NEW r \in Requests, Start(r)
      PROVE  RowsStep
  BY <1>2 DEF Start, StartUserGrant, StartLink, StartGuestShare, StartRevoke, Starts, RowsStep
<1>3. ASSUME NEW r \in Requests, NEW i \in 1 .. MaxGrants, ListTarget(r, i)
      PROVE  RowsStep
  BY <1>3 DEF ListTarget, Refused, Reads, Goes, RowsStep
<1>4. ASSUME NEW r \in Requests, NEW i \in DOMAIN grants, NEW u \in Members, OpenLink(r, u, i)
      PROVE  RowsStep
  BY <1>4 DEF OpenLink, Starts, RowsStep
<1>5. ASSUME NEW u \in Members, NEW s \in Projects, NEW v \in People, NEW p \in Offered,
             GrantProject(u, s, v, p)
      PROVE  RowsStep
  <2> DEFINE g == [subject |-> s, grantee |-> v, permission |-> p, createdBy |-> u,
                   guest |-> FALSE, status |-> "live"]
  <2>1. g \in Grant
    BY SharingAssumption DEF Grant, Subjects, People
  <2>2. ForUser(g)
    BY <1>5 DEF GrantProject, ForUser
  <2>3. grants' = Append(grants, g) /\ UNCHANGED lived
    BY <1>5 DEF GrantProject, Insert
  <2> QED BY <2>1, <2>2, <2>3 DEF RowsStep, Added
<1>6. ASSUME NEW i \in DOMAIN grants, RevokeProject(i) \/ Expire(i)
      PROVE  RowsStep
  BY <1>6, StatusRows DEF RevokeProject, Expire, Active
<1>7. ASSUME NEW d \in Documents, NEW s \in Projects \cup {None}, MoveDocument(d, s)
      PROVE  RowsStep
  <2>1. CASE s = None
    <3>1. s \notin Projects
      BY <2>1, SharingAssumption
    <3>2. lived' = lived
      BY <1>7, <3>1 DEF MoveDocument, SharingInv, SharingTypeOK
    <3> QED BY <1>7, <3>2 DEF MoveDocument, RowsStep
  <2>2. CASE s \in Projects
    <3>1. {s} \cap Projects = {s}
      BY <2>2
    <3> QED BY <1>7, <2>2, <3>1 DEF MoveDocument, Moved, RowsStep
  <2> QED BY <2>1, <2>2
<1>8. ASSUME NEW mode \in {"link", "directory"}, NEW external \in BOOLEAN,
             UpdateOrgSettings(mode, external)
      PROVE  RowsStep
  BY <1>8 DEF UpdateOrgSettings, RowsStep
<1>9. CASE UNCHANGED sharingVars
  BY <1>9 DEF sharingVars, RowsStep
<1> QED BY <1>1, <1>2, <1>3, <1>4, <1>5, <1>6, <1>7, <1>8, <1>9 DEF SharingNext

-----------------------------------------------------------------------------
\* What the two writes leave of the rows, as sequences.
LEMMA AddedRows ==
  ASSUME SharingInv, NEW g, Added(g)
  PROVE  /\ DOMAIN grants' = DOMAIN grants \cup {Len(grants) + 1}
         /\ \A i \in DOMAIN grants : grants'[i] = grants[i]
         /\ grants'[Len(grants) + 1] = g
<1>1. grants \in Seq(Grant) /\ DOMAIN grants = 1 .. Len(grants)
  BY GrantsTyped
<1>2. /\ Len(grants') = Len(grants) + 1 /\ grants' \in Seq(Grant)
      /\ \A i \in 1 .. Len(grants) : grants'[i] = grants[i]
      /\ grants'[Len(grants) + 1] = g
  BY <1>1, AppendProperties DEF Added
<1>3. DOMAIN grants' = 1 .. Len(grants) + 1 /\ Len(grants) \in Nat
  BY <1>1, <1>2, LenProperties
<1> QED BY <1>1, <1>2, <1>3

LEMMA ChangedRows ==
  ASSUME SharingInv, NEW i, NEW g, Changed(i, g)
  PROVE  /\ DOMAIN grants' = DOMAIN grants
         /\ \A j \in DOMAIN grants : grants'[j] = IF j = i THEN g ELSE grants[j]
<1>1. grants \in Seq(Grant)
  BY GrantsTyped
<1>2. grants' = [grants EXCEPT ![i] = g] /\ i \in DOMAIN grants
  BY DEF Changed, Change
<1>3. DOMAIN grants' = DOMAIN grants
  BY <1>2
<1>4. \A j \in DOMAIN grants : grants'[j] = IF j = i THEN g ELSE grants[j]
  BY <1>2
<1> QED BY <1>3, <1>4

-----------------------------------------------------------------------------
LEMMA RevokedStep ==
  ASSUME SharingInv, [SharingNext]_sharingVars, NEW i \in DOMAIN grants,
         grants[i].status = "revoked"
  PROVE  i \in DOMAIN grants' /\ grants'[i].status = "revoked"
<1>1. CASE UNCHANGED grants
  BY <1>1
<1>2. ASSUME NEW j, NEW g, Changed(j, g)
      PROVE  i \in DOMAIN grants' /\ grants'[i].status = "revoked"
  BY <1>2, ChangedRows DEF Changed
<1>3. ASSUME NEW g, Added(g)
      PROVE  i \in DOMAIN grants' /\ grants'[i].status = "revoked"
  BY <1>3, AddedRows
<1> QED BY <1>1, <1>2, <1>3, SharingRows DEF RowsStep

\* No step of any call makes a revoked grant count again: extendGuestGrant, the one write
\* that gives a grant a new term, finds only rows that are not revoked when it writes.
THEOREM RevokedForGood == SharingSpec => RevokedStaysRevoked
<1>1. SharingInv /\ [SharingNext]_sharingVars
        => [\A i \in DOMAIN grants :
              grants[i].status = "revoked" =>
                i \in DOMAIN grants' /\ grants'[i].status = "revoked"]_sharingVars
  BY RevokedStep
<1> QED BY <1>1, SharingInvariant, PTL DEF SharingSpec, RevokedStaysRevoked

-----------------------------------------------------------------------------
LEMMA GuestsAreFinite ==
  ASSUME SharingInv
  PROVE  /\ LiveGuests \subseteq ActiveGuests
         /\ IsFiniteSet(LiveGuests) /\ IsFiniteSet(ActiveGuests)
<1>1. LiveGuests \subseteq ActiveGuests
  BY DEF LiveGuests, ActiveGuests, Active
<1>2. ActiveGuests \subseteq Guests
  BY DEF ActiveGuests, SharingInv, RowShape
<1> QED BY <1>1, <1>2, SharingAssumption, FS_Subset

LEMMA GuestCapStep ==
  ASSUME SharingInv, GuestCapHeld, [SharingNext]_sharingVars
  PROVE  GuestCapHeld'
<1> USE SharingAssumption
<1>1. CASE UNCHANGED grants
  BY <1>1 DEF GuestCapHeld, LiveGuests
<1>2. ASSUME NEW i, NEW g, Changed(i, g)
      PROVE  GuestCapHeld'
  <2>1. LiveGuests' \subseteq LiveGuests
    BY <1>2, ChangedRows DEF Changed, LiveGuests
  <2>2. Cardinality(LiveGuests') <= Cardinality(LiveGuests)
        /\ Cardinality(LiveGuests') \in Nat /\ Cardinality(LiveGuests) \in Nat
    BY <2>1, GuestsAreFinite, FS_Subset, FS_CardinalityType
  <2> QED BY <2>2 DEF GuestCapHeld
<1>3. ASSUME NEW g, Added(g)
      PROVE  GuestCapHeld'
  <2>1. CASE ~g.guest
    <3>1. LiveGuests' \subseteq LiveGuests
      BY <1>3, <2>1, AddedRows DEF LiveGuests
    <3>2. Cardinality(LiveGuests') <= Cardinality(LiveGuests)
          /\ Cardinality(LiveGuests') \in Nat /\ Cardinality(LiveGuests) \in Nat
      BY <3>1, GuestsAreFinite, FS_Subset, FS_CardinalityType
    <3> QED BY <3>2 DEF GuestCapHeld
  <2>2. CASE g.guest
    <3> DEFINE others == LiveGuests \ {g.grantee}
    <3>1. Cardinality(ActiveGuests \ {g.grantee}) < GuestLimit
      BY <1>3, <2>2 DEF Added, ForGuest, ForUser, ForLink
    <3>2. IsFiniteSet(ActiveGuests \ {g.grantee}) /\ others \subseteq ActiveGuests \ {g.grantee}
      BY GuestsAreFinite, FS_Subset
    <3>3. /\ IsFiniteSet(others)
          /\ Cardinality(others) <= Cardinality(ActiveGuests \ {g.grantee})
          /\ Cardinality(others) \in Nat /\ Cardinality(ActiveGuests \ {g.grantee}) \in Nat
      BY <3>2, FS_Subset, FS_CardinalityType
    <3>4. /\ IsFiniteSet(others \cup {g.grantee})
          /\ Cardinality(others \cup {g.grantee}) = Cardinality(others) + 1
      BY <3>3, FS_AddElement
    <3>5. LiveGuests' \subseteq others \cup {g.grantee}
      BY <1>3, AddedRows DEF LiveGuests
    <3>6. /\ Cardinality(LiveGuests') <= Cardinality(others \cup {g.grantee})
          /\ Cardinality(LiveGuests') \in Nat
      BY <3>4, <3>5, FS_Subset, FS_CardinalityType
    <3> QED BY <3>1, <3>3, <3>4, <3>6 DEF GuestCapHeld
  <2> QED BY <2>1, <2>2
<1> QED BY <1>1, <1>2, <1>3, SharingRows DEF RowsStep

\* However many shares to however many addresses are under way at once, the count taken
\* under the organization's lock keeps the guests who never lost their grant within the
\* limit of the tier: the first count, which is stale by then, is not what holds.
THEOREM GuestCapCorrect == SharingSpec => []GuestCapHeld
<1>1. SharingInit => GuestCapHeld
  <2> SUFFICES ASSUME SharingInit PROVE GuestCapHeld
    OBVIOUS
  <2>1. LiveGuests = {}
    BY DEF SharingInit, LiveGuests
  <2>2. Cardinality(LiveGuests) = 0
    BY <2>1, FS_EmptySet
  <2> QED BY <2>2, SharingAssumption DEF GuestCapHeld
<1>2. SharingInv /\ GuestCapHeld /\ [SharingNext]_sharingVars => GuestCapHeld'
  BY GuestCapStep
<1> QED BY <1>1, <1>2, SharingInvariant, PTL DEF SharingSpec

-----------------------------------------------------------------------------
\* Sharing implements delegation.
LEMMA ChangeIsNoHandOut ==
  ASSUME SharingInv, NEW i, NEW g, Changed(i, g)
  PROVE  Held' = Held /\ Links' = Links
<1>1. ASSUME NEW j \in DOMAIN grants
      PROVE  /\ j \in DOMAIN grants'
             /\ grants'[j].subject = grants[j].subject
             /\ grants'[j].grantee = grants[j].grantee
             /\ grants'[j].createdBy = grants[j].createdBy
             /\ grants'[j].guest = grants[j].guest
             /\ ~grants[j].guest => grants'[j].permission = grants[j].permission
  BY ChangedRows DEF Changed
<1>2. DOMAIN grants' = DOMAIN grants
  BY ChangedRows
<1>3. \A j \in DOMAIN grants : grants[j].grantee = Link => ~grants[j].guest
  BY SharingAssumption DEF SharingInv, RowShape
<1> QED BY <1>1, <1>2, <1>3 DEF Held, Links

LEMMA AddedIsHandedOut ==
  ASSUME SharingInv, NEW g, Added(g)
  PROVE  /\ Held' = Held \cup (IF g.grantee # Link /\ ~g.guest
                               THEN {<<g.subject, g.grantee, g.permission, g.createdBy>>}
                               ELSE {})
         /\ Links' = Links \cup (IF g.grantee = Link
                                 THEN {<<g.subject, g.permission, g.createdBy>>}
                                 ELSE {})
  BY AddedRows DEF Held, Links

LEMMA DelegatedStep ==
  ASSUME SharingInv, [SharingNext]_sharingVars
  PROVE  [Delegated!DelegationNext]_(Delegated!delegationVars)
<1> USE SharingAssumption
<1>1. CASE UNCHANGED <<grants, lived>>
  BY <1>1 DEF Delegated!delegationVars, Held, Links
<1>2. ASSUME UNCHANGED grants, NEW d \in Documents, NEW s \in Projects, Moved(d, s)
      PROVE  Delegated!Settle(d, s)
  BY <1>2 DEF Moved, Delegated!Settle, Held, Links
<1>3. ASSUME UNCHANGED lived, NEW i, NEW g, Changed(i, g)
      PROVE  UNCHANGED Delegated!delegationVars
  BY <1>3, ChangeIsNoHandOut DEF Delegated!delegationVars
<1>4. ASSUME UNCHANGED lived, NEW g, Added(g)
      PROVE  [Delegated!DelegationNext]_(Delegated!delegationVars)
  <2> DEFINE u == g.createdBy
             v == g.grantee
             p == g.permission
             s == g.subject
  <2>1. u \in Members /\ p \in Delegated!Permissions
    BY <1>4 DEF Added, Grant, Permissions, Delegated!Permissions
  <2>2. CASE ForGuest(g)
    <3>1. g.grantee # Link
      BY <2>2 DEF ForGuest
    <3>2. Held' = Held /\ Links' = Links
      BY <1>4, <2>2, <3>1, AddedIsHandedOut DEF ForGuest
    <3> QED BY <1>4, <3>2 DEF Delegated!delegationVars
  <2>3. CASE ForUser(g)
    <3>1. v \in Members \cup Guests /\ v # Link
      BY <2>3 DEF ForUser, People
    <3>2. Held' = Held \cup {<<s, v, p, u>>} /\ Links' = Links
      BY <1>4, <2>3, <3>1, AddedIsHandedOut DEF ForUser
    <3>3. v \in Guests => Delegated!isGuestGrantable(p)
      BY <2>3 DEF ForUser, isGuestGrantable, Delegated!isGuestGrantable
    <3>4. CASE s \in Documents /\ Delegated!MayHandOut(u, s, p)
      <4>1. Delegated!HandOut(u, s, v, p)
        BY <1>4, <3>2, <3>3, <3>4 DEF Delegated!HandOut
      <4> QED BY <2>1, <3>1, <3>4, <4>1 DEF Delegated!DelegationNext
    <3>5. CASE s \in Documents /\ <<s, p, u>> \in Links
      <4>1. Delegated!FollowLink(u, s, v, p)
        BY <1>4, <3>2, <3>5 DEF Delegated!FollowLink
      <4> QED BY <2>1, <3>1, <3>5, <4>1 DEF Delegated!DelegationNext
    <3>6. CASE s \in Projects /\ u \in Admins
      <4>1. Delegated!HandOutProject(u, s, v, p)
        BY <1>4, <3>2, <3>3, <3>6 DEF Delegated!HandOutProject
      <4> QED BY <2>1, <3>1, <3>6, <4>1 DEF Delegated!DelegationNext
    <3> QED BY <2>3, <3>4, <3>5, <3>6 DEF ForUser
  <2>4. CASE ForLink(g)
    <3>1. Held' = Held /\ Links' = Links \cup {<<s, p, u>>}
      BY <1>4, <2>4, AddedIsHandedOut DEF ForLink
    <3>2. Delegated!isLinkGrantable(p)
      BY <2>4 DEF ForLink, isLinkGrantable, Delegated!isLinkGrantable
    <3>3. Delegated!PostLink(u, s, p)
      BY <1>4, <2>4, <3>1, <3>2 DEF ForLink, Delegated!PostLink
    <3> QED BY <2>1, <2>4, <3>3 DEF ForLink, Delegated!DelegationNext
  <2> QED BY <1>4, <2>2, <2>3, <2>4 DEF Added
<1> QED BY <1>1, <1>2, <1>3, <1>4, SharingRows DEF RowsStep, Delegated!DelegationNext

\* Every grant and every link comes from one who managed the document, or had been granted
\* share and at least as much, on it or on a project it had been in: sharing, with its
\* stale checks, implements delegation.
THEOREM SharingImplementsDelegation == SharingSpec => EditorsGrowFromEditors
<1>1. SharingInit => Delegated!DelegationInit
  <2> SUFFICES ASSUME SharingInit PROVE Delegated!DelegationInit
    OBVIOUS
  <2>1. Held = {} /\ Links = {}
    BY DEF SharingInit, Held, Links
  <2>2. lived \in [Documents -> SUBSET Projects]
    BY DEF SharingInit
  <2> QED BY <2>1, <2>2 DEF Delegated!DelegationInit
<1>2. SharingInv /\ [SharingNext]_sharingVars
        => [Delegated!DelegationNext]_(Delegated!delegationVars)
  BY DelegatedStep
<1> QED
  BY <1>1, <1>2, SharingInvariant, PTL
     DEF SharingSpec, EditorsGrowFromEditors, Delegated!DelegationSpec

=============================================================================
