------------------------------- MODULE Sharing ------------------------------
(***************************************************************************)
(* Grants on documents and projects, share links and guest shares.  Each   *)
(* read or write of a request is a transaction of its own, and requests    *)
(* interleave between them.                                                *)
(***************************************************************************)
EXTENDS Permission, Sequences, FiniteSets

CONSTANTS
  Members, Guests,      \* users of the organization; e-mail addresses outside it
  Admins, Owner,        \* members with the role admin; the owner of each document
  Documents, Projects,
  Requests,             \* calls being served at the same time
  Offered, Lent,        \* permissions callers ask for, for users; for links and guests
  GuestLimit,           \* maxExternalGuests of the tier
  MaxGrants,            \* bound: rows of share_grants
  MaxCalls,             \* bound: calls made
  Link, None            \* the grantee of a link; no value

ASSUME SharingAssumption ==
  /\ Admins \subseteq Members
  /\ Owner \in [Documents -> Members]
  /\ Documents \cap Projects = {}
  /\ Members \cap Guests = {} /\ IsFiniteSet(Guests)
  /\ Link \notin Members \cup Guests
  /\ None \notin Documents \cup Projects \cup Permissions \cup Members \cup Guests
  /\ Offered \subseteq Permissions /\ Lent \subseteq Permissions
  /\ GuestLimit \in Nat
  /\ MaxGrants \in Nat
  /\ MaxCalls \in Nat

VARIABLES
  grants,           \* the rows of share_grants, oldest first
  guestUsers,       \* addresses with a user row of role guest
  home,             \* project_id of each document
  lived,            \* history: the projects each document has been in
  sharingMode,      \* of the organization: "link" or "directory"
  externalSharing,  \* of the organization
  request,          \* what each call has read and where it is
  calls             \* calls made

sharingVars ==
  <<grants, guestUsers, home, lived, sharingMode, externalSharing, request, calls>>

People == Members \cup Guests
Subjects == Documents \cup Projects

\* "revived" is live, after having expired.
Grant ==
  [subject : Subjects, grantee : People \cup {Link}, permission : Permissions,
   createdBy : Members, guest : BOOLEAN,
   status : {"live", "expired", "revived", "revoked"}]

Pc == {"idle", "permission", "mode", "create", "list", "revoke", "already", "redeem",
       "org", "emails", "guest", "newGuest", "existing", "extend", "insert"}

Call ==
  [pc : Pc, kind : {"link", "user", "revoke", "redeem", "guest", "none"},
   by : Members \cup {None}, document : Documents \cup {None},
   to : People \cup {Link, None}, permission : Permissions \cup {None},
   project : Projects \cup {None}, own : Permissions \cup {None}, row : Nat]

Idle ==
  [pc |-> "idle", kind |-> "none", by |-> None, document |-> None, to |-> None,
   permission |-> None, project |-> None, own |-> None, row |-> 0]

SharingTypeOK ==
  /\ grants \in Seq(Grant)
  /\ guestUsers \subseteq Guests
  /\ home \in [Documents -> Projects \cup {None}]
  /\ lived \in [Documents -> SUBSET Projects]
  /\ sharingMode \in {"link", "directory"}
  /\ externalSharing \in BOOLEAN
  /\ request \in [Requests -> Call]
  /\ calls \in Nat
  /\ \A i \in DOMAIN grants : grants[i].grantee \in Guests => isGuestGrantable(grants[i].permission)

-----------------------------------------------------------------------------
canManageDocument(u, d) == Owner[d] = u \/ u \in Admins

\* listForUser and listForDocument: what counts is decided by the rows now.
Active(g) == g.status \in {"live", "revived"}

listForUser(u) == {i \in DOMAIN grants : grants[i].grantee = u /\ Active(grants[i])}

listForDocument(d) ==
  {i \in DOMAIN grants : grants[i].subject = d /\ grants[i].status # "revoked"}

\* Guests hold an address, so the distinct addresses are the distinct grantees.
ActiveGuests ==
  {grants[i].grantee : i \in {j \in DOMAIN grants : grants[j].guest /\ Active(grants[j])}}

\* What a member holds on a document that was in the given project when it was read.
GrantsOn(u, d, project) ==
  {grants[i].permission : i \in {j \in listForUser(u) : grants[j].subject \in {d, project}}}

Insert(subject, grantee, permission, creator, guest) ==
  /\ Len(grants) < MaxGrants
  /\ grants' = Append(grants,
       [subject |-> subject, grantee |-> grantee, permission |-> permission,
        createdBy |-> creator, guest |-> guest, status |-> "live"])

Change(i, g) == grants' = [grants EXCEPT ![i] = g]

Counted == calls < MaxCalls /\ calls' = calls + 1

\* The steps of a call: go on with what it read, or answer.
At(r, pc) == request[r].pc = pc

Goes(r, call) ==
  /\ request' = [request EXCEPT ![r] = call]
  /\ UNCHANGED <<home, lived, sharingMode, externalSharing, calls>>

Reads(r, call) == Goes(r, call) /\ UNCHANGED <<grants, guestUsers>>

Answers(r) == Goes(r, Idle)

Refused(r) == Reads(r, Idle)

Starts(r, call) ==
  /\ At(r, "idle")
  /\ Counted
  /\ request' = [request EXCEPT ![r] = call]
  /\ UNCHANGED <<grants, guestUsers, home, lived, sharingMode, externalSharing>>

-----------------------------------------------------------------------------
\* createShareLink, createUserGrant, revokeShareGrant: the document is read.
ShareCall(kind, u, d) ==
  [Idle EXCEPT !.pc = "permission", !.kind = kind, !.by = u, !.document = d, !.project = home[d]]

StartLink(r, u, d, p) ==
  /\ isLinkGrantable(p)
  /\ Starts(r, [ShareCall("link", u, d) EXCEPT !.to = Link, !.permission = p])

StartUserGrant(r, u, d, v, p) ==
  /\ v \in Members \cup guestUsers
  /\ Starts(r, [ShareCall("user", u, d) EXCEPT !.to = v, !.permission = p])

StartRevoke(r, u, d) == Starts(r, ShareCall("revoke", u, d))

\* requireShareable: then, for who does not manage it, the caller's own grants.
canShareDocument(u, d, own) == canManageDocument(u, d) \/ \E p \in own : permits(p, "share")

RequireShareable(r) ==
  LET c == request[r]
      own == GrantsOn(c.by, c.document, c.project)
  IN  /\ At(r, "permission")
      /\ IF canShareDocument(c.by, c.document, own)
         THEN Reads(r, [c EXCEPT !.pc = IF c.kind = "revoke" THEN "list" ELSE "mode",
                                 !.own = IF canManageDocument(c.by, c.document)
                                         THEN None ELSE highest(own)])
         ELSE Refused(r)

\* Wrong: without the cap on delegation.
AllowedUncapped(c) ==
  /\ sharingMode = IF c.kind = "link" THEN "link" ELSE "directory"
  /\ c.to \in Guests => isGuestGrantable(c.permission)

\* The organization's mode is read, then the guest rule and the delegation cap.
AllowedToCreate(c) ==
  /\ sharingMode = IF c.kind = "link" THEN "link" ELSE "directory"
  /\ c.to \in Guests => isGuestGrantable(c.permission)
  /\ c.kind = "user" /\ c.own # None => canDelegate(c.own, c.permission)

CheckMode(r) ==
  /\ At(r, "mode")
  /\ IF AllowedToCreate(request[r])
     THEN Reads(r, [request[r] EXCEPT !.pc = "create"])
     ELSE Refused(r)

CreateGrant(r) ==
  LET c == request[r]
  IN  /\ At(r, "create")
      /\ Insert(c.document, c.to, c.permission, c.by, FALSE)
      /\ Answers(r)
      /\ UNCHANGED guestUsers

\* revokeShareGrant: the target is looked up in the list, then revoked.
MayRevoke(c, i) ==
  /\ i \in listForDocument(c.document)
  /\ canManageDocument(c.by, c.document) \/ grants[i].createdBy = c.by

ListTarget(r, i) ==
  /\ At(r, "list")
  /\ IF MayRevoke(request[r], i)
     THEN Reads(r, [request[r] EXCEPT !.pc = "revoke", !.row = i])
     ELSE Refused(r)

RevokeGrant(r) ==
  /\ At(r, "revoke")
  /\ Change(request[r].row, [grants[request[r].row] EXCEPT !.status = "revoked"])
  /\ Answers(r)
  /\ UNCHANGED guestUsers

-----------------------------------------------------------------------------
\* redeemShareLink: the row of the token, the caller's own grants, the copy.  Links have
\* a token, and so have grants of guests.
OpenLink(r, u, i) ==
  LET g == grants[i]
  IN  /\ g.grantee = Link \/ g.guest
      /\ Active(g) /\ isLinkGrantable(g.permission)
      /\ Starts(r, [Idle EXCEPT !.pc = "already", !.kind = "redeem", !.by = u, !.row = i,
                                !.document = g.subject, !.permission = g.permission])

CheckAlready(r) ==
  LET c == request[r]
  IN  /\ At(r, "already")
      /\ IF \E i \in listForUser(c.by) :
              grants[i].subject = c.document /\ grants[i].permission = c.permission
         THEN Refused(r)
         ELSE Reads(r, [c EXCEPT !.pc = "redeem"])

RedeemLink(r) ==
  LET c == request[r]
  IN  /\ At(r, "redeem")
      /\ Insert(c.document, c.by, c.permission, grants[c.row].createdBy, FALSE)
      /\ Answers(r)
      /\ UNCHANGED guestUsers

-----------------------------------------------------------------------------
\* createGuestShare, by the owner or an admin.
StartGuestShare(r, u, d, e, p) ==
  /\ canManageDocument(u, d)
  /\ isGuestGrantable(p)
  /\ Starts(r, [Idle EXCEPT !.pc = "org", !.kind = "guest", !.by = u, !.document = d,
                            !.to = e, !.permission = p])

CheckExternal(r) ==
  /\ At(r, "org")
  /\ IF externalSharing THEN Reads(r, [request[r] EXCEPT !.pc = "emails"]) ELSE Refused(r)

CheckGuestCap(r) ==
  /\ At(r, "emails")
  /\ IF request[r].to \in ActiveGuests \/ Cardinality(ActiveGuests) < GuestLimit
     THEN Reads(r, [request[r] EXCEPT !.pc = "guest"])
     ELSE Refused(r)

GuestByEmail(r) ==
  /\ At(r, "guest")
  /\ Reads(r, [request[r] EXCEPT !.pc = IF request[r].to \in guestUsers
                                        THEN "existing" ELSE "newGuest"])

\* An address has one user row: the second insert of two at once throws.
CreateGuest(r) ==
  LET c == request[r]
  IN  /\ At(r, "newGuest")
      /\ \/ c.to \in guestUsers /\ Refused(r)
         \/ /\ c.to \notin guestUsers
            /\ guestUsers' = guestUsers \cup {c.to}
            /\ Goes(r, [c EXCEPT !.pc = "existing"])
            /\ UNCHANGED grants

\* The guest's grant on the document that is not revoked, expired ones included.
GuestGrants(c) ==
  {i \in listForDocument(c.document) : grants[i].grantee = c.to /\ grants[i].guest}

FindExisting(r) ==
  LET c == request[r]
      found == GuestGrants(c)
  IN  /\ At(r, "existing")
      /\ \/ /\ found = {}
            /\ Reads(r, [c EXCEPT !.pc = "insert"])
         \/ \E i \in found :
              /\ \A j \in found : i <= j
              /\ Reads(r, [c EXCEPT !.pc = "extend", !.row = i])

\* Wrong: revoked meanwhile or not.
ExtendRevoked(r) ==
  LET c == request[r]
  IN  /\ At(r, "extend")
      /\ Change(c.row, [grants[c.row] EXCEPT !.permission = c.permission, !.status = "live"])
      /\ Answers(r)
      /\ UNCHANGED guestUsers

\* extendGuestGrant: a row that was revoked meanwhile is not found, and that throws.
ExtendGuestGrant(r) ==
  LET c == request[r]
      g == grants[c.row]
  IN  /\ At(r, "extend")
      /\ \/ g.status = "revoked" /\ Refused(r)
         \/ /\ g.status # "revoked"
            /\ Change(c.row, [g EXCEPT !.permission = c.permission,
                               !.status = IF @ = "expired" THEN "revived" ELSE @])
            /\ Answers(r)
            /\ UNCHANGED guestUsers

\* Wrong: with the first count only.
InsertUncounted(r) ==
  LET c == request[r]
  IN  /\ At(r, "insert")
      /\ Insert(c.document, c.to, c.permission, c.by, TRUE)
      /\ Answers(r)
      /\ UNCHANGED guestUsers

\* createWithinGuestCap counts again, and inserts, under the organization's lock.
InsertGuestGrant(r) ==
  LET c == request[r]
  IN  /\ At(r, "insert")
      /\ \/ /\ Cardinality(ActiveGuests \ {c.to}) >= GuestLimit
            /\ Refused(r)
         \/ /\ Cardinality(ActiveGuests \ {c.to}) < GuestLimit
            /\ Insert(c.document, c.to, c.permission, c.by, TRUE)
            /\ Answers(r)
            /\ UNCHANGED guestUsers

-----------------------------------------------------------------------------
\* createProjectGrant, by an admin.
GrantProject(u, s, v, p) ==
  /\ u \in Admins
  /\ Counted
  /\ v \in Members \cup guestUsers
  /\ v \in Guests => isGuestGrantable(p)
  /\ Insert(s, v, p, u, FALSE)
  /\ UNCHANGED <<guestUsers, home, lived, sharingMode, externalSharing, request>>

\* revokeProjectGrant, by an admin.
RevokeProject(i) ==
  /\ Admins # {}
  /\ grants[i].subject \in Projects /\ grants[i].status # "revoked"
  /\ Change(i, [grants[i] EXCEPT !.status = "revoked"])
  /\ UNCHANGED <<guestUsers, home, lived, sharingMode, externalSharing, request, calls>>

\* moveDocument, by a manager of the document, whose name changes nothing.
MoveDocument(d, s) ==
  /\ home' = [home EXCEPT ![d] = s]
  /\ lived' = [lived EXCEPT ![d] = @ \cup ({s} \cap Projects)]
  /\ Counted
  /\ UNCHANGED <<grants, guestUsers, sharingMode, externalSharing, request>>

\* updateOrgSettings, by an admin.
UpdateOrgSettings(mode, external) ==
  /\ Admins # {}
  /\ sharingMode' = mode
  /\ externalSharing' = external
  /\ Counted
  /\ UNCHANGED <<grants, guestUsers, home, lived, request>>

\* Only a guest's grant has an end.
Expire(i) ==
  /\ grants[i].guest /\ Active(grants[i])
  /\ Change(i, [grants[i] EXCEPT !.status = "expired"])
  /\ UNCHANGED <<guestUsers, home, lived, sharingMode, externalSharing, request, calls>>

-----------------------------------------------------------------------------
SharingInit ==
  /\ grants = <<>>
  /\ guestUsers = {}
  /\ home = [d \in Documents |-> None]
  /\ lived = [d \in Documents |-> {}]
  /\ sharingMode \in {"link", "directory"}
  /\ externalSharing = TRUE
  /\ request = [r \in Requests |-> Idle]
  /\ calls = 0

Step(r) ==
  \/ RequireShareable(r) \/ CheckMode(r) \/ CreateGrant(r)
  \/ RevokeGrant(r)
  \/ CheckAlready(r) \/ RedeemLink(r)
  \/ CheckExternal(r) \/ CheckGuestCap(r) \/ GuestByEmail(r) \/ CreateGuest(r)
  \/ FindExisting(r) \/ ExtendGuestGrant(r) \/ InsertGuestGrant(r)

Start(r) ==
  \E u \in Members, d \in Documents :
    \/ \E v \in People, p \in Offered : StartUserGrant(r, u, d, v, p)
    \/ \E p \in Lent : StartLink(r, u, d, p) \/ \E e \in Guests : StartGuestShare(r, u, d, e, p)
    \/ StartRevoke(r, u, d)

SharingNext ==
  \/ \E r \in Requests : Step(r) \/ Start(r)
  \/ \E r \in Requests, i \in 1 .. MaxGrants : ListTarget(r, i)
  \/ \E r \in Requests, i \in DOMAIN grants, u \in Members : OpenLink(r, u, i)
  \/ \E u \in Members, s \in Projects, v \in People, p \in Offered : GrantProject(u, s, v, p)
  \/ \E i \in DOMAIN grants : RevokeProject(i) \/ Expire(i)
  \/ \E d \in Documents, s \in Projects \cup {None} : MoveDocument(d, s)
  \/ \E mode \in {"link", "directory"}, external \in BOOLEAN : UpdateOrgSettings(mode, external)

SharingSpec == SharingInit /\ [][SharingNext]_sharingVars

-----------------------------------------------------------------------------
\* Grants ever made to users, and links ever made, by whom.
Held ==
  {<<grants[i].subject, grants[i].grantee, grants[i].permission, grants[i].createdBy>> :
     i \in {j \in DOMAIN grants : grants[j].grantee # Link /\ ~grants[j].guest}}

Links ==
  {<<grants[i].subject, grants[i].permission, grants[i].createdBy>> :
     i \in {j \in DOMAIN grants : grants[j].grantee = Link}}

Delegated == INSTANCE Delegation WITH held <- Held, links <- Links

\* "The set of editors can only grow by an edit holder's own action, never past it":
\* checks that go stale, documents that move and links followed late included, whoever
\* hands a permission out managed the document or held as much, and share, before.
EditorsGrowFromEditors == Delegated!DelegationSpec

LiveGuests ==
  {grants[i].grantee : i \in {j \in DOMAIN grants : grants[j].guest /\ grants[j].status = "live"}}

\* Concurrent shares to new addresses never push the guests over the limit: only
\* grants that had expired and were extended can.
GuestCapHeld == Cardinality(LiveGuests) <= GuestLimit

\* A grant that was revoked stays so, whatever share or extension was under way.
RevokedStaysRevoked ==
  [][\A i \in DOMAIN grants :
       grants[i].status = "revoked" => i \in DOMAIN grants' /\ grants'[i].status = "revoked"]_sharingVars

\* Not so: the organization never has more active guests than its tier allows.
GuestsWithinLimit == Cardinality(ActiveGuests) <= GuestLimit

\* Not so: "re-sharing to the same email extends the existing grant", so a guest has
\* one grant on a document.
OneGrantPerGuest ==
  \A i, j \in DOMAIN grants :
    /\ grants[i].guest /\ grants[j].guest
    /\ grants[i].subject = grants[j].subject /\ grants[i].grantee = grants[j].grantee
    /\ Active(grants[i]) /\ Active(grants[j])
    => i = j

=============================================================================
