----------------------------- MODULE Membership ----------------------------
(***************************************************************************)
(* How people come into one organization and what they are there: invites, *)
(* sign-ins that accept an invite, join by SSO or found a workspace, and    *)
(* roles changed by admins.  A sign-in is several transactions; the role a *)
(* request acts with is the one its cookie was given at sign-in.            *)
(***************************************************************************)
EXTENDS Naturals, FiniteSets

CONSTANTS
  People,      \* identities, each with one e-mail address
  Founders,    \* people who are admins to begin with
  Outsiders,   \* people with a guest's row to begin with
  Federated,   \* people whose profile names the organization's SSO connection
  Invites,     \* the invites that can be sent
  SignIns,     \* callbacks being served at the same time
  MaxSignIns,  \* bound: callbacks served
  MaxChanges,  \* bound: changes by admins, and ends of invites and sessions
  None

ASSUME MembershipAssumption ==
  /\ Founders \subseteq People /\ Outsiders \subseteq People
  /\ Founders \cap Outsiders = {}
  /\ Federated \subseteq People
  /\ None \notin People \cup Invites \cup {"none", "guest", "member", "admin"}
  /\ MaxSignIns \in Nat /\ MaxChanges \in Nat

VARIABLES
  role,         \* of each person's row in the organization, found by address
  account,      \* where each identity has its row: a provider identity has one anywhere
  badge,        \* the role in the cookie of each person's session here
  invite,       \* the rows of org_invites
  joined,       \* history: who came in by each invite
  loose,        \* history: invites whose acceptance overlapped another one or died half-way
  mode,         \* provisioningMode
  allowlist,    \* addresses on the allowlist
  welcome,      \* history: who could have joined by SSO at some time
  workspaces,   \* personal organizations made for each person
  call,         \* what each callback has read and where it is
  served, changes

membershipVars ==
  <<role, account, badge, invite, joined, loose, mode, allowlist, welcome, workspaces,
    call, served, changes>>

Roles == {"admin", "member"}

Pc == {"idle", "user", "invite", "join", "mark", "connection", "listed", "admit",
       "found", "settle", "answer"}

Call ==
  [pc : Pc, who : People \cup {None}, token : Invites \cup {None},
   mode : {"open", "allowlist", None}, role : {"guest", "member", "admin", None}]

Idle == [pc |-> "idle", who |-> None, token |-> None, mode |-> None, role |-> None]

Invite ==
  [sent : BOOLEAN, to : People \cup {None}, role : Roles \cup {None},
   accepted : BOOLEAN, revoked : BOOLEAN, expired : BOOLEAN]

Unsent ==
  [sent |-> FALSE, to |-> None, role |-> None,
   accepted |-> FALSE, revoked |-> FALSE, expired |-> FALSE]

MembershipTypeOK ==
  /\ role \in [People -> {"none", "guest", "member", "admin"}]
  /\ account \in [People -> {"none", "here", "elsewhere"}]
  /\ badge \in [People -> {"none", "guest", "member", "admin"}]
  /\ invite \in [Invites -> Invite]
  /\ joined \in [Invites -> SUBSET People]
  /\ loose \subseteq Invites
  /\ mode \in {"open", "allowlist"}
  /\ allowlist \subseteq People /\ welcome \subseteq People
  /\ workspaces \in [People -> Nat]
  /\ call \in [SignIns -> Call]
  /\ served \in Nat /\ changes \in Nat

Admins == {p \in People : role[p] = "admin"}

-----------------------------------------------------------------------------
Counted == changes < MaxChanges /\ changes' = changes + 1

\* What an admin does, by the role in the cookie.
ByAdmin(a) ==
  /\ badge[a] = "admin"
  /\ Counted
  /\ UNCHANGED <<account, badge, joined, loose, workspaces, call, served>>

Live(i) == invite[i].sent /\ ~invite[i].accepted /\ ~invite[i].revoked

\* createWithinSeatCap: an address has one live invite, expired or not.  Only the free
\* tier has a seat limit, one, and a free organization's owner has the seat.
SendInvite(a, i, p, r) ==
  /\ ByAdmin(a)
  /\ ~invite[i].sent
  /\ \A j \in Invites : Live(j) => invite[j].to # p
  /\ invite' = [invite EXCEPT ![i] = [Unsent EXCEPT !.sent = TRUE, !.to = p, !.role = r]]
  /\ UNCHANGED <<role, mode, allowlist, welcome>>

\* An invite that was accepted can be revoked too.
RevokeInvite(a, i) ==
  /\ ByAdmin(a)
  /\ invite[i].sent /\ ~invite[i].revoked
  /\ invite' = [invite EXCEPT ![i].revoked = TRUE]
  /\ UNCHANGED <<role, mode, allowlist, welcome>>

Expire(i) ==
  /\ invite[i].sent /\ ~invite[i].expired
  /\ Counted
  /\ invite' = [invite EXCEPT ![i].expired = TRUE]
  /\ UNCHANGED <<role, account, badge, joined, loose, mode, allowlist, welcome,
                 workspaces, call, served>>

addAllowlistEntry(a, p) ==
  /\ ByAdmin(a)
  /\ p \notin allowlist
  /\ allowlist' = allowlist \cup {p}
  /\ welcome' = welcome \cup {p}
  /\ UNCHANGED <<role, invite, mode>>

removeAllowlistEntry(a, p) ==
  /\ ByAdmin(a)
  /\ p \in allowlist
  /\ allowlist' = allowlist \ {p}
  /\ UNCHANGED <<role, invite, mode, welcome>>

SetProvisioningMode(a, m) ==
  /\ ByAdmin(a)
  /\ mode' = m
  /\ welcome' = welcome \cup (IF m = "open" THEN People ELSE {})
  /\ UNCHANGED <<role, invite, allowlist>>

\* Wrong: of oneself too.
MaySetAnyRole(a, p, r) == badge[a] = "admin"

MaySetRole(a, p, r) ==
  /\ badge[a] = "admin"
  /\ a = p => r = "admin"

\* setUserRole: the row is found by its id, a guest's as well.
setUserRole(a, p, r) ==
  /\ ByAdmin(a)
  /\ MaySetRole(a, p, r)
  /\ role[p] # "none"
  /\ role' = [role EXCEPT ![p] = r]
  /\ UNCHANGED <<invite, mode, allowlist, welcome>>

-----------------------------------------------------------------------------
\* The steps of a callback: go on with what it read, or answer.
At(c, pc) == call[c].pc = pc

Goes(c, next) ==
  /\ call' = [call EXCEPT ![c] = next]
  /\ UNCHANGED <<badge, mode, allowlist, welcome, served, changes>>

Reads(c, next) ==
  /\ Goes(c, next)
  /\ UNCHANGED <<role, account, invite, joined, loose, workspaces>>

Refused(c) == Reads(c, Idle)

\* /auth/callback: the invite's token comes back in a cookie of its own, whoever follows
\* the link.
Callback(c, p, token) ==
  /\ At(c, "idle")
  /\ served < MaxSignIns
  /\ served' = served + 1
  /\ token # None => invite[token].sent
  /\ call' = [call EXCEPT ![c] = [Idle EXCEPT !.pc = "user", !.who = p, !.token = token]]
  /\ UNCHANGED <<role, account, badge, invite, joined, loose, mode, allowlist, welcome,
                 workspaces, changes>>

\* userByWorkosId, then one of three ways in.
FindUser(c) ==
  LET p == call[c].who
      way == CASE call[c].token # None -> "invite"
               [] call[c].token = None /\ p \in Federated -> "connection"
               [] call[c].token = None /\ p \notin Federated -> "found"
  IN  /\ At(c, "user")
      /\ Reads(c, CASE account[p] = "none" -> [call[c] EXCEPT !.pc = way]
                    [] account[p] = "here" -> [call[c] EXCEPT !.pc = "answer", !.role = role[p]]
                    [] account[p] = "elsewhere" -> Idle)

\* Wrong: used or not.
AcceptableAgain(i) == ~invite[i].revoked /\ ~invite[i].expired

inviteAcceptability(i) == ~invite[i].revoked /\ ~invite[i].accepted /\ ~invite[i].expired

Accepting(i) == {c \in SignIns : call[c].token = i /\ call[c].pc \in {"join", "mark"}}

FindInvite(c) ==
  LET i == call[c].token
  IN  /\ At(c, "invite")
      /\ IF inviteAcceptability(i)
         THEN /\ Goes(c, [call[c] EXCEPT !.pc = "join", !.role = invite[i].role])
              /\ loose' = loose \cup (IF Accepting(i) = {} THEN {} ELSE {i})
              /\ UNCHANGED <<role, account, invite, joined, workspaces>>
         ELSE Refused(c)

\* The identity must be new everywhere, and the address new here.
CanCreateUser(p) == account[p] = "none" /\ role[p] = "none"

createUser(p, r) ==
  /\ role' = [role EXCEPT ![p] = r]
  /\ account' = [account EXCEPT ![p] = "here"]

Throws(c) == ~CanCreateUser(call[c].who) /\ Refused(c)

Join(c) ==
  LET p == call[c].who
  IN  /\ At(c, "join")
      /\ \/ Throws(c)
         \/ /\ CanCreateUser(p)
            /\ createUser(p, call[c].role)
            /\ joined' = [joined EXCEPT ![call[c].token] = @ \cup {p}]
            /\ Goes(c, [call[c] EXCEPT !.pc = "mark"])
            /\ UNCHANGED <<invite, loose, workspaces>>

markInviteAccepted(c) ==
  /\ At(c, "mark")
  /\ invite' = [invite EXCEPT ![call[c].token].accepted = TRUE]
  /\ Goes(c, [call[c] EXCEPT !.pc = "answer"])
  /\ UNCHANGED <<role, account, joined, loose, workspaces>>

\* jitJoin: the organization with its mode, the allowlist, the row.
FindConnection(c) ==
  /\ At(c, "connection")
  /\ Reads(c, [call[c] EXCEPT !.pc = "listed", !.mode = mode])

\* Wrong: the list decides in no mode.
JoinsAnyway(c) == TRUE

canJitJoin(c) == call[c].mode = "allowlist" => call[c].who \in allowlist

CheckListed(c) ==
  /\ At(c, "listed")
  /\ IF canJitJoin(c)
     THEN Reads(c, [call[c] EXCEPT !.pc = "admit", !.role = "member"])
     ELSE Refused(c)

Admit(c) ==
  /\ At(c, "admit")
  /\ \/ Throws(c)
     \/ /\ CanCreateUser(call[c].who)
        /\ createUser(call[c].who, call[c].role)
        /\ Goes(c, [call[c] EXCEPT !.pc = "answer"])
        /\ UNCHANGED <<invite, joined, loose, workspaces>>

\* An organization of one's own, and its admin.
createOrganization(c) ==
  /\ At(c, "found")
  /\ workspaces' = [workspaces EXCEPT ![call[c].who] = @ + 1]
  /\ Goes(c, [call[c] EXCEPT !.pc = "settle"])
  /\ UNCHANGED <<role, account, invite, joined, loose>>

Settle(c) ==
  LET p == call[c].who
  IN  /\ At(c, "settle")
      /\ \/ account[p] # "none" /\ Refused(c)
         \/ /\ account[p] = "none"
            /\ account' = [account EXCEPT ![p] = "elsewhere"]
            /\ Goes(c, Idle)
            /\ UNCHANGED <<role, invite, joined, loose, workspaces>>

\* The session cookie carries the role of the row as it was read or written.
Answer(c) ==
  /\ At(c, "answer")
  /\ badge' = [badge EXCEPT ![call[c].who] = call[c].role]
  /\ call' = [call EXCEPT ![c] = Idle]
  /\ UNCHANGED <<role, account, invite, joined, loose, mode, allowlist, welcome,
                 workspaces, served, changes>>

\* The process dies, or a call of the database throws.
Die(c) ==
  /\ ~At(c, "idle")
  /\ loose' = loose \cup (IF At(c, "mark") THEN {call[c].token} ELSE {})
  /\ call' = [call EXCEPT ![c] = Idle]
  /\ UNCHANGED <<role, account, badge, invite, joined, mode, allowlist, welcome,
                 workspaces, served, changes>>

\* A session that is not refreshed ends, or is logged out of.
Lapse(p) ==
  /\ badge[p] # "none"
  /\ Counted
  /\ badge' = [badge EXCEPT ![p] = "none"]
  /\ UNCHANGED <<role, account, invite, joined, loose, mode, allowlist, welcome,
                 workspaces, call, served>>

-----------------------------------------------------------------------------
MembershipInit ==
  /\ role = [p \in People |-> IF p \in Founders THEN "admin"
                              ELSE IF p \in Outsiders THEN "guest" ELSE "none"]
  /\ account = [p \in People |-> IF p \in Founders THEN "here" ELSE "none"]
  /\ badge = [p \in People |-> IF p \in Founders THEN "admin" ELSE "none"]
  /\ invite = [i \in Invites |-> Unsent]
  /\ joined = [i \in Invites |-> {}]
  /\ loose = {}
  /\ mode = "allowlist"
  /\ allowlist = {}
  /\ welcome = {}
  /\ workspaces = [p \in People |-> 0]
  /\ call = [c \in SignIns |-> Idle]
  /\ served = 0
  /\ changes = 0

AdminNext(a) ==
  \/ \E i \in Invites, p \in People, r \in Roles : SendInvite(a, i, p, r)
  \/ \E i \in Invites : RevokeInvite(a, i)
  \/ \E p \in People : addAllowlistEntry(a, p) \/ removeAllowlistEntry(a, p)
  \/ \E m \in {"open", "allowlist"} : SetProvisioningMode(a, m)
  \/ \E p \in People, r \in Roles : setUserRole(a, p, r)

SignInNext(c) ==
  \/ \E p \in People, token \in Invites \cup {None} : Callback(c, p, token)
  \/ FindUser(c) \/ FindInvite(c) \/ Join(c) \/ markInviteAccepted(c)
  \/ FindConnection(c) \/ CheckListed(c) \/ Admit(c)
  \/ createOrganization(c) \/ Settle(c)
  \/ Answer(c) \/ Die(c)

MembershipNext ==
  \/ \E a \in People : AdminNext(a) \/ Lapse(a)
  \/ \E i \in Invites : Expire(i)
  \/ \E c \in SignIns : SignInNext(c)

MembershipSpec == MembershipInit /\ [][MembershipNext]_membershipVars

-----------------------------------------------------------------------------
\* A "single-use token": the look-up, the row and the mark are three transactions, yet a
\* second person comes in by an invite only if two acceptances overlapped or one died
\* before its mark.
OneJoinsUnlessRaced ==
  \A i \in Invites : i \notin loose => Cardinality(joined[i]) <= 1

\* Whoever is a member founded the organization, came by an invite, could have joined by
\* SSO at some time, or was a guest whose row an admin changed: whatever lists and modes
\* changed while a sign-in was under way.
MembersHaveAReason ==
  \A p \in People : role[p] \in Roles =>
    \/ p \in Founders \cup Outsiders \cup welcome
    \/ \E i \in Invites : p \in joined[i]

\* "Admins cannot demote themselves", so the last admin goes only by the hand of someone
\* who is no admin any more and whose cookie still says so.
LastAdminByStaleBadge ==
  [][Admins # {} /\ Admins' = {} =>
       \E a \in People : badge[a] = "admin" /\ role[a] # "admin"]_membershipVars

\* Not so: an organization keeps an admin.
SomeAdmin == Admins # {}

\* Not so: a single-use invite lets in one person.
OneJoins == \A i \in Invites : Cardinality(joined[i]) <= 1

\* Not so: who signs in for the first time has one workspace.
OneWorkspace == \A p \in People : workspaces[p] <= 1

=============================================================================
