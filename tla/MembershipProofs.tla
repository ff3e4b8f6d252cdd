--------------------------- MODULE MembershipProofs -------------------------
(***************************************************************************)
(* What holds of membership for any number of people, invites and sign-ins, *)
(* and of the sessions of a browser for any number of requests and servers, *)
(* checked by TLAPS.                                                       *)
(*                                                                         *)
(* A sign-in acts on what it read some steps ago: a list that has changed,  *)
(* an invite that was revoked or used.  CallShape says what it may still    *)
(* rely on, and Tight, of an invite whose acceptances never overlapped,     *)
(* that at most one of them is under way and none after it was used.        *)
(* A request carries a token that was good when it was sent: SessionsInv    *)
(* bounds the end of every token there is, wherever it is kept.             *)
(***************************************************************************)
EXTENDS Membership, Sessions, FiniteSetTheorems, TLAPS

AcceptingSteps == {"join", "mark"}

CallShape(c) ==
  /\ call[c].pc # "idle" => call[c].who \in People
  /\ call[c].pc \in {"invite"} \cup AcceptingSteps => call[c].token \in Invites
  /\ call[c].token # None => invite[call[c].token].sent
  /\ call[c].pc \in AcceptingSteps => call[c].role \in Roles
  /\ call[c].pc = "listed" =>
       \/ call[c].mode = "allowlist"
       \/ call[c].mode = "open" /\ call[c].who \in welcome
  /\ call[c].pc = "admit" => call[c].role = "member" /\ call[c].who \in welcome
  /\ call[c].pc = "answer" => call[c].role # None

\* Who could join now is remembered as someone who could.
WelcomeRemembers ==
  /\ allowlist \subseteq welcome
  /\ mode = "open" => welcome = People

\* An invite that was sent says what it is for; one that was not has let nobody in.
InviteShape(i) ==
  /\ invite[i].sent => invite[i].role \in Roles
  /\ ~invite[i].sent => ~invite[i].accepted /\ joined[i] = {}

\* Guests too: theirs are the rows an admin can change.
Reason(p) ==
  \/ p \in Founders \cup Outsiders \cup welcome
  \/ \E i \in Invites : p \in joined[i]

Marking(i) == \E c \in SignIns : call[c].token = i /\ call[c].pc = "mark"

\* One acceptance at a time, none once the invite was used; who is in is either still
\* about to be marked or was marked.
Tight(i) ==
  i \notin loose =>
    /\ \A c, d \in Accepting(i) : c = d
    /\ invite[i].accepted => Accepting(i) = {}
    /\ \/ joined[i] = {} /\ ~Marking(i)
       \/ /\ \E p \in People : joined[i] = {p}
          /\ invite[i].accepted \/ Marking(i)

MembershipInv ==
  /\ MembershipTypeOK
  /\ WelcomeRemembers
  /\ \A c \in SignIns : CallShape(c)
  /\ \A i \in Invites : InviteShape(i)
  /\ \A i \in Invites : Tight(i)
  /\ \A p \in People : account[p] = "here" => role[p] # "none"
  /\ \A p \in People : role[p] # "none" => Reason(p)

USE DEF AcceptingSteps

-----------------------------------------------------------------------------
LEMMA InitInv == MembershipInit => MembershipInv
<1> SUFFICES ASSUME MembershipInit PROVE MembershipInv
  OBVIOUS
<1> USE DEF MembershipInit
<1>1. MembershipTypeOK
  BY MembershipAssumption DEF MembershipTypeOK, Unsent, Invite, Roles, Idle, Call, Pc
<1>2. WelcomeRemembers
  BY DEF WelcomeRemembers
<1>3. \A c \in SignIns : CallShape(c)
  BY DEF CallShape, Idle
<1>4. \A i \in Invites : InviteShape(i)
  BY DEF InviteShape, Unsent
<1>5. \A i \in Invites : Tight(i)
  BY DEF Tight, Accepting, Marking, Idle, Unsent
<1>6. \A p \in People : role[p] # "none" => Reason(p)
  BY DEF Reason
<1>7. \A p \in People : account[p] = "here" => role[p] # "none"
  OBVIOUS
<1> QED BY <1>1, <1>2, <1>3, <1>4, <1>5, <1>6, <1>7 DEF MembershipInv

\* Steps that leave the sign-ins alone.
LEMMA Beside ==
  ASSUME MembershipInv, MembershipTypeOK', WelcomeRemembers',
         UNCHANGED <<account, call, joined, loose>>,
         \A i \in Invites : /\ invite[i].sent => invite'[i].sent
                            /\ invite'[i].accepted <=> invite[i].accepted
                            /\ invite'[i].sent => invite'[i].role \in Roles,
         welcome \subseteq welcome',
         \A p \in People : role'[p] # "none" <=> role[p] # "none"
  PROVE  MembershipInv'
<1>1. \A c \in SignIns : CallShape(c)'
  <2> SUFFICES ASSUME NEW c \in SignIns PROVE CallShape(c)'
    OBVIOUS
  <2>1. CallShape(c) /\ call[c] \in Call
    BY DEF MembershipInv, MembershipTypeOK
  <2> QED BY <2>1 DEF CallShape, Call
<1>2. \A i \in Invites : InviteShape(i)'
  BY DEF MembershipInv, InviteShape
<1>3. \A i \in Invites : Tight(i)'
  BY DEF MembershipInv, Tight, Accepting, Marking
<1>4. \A p \in People : (role[p] # "none" => Reason(p))'
  BY DEF MembershipInv, Reason
<1>5. \A p \in People : (account[p] = "here" => role[p] # "none")'
  BY DEF MembershipInv
<1> QED BY <1>1, <1>2, <1>3, <1>4, <1>5 DEF MembershipInv

LEMMA AdminsKeepInv ==
  ASSUME MembershipInv, NEW a \in People, AdminNext(a) \/ Lapse(a)
  PROVE  MembershipInv'
<1> USE DEF ByAdmin, Counted
<1>0. MembershipTypeOK /\ WelcomeRemembers /\ \A i \in Invites : InviteShape(i)
  BY DEF MembershipInv
<1>1. ASSUME NEW i \in Invites, NEW p \in People, NEW r \in Roles, SendInvite(a, i, p, r)
      PROVE  MembershipInv'
  <2>1. /\ invite' \in [Invites -> Invite]
        /\ invite'[i] = [Unsent EXCEPT !.sent = TRUE, !.to = p, !.role = r]
        /\ \A j \in Invites \ {i} : invite'[j] = invite[j]
    BY <1>0, <1>1 DEF SendInvite, MembershipTypeOK, Unsent, Invite
  <2>2. MembershipTypeOK'
    BY <1>0, <1>1, <2>1 DEF SendInvite, MembershipTypeOK
  <2>3. \A j \in Invites : /\ invite[j].sent => invite'[j].sent
                           /\ invite'[j].accepted <=> invite[j].accepted
                           /\ invite'[j].sent => invite'[j].role \in Roles
    BY <1>0, <1>1, <2>1 DEF SendInvite, InviteShape, Unsent
  <2> QED BY <1>0, <1>1, <2>2, <2>3, Beside DEF SendInvite, WelcomeRemembers
<1>2. ASSUME NEW i \in Invites, RevokeInvite(a, i)
      PROVE  MembershipInv'
  <2>1. /\ invite' \in [Invites -> Invite]
        /\ \A j \in Invites : /\ invite'[j].sent = invite[j].sent
                              /\ invite'[j].accepted = invite[j].accepted
                              /\ invite'[j].role = invite[j].role
    BY <1>0, <1>2 DEF RevokeInvite, MembershipTypeOK, Invite
  <2>2. MembershipTypeOK'
    BY <1>0, <1>2, <2>1 DEF RevokeInvite, MembershipTypeOK
  <2> QED BY <1>0, <1>2, <2>1, <2>2, Beside DEF RevokeInvite, WelcomeRemembers, InviteShape
<1>3. ASSUME NEW p \in People, addAllowlistEntry(a, p)
      PROVE  MembershipInv'
  <2>1. MembershipTypeOK'
    BY <1>0, <1>3 DEF addAllowlistEntry, MembershipTypeOK
  <2>2. WelcomeRemembers' /\ welcome \subseteq welcome'
    BY <1>0, <1>3 DEF addAllowlistEntry, WelcomeRemembers, MembershipTypeOK
  <2> QED BY <1>0, <1>3, <2>1, <2>2, Beside DEF addAllowlistEntry, InviteShape
<1>4. ASSUME NEW p \in People, removeAllowlistEntry(a, p)
      PROVE  MembershipInv'
  <2>1. MembershipTypeOK'
    BY <1>0, <1>4 DEF removeAllowlistEntry, MembershipTypeOK
  <2> QED BY <1>0, <1>4, <2>1, Beside DEF removeAllowlistEntry, InviteShape, WelcomeRemembers
<1>5. ASSUME NEW m \in {"open", "allowlist"}, SetProvisioningMode(a, m)
      PROVE  MembershipInv'
  <2>1. MembershipTypeOK'
    BY <1>0, <1>5 DEF SetProvisioningMode, MembershipTypeOK
  <2>2. WelcomeRemembers' /\ welcome \subseteq welcome'
    BY <1>0, <1>5 DEF SetProvisioningMode, WelcomeRemembers, MembershipTypeOK
  <2> QED BY <1>0, <1>5, <2>1, <2>2, Beside DEF SetProvisioningMode, InviteShape
<1>6. ASSUME NEW p \in People, NEW r \in Roles, setUserRole(a, p, r)
      PROVE  MembershipInv'
  <2>1. MembershipTypeOK'
    BY <1>0, <1>6 DEF setUserRole, MembershipTypeOK, Roles
  <2>2. \A q \in People : role'[q] # "none" <=> role[q] # "none"
    BY <1>0, <1>6 DEF setUserRole, MembershipTypeOK, Roles
  <2> QED BY <1>0, <1>6, <2>1, <2>2, Beside DEF setUserRole, WelcomeRemembers, InviteShape
<1>7. ASSUME Lapse(a)
      PROVE  MembershipInv'
  <2>1. MembershipTypeOK'
    BY <1>0, <1>7 DEF Lapse, MembershipTypeOK
  <2> QED BY <1>0, <1>7, <2>1, Beside DEF Lapse, WelcomeRemembers, InviteShape
<1> QED BY <1>1, <1>2, <1>3, <1>4, <1>5, <1>6, <1>7 DEF AdminNext

LEMMA ExpireKeepsInv ==
  ASSUME MembershipInv, NEW i \in Invites, Expire(i)
  PROVE  MembershipInv'
<1>0. MembershipTypeOK /\ WelcomeRemembers /\ \A j \in Invites : InviteShape(j)
  BY DEF MembershipInv
<1>1. /\ invite' \in [Invites -> Invite]
      /\ \A j \in Invites : /\ invite'[j].sent = invite[j].sent
                            /\ invite'[j].accepted = invite[j].accepted
                            /\ invite'[j].role = invite[j].role
  BY <1>0 DEF Expire, MembershipTypeOK, Invite
<1>2. MembershipTypeOK'
  BY <1>0, <1>1 DEF Expire, Counted, MembershipTypeOK
<1> QED BY <1>0, <1>1, <1>2, Beside DEF Expire, WelcomeRemembers, InviteShape

-----------------------------------------------------------------------------
\* One sign-in goes on; the others are where they were.
OnlyMoves(c) ==
  /\ call' \in [SignIns -> Call]
  /\ \A d \in SignIns \ {c} : call'[d] = call[d]

LEMMA Moves ==
  ASSUME MembershipInv, NEW c \in SignIns, NEW next \in Call,
         call' = [call EXCEPT ![c] = next]
  PROVE  OnlyMoves(c) /\ call'[c] = next
  BY DEF OnlyMoves, MembershipInv, MembershipTypeOK

\* The others keep their shape while invites and the welcome stay.
LEMMA OthersInShape ==
  ASSUME MembershipInv, NEW c \in SignIns, OnlyMoves(c), CallShape(c)',
         UNCHANGED <<invite, welcome>>
  PROVE  \A d \in SignIns : CallShape(d)'
<1> SUFFICES ASSUME NEW d \in SignIns, d # c PROVE CallShape(d)'
  OBVIOUS
<1>1. CallShape(d) /\ call'[d] = call[d]
  BY DEF MembershipInv, OnlyMoves
<1> QED BY <1>1 DEF CallShape

\* A sign-in goes on to a step that accepts nothing, and leaves the invites alone.
LEMMA Onward ==
  ASSUME MembershipInv, NEW c \in SignIns,
         OnlyMoves(c), call'[c].pc \notin AcceptingSteps,
         call[c].pc = "mark" => call[c].token \in loose',
         CallShape(c)', loose \subseteq loose', loose' \subseteq Invites,
         badge' \in [People -> {"none", "guest", "member", "admin"}],
         role' \in [People -> {"none", "guest", "member", "admin"}],
         account' \in [People -> {"none", "here", "elsewhere"}],
         workspaces' \in [People -> Nat], served' \in Nat,
         UNCHANGED <<invite, joined, mode, allowlist, welcome, changes>>,
         \A p \in People : (account[p] = "here" => role[p] # "none")',
         \A p \in People : (role[p] # "none" => Reason(p))'
  PROVE  MembershipInv'
<1>0. MembershipTypeOK /\ WelcomeRemembers
  BY DEF MembershipInv
<1>1. MembershipTypeOK'
  BY <1>0 DEF MembershipTypeOK, OnlyMoves
<1>2. \A d \in SignIns \ {c} : call'[d] = call[d]
  BY DEF OnlyMoves
<1>3. \A d \in SignIns : CallShape(d)'
  BY <1>2 DEF MembershipInv, CallShape
<1>4. \A i \in Invites : InviteShape(i)'
  BY DEF MembershipInv, InviteShape
<1>5. \A i \in Invites : Tight(i)'
  <2> SUFFICES ASSUME NEW i \in Invites, i \notin loose' PROVE Tight(i)'
    BY DEF Tight
  <2>1. Tight(i) /\ i \notin loose
    BY DEF MembershipInv
  <2>2. Accepting(i)' \subseteq Accepting(i)
    BY <1>2 DEF Accepting
  <2>3. Marking(i)' <=> Marking(i)
    BY <1>2 DEF Marking
  <2> QED BY <2>1, <2>2, <2>3 DEF Tight
<1>6. WelcomeRemembers'
  BY <1>0 DEF WelcomeRemembers
<1> QED BY <1>1, <1>3, <1>4, <1>5, <1>6 DEF MembershipInv

\* A sign-in that reads or is refused writes nothing.
OnlyReads ==
  UNCHANGED <<role, account, badge, invite, joined, loose, mode, allowlist, welcome,
              workspaces, served, changes>>

LEMMA Looks ==
  ASSUME MembershipInv, NEW c \in SignIns, OnlyMoves(c), OnlyReads,
         call'[c].pc \notin AcceptingSteps, call[c].pc # "mark", CallShape(c)'
  PROVE  MembershipInv'
<1> USE DEF OnlyReads
<1>1. MembershipTypeOK
  BY DEF MembershipInv
<1>2. \A p \in People : (account[p] = "here" => role[p] # "none")'
  BY DEF MembershipInv
<1>3. \A p \in People : (role[p] # "none" => Reason(p))'
  BY DEF MembershipInv, Reason
<1>4. /\ loose \subseteq loose' /\ loose' \subseteq Invites
      /\ badge' \in [People -> {"none", "guest", "member", "admin"}]
      /\ role' \in [People -> {"none", "guest", "member", "admin"}]
      /\ account' \in [People -> {"none", "here", "elsewhere"}]
      /\ workspaces' \in [People -> Nat] /\ served' \in Nat
  BY <1>1 DEF MembershipTypeOK
<1> QED
  BY <1>2, <1>3, <1>4, Onward

LEMMA Refuses ==
  ASSUME MembershipInv, NEW c \in SignIns, Refused(c), call[c].pc # "mark"
  PROVE  MembershipInv'
<1>1. Idle \in Call
  BY DEF Idle, Call, Pc
<1>2. OnlyMoves(c) /\ call'[c] = Idle /\ OnlyReads
  BY <1>1 DEF OnlyMoves, OnlyReads, Refused, Reads, Goes, MembershipInv, MembershipTypeOK
<1>3. CallShape(c)'
  BY <1>2 DEF CallShape, Idle
<1> QED
  BY <1>2, <1>3, Looks DEF Idle

LEMMA CallbackKeepsInv ==
  ASSUME MembershipInv, NEW c \in SignIns, NEW p \in People,
         NEW token \in Invites \cup {None}, Callback(c, p, token)
  PROVE  MembershipInv'
<1>1. MembershipTypeOK
  BY DEF MembershipInv
<1>2. [Idle EXCEPT !.pc = "user", !.who = p, !.token = token] \in Call
  BY DEF Idle, Call, Pc
<1>3. /\ OnlyMoves(c)
      /\ call'[c] = [Idle EXCEPT !.pc = "user", !.who = p, !.token = token]
  BY <1>1, <1>2 DEF OnlyMoves, Callback, MembershipTypeOK
<1>4. call'[c].pc = "user" /\ call'[c].who = p /\ call'[c].token = token
  BY <1>3 DEF Idle
<1>5. CallShape(c)'
  BY <1>4 DEF CallShape, Callback
<1>6. \A q \in People : (account[q] = "here" => role[q] # "none")'
  BY DEF MembershipInv, Callback
<1>7. \A q \in People : (role[q] # "none" => Reason(q))'
  BY DEF MembershipInv, Reason, Callback
<1>8. /\ loose \subseteq loose' /\ loose' \subseteq Invites
      /\ badge' \in [People -> {"none", "guest", "member", "admin"}]
      /\ role' \in [People -> {"none", "guest", "member", "admin"}]
      /\ account' \in [People -> {"none", "here", "elsewhere"}]
      /\ workspaces' \in [People -> Nat] /\ served' \in Nat
      /\ UNCHANGED <<invite, joined, mode, allowlist, welcome, changes>>
      /\ call[c].pc # "mark"
  BY <1>1 DEF Callback, At, MembershipTypeOK
<1> QED
  BY <1>3, <1>4, <1>5, <1>6, <1>7, <1>8, Onward

\* The reads: what the call goes on with is of its shape.
LEMMA FindUserKeepsInv ==
  ASSUME MembershipInv, NEW c \in SignIns, FindUser(c)
  PROVE  MembershipInv'
<1>1. /\ MembershipTypeOK /\ CallShape(c) /\ call[c] \in Call
      /\ call[c].pc = "user" /\ call[c].who \in People
      /\ account[call[c].who] \in {"none", "here", "elsewhere"}
  BY DEF MembershipInv, MembershipTypeOK, CallShape, FindUser, At
<1>2. CASE account[call[c].who] = "none"
  <2>1. PICK way \in {"invite", "connection", "found"} :
          /\ way = "invite" => call[c].token # None
          /\ Reads(c, [call[c] EXCEPT !.pc = way])
    <3>1. CASE call[c].token # None
      BY <1>2, <3>1 DEF FindUser
    <3>2. CASE call[c].token = None /\ call[c].who \in Federated
      BY <1>2, <3>2 DEF FindUser
    <3>3. CASE call[c].token = None /\ call[c].who \notin Federated
      BY <1>2, <3>3 DEF FindUser
    <3> QED BY <3>1, <3>2, <3>3
  <2>2. [call[c] EXCEPT !.pc = way] \in Call
    BY <1>1 DEF Call, Pc
  <2>3. /\ OnlyMoves(c) /\ OnlyReads
        /\ call'[c] = [call[c] EXCEPT !.pc = way]
    BY <1>1, <2>1, <2>2 DEF OnlyMoves, OnlyReads, Reads, Goes, MembershipTypeOK
  <2>4. call'[c].pc = way /\ call'[c].who = call[c].who /\ call'[c].token = call[c].token
    BY <1>1, <2>3 DEF Call
  <2>5. CallShape(c)'
    BY <1>1, <2>1, <2>3, <2>4 DEF CallShape, OnlyReads, Call
  <2> QED BY <1>1, <2>3, <2>4, <2>5, Looks
<1>3. CASE account[call[c].who] = "here"
  <2>1. role[call[c].who] \in {"guest", "member", "admin"}
    BY <1>1, <1>3 DEF MembershipInv, MembershipTypeOK
  <2>2. [call[c] EXCEPT !.pc = "answer", !.role = role[call[c].who]] \in Call
    BY <1>1, <2>1 DEF Call, Pc
  <2>3. Reads(c, [call[c] EXCEPT !.pc = "answer", !.role = role[call[c].who]])
    BY <1>3 DEF FindUser
  <2>4. /\ OnlyMoves(c) /\ OnlyReads
        /\ call'[c] = [call[c] EXCEPT !.pc = "answer", !.role = role[call[c].who]]
    BY <1>1, <2>2, <2>3 DEF OnlyMoves, OnlyReads, Reads, Goes, MembershipTypeOK
  <2>5. /\ call'[c].pc = "answer" /\ call'[c].who = call[c].who
        /\ call'[c].token = call[c].token /\ call'[c].role = role[call[c].who]
    BY <1>1, <2>4 DEF Call
  <2>6. CallShape(c)'
    BY <1>1, <2>1, <2>4, <2>5, MembershipAssumption DEF CallShape, OnlyReads
  <2> QED BY <1>1, <2>4, <2>5, <2>6, Looks
<1>4. CASE account[call[c].who] = "elsewhere"
  <2>1. Refused(c)
    BY <1>4 DEF FindUser, Refused
  <2> QED BY <1>1, <2>1, Refuses
<1> QED BY <1>1, <1>2, <1>3, <1>4

LEMMA FindConnectionKeepsInv ==
  ASSUME MembershipInv, NEW c \in SignIns, FindConnection(c)
  PROVE  MembershipInv'
<1>1. /\ MembershipTypeOK /\ WelcomeRemembers /\ CallShape(c) /\ call[c] \in Call
      /\ call[c].pc = "connection" /\ call[c].who \in People
  BY DEF MembershipInv, MembershipTypeOK, CallShape, FindConnection, At
<1>2. [call[c] EXCEPT !.pc = "listed", !.mode = mode] \in Call
  BY <1>1 DEF Call, Pc, MembershipTypeOK
<1>3. /\ OnlyMoves(c) /\ OnlyReads
      /\ call'[c] = [call[c] EXCEPT !.pc = "listed", !.mode = mode]
  BY <1>1, <1>2 DEF FindConnection, OnlyMoves, OnlyReads, Reads, Goes, MembershipTypeOK
<1>4. /\ call'[c].pc = "listed" /\ call'[c].who = call[c].who
      /\ call'[c].token = call[c].token /\ call'[c].mode = mode
  BY <1>1, <1>3 DEF Call
<1>5. mode = "allowlist" \/ (mode = "open" /\ call[c].who \in welcome)
  BY <1>1 DEF WelcomeRemembers, MembershipTypeOK
<1>6. call'[c].token # None => invite'[call'[c].token].sent
  BY <1>1, <1>3, <1>4 DEF CallShape, OnlyReads
<1>7. welcome' = welcome
  BY <1>3 DEF OnlyReads
<1>8. CallShape(c)'
  BY <1>1, <1>4, <1>5, <1>6, <1>7 DEF CallShape
<1> QED BY <1>1, <1>3, <1>4, <1>8, Looks

LEMMA CheckListedKeepsInv ==
  ASSUME MembershipInv, NEW c \in SignIns, CheckListed(c)
  PROVE  MembershipInv'
<1>1. /\ MembershipTypeOK /\ WelcomeRemembers /\ CallShape(c) /\ call[c] \in Call
      /\ call[c].pc = "listed" /\ call[c].who \in People
  BY DEF MembershipInv, MembershipTypeOK, CallShape, CheckListed, At
<1>2. CASE canJitJoin(c)
  <2>1. call[c].who \in welcome
    BY <1>1, <1>2 DEF CallShape, canJitJoin, WelcomeRemembers
  <2>2. [call[c] EXCEPT !.pc = "admit", !.role = "member"] \in Call
    BY <1>1 DEF Call, Pc
  <2>3. /\ OnlyMoves(c) /\ OnlyReads
        /\ call'[c] = [call[c] EXCEPT !.pc = "admit", !.role = "member"]
    BY <1>1, <1>2, <2>2
    DEF CheckListed, OnlyMoves, OnlyReads, Reads, Goes, MembershipTypeOK
  <2>4. /\ call'[c].pc = "admit" /\ call'[c].who = call[c].who
        /\ call'[c].token = call[c].token /\ call'[c].role = "member"
    BY <1>1, <2>3 DEF Call
  <2>5. CallShape(c)'
    BY <1>1, <2>1, <2>3, <2>4 DEF CallShape, OnlyReads
  <2> QED BY <1>1, <2>3, <2>4, <2>5, Looks
<1>3. CASE ~canJitJoin(c)
  BY <1>1, <1>3, Refuses DEF CheckListed
<1> QED BY <1>2, <1>3

-----------------------------------------------------------------------------
\* Onto an invite, and off it again.
LEMMA FindInviteKeepsInv ==
  ASSUME MembershipInv, NEW c \in SignIns, FindInvite(c)
  PROVE  MembershipInv'
<1>1. /\ MembershipTypeOK /\ CallShape(c) /\ call[c] \in Call
      /\ call[c].pc = "invite" /\ call[c].who \in People /\ call[c].token \in Invites
  BY DEF MembershipInv, MembershipTypeOK, CallShape, FindInvite, At
<1> DEFINE i == call[c].token
<1>2. CASE inviteAcceptability(i)
  <2>1. invite[i].sent /\ invite[i].role \in Roles
    BY <1>1, MembershipAssumption DEF MembershipInv, CallShape, InviteShape
  <2>2. [call[c] EXCEPT !.pc = "join", !.role = invite[i].role] \in Call
    BY <1>1, <2>1 DEF Call, Pc, Roles
  <2>3. /\ OnlyMoves(c)
        /\ call'[c] = [call[c] EXCEPT !.pc = "join", !.role = invite[i].role]
        /\ loose' = loose \cup (IF Accepting(i) = {} THEN {} ELSE {i})
        /\ UNCHANGED <<role, account, badge, invite, joined, mode, allowlist, welcome,
                       workspaces, served, changes>>
    BY <1>1, <1>2, <2>2 DEF FindInvite, OnlyMoves, Goes, MembershipTypeOK
  <2>4. /\ call'[c].pc = "join" /\ call'[c].who = call[c].who
        /\ call'[c].token = i /\ call'[c].role = invite[i].role
    BY <1>1, <2>3 DEF Call
  <2>5. \A d \in SignIns : CallShape(d)'
    <3>1. CallShape(c)'
      BY <1>1, <2>1, <2>3, <2>4, MembershipAssumption DEF CallShape, Roles
    <3> QED BY <2>3, <3>1, OthersInShape
  <2>6. MembershipTypeOK'
    BY <1>1, <2>3 DEF MembershipTypeOK, OnlyMoves
  <2>7. \A j \in Invites : Tight(j)'
    <3> SUFFICES ASSUME NEW j \in Invites, j \notin loose' PROVE Tight(j)'
      BY DEF Tight
    <3>1. Tight(j) /\ j \notin loose
      BY <2>3 DEF MembershipInv
    <3>2. CASE j = i
      <4>1. Accepting(i) = {} /\ ~invite[i].accepted
        BY <1>2, <2>3, <3>2 DEF inviteAcceptability
      <4>2. ~Marking(i)
        BY <4>1 DEF Marking, Accepting
      <4>3. joined[i] = {}
        BY <3>1, <3>2, <4>1, <4>2 DEF Tight
      <4>4. Accepting(i)' = {c}
        BY <2>3, <2>4, <4>1 DEF Accepting, OnlyMoves
      <4>5. ~Marking(i)'
        BY <2>3, <2>4, <4>2 DEF Marking, OnlyMoves
      <4> QED BY <2>3, <3>2, <4>1, <4>3, <4>4, <4>5 DEF Tight
    <3>3. CASE j # i
      <4>1. Accepting(j)' = Accepting(j)
        BY <2>3, <2>4, <3>3 DEF Accepting, OnlyMoves
      <4>2. Marking(j)' <=> Marking(j)
        BY <2>3, <2>4, <3>3 DEF Marking, OnlyMoves
      <4> QED BY <2>3, <3>1, <4>1, <4>2 DEF Tight
    <3> QED BY <3>2, <3>3
  <2>8. \A j \in Invites : InviteShape(j)'
    BY <2>3 DEF MembershipInv, InviteShape
  <2>9. \A p \in People : /\ (account[p] = "here" => role[p] # "none")'
                          /\ (role[p] # "none" => Reason(p))'
    BY <2>3 DEF MembershipInv, Reason
  <2>10. WelcomeRemembers'
    BY <2>3 DEF MembershipInv, WelcomeRemembers
  <2> QED BY <2>5, <2>6, <2>7, <2>8, <2>9, <2>10 DEF MembershipInv
<1>3. CASE ~inviteAcceptability(i)
  BY <1>1, <1>3, Refuses DEF FindInvite
<1> QED BY <1>2, <1>3

LEMMA JoinKeepsInv ==
  ASSUME MembershipInv, NEW c \in SignIns, Join(c)
  PROVE  MembershipInv'
<1>1. /\ MembershipTypeOK /\ CallShape(c) /\ call[c] \in Call
      /\ call[c].pc = "join" /\ call[c].role \in Roles
      /\ call[c].who \in People /\ call[c].token \in Invites
  BY DEF MembershipInv, MembershipTypeOK, CallShape, Join, At
<1> DEFINE i == call[c].token
           p == call[c].who
<1>2. CASE Throws(c)
  BY <1>1, <1>2, Refuses DEF Throws
<1>3. CASE ~Throws(c)
  <2>1. createUser(p, call[c].role)
    BY <1>3 DEF Join
  <2>2. /\ role' \in [People -> {"none", "guest", "member", "admin"}]
        /\ account' \in [People -> {"none", "here", "elsewhere"}]
        /\ role'[p] \in Roles
        /\ \A q \in People \ {p} : role'[q] = role[q] /\ account'[q] = account[q]
    BY <1>1, <2>1 DEF createUser, MembershipTypeOK, Roles
  <2>3. /\ joined' = [joined EXCEPT ![i] = @ \cup {p}]
        /\ Goes(c, [call[c] EXCEPT !.pc = "mark"])
        /\ UNCHANGED <<invite, loose, workspaces>>
    BY <1>3 DEF Join
  <2>4. [call[c] EXCEPT !.pc = "mark"] \in Call
    BY <1>1 DEF Call, Pc
  <2>5. /\ OnlyMoves(c) /\ call'[c] = [call[c] EXCEPT !.pc = "mark"]
        /\ UNCHANGED <<badge, mode, allowlist, welcome, served, changes>>
    BY <1>1, <2>3, <2>4 DEF OnlyMoves, Goes, MembershipTypeOK
  <2>6. /\ call'[c].pc = "mark" /\ call'[c].who = p
        /\ call'[c].token = i /\ call'[c].role = call[c].role
    BY <1>1, <2>5 DEF Call
  <2>7. /\ joined' \in [Invites -> SUBSET People]
        /\ joined'[i] = joined[i] \cup {p}
        /\ \A j \in Invites \ {i} : joined'[j] = joined[j]
    BY <1>1, <2>3 DEF MembershipTypeOK
  <2>8. MembershipTypeOK'
    BY <1>1, <2>2, <2>3, <2>5, <2>7 DEF MembershipTypeOK, OnlyMoves
  <2>9. \A d \in SignIns : CallShape(d)'
    <3>1. CallShape(c)'
      BY <1>1, <2>3, <2>5, <2>6, MembershipAssumption DEF CallShape, Roles
    <3> QED BY <2>3, <2>5, <3>1, OthersInShape
  <2>10. \A j \in Invites : InviteShape(j)'
    BY <1>1, <2>3, <2>7, MembershipAssumption DEF MembershipInv, InviteShape, CallShape
  <2>11. \A q \in People : /\ (account[q] = "here" => role[q] # "none")'
                           /\ (role[q] # "none" => Reason(q))'
    BY <1>1, <2>2, <2>5, <2>7 DEF MembershipInv, Reason, Roles
  <2>12. \A j \in Invites : Tight(j)'
    <3> SUFFICES ASSUME NEW j \in Invites, j \notin loose PROVE Tight(j)'
      BY <2>3 DEF Tight
    <3>1. Tight(j)
      BY DEF MembershipInv
    <3>2. Accepting(j)' = Accepting(j)
      BY <1>1, <2>5, <2>6 DEF Accepting, OnlyMoves
    <3>3. CASE j = i
      <4>1. c \in Accepting(i)
        BY <1>1 DEF Accepting
      <4>2. ~Marking(i) /\ ~invite[i].accepted
        BY <1>1, <3>1, <3>3, <4>1 DEF Tight, Accepting, Marking
      <4>3. joined'[j] = {p}
        BY <2>7, <3>1, <3>3, <4>2 DEF Tight
      <4>4. Marking(j)'
        BY <2>6, <3>3 DEF Marking
      <4>5. ~invite'[j].accepted
        BY <2>3, <3>3, <4>2
      <4>6. \A d, e \in Accepting(j)' : d = e
        BY <3>1, <3>2 DEF Tight
      <4>7. \E q \in People : joined'[j] = {q}
        BY <1>1, <4>3
      <4> QED BY <4>4, <4>5, <4>6, <4>7 DEF Tight
    <3>4. CASE j # i
      <4>1. Marking(j)' <=> Marking(j)
        BY <2>5, <2>6, <3>4 DEF Marking, OnlyMoves
      <4> QED BY <2>3, <2>7, <3>1, <3>2, <3>4, <4>1 DEF Tight
    <3> QED BY <3>3, <3>4
  <2>13. WelcomeRemembers'
    BY <2>5 DEF MembershipInv, WelcomeRemembers
  <2> QED BY <2>8, <2>9, <2>10, <2>11, <2>12, <2>13 DEF MembershipInv
<1> QED BY <1>2, <1>3

LEMMA MarkKeepsInv ==
  ASSUME MembershipInv, NEW c \in SignIns, markInviteAccepted(c)
  PROVE  MembershipInv'
<1>1. /\ MembershipTypeOK /\ CallShape(c) /\ call[c] \in Call
      /\ call[c].pc = "mark" /\ call[c].role \in Roles
      /\ call[c].who \in People /\ call[c].token \in Invites
  BY DEF MembershipInv, MembershipTypeOK, CallShape, markInviteAccepted, At
<1> DEFINE i == call[c].token
<1>2. [call[c] EXCEPT !.pc = "answer"] \in Call
  BY <1>1 DEF Call, Pc
<1>3. /\ OnlyMoves(c) /\ call'[c] = [call[c] EXCEPT !.pc = "answer"]
      /\ UNCHANGED <<role, account, badge, joined, loose, mode, allowlist, welcome,
                     workspaces, served, changes>>
  BY <1>1, <1>2 DEF markInviteAccepted, OnlyMoves, Goes, MembershipTypeOK
<1>4. /\ call'[c].pc = "answer" /\ call'[c].who = call[c].who
      /\ call'[c].token = i /\ call'[c].role = call[c].role
  BY <1>1, <1>3 DEF Call
<1>5. /\ invite' \in [Invites -> Invite]
      /\ invite'[i].accepted
      /\ \A j \in Invites : /\ invite'[j].sent = invite[j].sent
                            /\ invite'[j].role = invite[j].role
                            /\ j # i => invite'[j] = invite[j]
  BY <1>1 DEF markInviteAccepted, MembershipTypeOK, Invite
<1>6. MembershipTypeOK'
  BY <1>1, <1>3, <1>5 DEF MembershipTypeOK, OnlyMoves
<1>7. \A d \in SignIns : CallShape(d)'
  <2> SUFFICES ASSUME NEW d \in SignIns PROVE CallShape(d)'
    OBVIOUS
  <2>1. CallShape(d) /\ call[d] \in Call
    BY <1>1 DEF MembershipInv, MembershipTypeOK
  <2>2. CASE d = c
    BY <1>1, <1>3, <1>4, <1>5, <2>2, MembershipAssumption DEF CallShape, Roles
  <2>3. CASE d # c
    <3>1. call'[d] = call[d]
      BY <1>3, <2>3 DEF OnlyMoves
    <3> QED BY <1>3, <1>5, <2>1, <3>1 DEF CallShape, Call
  <2> QED BY <2>2, <2>3
<1>8. \A j \in Invites : InviteShape(j)'
  <2>1. invite[i].sent
    BY <1>1, MembershipAssumption DEF CallShape
  <2> QED BY <1>3, <1>5, <2>1 DEF MembershipInv, InviteShape
<1>9. \A j \in Invites : Tight(j)'
  <2> SUFFICES ASSUME NEW j \in Invites, j \notin loose PROVE Tight(j)'
    BY <1>3 DEF Tight
  <2>1. Tight(j)
    BY DEF MembershipInv
  <2>2. CASE j = i
    <3>1. c \in Accepting(i) /\ Marking(i)
      BY <1>1 DEF Accepting, Marking
    <3>2. \A d \in Accepting(i) : d = c
      BY <2>1, <2>2, <3>1 DEF Tight
    <3>4. Accepting(i)' = {}
      BY <1>3, <1>4, <3>2 DEF Accepting, OnlyMoves
    <3>3. \E p \in People : joined[i] = {p}
      BY <2>1, <2>2, <3>1 DEF Tight
    <3> QED BY <1>3, <1>5, <2>2, <3>3, <3>4 DEF Tight
  <2>3. CASE j # i
    <3>1. Accepting(j)' = Accepting(j)
      BY <1>3, <1>4, <2>3 DEF Accepting, OnlyMoves
    <3>2. Marking(j)' <=> Marking(j)
      BY <1>3, <1>4, <2>3 DEF Marking, OnlyMoves
    <3> QED BY <1>3, <1>5, <2>1, <2>3, <3>1, <3>2 DEF Tight
  <2> QED BY <2>2, <2>3
<1>10. \A p \in People : /\ (account[p] = "here" => role[p] # "none")'
                         /\ (role[p] # "none" => Reason(p))'
  BY <1>3 DEF MembershipInv, Reason
<1>11. WelcomeRemembers'
  BY <1>3 DEF MembershipInv, WelcomeRemembers
<1> QED BY <1>6, <1>7, <1>8, <1>9, <1>10, <1>11 DEF MembershipInv

-----------------------------------------------------------------------------
\* The steps that make a row, an organization or a session.
LEMMA AdmitKeepsInv ==
  ASSUME MembershipInv, NEW c \in SignIns, Admit(c)
  PROVE  MembershipInv'
<1>1. /\ MembershipTypeOK /\ CallShape(c) /\ call[c] \in Call
      /\ call[c].pc = "admit" /\ call[c].role = "member"
      /\ call[c].who \in People /\ call[c].who \in welcome
  BY DEF MembershipInv, MembershipTypeOK, CallShape, Admit, At
<1> DEFINE p == call[c].who
<1>2. CASE Throws(c)
  BY <1>1, <1>2, Refuses DEF Throws
<1>3. CASE ~Throws(c)
  <2>1. createUser(p, "member")
    BY <1>1, <1>3 DEF Admit
  <2>2. /\ role' \in [People -> {"none", "guest", "member", "admin"}]
        /\ account' \in [People -> {"none", "here", "elsewhere"}]
        /\ role'[p] = "member"
        /\ \A q \in People \ {p} : role'[q] = role[q] /\ account'[q] = account[q]
    BY <1>1, <2>1 DEF createUser, MembershipTypeOK
  <2>3. [call[c] EXCEPT !.pc = "answer"] \in Call
    BY <1>1 DEF Call, Pc
  <2>4. /\ OnlyMoves(c) /\ call'[c] = [call[c] EXCEPT !.pc = "answer"]
        /\ UNCHANGED <<badge, invite, joined, loose, mode, allowlist, welcome,
                       workspaces, served, changes>>
    BY <1>1, <1>3, <2>3 DEF Admit, OnlyMoves, Goes, MembershipTypeOK
  <2>5. /\ call'[c].pc = "answer" /\ call'[c].who = p
        /\ call'[c].token = call[c].token /\ call'[c].role = "member"
    BY <1>1, <2>4 DEF Call
  <2>6. CallShape(c)'
    BY <1>1, <2>4, <2>5, MembershipAssumption DEF CallShape
  <2>7. \A q \in People : /\ (account[q] = "here" => role[q] # "none")'
                          /\ (role[q] # "none" => Reason(q))'
    BY <1>1, <2>2, <2>4 DEF MembershipInv, Reason
  <2> QED BY <1>1, <2>2, <2>4, <2>5, <2>6, <2>7, Onward DEF MembershipTypeOK
<1> QED BY <1>2, <1>3

LEMMA FoundKeepsInv ==
  ASSUME MembershipInv, NEW c \in SignIns, createOrganization(c)
  PROVE  MembershipInv'
<1>1. /\ MembershipTypeOK /\ CallShape(c) /\ call[c] \in Call
      /\ call[c].pc = "found" /\ call[c].who \in People
  BY DEF MembershipInv, MembershipTypeOK, CallShape, createOrganization, At
<1>2. [call[c] EXCEPT !.pc = "settle"] \in Call
  BY <1>1 DEF Call, Pc
<1>3. /\ OnlyMoves(c) /\ call'[c] = [call[c] EXCEPT !.pc = "settle"]
      /\ UNCHANGED <<role, account, badge, invite, joined, loose, mode, allowlist,
                     welcome, served, changes>>
  BY <1>1, <1>2 DEF createOrganization, OnlyMoves, Goes, MembershipTypeOK
<1>4. /\ call'[c].pc = "settle" /\ call'[c].who = call[c].who
      /\ call'[c].token = call[c].token
  BY <1>1, <1>3 DEF Call
<1>5. CallShape(c)'
  BY <1>1, <1>3, <1>4 DEF CallShape
<1>6. workspaces' \in [People -> Nat]
  BY <1>1 DEF createOrganization, MembershipTypeOK
<1>7. \A q \in People : /\ (account[q] = "here" => role[q] # "none")'
                        /\ (role[q] # "none" => Reason(q))'
  BY <1>3 DEF MembershipInv, Reason
<1> QED BY <1>1, <1>3, <1>4, <1>5, <1>6, <1>7, Onward DEF MembershipTypeOK

LEMMA SettleKeepsInv ==
  ASSUME MembershipInv, NEW c \in SignIns, Settle(c)
  PROVE  MembershipInv'
<1>1. /\ MembershipTypeOK /\ CallShape(c)
      /\ call[c].pc = "settle" /\ call[c].who \in People
  BY DEF MembershipInv, MembershipTypeOK, CallShape, Settle, At
<1>2. CASE Refused(c)
  BY <1>1, <1>2, Refuses
<1>3. CASE ~Refused(c)
  <2>1. /\ account' = [account EXCEPT ![call[c].who] = "elsewhere"]
        /\ call' = [call EXCEPT ![c] = Idle]
        /\ UNCHANGED <<role, badge, invite, joined, loose, mode, allowlist, welcome,
                       workspaces, served, changes>>
    BY <1>3 DEF Settle, Goes
  <2>2. OnlyMoves(c) /\ call'[c] = Idle
    BY <1>1, <2>1 DEF OnlyMoves, MembershipTypeOK, Idle, Call, Pc
  <2>3. CallShape(c)' /\ call'[c].pc = "idle"
    BY <2>2 DEF CallShape, Idle
  <2>4. /\ account' \in [People -> {"none", "here", "elsewhere"}]
        /\ \A q \in People : account'[q] = "here" => account[q] = "here"
    BY <1>1, <2>1 DEF MembershipTypeOK
  <2>5. \A q \in People : /\ (account[q] = "here" => role[q] # "none")'
                          /\ (role[q] # "none" => Reason(q))'
    BY <2>1, <2>4 DEF MembershipInv, Reason
  <2> QED BY <1>1, <2>1, <2>2, <2>3, <2>4, <2>5, Onward DEF MembershipTypeOK
<1> QED BY <1>2, <1>3

LEMMA EndKeepsInv ==
  ASSUME MembershipInv, NEW c \in SignIns, Answer(c) \/ Die(c)
  PROVE  MembershipInv'
<1>1. /\ MembershipTypeOK /\ CallShape(c) /\ call[c] \in Call
      /\ call[c].pc # "idle" /\ call[c].who \in People
      /\ call[c].pc = "mark" => call[c].token \in Invites
  BY DEF MembershipInv, MembershipTypeOK, CallShape, Answer, Die, At
<1>2. /\ call' = [call EXCEPT ![c] = Idle]
      /\ UNCHANGED <<role, account, invite, joined, mode, allowlist, welcome, workspaces,
                     served, changes>>
  BY DEF Answer, Die
<1>3. OnlyMoves(c) /\ call'[c] = Idle
  BY <1>1, <1>2 DEF OnlyMoves, MembershipTypeOK, Idle, Call, Pc
<1>4. CallShape(c)' /\ call'[c].pc = "idle"
  BY <1>3 DEF CallShape, Idle
<1>5. \A q \in People : /\ (account[q] = "here" => role[q] # "none")'
                        /\ (role[q] # "none" => Reason(q))'
  BY <1>2 DEF MembershipInv, Reason
<1>6. badge' \in [People -> {"none", "guest", "member", "admin"}]
  <2>1. CASE Answer(c)
    BY <1>1, <2>1 DEF Answer, At, CallShape, Call, MembershipTypeOK
  <2>2. CASE Die(c)
    BY <1>1, <2>2 DEF Die, MembershipTypeOK
  <2> QED BY <2>1, <2>2
<1>7. /\ loose \subseteq loose' /\ loose' \subseteq Invites
      /\ call[c].pc = "mark" => call[c].token \in loose'
  <2>1. CASE Answer(c)
    BY <1>1, <2>1 DEF Answer, At, MembershipTypeOK
  <2>2. CASE Die(c)
    BY <1>1, <2>2 DEF Die, At, MembershipTypeOK
  <2> QED BY <2>1, <2>2
<1> QED BY <1>1, <1>2, <1>3, <1>4, <1>5, <1>6, <1>7, Onward DEF MembershipTypeOK

LEMMA StepKeepsInv ==
  ASSUME MembershipInv, [MembershipNext]_membershipVars
  PROVE  MembershipInv'
<1>1. ASSUME NEW a \in People, AdminNext(a) \/ Lapse(a)
      PROVE  MembershipInv'
  BY <1>1, AdminsKeepInv
<1>2. ASSUME NEW i \in Invites, Expire(i)
      PROVE  MembershipInv'
  BY <1>2, ExpireKeepsInv
<1>3. ASSUME NEW c \in SignIns, SignInNext(c)
      PROVE  MembershipInv'
  BY <1>3, CallbackKeepsInv, FindUserKeepsInv, FindInviteKeepsInv, JoinKeepsInv, MarkKeepsInv,
     FindConnectionKeepsInv, CheckListedKeepsInv, AdmitKeepsInv, FoundKeepsInv,
     SettleKeepsInv, EndKeepsInv DEF SignInNext
<1>4. CASE UNCHANGED membershipVars
  <2>1. \A i \in Invites : Accepting(i)' = Accepting(i) /\ (Marking(i)' <=> Marking(i))
    BY <1>4 DEF membershipVars, Accepting, Marking
  <2>2. \A i \in Invites : Tight(i)'
    BY <1>4, <2>1 DEF membershipVars, MembershipInv, Tight
  <2>3. MembershipTypeOK' /\ WelcomeRemembers'
    BY <1>4 DEF membershipVars, MembershipInv, MembershipTypeOK, WelcomeRemembers
  <2>4. /\ \A c \in SignIns : CallShape(c)'
        /\ \A i \in Invites : InviteShape(i)'
        /\ \A p \in People : (account[p] = "here" => role[p] # "none")'
        /\ \A p \in People : (role[p] # "none" => Reason(p))'
    BY <1>4 DEF membershipVars, MembershipInv, CallShape, InviteShape, Reason
  <2> QED BY <2>2, <2>3, <2>4 DEF MembershipInv
<1> QED BY <1>1, <1>2, <1>3, <1>4 DEF MembershipNext

-----------------------------------------------------------------------------
\* What a sign-in relies on and what an invite has done hold together, in every state.
THEOREM MembershipInvariant == MembershipSpec => []MembershipInv
<1>1. MembershipInv /\ [MembershipNext]_membershipVars => MembershipInv'
  BY StepKeepsInv
<1> QED BY <1>1, InitInv, PTL DEF MembershipSpec

\* The variables have their types.
THEOREM MembershipTyped == MembershipSpec => []MembershipTypeOK
<1>1. MembershipInv => MembershipTypeOK
  BY DEF MembershipInv
<1> QED BY <1>1, MembershipInvariant, PTL

\* An invite is single-use unless its acceptances overlapped or one died before its mark,
\* however many people hold its link and whenever they follow it.
THEOREM InvitesLetOneIn == MembershipSpec => []OneJoinsUnlessRaced
<1>1. MembershipInv => OneJoinsUnlessRaced
  <2> SUFFICES ASSUME MembershipInv, NEW i \in Invites, i \notin loose
               PROVE  Cardinality(joined[i]) <= 1
    BY DEF OneJoinsUnlessRaced
  <2>1. joined[i] = {} \/ \E p \in People : joined[i] = {p}
    BY DEF MembershipInv, Tight
  <2>2. CASE joined[i] = {}
    BY <2>2, FS_EmptySet
  <2>3. ASSUME NEW p \in People, joined[i] = {p}
        PROVE  Cardinality(joined[i]) <= 1
    BY <2>3, FS_Singleton
  <2> QED BY <2>1, <2>2, <2>3
<1> QED BY <1>1, MembershipInvariant, PTL

\* Nobody is a member without a reason, whatever lists and modes changed meanwhile.
THEOREM NobodyJoinsUnasked == MembershipSpec => []MembersHaveAReason
<1>1. MembershipInv => MembersHaveAReason
  BY DEF MembershipInv, MembersHaveAReason, Reason, Roles
<1> QED BY <1>1, MembershipInvariant, PTL

\* The last admin goes only by the hand of one who was demoted and still has the cookie.
THEOREM AdminsGoByStaleBadges == MembershipSpec => LastAdminByStaleBadge
<1>1. ASSUME MembershipInv, [MembershipNext]_membershipVars, Admins # {}, Admins' = {}
      PROVE  \E a \in People : badge[a] = "admin" /\ role[a] # "admin"
  <2>1. PICK p \in People : role[p] = "admin"
    BY <1>1 DEF Admins
  <2>2. role'[p] # "admin"
    BY <1>1 DEF Admins
  <2>3. MembershipTypeOK
    BY <1>1 DEF MembershipInv
  <2>4. PICK a \in People, q \in People, r \in Roles : setUserRole(a, q, r)
    <3>1. ASSUME NEW q \in People, NEW r, createUser(q, r), CanCreateUser(q)
          PROVE  FALSE
      BY <2>1, <2>2, <2>3, <3>1 DEF createUser, CanCreateUser, MembershipTypeOK
    <3>2. role' # role
      BY <2>1, <2>2
    <3>3. ASSUME NEW c \in SignIns, SignInNext(c)
          PROVE  FALSE
      <4>1. call[c].pc # "idle" => call[c].who \in People
        BY <1>1 DEF MembershipInv, CallShape
      <4> QED
        BY <3>1, <3>2, <3>3, <4>1
        DEF SignInNext, Callback, FindUser, FindInvite, Join, markInviteAccepted,
            FindConnection, CheckListed, Admit, createOrganization, Settle, Answer, Die,
            Throws, Refused, Reads, At
    <3>4. ASSUME NEW b \in People, AdminNext(b)
          PROVE  \E x \in People, q \in People, r \in Roles : setUserRole(x, q, r)
      BY <3>2, <3>4
      DEF AdminNext, SendInvite, RevokeInvite, addAllowlistEntry, removeAllowlistEntry,
          SetProvisioningMode
    <3> QED
      BY <1>1, <3>2, <3>3, <3>4 DEF MembershipNext, Lapse, Expire, membershipVars
  <2>5. p = q /\ r # "admin"
    BY <2>1, <2>2, <2>3, <2>4 DEF setUserRole, MembershipTypeOK
  <2>6. badge[a] = "admin" /\ a # p
    BY <2>4, <2>5 DEF setUserRole, MaySetRole
  <2>7. role'[a] = role[a]
    BY <2>3, <2>4, <2>5, <2>6 DEF setUserRole, MembershipTypeOK
  <2>8. role[a] # "admin"
    BY <1>1, <2>7 DEF Admins
  <2> QED BY <2>6, <2>8
<1> QED BY <1>1, MembershipInvariant, PTL DEF MembershipSpec, LastAdminByStaleBadge

-----------------------------------------------------------------------------
(* Sessions.                                                                *)

Carried ==
  [pc : {"idle", "composed", "sent", "policy", "answered"}, kind : Kinds \cup {Unset},
   header : (Token \X {0, 1}) \cup {Unset}, cookie : Token \cup {Unset},
   server : Servers \cup {Unset}, at : Nat, fresh : Token \cup {Unset},
   code : {"ok", "unauthenticated", "csrf", "guest_forbidden", "forbidden", Unset}]

SessionsTypes ==
  /\ now \in 0 .. MaxTime
  /\ jar \in Token \cup {Unset}
  /\ orgMax \in Maxes
  /\ replaced \in [Maxes -> Times \cup {Unset}]
  /\ demoted \in Times \cup {Unset}
  /\ release \in [Servers -> 0 .. 2]
  /\ rolled \in Times \cup {Unset}
  /\ cache \in [Servers -> [max : Maxes, until : Nat]]
  /\ request \in [Requests -> Carried]

\* A guest's token ends with the grant, and one of the old secret before that secret is
\* dropped.
TokenShape(t) ==
  t # Unset =>
    /\ t.exp <= now + TTL
    /\ t.role = "guest" => t.exp <= GrantEnd
    /\ t.key = 0 /\ (\A s \in Servers : release[s] # 0) /\ rolled # Unset => t.exp <= rolled + TTL

\* What a server keeps was in force less than the cache's time ago.
CacheShape(s) ==
  /\ cache[s].until <= now + CacheTtl
  /\ \/ cache[s].until = 0
     \/ cache[s].max = orgMax
     \/ /\ replaced[cache[s].max] # Unset
        /\ cache[s].until <= replaced[cache[s].max] + CacheTtl

ReleaseShape(s) ==
  /\ release[s] # 0 => rolled # Unset
  /\ release[s] = 2 => (\A z \in Servers : release[z] # 0) /\ now >= rolled + TTL

\* A request that changes something carries a token read from one cookie pair.
Paired(q) == q.kind # "read" => \E t \in Token : q.header = <<t, t.key>>

CarriedShape(q) ==
  /\ TokenShape(q.cookie) /\ TokenShape(q.fresh)
  /\ q.pc # "idle" => Paired(q)
  /\ q.pc \in {"sent", "policy", "answered"} => q.server \in Servers
  /\ q.pc = "policy" => q.cookie # Unset /\ q.at <= now

SessionsInv ==
  /\ SessionsTypes
  /\ TokenShape(jar)
  /\ \A s \in Servers : CacheShape(s) /\ ReleaseShape(s)
  /\ \A r \in Requests : CarriedShape(request[r])

USE DEF Times, Maxes

LEMMA InitSessions == SessionsInit => SessionsInv
<1> SUFFICES ASSUME SessionsInit PROVE SessionsInv
  OBVIOUS
<1> USE SessionsAssumption DEF SessionsInit, NotMade, Empty
<1>1. SessionsTypes
  BY DEF SessionsTypes, Carried
<1>2. TokenShape(jar) /\ (\A s \in Servers : CacheShape(s) /\ ReleaseShape(s))
  BY DEF TokenShape, CacheShape, ReleaseShape
<1>3. \A r \in Requests : CarriedShape(request[r])
  BY DEF CarriedShape, TokenShape
<1> QED BY <1>1, <1>2, <1>3 DEF SessionsInv

\* What a server mints.
LEMMA MintedShape ==
  ASSUME SessionsInv, NEW s \in Servers, NEW kind \in {"admin", "guest"},
         NEW at \in Nat, at <= now,
         NEW exp \in Nat, exp <= now + TTL, kind = "guest" => exp <= GrantEnd
  PROVE  Minted(kind, at, exp, s) \in Token /\ TokenShape(Minted(kind, at, exp, s))
<1> USE SessionsAssumption
<1>1. now \in 0 .. MaxTime /\ exp \in Times /\ at \in Times /\ release[s] \in 0 .. 2
  BY DEF SessionsInv, SessionsTypes
<1>2. Minted(kind, at, exp, s) \in Token
  BY <1>1 DEF Minted, signingKey, Token
<1> PICK t : t = Minted(kind, at, exp, s)
  OBVIOUS
<1>3. t.role = kind /\ t.exp = exp /\ t.key = signingKey(s)
  BY DEF Minted
<1>4. t.key = 0 => release[s] = 0
  BY <1>1, <1>3 DEF signingKey
<1>5. TokenShape(t)
  BY <1>3, <1>4 DEF TokenShape
<1> QED BY <1>2, <1>5

LEMMA RefreshedShape ==
  ASSUME SessionsInv, NEW s \in Servers, NEW t \in Token, t.role # "guest",
         NEW at \in Nat, at <= now
  PROVE  Refreshed(t, at, s) \in Token /\ TokenShape(Refreshed(t, at, s))
<1>1. /\ t.role \in {"admin", "guest"} /\ now \in Nat
      /\ at + TTL \in Nat /\ at + TTL <= now + TTL
  BY SessionsAssumption DEF Token, SessionsInv, SessionsTypes
<1> QED BY <1>1, MintedShape DEF Refreshed

\* Tokens stay as they are while the clock goes on and the servers are left alone.
LEMMA TokensLast ==
  ASSUME SessionsInv, NEW t \in Token \cup {Unset}, TokenShape(t), UNCHANGED <<release, rolled>>,
         now' \in Nat, now <= now'
  PROVE  TokenShape(t)'
<1>1. t \in Token => t.exp \in Nat
  BY SessionsAssumption DEF Token
<1> QED BY <1>1, SessionsAssumption DEF TokenShape, SessionsInv, SessionsTypes

-----------------------------------------------------------------------------
\* What becomes of request q at a server that knows the maximum is j.
JudgedWell(q, max, j) ==
  LET end == effectiveSessionExpiry(q.cookie, max)
  IN  /\ j \in Carried /\ j.pc = "answered" /\ TokenShape(j.fresh)
      /\ j.cookie = q.cookie /\ j.server = q.server /\ j.at = q.at
      /\ j.kind = q.kind /\ j.header = q.header
      /\ j.code = "ok" => q.at < end
      /\ j.code = "unauthenticated" => q.at >= end
      /\ j.code = "csrf" => q.cookie # q.header[1]

LEMMA EndIsANumber ==
  ASSUME NEW t \in Token, NEW max \in Maxes
  PROVE  /\ t.exp \in Nat /\ t.iat \in Nat /\ Hours(max) \in Nat
         /\ effectiveSessionExpiry(t, max) \in Nat
         /\ effectiveSessionExpiry(t, max) <= t.exp
         /\ effectiveSessionExpiry(t, max) <= t.iat + Hours(max)
<1>1. t.exp \in Nat /\ t.iat \in Nat
  BY SessionsAssumption DEF Token
<1>2. Hours(max) \in Nat
  BY SessionsAssumption DEF Hours
<1> HIDE DEF Maxes
<1> QED BY <1>1, <1>2 DEF effectiveSessionExpiry, Least

LEMMA JudgedIs ==
  ASSUME SessionsInv, NEW q \in Carried, NEW max \in Maxes, q.cookie # Unset,
         q.server \in Servers, TokenShape(q.fresh), Paired(q), q.at <= now
  PROVE  JudgedWell(q, max, Judged(q, max))
<1> USE SessionsAssumption
<1> DEFINE t == q.cookie
           end == effectiveSessionExpiry(t, max)
           fresh == IF Refreshes(t, max, q.at) THEN Refreshed(t, q.at, q.server) ELSE Unset
           asked == [q EXCEPT !.fresh = fresh]
           j == Judged(q, max)
<1>1. t \in Token /\ q.at \in Nat
  BY DEF Carried
<1>2. end \in Int
  BY <1>1, EndIsANumber
<1>3. fresh \in Token \cup {Unset} /\ TokenShape(fresh)
  BY <1>1, RefreshedShape DEF Refreshes, TokenShape
<1> HIDE DEF end, fresh
<1>4. /\ asked \in Carried /\ asked.fresh = fresh /\ asked.cookie = t
      /\ asked.server = q.server /\ asked.at = q.at /\ asked.kind = q.kind
      /\ asked.header = q.header
  BY <1>3 DEF Carried
<1>5. CASE q.at >= end
  <2>1. j = [q EXCEPT !.pc = "answered", !.code = "unauthenticated"]
    BY <1>5 DEF Judged, Refuse, end
  <2>2. /\ j \in Carried /\ j.pc = "answered" /\ j.fresh = q.fresh /\ j.cookie = t
        /\ j.server = q.server /\ j.at = q.at /\ j.kind = q.kind /\ j.header = q.header
        /\ j.code = "unauthenticated"
    BY <2>1 DEF Carried
  <2> QED BY <1>5, <2>2 DEF end, JudgedWell
<1>6. CASE ~(q.at >= end)
  <2>1. j = Handled(asked)
    BY <1>6 DEF Judged, end, fresh
  <2> HIDE DEF asked
  <2>2. PICK code \in {"ok", "csrf", "guest_forbidden"} :
          /\ Handled(asked) = [asked EXCEPT !.pc = "answered", !.code = code]
          /\ code = "csrf" => q.kind # "read" /\ q.header # <<t, t.key>>
    <3>1. CASE q.kind # "read" /\ q.header # <<t, t.key>>
      BY <1>4, <3>1 DEF Handled, Refuse, csrfExpected
    <3>2. CASE ~(q.kind # "read" /\ q.header # <<t, t.key>>)
      <4>1. CASE q.kind = "admin" /\ t.role = "guest"
        BY <1>4, <3>2, <4>1 DEF Handled, Refuse, csrfExpected
      <4>2. CASE ~(q.kind = "admin" /\ t.role = "guest")
        BY <1>4, <3>2, <4>2 DEF Handled, Refuse, csrfExpected
      <4> QED BY <4>1, <4>2
    <3> QED BY <3>1, <3>2
  <2>3. /\ j \in Carried /\ j.pc = "answered" /\ j.fresh = fresh /\ j.cookie = t
        /\ j.server = q.server /\ j.at = q.at /\ j.kind = q.kind /\ j.header = q.header
        /\ j.code = code
    <3>1. j = [asked EXCEPT !.pc = "answered", !.code = code]
      BY <2>1, <2>2
    <3>2. asked \in Carried
      BY <1>4
    <3>3. j \in Carried
      BY <3>1, <3>2 DEF Carried
    <3>4. /\ j.pc = "answered" /\ j.code = code /\ j.fresh = asked.fresh
          /\ j.cookie = asked.cookie /\ j.server = asked.server /\ j.at = asked.at
          /\ j.kind = asked.kind /\ j.header = asked.header
      BY <3>1, <3>2 DEF Carried
    <3> QED BY <1>4, <3>3, <3>4
  <2>4. j.code = "csrf" => t # q.header[1]
    BY <2>2, <2>3 DEF Paired
  <2> QED BY <1>1, <1>2, <1>3, <1>6, <2>3, <2>4 DEF end, JudgedWell
<1> QED BY <1>5, <1>6

-----------------------------------------------------------------------------
\* A step of the page or of a server's guard: the clock, the settings and the secrets stay.
LEMMA StepKeepsSessions ==
  ASSUME SessionsInv, SameServers, UNCHANGED now,
         jar' \in Token \cup {Unset}, TokenShape(jar'),
         request' \in [Requests -> Carried], \A r \in Requests : CarriedShape(request'[r]),
         \/ UNCHANGED cache
         \/ \E s \in Servers, at \in Nat :
              at <= now /\ cache' = [cache EXCEPT ![s] = [max |-> orgMax, until |-> at + CacheTtl]]
  PROVE  SessionsInv'
<1> USE SessionsAssumption
<1>1. UNCHANGED <<now, orgMax, replaced, demoted, release, rolled>>
  BY DEF SameServers
<1>2. TokenShape(jar)' /\ \A r \in Requests : CarriedShape(request[r])'
  BY <1>1 DEF TokenShape, CarriedShape
<1>3. /\ cache' \in [Servers -> [max : Maxes, until : Nat]]
      /\ \A s \in Servers : CacheShape(s)'
  <2>1. CASE UNCHANGED cache
    BY <1>1, <2>1 DEF SessionsInv, SessionsTypes, CacheShape
  <2>2. ASSUME NEW s \in Servers, NEW at \in Nat, at <= now,
               cache' = [cache EXCEPT ![s] = [max |-> orgMax, until |-> at + CacheTtl]]
        PROVE  /\ cache' \in [Servers -> [max : Maxes, until : Nat]]
               /\ \A z \in Servers : CacheShape(z)'
    BY <1>1, <2>2 DEF SessionsInv, SessionsTypes, CacheShape
  <2> QED BY <2>1, <2>2
<1>4. SessionsTypes'
  BY <1>1, <1>3 DEF SessionsInv, SessionsTypes
<1>5. \A s \in Servers : ReleaseShape(s)'
  BY <1>1 DEF SessionsInv, ReleaseShape
<1> QED BY <1>2, <1>3, <1>4, <1>5 DEF SessionsInv

\* One request moves.
LEMMA MoveKeepsSessions ==
  ASSUME SessionsInv, SameServers, UNCHANGED now, NEW r \in Requests, NEW next \in Carried,
         Set(r, next), CarriedShape(next), jar' \in Token \cup {Unset}, TokenShape(jar'),
         \/ UNCHANGED cache
         \/ \E s \in Servers, at \in Nat :
              at <= now /\ cache' = [cache EXCEPT ![s] = [max |-> orgMax, until |-> at + CacheTtl]]
  PROVE  SessionsInv' /\ request'[r] = next
<1>1. /\ request \in [Requests -> Carried] /\ request' = [request EXCEPT ![r] = next]
      /\ \A z \in Requests : CarriedShape(request[z])
  BY DEF SessionsInv, SessionsTypes, Set
<1>2. /\ request' \in [Requests -> Carried] /\ request'[r] = next
      /\ \A z \in Requests : CarriedShape(request'[z])
  BY <1>1
<1> QED BY <1>2, StepKeepsSessions

LEMMA PageKeepsSessions ==
  ASSUME SessionsInv,
         \/ \E s \in Servers : SignIn(s) \/ \E canRead \in BOOLEAN : Redeem(s, canRead)
         \/ SignOut
  PROVE  SessionsInv'
<1> USE SessionsAssumption
<1>1. SameServers /\ UNCHANGED <<now, cache, request>>
  BY DEF SignIn, Redeem, SignOut
<1>2. jar' \in Token \cup {Unset} /\ TokenShape(jar')
  <2>1. now \in Nat /\ jar \in Token \cup {Unset} /\ TokenShape(jar)
    BY DEF SessionsInv, SessionsTypes
  <2>2. CASE SignOut
    BY <2>2 DEF SignOut, TokenShape
  <2>3. CASE \E s \in Servers : SignIn(s)
    BY <2>1, <2>3, MintedShape DEF SignIn
  <2>4. CASE \E s \in Servers, canRead \in BOOLEAN : Redeem(s, canRead)
    <3>1. PICK s \in Servers, canRead \in BOOLEAN : Redeem(s, canRead)
      BY <2>4
    <3> DEFINE exp == Least(now + TTL, GrantEnd)
    <3>2. exp \in Nat /\ exp <= now + TTL /\ exp <= GrantEnd
      BY <2>1 DEF Least
    <3>3. jar' = jar \/ jar' = Minted("guest", now, exp, s)
      BY <3>1 DEF Redeem
    <3> HIDE DEF exp
    <3> QED BY <2>1, <3>2, <3>3, MintedShape
  <2> QED BY <2>2, <2>3, <2>4
<1>3. request' \in [Requests -> Carried] /\ \A r \in Requests : CarriedShape(request'[r])
  BY <1>1 DEF SessionsInv, SessionsTypes
<1> QED BY <1>1, <1>2, <1>3, StepKeepsSessions

LEMMA BrowserKeepsSessions ==
  ASSUME SessionsInv, NEW r \in Requests,
         \/ \E kind \in Kinds : Compose(r, kind)
         \/ \E s \in Servers : Send(r, s)
         \/ Deliver(r) \/ Lose(r)
  PROVE  SessionsInv'
<1> USE SessionsAssumption
<1> DEFINE q == request[r]
<1>1. /\ q \in Carried /\ CarriedShape(q) /\ jar \in Token \cup {Unset} /\ TokenShape(jar)
      /\ request \in [Requests -> Carried]
  BY DEF SessionsInv, SessionsTypes
<1>2. NotMade \in Carried /\ CarriedShape(NotMade)
  BY DEF NotMade, Carried, CarriedShape, TokenShape
<1>3. CASE \E kind \in Kinds : Compose(r, kind)
  <2>1. PICK kind \in Kinds : Compose(r, kind)
    BY <1>3
  <2> DEFINE header == IF kind = "read" THEN Unset ELSE <<jar, jar.key>>
             next == [NotMade EXCEPT !.pc = "composed", !.kind = kind, !.header = header]
  <2>2. Set(r, next) /\ SameServers /\ UNCHANGED <<now, jar, cache>> /\ jar # Unset
    BY <2>1 DEF Compose
  <2>3. header \in (Token \X {0, 1}) \cup {Unset}
    BY <1>1, <2>2 DEF Token
  <2>4. kind # "read" => \E t \in Token : header = <<t, t.key>>
    BY <1>1, <2>2
  <2> HIDE DEF header
  <2>5. next \in Carried /\ CarriedShape(next)
    BY <2>3, <2>4 DEF NotMade, Carried, CarriedShape, Paired, TokenShape
  <2> HIDE DEF next
  <2> QED BY <1>1, <2>2, <2>5, MoveKeepsSessions
<1>4. CASE \E s \in Servers : Send(r, s)
  <2>1. PICK s \in Servers : Send(r, s)
    BY <1>4
  <2> DEFINE next == [q EXCEPT !.pc = "sent", !.cookie = jar, !.server = s]
  <2>2. Set(r, next) /\ SameServers /\ UNCHANGED <<now, jar, cache>> /\ q.pc = "composed"
    BY <2>1 DEF Send
  <2>3. next \in Carried /\ CarriedShape(next)
    BY <1>1, <2>2 DEF Carried, CarriedShape, Paired
  <2> HIDE DEF next
  <2> QED BY <1>1, <2>2, <2>3, MoveKeepsSessions
<1>5. CASE Deliver(r) \/ Lose(r)
  <2>1. /\ Set(r, NotMade) /\ SameServers /\ UNCHANGED <<now, cache>>
        /\ jar' = jar \/ jar' = q.fresh
    BY <1>5 DEF Deliver, Lose
  <2>2. jar' \in Token \cup {Unset} /\ TokenShape(jar')
    BY <1>1, <2>1 DEF Carried, CarriedShape
  <2> QED BY <1>2, <2>1, <2>2, MoveKeepsSessions
<1> QED BY <1>3, <1>4, <1>5

-----------------------------------------------------------------------------
\* What a server's answer tells of the request: nothing of it changes but where it is.
Told(r) ==
  LET q == request[r]
      p == request'[r]
  IN  /\ p.cookie = q.cookie /\ p.kind = q.kind /\ p.header = q.header /\ p.server = q.server
      /\ p.pc = "answered" /\ p.code = "csrf" => p.cookie # p.header[1]
      /\ p.pc = "answered" /\ p.code = "ok" =>
           /\ p.cookie \in Token /\ p.cookie # Unset /\ TokenShape(p.cookie) /\ p.at \in Nat
           /\ \E m \in RecentMaxes(p.at) : p.at < effectiveSessionExpiry(p.cookie, m)
      /\ p.pc = "answered" /\ p.code = "unauthenticated" =>
           \/ p.cookie = Unset
           \/ \E m \in RecentMaxes(p.at) : p.at >= effectiveSessionExpiry(p.cookie, m)
           \/ p.cookie.key = 1 /\ release[p.server] = 0

\* A token that a server does not accept has ended, or is of a secret the server does not
\* know yet: the old secret outlives the tokens signed with it.
LEMMA UndecodedEnded ==
  ASSUME SessionsInv, NEW s \in Servers, NEW t \in Token, t # Unset, TokenShape(t), ~Decodes(t, s)
  PROVE  now >= t.exp \/ (t.key = 1 /\ release[s] = 0)
<1> USE SessionsAssumption
<1>1. /\ release \in [Servers -> 0 .. 2] /\ now \in Nat /\ rolled \in Nat \cup {Unset}
      /\ t.exp \in Nat /\ t.key \in {0, 1} /\ ReleaseShape(s)
  BY DEF SessionsInv, SessionsTypes, Token
<1>2. CASE release[s] = 0
  BY <1>1, <1>2 DEF Decodes, sessionSecrets
<1>3. CASE release[s] = 1
  BY <1>1, <1>3 DEF Decodes, sessionSecrets
<1>4. CASE release[s] = 2
  BY <1>1, <1>4 DEF Decodes, sessionSecrets, ReleaseShape, TokenShape
<1> QED BY <1>1, <1>2, <1>3, <1>4

LEMMA GuardKeepsSessions ==
  ASSUME SessionsInv, NEW r \in Requests, Guard(r)
  PROVE  SessionsInv' /\ Told(r)
<1> USE SessionsAssumption
<1> DEFINE q == request[r]
           s == q.server
           arrived == [q EXCEPT !.at = now]
<1>1. /\ q \in Carried /\ CarriedShape(q) /\ jar \in Token \cup {Unset} /\ TokenShape(jar)
      /\ now \in Nat /\ q.pc = "sent" /\ s \in Servers
      /\ SameServers /\ UNCHANGED <<now, jar, cache>>
  BY DEF Guard, SessionsInv, SessionsTypes, CarriedShape
<1>2. /\ arrived \in Carried /\ arrived.cookie = q.cookie /\ arrived.server = s
      /\ arrived.at = now /\ arrived.kind = q.kind /\ arrived.header = q.header
      /\ arrived.fresh = q.fresh /\ arrived.pc = "sent"
  BY <1>1 DEF Carried
<1>3. /\ q.cookie \in Token \cup {Unset} /\ TokenShape(q.cookie) /\ TokenShape(q.fresh)
      /\ Paired(q)
  BY <1>1 DEF Carried, CarriedShape
<1>4. cache[s].max \in Maxes /\ cache[s].until \in Nat /\ CacheShape(s)
  BY <1>1 DEF SessionsInv, SessionsTypes
<1> HIDE DEF arrived
<1>5. CASE ~Decodes(q.cookie, s)
  <2> DEFINE next == Refuse(arrived, "unauthenticated")
  <2>1. Set(r, next)
    BY <1>5 DEF Guard, arrived
  <2>2. /\ next \in Carried /\ next.cookie = q.cookie /\ next.server = s
        /\ next.kind = q.kind /\ next.header = q.header /\ next.fresh = q.fresh
        /\ next.at = now /\ next.pc = "answered" /\ next.code = "unauthenticated"
    BY <1>2 DEF Refuse, Carried
  <2> HIDE DEF next
  <2>3. CarriedShape(next)
    BY <1>1, <1>3, <2>2 DEF CarriedShape, Paired
  <2>4. SessionsInv' /\ request'[r] = next
    BY <1>1, <2>1, <2>2, <2>3, MoveKeepsSessions
  <2>5. \/ q.cookie = Unset
        \/ \E m \in RecentMaxes(now) : now >= effectiveSessionExpiry(q.cookie, m)
        \/ q.cookie.key = 1 /\ release[s] = 0
    <3>1. CASE q.cookie # Unset /\ now >= q.cookie.exp
      <4>1. orgMax \in Maxes /\ orgMax \in RecentMaxes(now)
        BY DEF SessionsInv, SessionsTypes, RecentMaxes
      <4>2. /\ q.cookie.exp \in Nat /\ effectiveSessionExpiry(q.cookie, orgMax) \in Nat
            /\ effectiveSessionExpiry(q.cookie, orgMax) <= q.cookie.exp
        BY <1>3, <3>1, <4>1, EndIsANumber
      <4>3. now >= effectiveSessionExpiry(q.cookie, orgMax)
        BY <1>1, <3>1, <4>2
      <4> QED BY <4>1, <4>3
    <3> QED BY <1>1, <1>3, <1>5, <3>1, UndecodedEnded
  <2> QED BY <2>2, <2>4, <2>5 DEF Told
<1>6. CASE Decodes(q.cookie, s) /\ now < cache[s].until
  <2> DEFINE max == cache[s].max
             end == effectiveSessionExpiry(q.cookie, max)
             next == Judged(arrived, max)
  <2>1. Set(r, next)
    BY <1>6 DEF Guard, arrived
  <2>2. q.cookie \in Token /\ q.cookie # Unset
    BY <1>3, <1>6 DEF Decodes
  <2>3. /\ next \in Carried /\ next.pc = "answered" /\ TokenShape(next.fresh)
        /\ next.cookie = q.cookie /\ next.server = s /\ next.at = now
        /\ next.kind = q.kind /\ next.header = q.header
        /\ next.code = "ok" => now < end
        /\ next.code = "unauthenticated" => now >= end
        /\ next.code = "csrf" => q.cookie # q.header[1]
    <3>1. Paired(arrived) /\ TokenShape(arrived.fresh) /\ arrived.cookie # Unset
      BY <1>2, <1>3, <2>2 DEF Paired
    <3>2. JudgedWell(arrived, max, next)
      <4>1. arrived.at <= now
        BY <1>1, <1>2
      <4> QED BY <1>1, <1>2, <1>4, <3>1, <4>1, JudgedIs
    <3> HIDE DEF next
    <3> QED BY <1>2, <3>2 DEF JudgedWell
  <2> HIDE DEF next, end
  <2>4. CarriedShape(next)
    BY <1>1, <1>3, <2>3 DEF CarriedShape, Paired
  <2>5. SessionsInv' /\ request'[r] = next
    BY <1>1, <2>1, <2>3, <2>4, MoveKeepsSessions
  <2>6. max \in RecentMaxes(now)
    <3>1. replaced[max] \in Nat \cup {Unset}
      BY <1>4 DEF SessionsInv, SessionsTypes
    <3> QED BY <1>1, <1>4, <1>6, <3>1 DEF RecentMaxes, CacheShape
  <2> HIDE DEF max
  <2>7. max \in Maxes
    BY <2>6 DEF RecentMaxes
  <2> QED BY <1>1, <1>3, <2>2, <2>3, <2>5, <2>6, <2>7 DEF Told, end
<1>7. CASE Decodes(q.cookie, s) /\ ~(now < cache[s].until)
  <2> DEFINE next == [arrived EXCEPT !.pc = "policy"]
  <2>1. Set(r, next)
    BY <1>7 DEF Guard, arrived
  <2>2. /\ next \in Carried /\ next.cookie = q.cookie /\ next.server = s /\ next.at = now
        /\ next.kind = q.kind /\ next.header = q.header /\ next.fresh = q.fresh
        /\ next.pc = "policy"
    BY <1>2 DEF Carried
  <2> HIDE DEF next
  <2>3. CarriedShape(next)
    BY <1>1, <1>3, <1>7, <2>2 DEF CarriedShape, Paired, Decodes
  <2>4. SessionsInv' /\ request'[r] = next
    BY <1>1, <2>1, <2>2, <2>3, MoveKeepsSessions
  <2> QED BY <2>2, <2>4 DEF Told
<1> QED BY <1>5, <1>6, <1>7

LEMMA PolicyKeepsSessions ==
  ASSUME SessionsInv, NEW r \in Requests, ReadPolicy(r)
  PROVE  SessionsInv' /\ Told(r)
<1> USE SessionsAssumption
<1> DEFINE q == request[r]
           s == q.server
           next == Judged(q, orgMax)
           end == effectiveSessionExpiry(q.cookie, orgMax)
<1>1. /\ q \in Carried /\ CarriedShape(q) /\ jar \in Token \cup {Unset} /\ TokenShape(jar)
      /\ now \in Nat /\ q.pc = "policy" /\ s \in Servers /\ orgMax \in Maxes
      /\ SameServers /\ UNCHANGED <<now, jar>> /\ Set(r, next)
      /\ cache' = [cache EXCEPT ![s] = [max |-> orgMax, until |-> q.at + CacheTtl]]
  BY DEF ReadPolicy, SessionsInv, SessionsTypes, CarriedShape
<1>2. /\ q.cookie \in Token /\ q.cookie # Unset /\ TokenShape(q.cookie) /\ TokenShape(q.fresh)
      /\ q.at \in Nat /\ q.at <= now
      /\ Paired(q)
  BY <1>1 DEF Carried, CarriedShape
<1>3. /\ next \in Carried /\ next.pc = "answered" /\ TokenShape(next.fresh)
      /\ next.cookie = q.cookie /\ next.server = s /\ next.at = q.at
      /\ next.kind = q.kind /\ next.header = q.header
      /\ next.code = "ok" => q.at < end
      /\ next.code = "unauthenticated" => q.at >= end
      /\ next.code = "csrf" => q.cookie # q.header[1]
  <2>1. JudgedWell(q, orgMax, next)
    BY <1>1, <1>2, JudgedIs
  <2> HIDE DEF next
  <2> QED BY <2>1 DEF JudgedWell
<1> HIDE DEF next, end
<1>4. CarriedShape(next)
  BY <1>1, <1>2, <1>3 DEF CarriedShape, Paired
<1>5. SessionsInv' /\ request'[r] = next
  BY <1>1, <1>2, <1>3, <1>4, MoveKeepsSessions
<1>6. orgMax \in RecentMaxes(q.at)
  BY <1>1 DEF RecentMaxes
<1> QED BY <1>1, <1>2, <1>3, <1>5, <1>6 DEF Told, end

-----------------------------------------------------------------------------
\* The settings and the secrets change, and time passes.
LEMMA SettingsKeepSessions ==
  ASSUME SessionsInv, (\E max \in Maxes : SetSessionMax(max)) \/ Demote
  PROVE  SessionsInv'
<1> USE SessionsAssumption
<1>1. UNCHANGED <<now, jar, release, rolled, cache, request>>
  BY DEF SetSessionMax, Demote
<1>2. now \in Nat /\ now \in Times /\ cache \in [Servers -> [max : Maxes, until : Nat]]
  BY DEF SessionsInv, SessionsTypes
<1>3. /\ orgMax' \in Maxes /\ replaced' \in [Maxes -> Times \cup {Unset}]
      /\ demoted' \in Times \cup {Unset} /\ \A s \in Servers : CacheShape(s)'
  <2>1. CASE Demote
    BY <1>1, <1>2, <2>1 DEF Demote, SessionsInv, SessionsTypes, CacheShape
  <2>2. ASSUME NEW max \in Maxes, SetSessionMax(max)
        PROVE  /\ orgMax' \in Maxes /\ replaced' \in [Maxes -> Times \cup {Unset}]
               /\ demoted' \in Times \cup {Unset} /\ \A s \in Servers : CacheShape(s)'
    <3>1. /\ orgMax' = max /\ replaced' = [replaced EXCEPT ![orgMax] = now]
          /\ demoted' = demoted /\ orgMax \in Maxes
          /\ replaced \in [Maxes -> Times \cup {Unset}] /\ demoted \in Times \cup {Unset}
      BY <2>2 DEF SetSessionMax, SessionsInv, SessionsTypes
    <3>2. replaced' \in [Maxes -> Times \cup {Unset}] /\ replaced'[orgMax] = now
          /\ \A m \in Maxes : m # orgMax => replaced'[m] = replaced[m]
      BY <1>2, <3>1
    <3>3. ASSUME NEW s \in Servers PROVE CacheShape(s)'
      <4>1. CacheShape(s) /\ cache[s].max \in Maxes /\ now # Unset
        BY <1>2 DEF SessionsInv
      <4>2. CASE cache[s].max = orgMax
        BY <1>1, <3>2, <4>1, <4>2 DEF CacheShape
      <4>3. CASE cache[s].max # orgMax
        BY <1>1, <3>2, <4>1, <4>3 DEF CacheShape
      <4> QED BY <4>2, <4>3
    <3> QED BY <3>1, <3>2, <3>3
  <2> QED BY <2>1, <2>2
<1>4. SessionsTypes'
  BY <1>1, <1>3 DEF SessionsInv, SessionsTypes
<1>5. /\ TokenShape(jar)' /\ \A s \in Servers : ReleaseShape(s)'
      /\ \A r \in Requests : CarriedShape(request[r])'
  BY <1>1 DEF SessionsInv, TokenShape, ReleaseShape, CarriedShape
<1> QED BY <1>3, <1>4, <1>5 DEF SessionsInv

\* Every token there is keeps its shape when the secrets or the clock move on.
LEMMA TokensKept ==
  ASSUME SessionsInv, UNCHANGED <<jar, request>>, now' \in Nat, now <= now',
         \A t \in Token : TokenShape(t) => TokenShape(t)'
  PROVE  TokenShape(jar)' /\ \A r \in Requests : CarriedShape(request[r])'
<1>1. \A t \in Token \cup {Unset} : TokenShape(t) => TokenShape(t)'
  BY DEF TokenShape
<1>2. TokenShape(jar)'
  BY <1>1 DEF SessionsInv, SessionsTypes
<1>3. ASSUME NEW r \in Requests PROVE CarriedShape(request[r])'
  <2>1. request[r] \in Carried /\ CarriedShape(request[r]) /\ now \in Nat
    BY SessionsAssumption DEF SessionsInv, SessionsTypes
  <2>2. TokenShape(request[r].cookie)' /\ TokenShape(request[r].fresh)'
    BY <1>1, <2>1 DEF Carried, CarriedShape
  <2>3. request[r].at \in Nat
    BY <2>1 DEF Carried
  <2> QED BY <2>1, <2>2, <2>3 DEF CarriedShape
<1> QED BY <1>2, <1>3

LEMMA TickKeepsSessions ==
  ASSUME SessionsInv, Tick
  PROVE  SessionsInv'
<1> USE SessionsAssumption
<1>1. /\ now \in 0 .. MaxTime /\ now < MaxTime /\ now' = now + 1
      /\ UNCHANGED <<orgMax, replaced, demoted, release, rolled, jar, cache, request>>
  BY DEF Tick, SameServers, SessionsInv, SessionsTypes
<1>2. SessionsTypes'
  BY <1>1 DEF SessionsInv, SessionsTypes
<1>3. \A t \in Token : t.exp \in Nat
  BY DEF Token
<1>4. \A t \in Token : TokenShape(t) => TokenShape(t)'
  BY <1>1, <1>3 DEF TokenShape
<1>5. TokenShape(jar)' /\ \A r \in Requests : CarriedShape(request[r])'
  BY <1>1, <1>4, TokensKept
<1>6. \A s \in Servers : CacheShape(s)' /\ ReleaseShape(s)'
  BY <1>1 DEF SessionsInv, SessionsTypes, CacheShape, ReleaseShape
<1> QED BY <1>2, <1>5, <1>6 DEF SessionsInv

LEMMA RollKeepsSessions ==
  ASSUME SessionsInv, NEW s \in Servers, Roll(s)
  PROVE  SessionsInv'
<1> USE SessionsAssumption
<1>1. /\ now \in 0 .. MaxTime /\ release \in [Servers -> 0 .. 2] /\ release[s] = 0
      /\ release' = [release EXCEPT ![s] = 1] /\ rolled' = now
      /\ cache' = [cache EXCEPT ![s] = Empty]
      /\ UNCHANGED <<now, jar, orgMax, replaced, demoted, request>>
  BY DEF Roll, SessionsInv, SessionsTypes
<1>2. SessionsTypes'
  BY <1>1 DEF SessionsInv, SessionsTypes, Empty
<1>3. \A t \in Token : TokenShape(t) => TokenShape(t)'
  BY <1>1 DEF TokenShape
<1>4. TokenShape(jar)' /\ \A r \in Requests : CarriedShape(request[r])'
  BY <1>1, <1>3, TokensKept
<1>5. \A z \in Servers : CacheShape(z)'
  BY <1>1 DEF SessionsInv, SessionsTypes, CacheShape, Empty
<1>6. \A z \in Servers : ReleaseShape(z)'
  BY <1>1 DEF SessionsInv, ReleaseShape
<1> QED BY <1>2, <1>4, <1>5, <1>6 DEF SessionsInv

LEMMA DropKeepsSessions ==
  ASSUME SessionsInv, NEW s \in Servers, DropPrevious(s)
  PROVE  SessionsInv'
<1> USE SessionsAssumption
<1>1. /\ now \in 0 .. MaxTime /\ release \in [Servers -> 0 .. 2] /\ release[s] = 1
      /\ release' = [release EXCEPT ![s] = 2] /\ now >= rolled + TTL
      /\ \A z \in Servers : release[z] # 0
      /\ cache' = [cache EXCEPT ![s] = Empty]
      /\ UNCHANGED <<now, jar, orgMax, replaced, demoted, rolled, request>>
  BY DEF DropPrevious, SessionsInv, SessionsTypes
<1>2. SessionsTypes'
  BY <1>1 DEF SessionsInv, SessionsTypes, Empty
<1>3. \A t \in Token : TokenShape(t) => TokenShape(t)'
  BY <1>1 DEF TokenShape
<1>4. TokenShape(jar)' /\ \A r \in Requests : CarriedShape(request[r])'
  BY <1>1, <1>3, TokensKept
<1>5. \A z \in Servers : CacheShape(z)'
  BY <1>1 DEF SessionsInv, SessionsTypes, CacheShape, Empty
<1>6. \A z \in Servers : ReleaseShape(z)'
  BY <1>1 DEF SessionsInv, ReleaseShape
<1> QED BY <1>2, <1>4, <1>5, <1>6 DEF SessionsInv

\* In every step, answers are those of the guard.
LEMMA SessionsStep ==
  ASSUME SessionsInv, [SessionsNext]_sessionsVars
  PROVE  /\ SessionsInv'
         /\ \A r \in Requests :
              request[r].pc # "answered" /\ request'[r].pc = "answered" => Told(r)
<1>1. request \in [Requests -> Carried]
  BY DEF SessionsInv, SessionsTypes
<1>2. CASE UNCHANGED sessionsVars
  BY <1>2 DEF sessionsVars, SessionsInv, SessionsTypes, TokenShape, CacheShape, ReleaseShape,
              CarriedShape
<1>3. CASE \/ \E s \in Servers : SignIn(s) \/ \E canRead \in BOOLEAN : Redeem(s, canRead)
           \/ SignOut
  <2>1. UNCHANGED request
    BY <1>3 DEF SignIn, Redeem, SignOut
  <2> QED BY <1>3, <2>1, PageKeepsSessions
<1>4. CASE \E r \in Requests : \/ \E kind \in Kinds : Compose(r, kind)
                               \/ \E s \in Servers : Send(r, s)
                               \/ Deliver(r) \/ Lose(r)
  <2>1. PICK r \in Requests : \/ \E kind \in Kinds : Compose(r, kind)
                              \/ \E s \in Servers : Send(r, s)
                              \/ Deliver(r) \/ Lose(r)
    BY <1>4
  <2>2. PICK next : Set(r, next) /\ next.pc # "answered"
    <3>1. ASSUME NEW kind \in Kinds, Compose(r, kind)
          PROVE  \E next : Set(r, next) /\ next.pc # "answered"
      <4> DEFINE header == IF kind = "read" THEN Unset ELSE <<jar, jar.key>>
                 made == [NotMade EXCEPT !.pc = "composed", !.kind = kind, !.header = header]
      <4>1. Set(r, made)
        BY <3>1 DEF Compose
      <4>2. made.pc = "composed"
        BY DEF NotMade
      <4> HIDE DEF made
      <4> QED BY <4>1, <4>2
    <3>2. ASSUME NEW s \in Servers, Send(r, s)
          PROVE  \E next : Set(r, next) /\ next.pc # "answered"
      <4> DEFINE sent == [request[r] EXCEPT !.pc = "sent", !.cookie = jar, !.server = s]
      <4>1. Set(r, sent)
        BY <3>2 DEF Send
      <4>2. sent.pc = "sent"
        BY <1>1 DEF Carried
      <4> HIDE DEF sent
      <4> QED BY <4>1, <4>2
    <3>3. CASE Deliver(r) \/ Lose(r)
      BY <3>3 DEF Deliver, Lose, NotMade
    <3> QED BY <2>1, <3>1, <3>2, <3>3
  <2>3. \A z \in Requests : request[z].pc # "answered" => request'[z].pc # "answered"
    BY <1>1, <2>2 DEF Set
  <2> QED BY <2>1, <2>3, BrowserKeepsSessions
<1>5. CASE \E r \in Requests : Guard(r) \/ ReadPolicy(r)
  <2>1. PICK r \in Requests : Guard(r) \/ ReadPolicy(r)
    BY <1>5
  <2>2. SessionsInv' /\ Told(r)
    BY <2>1, GuardKeepsSessions, PolicyKeepsSessions
  <2>3. PICK next : Set(r, next)
    BY <2>1 DEF Guard, ReadPolicy
  <2>4. \A z \in Requests : z # r => request'[z] = request[z]
    BY <1>1, <2>3 DEF Set
  <2> QED BY <2>2, <2>4
<1>6. CASE (\E max \in Maxes : SetSessionMax(max)) \/ Demote
  <2>1. UNCHANGED request
    BY <1>6 DEF SetSessionMax, Demote
  <2> QED BY <1>6, <2>1, SettingsKeepSessions
<1>7. CASE (\E s \in Servers : Roll(s) \/ DropPrevious(s)) \/ Tick
  <2>1. UNCHANGED request
    BY <1>7 DEF Roll, DropPrevious, Tick
  <2> QED BY <1>7, <2>1, RollKeepsSessions, DropKeepsSessions, TickKeepsSessions
<1> QED BY <1>2, <1>3, <1>4, <1>5, <1>6, <1>7 DEF SessionsNext

\* What every token, cached maximum and request in flight can be relied on for, whatever
\* overlaps: sign-ins, refreshes, settings and a rotation of the secret.
THEOREM SessionsInvariant == SessionsSpec => []SessionsInv
<1>1. SessionsInv /\ [SessionsNext]_sessionsVars => SessionsInv'
  BY SessionsStep
<1> QED BY <1>1, InitSessions, PTL DEF SessionsSpec

\* Nobody is served beyond what a maximum in force within the cache's time allows, nor a
\* guest beyond the grant (effectiveSessionExpiry, requireSession), for any number of
\* servers, requests and changes of the setting.
THEOREM ServedOnlyInTime == SessionsSpec => ServedInTime
<1>1. SessionsInv /\ [SessionsNext]_sessionsVars =>
        [\A r \in Requests : Answered(r, "ok") =>
           LET q == request'[r]
           IN  /\ \E m \in RecentMaxes(q.at) : q.at < q.cookie.iat + Hours(m)
               /\ q.cookie.role = "guest" => q.at < GrantEnd]_sessionsVars
  <2> SUFFICES ASSUME SessionsInv, [SessionsNext]_sessionsVars,
                      NEW r \in Requests, Answered(r, "ok")
               PROVE  /\ \E m \in RecentMaxes(request'[r].at) :
                           request'[r].at < request'[r].cookie.iat + Hours(m)
                      /\ request'[r].cookie.role = "guest" => request'[r].at < GrantEnd
    OBVIOUS
  <2> DEFINE at == request'[r].at
             t == request'[r].cookie
  <2>1. Told(r) /\ request'[r].pc = "answered" /\ request'[r].code = "ok"
    BY SessionsStep DEF Answered
  <2>2. t \in Token /\ t # Unset /\ TokenShape(t) /\ at \in Nat
    BY <2>1 DEF Told
  <2>3. PICK m \in RecentMaxes(at) : at < effectiveSessionExpiry(t, m)
    BY <2>1 DEF Told
  <2> HIDE DEF at, t
  <2>4. /\ Hours(m) \in Nat /\ t.iat \in Nat /\ t.exp \in Nat
        /\ effectiveSessionExpiry(t, m) \in Nat
        /\ effectiveSessionExpiry(t, m) <= t.exp
        /\ effectiveSessionExpiry(t, m) <= t.iat + Hours(m)
    <3>1. m \in Maxes
      BY DEF RecentMaxes
    <3> QED BY <2>2, <3>1, EndIsANumber
  <2>5. at < t.exp /\ at < t.iat + Hours(m)
    BY <2>2, <2>3, <2>4
  <2>6. t.role = "guest" => at < GrantEnd
    BY <2>2, <2>4, <2>5, SessionsAssumption DEF TokenShape
  <2> QED BY <2>3, <2>5, <2>6 DEF at, t
<1> QED BY <1>1, SessionsInvariant, PTL DEF SessionsSpec, ServedInTime

\* A refusal for CSRF means that the cookies changed between reading the token and sending,
\* and one for the session that it ended or met a server not rolled yet (csrfToken,
\* decodeSession, sessionSecrets), for any number of servers and requests.
THEOREM RefusalsHaveCauses == SessionsSpec => RefusalsAreExplained
<1>1. SessionsInv /\ [SessionsNext]_sessionsVars =>
        [\A r \in Requests : Answered(r, "csrf") =>
           request'[r].cookie # request'[r].header[1]]_sessionsVars
  BY SessionsStep DEF Answered, Told
<1>2. SessionsInv /\ [SessionsNext]_sessionsVars =>
        [\A r \in Requests : Answered(r, "unauthenticated") =>
           LET q == request'[r]
           IN  \/ q.cookie = Unset
               \/ \E m \in RecentMaxes(q.at) : q.at >= effectiveSessionExpiry(q.cookie, m)
               \/ q.cookie.key = 1 /\ release[q.server] = 0]_sessionsVars
  BY SessionsStep DEF Answered, Told
<1> QED BY <1>1, <1>2, SessionsInvariant, PTL
        DEF SessionsSpec, RefusalsAreExplained, CsrfRefusalsAreRaces, RotationBouncesNobody
=============================================================================
