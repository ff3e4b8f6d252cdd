----------------------------- MODULE Delegation -----------------------------
(***************************************************************************)
(* What sharing promises about who can hand out what, with no request in   *)
(* sight.  A grant names the one who made it.  The owner of a document and *)
(* the admins hand out anything; anybody else at most what they were       *)
(* granted themselves, on the document or on a project it has been in, and *)
(* only when that is share or edit.                                        *)
(***************************************************************************)
EXTENDS Permission

CONSTANTS
  Members, Guests,   \* the people of the organization, and those outside it
  Admins, Owner,     \* the members who are admins; the owner of each document
  Documents, Projects

VARIABLES
  held,    \* grants ever made: <<document or project, to whom, permission, by whom>>
  links,   \* links ever made: <<document, permission, by whom>>
  lived    \* the projects each document has been in

delegationVars == <<held, links, lived>>

DelegationInit ==
  /\ held = {}
  /\ links = {}
  /\ lived \in [Documents -> SUBSET Projects]

MayHandOut(u, d, p) ==
  \/ u = Owner[d] \/ u \in Admins
  \/ \E s \in {d} \cup lived[d], q \in Permissions, x \in Members :
       /\ <<s, u, q, x>> \in held
       /\ permits(q, "share")
       /\ canDelegate(q, p)

HandOut(u, d, v, p) ==
  /\ MayHandOut(u, d, p)
  /\ v \in Guests => isGuestGrantable(p)
  /\ held' = held \cup {<<d, v, p, u>>}
  /\ UNCHANGED <<links, lived>>

HandOutProject(u, s, v, p) ==
  /\ u \in Admins
  /\ v \in Guests => isGuestGrantable(p)
  /\ held' = held \cup {<<s, v, p, u>>}
  /\ UNCHANGED <<links, lived>>

PostLink(u, d, p) ==
  /\ isLinkGrantable(p)
  /\ MayHandOut(u, d, p)
  /\ links' = links \cup {<<d, p, u>>}
  /\ UNCHANGED <<held, lived>>

\* A grant that comes from a link is the grant of the one who made the link.
FollowLink(u, d, v, p) ==
  /\ <<d, p, u>> \in links
  /\ held' = held \cup {<<d, v, p, u>>}
  /\ UNCHANGED <<links, lived>>

Settle(d, s) ==
  /\ lived' = [lived EXCEPT ![d] = @ \cup {s}]
  /\ UNCHANGED <<held, links>>

DelegationNext ==
  \/ \E u \in Members, v \in Members \cup Guests, p \in Permissions :
       \/ \E d \in Documents : HandOut(u, d, v, p) \/ FollowLink(u, d, v, p)
       \/ \E s \in Projects : HandOutProject(u, s, v, p)
  \/ \E u \in Members, d \in Documents, p \in Permissions : PostLink(u, d, p)
  \/ \E d \in Documents, s \in Projects : Settle(d, s)

DelegationSpec == DelegationInit /\ [][DelegationNext]_delegationVars

=============================================================================
