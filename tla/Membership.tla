----------------------------- MODULE Membership -----------------------------
(***************************************************************************)
(* The members of one organization (services/agent-invites.ts, agent-      *)
(* tenancy.ts and the routes in front of them): invites addressed to an    *)
(* e-mail address, redeemed later by whoever holds it then, changes of     *)
(* role, removals, and accounts whose address changes meanwhile.  Each     *)
(* handler runs without an await.                                          *)
(***************************************************************************)
CONSTANTS
  Users,      \* accounts, made or to be made
  Addresses,  \* normalised e-mail addresses
  Invites,    \* invite ids
  Founder,    \* the user createOrganization() makes the owner
  FirstAddress

ASSUME MembershipAssumption ==
  /\ Founder \in Users
  /\ FirstAddress \in Addresses
  /\ "" \notin Addresses

VARIABLES
  address,  \* users.email, or "" for an account there is none of yet
  role,     \* organization_members
  invite,   \* organization_invites
  grantor   \* history: the role, when he decided, of whoever gave a user his

members == <<address, role, invite, grantor>>

(* "member" stands for developer, reviewer, viewer and agent, which may    *)
(* not administer.                                                         *)
Roles == {"owner", "admin", "member"}
Administrators == {"owner", "admin"}

NoInvite == [state |-> "absent"]
SentInvites == [state : {"pending", "expired", "accepted", "revoked"},
                address : Addresses, role : Roles, by : Roles]

Owners == {u \in Users : role[u] = "owner"}

(* createOrganization(), once the first account exists. *)
MembershipInit ==
  /\ address = [u \in Users |-> IF u = Founder THEN FirstAddress ELSE ""]
  /\ role = [u \in Users |-> IF u = Founder THEN "owner" ELSE "none"]
  /\ invite = [i \in Invites |-> NoInvite]
  /\ grantor = [u \in Users |-> IF u = Founder THEN "owner" ELSE "none"]

-----------------------------------------------------------------------------
(* addMember(): INSERT OR REPLACE, whatever the user was before. *)
AddMember(u, r, by) ==
  /\ role' = [role EXCEPT ![u] = r]
  /\ grantor' = [grantor EXCEPT ![u] = by]

(* Mutant: the role that is granted is not looked at. *)
BugMayInvite(actor, r) == actor \in Administrators

(* decideMembershipInvite(). *)
MayInvite(actor, r) == actor \in IF r = "member" THEN Administrators ELSE {"owner"}

(* createInvite().  The partial index refuses a second invite of an        *)
(* address while one is neither accepted nor revoked, an expired one too.  *)
CreateInvite(actor, i, a, r) ==
  /\ MayInvite(role[actor], r)
  /\ invite[i] = NoInvite
  /\ \A u \in Users : address[u] = a => role[u] = "none"
  /\ \A j \in Invites :
       invite[j].state \in {"pending", "expired"} => invite[j].address # a
  /\ invite' = [invite EXCEPT ![i] = [state |-> "pending", address |-> a,
                                      role |-> r, by |-> role[actor]]]
  /\ UNCHANGED <<address, role, grantor>>

(* revokeInvite(). *)
RevokeInvite(actor, i) ==
  /\ role[actor] \in Administrators
  /\ invite[i].state \in {"pending", "expired"}
  /\ invite' = [invite EXCEPT ![i].state = "revoked"]
  /\ UNCHANGED <<address, role, grantor>>

InviteExpires(i) ==
  /\ invite[i].state = "pending"
  /\ invite' = [invite EXCEPT ![i].state = "expired"]
  /\ UNCHANGED <<address, role, grantor>>

(* The account an invite is for: the one that has the address now, or a    *)
(* new one.                                                                *)
Invited(u, i) ==
  \/ address[u] = invite[i].address
  \/ address[u] = "" /\ \A v \in Users : address[v] # invite[i].address

(* POST /accept-invite: the account, if there is none, and acceptInvite(). *)
AcceptInvite(u, i) ==
  /\ invite[i].state = "pending"
  /\ Invited(u, i)
  /\ address' = [address EXCEPT ![u] = invite[i].address]
  /\ invite' = [invite EXCEPT ![i].state = "accepted"]
  /\ AddMember(u, invite[i].role, invite[i].by)

(* The process dies between the two. *)
AcceptIsCut(u, i) ==
  /\ invite[i].state = "pending"
  /\ Invited(u, i)
  /\ address' = [address EXCEPT ![u] = invite[i].address]
  /\ UNCHANGED <<role, invite, grantor>>

(* Mutant: without the rule that nobody changes his own role. *)
BugMayChange(actor, subject, r) ==
  /\ role[actor] \in Administrators
  /\ "owner" \in {r, role[subject]} => role[actor] = "owner"

(* decideRoleChange(). *)
MayChange(actor, subject, r) ==
  /\ actor # subject
  /\ role[actor] \in Administrators
  /\ "owner" \in {r, role[subject]} => role[actor] = "owner"

(* changeRole(). *)
ChangeRole(actor, subject, r) ==
  /\ role[subject] # "none"
  /\ MayChange(actor, subject, r)
  /\ AddMember(subject, r, role[actor])
  /\ UNCHANGED <<address, invite>>

(* removeMember(). *)
RemoveMember(actor, subject) ==
  /\ role[actor] \in Administrators
  /\ role[subject] # "none"
  /\ role[subject] = "owner" => Owners # {subject}
  /\ AddMember(subject, "none", "none")
  /\ UNCHANGED <<address, invite>>

(* updateEmail(). *)
UpdateEmail(u, a) ==
  /\ address[u] # ""
  /\ \A v \in Users \ {u} : address[v] # a
  /\ address' = [address EXCEPT ![u] = a]
  /\ UNCHANGED <<role, invite, grantor>>

MembershipNext ==
  \/ \E actor \in Users :
       \/ \E i \in Invites, a \in Addresses, r \in Roles : CreateInvite(actor, i, a, r)
       \/ \E i \in Invites : RevokeInvite(actor, i)
       \/ \E subject \in Users :
            \/ \E r \in Roles : ChangeRole(actor, subject, r)
            \/ RemoveMember(actor, subject)
  \/ \E i \in Invites :
       \/ InviteExpires(i)
       \/ \E u \in Users : AcceptInvite(u, i) \/ AcceptIsCut(u, i)
  \/ \E u \in Users, a \in Addresses : UpdateEmail(u, a)

MembershipSpec == MembershipInit /\ [][MembershipNext]_members

-----------------------------------------------------------------------------
MembershipTypeOK ==
  /\ address \in [Users -> Addresses \cup {""}]
  /\ role \in [Users -> Roles \cup {"none"}]
  /\ invite \in [Invites -> SentInvites \cup {NoInvite}]
  /\ grantor \in [Users -> Roles \cup {"none"}]

(* Nobody is an owner but by the decision of somebody who was one when he  *)
(* decided, however long ago he sent the invite and whatever became of     *)
(* him since.                                                              *)
OwnersWereMadeByOwners ==
  \A u \in Users : role[u] = "owner" => grantor[u] = "owner"

(* changeRole() "only permits demoting an owner when the actor is also an  *)
(* owner and is not the subject", so it needs no look at the other owners, *)
(* and removeMember() looks: neither, nor anything but an invite that is   *)
(* accepted, takes the last owner from an organization.                    *)
OnlyInvitesUnseatTheLastOwner ==
  [][Owners # {} /\ Owners' = {} =>
       \E i \in Invites : invite[i].state = "pending" /\ invite'[i].state = "accepted"]_members

(* "An organisation must keep at least one owner, or it becomes            *)
(* unadministrable" (agent-invites.ts).                                    *)
AlwaysAnOwner == Owners # {}
=============================================================================
