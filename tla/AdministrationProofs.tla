------------------------ MODULE AdministrationProofs ------------------------
(***************************************************************************)
(* Theorems about who administers an organization (Membership) and about   *)
(* its secrets at rest (Secrets), for any number of users, addresses and   *)
(* invites, of tables, values, keys and backups.  For the two properties   *)
(* that runs see fail, the theorems say which step alone breaks them.      *)
(***************************************************************************)
EXTENDS Membership, Secrets, TLAPS

MembersHaveAddresses == \A u \in Users : role[u] # "none" => address[u] # ""

(* An invite to own is an owner's, too. *)
MembershipInv ==
  /\ MembershipTypeOK
  /\ MembersHaveAddresses
  /\ OwnersWereMadeByOwners
  /\ \A i \in Invites :
       invite[i] \in SentInvites /\ invite[i].role = "owner" => invite[i].by = "owner"

(* A role that is granted by somebody who may grant it. *)
LEMMA GrantKeepsInv ==
  ASSUME MembershipInv, NEW u \in Users, NEW r \in Roles \cup {"none"},
         NEW by \in Roles \cup {"none"}, r = "owner" => by = "owner", AddMember(u, r, by)
  PROVE  /\ role' \in [Users -> Roles \cup {"none"}]
         /\ grantor' \in [Users -> Roles \cup {"none"}]
         /\ OwnersWereMadeByOwners'
BY DEF MembershipInv, MembershipTypeOK, OwnersWereMadeByOwners, AddMember

(* Revoking, accepting or outliving an invite changes its state alone. *)
LEMMA InviteStateKeepsInv ==
  ASSUME MembershipInv, NEW i \in Invites, invite[i] \in SentInvites,
         NEW s \in {"expired", "accepted", "revoked"},
         invite' = [invite EXCEPT ![i].state = s]
  PROVE  /\ invite' \in [Invites -> SentInvites \cup {NoInvite}]
         /\ \A j \in Invites :
              invite'[j] \in SentInvites /\ invite'[j].role = "owner" => invite'[j].by = "owner"
<1> DEFINE sent == [invite[i] EXCEPT !.state = s]
<1>1. sent \in SentInvites /\ sent.role = invite[i].role /\ sent.by = invite[i].by
  BY DEF SentInvites
<1>2. invite' = [invite EXCEPT ![i] = sent]
  OBVIOUS
<1> HIDE DEF sent
<1> QED BY <1>1, <1>2 DEF MembershipInv, MembershipTypeOK

LEMMA NotSent == NoInvite.state = "absent" /\ NoInvite \notin SentInvites
<1>1. NoInvite.state = "absent"
  BY DEF NoInvite
<1>2. \A sent \in SentInvites : sent.state # "absent"
  BY DEF SentInvites
<1> QED BY <1>1, <1>2

LEMMA StateMeansSent ==
  ASSUME MembershipInv, NEW i \in Invites, invite[i].state \in {"pending", "expired"}
  PROVE  /\ invite[i] \in SentInvites
         /\ invite[i].role \in Roles /\ invite[i].by \in Roles
         /\ invite[i].address \in Addresses
         /\ invite[i].role = "owner" => invite[i].by = "owner"
<1>1. invite[i] \in SentInvites
  BY NotSent DEF MembershipInv, MembershipTypeOK
<1> QED BY <1>1 DEF MembershipInv, SentInvites

(* An account that has an address keeps one, and only one that has becomes *)
(* a member.                                                               *)
LEMMA AddressesStep ==
  ASSUME MembershipInv, [MembershipNext]_members
  PROVE  MembersHaveAddresses'
<1> USE DEF MembershipInv, MembershipTypeOK, MembersHaveAddresses
<1>1. CASE UNCHANGED <<address, role>>
  BY <1>1
<1>2. ASSUME NEW i \in Invites, NEW u \in Users, AcceptInvite(u, i) \/ AcceptIsCut(u, i)
      PROVE  MembersHaveAddresses'
  <2>1. invite[i].address \in Addresses /\ invite[i].address # ""
    BY <1>2, StateMeansSent, MembershipAssumption
    DEF AcceptInvite, AcceptIsCut, MembershipAssumption
  <2>2. /\ address' = [address EXCEPT ![u] = invite[i].address]
        /\ \A v \in Users \ {u} : role'[v] = role[v]
    BY <1>2 DEF AcceptInvite, AcceptIsCut, AddMember
  <2> QED BY <2>1, <2>2
<1>3. ASSUME NEW actor \in Users, NEW subject \in Users, NEW r \in Roles,
             ChangeRole(actor, subject, r) \/ RemoveMember(actor, subject)
      PROVE  MembersHaveAddresses'
  BY <1>3 DEF ChangeRole, RemoveMember, AddMember
<1>4. ASSUME NEW u \in Users, NEW a \in Addresses, UpdateEmail(u, a)
      PROVE  MembersHaveAddresses'
  BY <1>4, MembershipAssumption DEF UpdateEmail, MembershipAssumption
<1> QED
  BY <1>1, <1>2, <1>3, <1>4
  DEF MembershipNext, members, CreateInvite, RevokeInvite, InviteExpires, Roles

LEMMA MembershipStep ==
  ASSUME MembershipInv, [MembershipNext]_members
  PROVE  MembershipInv'
<1>0. MembersHaveAddresses'
  BY AddressesStep
<1>1. ASSUME NEW actor \in Users, NEW i \in Invites, NEW a \in Addresses, NEW r \in Roles,
             CreateInvite(actor, i, a, r)
      PROVE  MembershipInv'
  <2> DEFINE sent == [state |-> "pending", address |-> a, role |-> r, by |-> role[actor]]
  <2>1. role[actor] \in Roles /\ (r = "owner" => role[actor] = "owner")
    BY <1>1 DEF CreateInvite, MayInvite, Roles, Administrators
  <2>2. /\ sent \in SentInvites /\ (sent.role = "owner" => sent.by = "owner")
        /\ invite' = [invite EXCEPT ![i] = sent]
    BY <1>1, <2>1 DEF CreateInvite, SentInvites
  <2> HIDE DEF sent
  <2> QED
    BY <1>0, <1>1, <2>2
    DEF CreateInvite, MembershipInv, MembershipTypeOK, OwnersWereMadeByOwners
<1>2. ASSUME NEW actor \in Users, NEW i \in Invites, RevokeInvite(actor, i)
      PROVE  MembershipInv'
  BY <1>0, <1>2, StateMeansSent, InviteStateKeepsInv
  DEF RevokeInvite, MembershipInv, MembershipTypeOK, OwnersWereMadeByOwners
<1>3. ASSUME NEW i \in Invites, InviteExpires(i) PROVE MembershipInv'
  BY <1>0, <1>3, StateMeansSent, InviteStateKeepsInv
  DEF InviteExpires, MembershipInv, MembershipTypeOK, OwnersWereMadeByOwners
<1>4. ASSUME NEW i \in Invites, NEW u \in Users, AcceptInvite(u, i) PROVE MembershipInv'
  <2>1. /\ invite[i] \in SentInvites
        /\ invite[i].role \in Roles /\ invite[i].by \in Roles
        /\ invite[i].address \in Addresses
        /\ invite[i].role = "owner" => invite[i].by = "owner"
    BY <1>4, StateMeansSent DEF AcceptInvite
  <2>2. address' \in [Users -> Addresses \cup {""}]
    BY <1>4, <2>1 DEF AcceptInvite, MembershipInv, MembershipTypeOK
  <2>3. /\ role' \in [Users -> Roles \cup {"none"}]
        /\ grantor' \in [Users -> Roles \cup {"none"}]
        /\ OwnersWereMadeByOwners'
    BY <1>4, <2>1, GrantKeepsInv DEF AcceptInvite
  <2>4. /\ invite' \in [Invites -> SentInvites \cup {NoInvite}]
        /\ \A j \in Invites :
             invite'[j] \in SentInvites /\ invite'[j].role = "owner" => invite'[j].by = "owner"
    BY <1>4, <2>1, InviteStateKeepsInv DEF AcceptInvite
  <2> QED BY <1>0, <2>2, <2>3, <2>4 DEF MembershipInv, MembershipTypeOK
<1>5. ASSUME NEW i \in Invites, NEW u \in Users, AcceptIsCut(u, i) PROVE MembershipInv'
  <2>1. invite[i].address \in Addresses
    BY <1>5, StateMeansSent DEF AcceptIsCut
  <2> QED
    BY <1>0, <1>5, <2>1 DEF AcceptIsCut, MembershipInv, MembershipTypeOK, OwnersWereMadeByOwners
<1>6. ASSUME NEW actor \in Users, NEW subject \in Users, NEW r \in Roles,
             ChangeRole(actor, subject, r)
      PROVE  MembershipInv'
  <2>1. role[actor] \in Roles /\ (r = "owner" => role[actor] = "owner")
    BY <1>6 DEF ChangeRole, MayChange, Roles, Administrators
  <2>2. /\ role' \in [Users -> Roles \cup {"none"}]
        /\ grantor' \in [Users -> Roles \cup {"none"}]
        /\ OwnersWereMadeByOwners'
    BY <1>6, <2>1, GrantKeepsInv DEF ChangeRole
  <2> QED BY <1>0, <1>6, <2>2 DEF ChangeRole, MembershipInv, MembershipTypeOK
<1>7. ASSUME NEW actor \in Users, NEW subject \in Users, RemoveMember(actor, subject)
      PROVE  MembershipInv'
  <2>1. /\ role' \in [Users -> Roles \cup {"none"}]
        /\ grantor' \in [Users -> Roles \cup {"none"}]
        /\ OwnersWereMadeByOwners'
    BY <1>7, GrantKeepsInv DEF RemoveMember
  <2> QED BY <1>0, <1>7, <2>1 DEF RemoveMember, MembershipInv, MembershipTypeOK
<1>8. ASSUME NEW u \in Users, NEW a \in Addresses, UpdateEmail(u, a) PROVE MembershipInv'
  BY <1>0, <1>8 DEF UpdateEmail, MembershipInv, MembershipTypeOK, OwnersWereMadeByOwners
<1>9. CASE UNCHANGED members
  BY <1>0, <1>9 DEF members, MembershipInv, MembershipTypeOK, OwnersWereMadeByOwners
<1> QED
  BY <1>1, <1>2, <1>3, <1>4, <1>5, <1>6, <1>7, <1>8, <1>9 DEF MembershipNext

LEMMA MembershipIsInv == MembershipSpec => []MembershipInv
<1>1. ASSUME MembershipInit PROVE MembershipInv
  <2>1. \A i \in Invites : invite[i] = NoInvite /\ invite[i] \notin SentInvites
    BY <1>1, NotSent DEF MembershipInit
  <2>2. MembershipTypeOK
    BY <1>1, MembershipAssumption
    DEF MembershipAssumption, MembershipInit, MembershipTypeOK, Roles
  <2>3. MembersHaveAddresses
    BY <1>1, MembershipAssumption
    DEF MembershipAssumption, MembershipInit, MembersHaveAddresses
  <2> QED
    BY <1>1, <2>1, <2>2, <2>3 DEF MembershipInit, MembershipInv, OwnersWereMadeByOwners
<1>2. MembershipInv /\ [MembershipNext]_members => MembershipInv'
  BY MembershipStep
<1> QED BY <1>1, <1>2, PTL DEF MembershipSpec

(* OwnersWereMadeByOwners (Membership): decideMembershipInvite() and       *)
(* decideRoleChange() between them hand ownership on through owners only,  *)
(* across invites that wait, expire and are accepted by whoever has the    *)
(* address by then.                                                        *)
THEOREM OwnershipIsHandedOn == MembershipSpec => []OwnersWereMadeByOwners
<1>1. MembershipInv => OwnersWereMadeByOwners
  BY DEF MembershipInv
<1> QED BY <1>1, MembershipIsInv, PTL

(* The last owner leaves by accepting an invite to less than he is. *)
TheLastOwnerStepsDown ==
  Owners # {} /\ Owners' = {} =>
    \E i \in Invites, u \in Users :
      /\ invite[i].state = "pending" /\ invite'[i].state = "accepted"
      /\ Owners = {u}
      /\ address[u] = invite[i].address
      /\ invite[i].role # "owner"

LEMMA UnseatedByInvite ==
  ASSUME MembershipInv, [MembershipNext]_members
  PROVE  TheLastOwnerStepsDown
<1> SUFFICES ASSUME Owners # {}, Owners' = {}
             PROVE  \E i \in Invites, u \in Users :
                      /\ invite[i].state = "pending" /\ invite'[i].state = "accepted"
                      /\ Owners = {u}
                      /\ address[u] = invite[i].address
                      /\ invite[i].role # "owner"
  BY DEF TheLastOwnerStepsDown
<1> USE DEF MembershipInv, MembershipTypeOK
<1>1. role' # role
  BY DEF Owners
<1>2. ASSUME NEW actor \in Users, NEW subject \in Users, NEW r \in Roles,
             ChangeRole(actor, subject, r)
      PROVE  FALSE
  <2>1. /\ actor # subject /\ ("owner" \in {r, role[subject]} => role[actor] = "owner")
        /\ role' = [role EXCEPT ![subject] = r]
    BY <1>2 DEF ChangeRole, MayChange, AddMember
  <2>2. PICK u \in Users : role[u] = "owner"
    BY DEF Owners
  <2>3. role'[actor] = "owner" \/ role'[u] = "owner"
    BY <2>1, <2>2
  <2> QED BY <2>3 DEF Owners
<1>3. ASSUME NEW actor \in Users, NEW subject \in Users, RemoveMember(actor, subject)
      PROVE  FALSE
  <2>1. /\ role[subject] = "owner" => Owners # {subject}
        /\ role' = [role EXCEPT ![subject] = "none"]
    BY <1>3 DEF RemoveMember, AddMember
  <2>2. PICK u \in Users : role[u] = "owner" /\ u # subject
    BY <2>1 DEF Owners
  <2> QED BY <2>1, <2>2 DEF Owners
<1>4. ASSUME NEW i \in Invites, NEW u \in Users, AcceptInvite(u, i)
      PROVE  /\ invite[i].state = "pending" /\ invite'[i].state = "accepted"
             /\ Owners = {u}
             /\ address[u] = invite[i].address
             /\ invite[i].role # "owner"
  <2>1. invite[i] \in SentInvites
    BY <1>4, StateMeansSent DEF AcceptInvite
  <2>2. invite[i].state = "pending" /\ invite'[i].state = "accepted"
    BY <1>4, <2>1 DEF AcceptInvite, SentInvites
  <2>3. role' = [role EXCEPT ![u] = invite[i].role]
    BY <1>4 DEF AcceptInvite, AddMember
  <2>4. \A v \in Users : role[v] = "owner" => v = u
    BY <2>3 DEF Owners
  <2>5. Owners = {u} /\ role[u] = "owner"
    BY <2>4 DEF Owners
  <2>6. invite[i].role # "owner"
    BY <2>3 DEF Owners
  <2>7. address[u] = invite[i].address
    BY <1>4, <2>5 DEF AcceptInvite, Invited, MembersHaveAddresses
  <2> QED BY <2>2, <2>5, <2>6, <2>7
<1>5. \E i \in Invites, u \in Users : AcceptInvite(u, i)
  BY <1>1, <1>2, <1>3
  DEF MembershipNext, members, CreateInvite, RevokeInvite, InviteExpires,
      AcceptIsCut, UpdateEmail
<1> QED BY <1>4, <1>5

(* TheLastOwnerStepsDown: whatever way the run last_owner finds to leave   *)
(* an organization without an owner (AlwaysAnOwner) ends in one step of    *)
(* acceptInvite(): the only owner has the address of a pending invite to a *)
(* lesser role, and accepts it.  changeRole(), removeMember(), a change of *)
(* address and the invites of anybody else are innocent, so refusing that  *)
(* one step would be a full repair.                                        *)
THEOREM TheLastOwnerUnseatsHimself == MembershipSpec => [][TheLastOwnerStepsDown]_members
<1>1. MembershipInv /\ [MembershipNext]_members => [TheLastOwnerStepsDown]_members
  BY UnseatedByInvite
<1> QED BY <1>1, MembershipIsInv, PTL DEF MembershipSpec

(* OnlyInvitesUnseatTheLastOwner (Membership): changeRole() and            *)
(* removeMember() leave an owner, whoever calls them.                      *)
THEOREM LastOwnerStays == MembershipSpec => OnlyInvitesUnseatTheLastOwner
<1> DEFINE Unseats ==
      Owners # {} /\ Owners' = {} =>
        \E i \in Invites : invite[i].state = "pending" /\ invite'[i].state = "accepted"
<1>1. MembershipInv /\ [MembershipNext]_members => [Unseats]_members
  BY UnseatedByInvite DEF TheLastOwnerStepsDown
<1> QED BY <1>1, MembershipIsInv, PTL DEF MembershipSpec, OnlyInvitesUnseatTheLastOwner

-----------------------------------------------------------------------------
(* The key the secrets are under: the one the script moved them to, until  *)
(* the operator has set it.                                                *)
CurrentKey == IF pending # Nothing THEN pending ELSE KeyFound

(* A backup holds what was meant, under the key its header names. *)
SoundDump(b) ==
  \A t \in Tables :
    /\ t \in DOMAIN b.table <=> t \in DOMAIN b.meant
    /\ t \in DOMAIN b.table =>
         /\ b.table[t] \in Ciphers \cup {Nothing}
         /\ b.meant[t] \in Values \cup {Nothing}
         /\ Opens(b.table[t], b.fingerprint)
         /\ ValueOf(b.table[t]) = b.meant[t]

(* What the script read is what is there when it writes. *)
ReadIsCurrent == script.running => script.read = cipher

SecretsOpen ==
  \A t \in Tables : Opens(cipher[t], CurrentKey) /\ ValueOf(cipher[t]) = meant[t]

DumpsAreSound == \A d \in Dumps : dump[d] # Nothing => SoundDump(dump[d])

KeysInv ==
  /\ SecretsTypeOK
  /\ KeyFound \in RootKeys
  /\ ReadIsCurrent
  /\ SecretsOpen
  /\ DumpsAreSound

(* A server that is up has the key the secrets are under, and no script    *)
(* beside it.                                                              *)
Apart == active # Nothing => active = KeyFound /\ ~script.running /\ pending = Nothing

(* The step writes nothing, or is the script's own write, or the write of  *)
(* a server that has the key of the secrets and no script beside it.       *)
WritesInTurn ==
  <<cipher, dump, meant>>' # <<cipher, dump, meant>> =>
    \/ script.running /\ ~script'.running
    \/ active = CurrentKey /\ ~script.running

LEMMA EncryptedOpens ==
  ASSUME NEW v \in Values, NEW k \in RootKeys
  PROVE  /\ Encrypted(v, k) \in Ciphers /\ Encrypted(v, k) # Nothing
         /\ Opens(Encrypted(v, k), k) /\ ValueOf(Encrypted(v, k)) = v
<1>1. Encrypted(v, k) \in Ciphers
  BY DEF Encrypted, Ciphers
<1>2. Encrypted(v, k) # Nothing
  BY <1>1, SecretsAssumption DEF SecretsAssumption, Ciphers
<1>3. Encrypted(v, k).value = v /\ Encrypted(v, k).key = k
  BY DEF Encrypted
<1> QED BY <1>1, <1>2, <1>3 DEF Opens, ValueOf

(* createBackup() writes what the server holds. *)
LEMMA DumpedIsSound ==
  ASSUME KeysInv, active # Nothing, active = CurrentKey, NEW tables \in SUBSET Tables
  PROVE  Dumped(tables) \in Dump /\ SoundDump(Dumped(tables))
<1> USE DEF KeysInv, SecretsTypeOK
<1>1. /\ Dumped(tables).fingerprint = active
      /\ Dumped(tables).table = [t \in tables |-> cipher[t]]
      /\ Dumped(tables).meant = [t \in tables |-> meant[t]]
  BY DEF Dumped
<1>2. Dumped(tables) \in [fingerprint : RootKeys, table : [tables -> Ciphers \cup {Nothing}],
                         meant : [tables -> Values \cup {Nothing}]]
  <2>1. /\ active \in RootKeys
        /\ [t \in tables |-> cipher[t]] \in [tables -> Ciphers \cup {Nothing}]
        /\ [t \in tables |-> meant[t]] \in [tables -> Values \cup {Nothing}]
    OBVIOUS
  <2> QED BY <2>1 DEF Dumped
<1> QED BY <1>1, <1>2 DEF Dump, SoundDump, SecretsOpen

(* What starting a server does to the places of the key. *)
LEMMA StartKeepsKey ==
  ASSUME KeysInv, StartServer \/ StartIsCut
  PROVE  keyAt' \in [Places -> RootKeys \cup {Nothing}] /\ KeyFound' = KeyFound
<1>1. /\ keyAt \in [Places -> RootKeys \cup {Nothing}]
      /\ KeyFound \in RootKeys /\ KeyFound # Nothing
      /\ Places = {"env", "file", "legacy"}
  BY SecretsAssumption DEF KeysInv, SecretsTypeOK, SecretsAssumption, Places
<1>2. CASE keyAt["env"] # Nothing
  <2>1. keyAt' = keyAt
    BY <1>2 DEF StartServer, StartIsCut, KeyFileWritten
  <2> QED BY <1>1, <2>1 DEF KeyFound
<1>3. CASE keyAt["env"] = Nothing
  <2>1. keyAt'["env"] = Nothing /\ keyAt'["file"] = KeyFound
    BY <1>1, <1>3 DEF StartServer, StartIsCut, KeyFileWritten
  <2>2. keyAt' \in [Places -> RootKeys \cup {Nothing}]
    BY <1>1, <1>3 DEF StartServer, StartIsCut, KeyFileWritten
  <2> QED BY <1>1, <2>1, <2>2 DEF KeyFound
<1> QED BY <1>2, <1>3

(* A table that is written or erased while the server is up. *)
LEMMA StoreKeepsInv ==
  ASSUME KeysInv, active = CurrentKey, ~script.running, NEW t \in Tables,
         NEW c \in Ciphers \cup {Nothing}, NEW v \in Values \cup {Nothing},
         Opens(c, active), ValueOf(c) = v,
         cipher' = [cipher EXCEPT ![t] = c], meant' = [meant EXCEPT ![t] = v],
         UNCHANGED <<active, keyAt, dump, script, pending>>
  PROVE  KeysInv'
<1>1. SecretsTypeOK' /\ KeyFound' = KeyFound
  BY DEF KeysInv, SecretsTypeOK, KeyFound
<1>2. CurrentKey' = active
  BY <1>1 DEF CurrentKey
<1>3. SecretsOpen'
  BY <1>2 DEF KeysInv, SecretsTypeOK, SecretsOpen
<1> QED
  BY <1>1, <1>2, <1>3
  DEF KeysInv, ReadIsCurrent, DumpsAreSound

LEMMA RestoreKeepsInv ==
  ASSUME KeysInv, active = CurrentKey, ~script.running,
         NEW d \in Dumps, NEW snapshot \in Dumps, restoreBackup(d, snapshot)
  PROVE  KeysInv'
<1> USE DEF KeysInv, SecretsTypeOK
<1>1. /\ active # Nothing /\ dump[d] # Nothing /\ dump[d].fingerprint = active
      /\ dump' = [dump EXCEPT ![snapshot] = Dumped(Tables)]
      /\ UNCHANGED <<active, keyAt, script, pending>>
  BY DEF restoreBackup, MayRestore
<1>2. SoundDump(dump[d])
  BY <1>1 DEF DumpsAreSound
<1>3. \A t \in Tables :
        \/ /\ cipher'[t] = cipher[t] /\ meant'[t] = meant[t]
        \/ /\ cipher'[t] \in Ciphers \cup {Nothing} /\ meant'[t] \in Values \cup {Nothing}
           /\ Opens(cipher'[t], active) /\ ValueOf(cipher'[t]) = meant'[t]
  BY <1>1, <1>2 DEF restoreBackup, SoundDump
<1>4. /\ cipher' \in [Tables -> Ciphers \cup {Nothing}]
      /\ meant' \in [Tables -> Values \cup {Nothing}]
  <2>1. /\ cipher' = [t \in Tables |-> cipher'[t]]
        /\ meant' = [t \in Tables |-> meant'[t]]
    BY DEF restoreBackup
  <2> QED BY <1>3, <2>1
<1>5. KeyFound' = KeyFound /\ CurrentKey' = active
  BY <1>1 DEF KeyFound, CurrentKey
<1>6. SecretsOpen'
  BY <1>3, <1>5 DEF SecretsOpen
<1>7. dump' \in [Dumps -> Dump \cup {Nothing}] /\ DumpsAreSound'
  <2>1. Dumped(Tables) \in Dump /\ SoundDump(Dumped(Tables))
    BY <1>1, DumpedIsSound
  <2> DEFINE snap == Dumped(Tables)
  <2>2. snap \in Dump /\ SoundDump(snap) /\ dump' = [dump EXCEPT ![snapshot] = snap]
    BY <1>1, <2>1
  <2> HIDE DEF snap
  <2> QED BY <2>2 DEF DumpsAreSound
<1> QED
  BY <1>1, <1>4, <1>5, <1>6, <1>7 DEF ReadIsCurrent

(* No such step loses a secret. *)
LEMMA KeysStep ==
  ASSUME KeysInv, SecretsNext, WritesInTurn
  PROVE  KeysInv'
<1> USE DEF KeysInv, SecretsTypeOK
<1>1. CASE StartServer
  <2>1. keyAt' \in [Places -> RootKeys \cup {Nothing}] /\ KeyFound' = KeyFound
    BY <1>1, StartKeepsKey
  <2>2. active' = KeyFound /\ UNCHANGED <<cipher, dump, script, pending, meant>>
    BY <1>1 DEF StartServer
  <2>3. CurrentKey' = CurrentKey
    BY <2>1, <2>2 DEF CurrentKey
  <2> QED
    BY <2>1, <2>2, <2>3 DEF ReadIsCurrent, SecretsOpen, DumpsAreSound
<1>2. CASE StartIsCut
  <2>1. keyAt' \in [Places -> RootKeys \cup {Nothing}] /\ KeyFound' = KeyFound
    BY <1>2, StartKeepsKey
  <2>2. UNCHANGED <<cipher, active, dump, script, pending, meant>>
    BY <1>2 DEF StartIsCut
  <2>3. CurrentKey' = CurrentKey
    BY <2>1, <2>2 DEF CurrentKey
  <2> QED
    BY <2>1, <2>2, <2>3 DEF ReadIsCurrent, SecretsOpen, DumpsAreSound
<1>3. CASE StopServer
  <2>1. active' = Nothing /\ UNCHANGED <<cipher, keyAt, dump, script, pending, meant>>
    BY <1>3 DEF StopServer
  <2>2. KeyFound' = KeyFound /\ CurrentKey' = CurrentKey
    BY <2>1 DEF KeyFound, CurrentKey
  <2> QED BY <2>1, <2>2 DEF ReadIsCurrent, SecretsOpen, DumpsAreSound
<1>4. ASSUME UNCHANGED <<active, keyAt, script, pending>>
      PROVE  \/ UNCHANGED <<cipher, dump, meant>> /\ KeysInv'
             \/ active = CurrentKey /\ ~script.running
  <2>1. CASE UNCHANGED <<cipher, dump, meant>>
    <3>1. KeyFound' = KeyFound /\ CurrentKey' = CurrentKey
      BY <1>4 DEF KeyFound, CurrentKey
    <3> QED BY <1>4, <2>1, <3>1 DEF ReadIsCurrent, SecretsOpen, DumpsAreSound
  <2> QED BY <1>4, <2>1 DEF WritesInTurn
<1>5. ASSUME NEW t \in Tables, Erase(t) PROVE KeysInv'
  <2>1. Opens(Nothing, active) /\ ValueOf(Nothing) = Nothing
    BY DEF Opens, ValueOf
  <2> QED BY <1>4, <1>5, <2>1, StoreKeepsInv DEF Erase
<1>6. ASSUME NEW t \in Tables, NEW v \in Values, Store(t, v) PROVE KeysInv'
  <2>1. active # Nothing /\ active \in RootKeys
    BY <1>6 DEF Store
  <2>2. /\ Encrypted(v, active) \in Ciphers
        /\ Opens(Encrypted(v, active), active) /\ ValueOf(Encrypted(v, active)) = v
    BY <2>1, EncryptedOpens
  <2> QED BY <1>4, <1>6, <2>1, <2>2, StoreKeepsInv DEF Store
<1>7. ASSUME NEW d \in Dumps, NEW tables \in SUBSET Tables \ {{}}, createBackup(d, tables)
      PROVE  KeysInv'
  <2>1. CASE active = CurrentKey
    <3> DEFINE dumped == Dumped(tables)
    <3>1. /\ dumped \in Dump /\ SoundDump(dumped) /\ dump' = [dump EXCEPT ![d] = dumped]
          /\ UNCHANGED <<cipher, active, keyAt, script, pending, meant>>
      BY <1>7, <2>1, DumpedIsSound DEF createBackup
    <3> HIDE DEF dumped
    <3>2. dump' \in [Dumps -> Dump \cup {Nothing}] /\ DumpsAreSound'
      BY <3>1 DEF DumpsAreSound
    <3>3. KeyFound' = KeyFound /\ CurrentKey' = CurrentKey
      BY <3>1 DEF KeyFound, CurrentKey
    <3> QED BY <3>1, <3>2, <3>3 DEF ReadIsCurrent, SecretsOpen
  <2> QED BY <1>4, <1>7, <2>1 DEF createBackup
<1>8. ASSUME NEW d \in Dumps, deleteBackup(d) PROVE KeysInv'
  <2>1. /\ dump' = [dump EXCEPT ![d] = Nothing]
        /\ UNCHANGED <<cipher, active, keyAt, script, pending, meant>>
    BY <1>8 DEF deleteBackup
  <2>2. KeyFound' = KeyFound /\ CurrentKey' = CurrentKey
    BY <2>1 DEF KeyFound, CurrentKey
  <2> QED BY <2>1, <2>2 DEF ReadIsCurrent, SecretsOpen, DumpsAreSound
<1>9. ASSUME NEW d \in Dumps, NEW snapshot \in Dumps, restoreBackup(d, snapshot)
      PROVE  KeysInv'
  BY <1>4, <1>9, RestoreKeepsInv DEF restoreBackup
<1>10. ASSUME NEW old \in RootKeys, NEW new \in RootKeys, rotateSecrets(old, new)
      PROVE  KeysInv'
  <2>1. /\ script' = [running |-> TRUE, to |-> new, read |-> cipher]
        /\ UNCHANGED <<cipher, active, keyAt, dump, pending, meant>>
    BY <1>10 DEF rotateSecrets
  <2>2. KeyFound' = KeyFound /\ CurrentKey' = CurrentKey
    BY <2>1 DEF KeyFound, CurrentKey
  <2> QED BY <2>1, <2>2 DEF ReadIsCurrent, SecretsOpen, DumpsAreSound
<1>11. CASE applyRotation
  <2>1. /\ script.running /\ script.read = cipher
        /\ script' = NoScript /\ pending' = script.to
        /\ UNCHANGED <<active, keyAt, dump, meant>>
    BY <1>11 DEF applyRotation, ReadIsCurrent
  <2>2. script.to \in RootKeys /\ ~NoScript.running
    <3>1. ~NoScript.running
      BY DEF NoScript
    <3>2. script # NoScript
      BY <2>1, <3>1
    <3> QED BY <3>1, <3>2
  <2>3. \A t \in Tables :
          IF cipher[t] = Nothing THEN cipher'[t] = Nothing
          ELSE cipher'[t] = Encrypted(cipher[t].value, script.to)
    <3>1. PICK rows \in SUBSET Emptied :
            cipher' = [t \in Tables |->
                        IF script.read[t] # Nothing /\ (cipher[t] # Nothing \/ t \in rows)
                        THEN Encrypted(script.read[t].value, script.to)
                        ELSE cipher[t]]
      BY <1>11 DEF applyRotation
    <3> QED BY <2>1, <3>1
  <2>4. cipher' = [t \in Tables |-> cipher'[t]]
    BY <1>11 DEF applyRotation
  <2>5. KeyFound' = KeyFound /\ CurrentKey' = script.to
    BY <2>1, <2>2, SecretsAssumption DEF KeyFound, CurrentKey, SecretsAssumption
  <2>6. ASSUME NEW t \in Tables
        PROVE  /\ cipher'[t] \in Ciphers \cup {Nothing}
               /\ Opens(cipher'[t], CurrentKey') /\ ValueOf(cipher'[t]) = meant[t]
    <3>1. CASE cipher[t] = Nothing
      BY <2>3, <3>1 DEF Opens, ValueOf, SecretsOpen
    <3>2. CASE cipher[t] # Nothing
      <4>1. cipher[t] \in Ciphers /\ cipher[t].value \in Values
        BY <3>2 DEF Ciphers
      <4>2. cipher'[t] = Encrypted(cipher[t].value, script.to)
        BY <2>3, <3>2
      <4>3. cipher[t].value = meant[t]
        BY <3>2 DEF SecretsOpen, ValueOf
      <4> QED BY <2>2, <2>5, <4>1, <4>2, <4>3, EncryptedOpens
    <3> QED BY <3>1, <3>2
  <2>7. cipher' \in [Tables -> Ciphers \cup {Nothing}] /\ SecretsOpen'
    BY <2>1, <2>4, <2>6 DEF SecretsOpen
  <2> QED BY <2>1, <2>2, <2>5, <2>7 DEF ReadIsCurrent, DumpsAreSound
<1>12. CASE ScriptDies
  <2>1. script' = NoScript /\ UNCHANGED <<cipher, active, keyAt, dump, pending, meant>>
    BY <1>12 DEF ScriptDies
  <2>2. KeyFound' = KeyFound /\ CurrentKey' = CurrentKey /\ ~NoScript.running
    BY <2>1 DEF KeyFound, CurrentKey, NoScript
  <2> QED BY <2>1, <2>2 DEF ReadIsCurrent, SecretsOpen, DumpsAreSound
<1>13. CASE SetKey
  <2>1. /\ pending \in RootKeys /\ pending # Nothing /\ pending' = Nothing
        /\ keyAt' = [keyAt EXCEPT ![IF keyAt["env"] # Nothing THEN "env" ELSE "file"] = pending]
        /\ UNCHANGED <<cipher, active, dump, script, meant>>
    BY <1>13 DEF SetKey
  <2>2. keyAt' \in [Places -> RootKeys \cup {Nothing}] /\ KeyFound' = pending
    BY <2>1 DEF KeyFound, Places
  <2>3. CurrentKey' = CurrentKey
    BY <2>1, <2>2 DEF CurrentKey
  <2> QED BY <2>1, <2>2, <2>3 DEF ReadIsCurrent, SecretsOpen, DumpsAreSound
<1> QED
  BY <1>1, <1>2, <1>3, <1>5, <1>6, <1>7, <1>8, <1>9, <1>10, <1>11, <1>12, <1>13
  DEF SecretsNext

LEMMA KeysStutter == ASSUME KeysInv, UNCHANGED secrets PROVE KeysInv'
<1>1. KeyFound' = KeyFound /\ CurrentKey' = CurrentKey
  BY DEF secrets, KeyFound, CurrentKey
<1> QED
  BY <1>1
  DEF secrets, KeysInv, SecretsTypeOK, ReadIsCurrent, SecretsOpen, DumpsAreSound

(* Where the script does not run beside a server it never does: MayStart   *)
(* and rotateSecrets() keep them apart.                                    *)
LEMMA ApartStep ==
  ASSUME ~Live, KeysInv, Apart, SecretsNext
  PROVE  Apart' /\ WritesInTurn
<1> USE DEF KeysInv, SecretsTypeOK, Apart
<1>1. NoScript.running = FALSE
  BY DEF NoScript
<1>2. CASE StartServer
  <2>1. KeyFound' = KeyFound
    BY <1>2, StartKeepsKey
  <2> QED BY <1>2, <2>1 DEF StartServer, MayStart, WritesInTurn
<1>3. CASE StartIsCut \/ StopServer \/ ScriptDies \/ SetKey
  <2>1. active' = Nothing
    <3>1. script.running => active = Nothing
      OBVIOUS
    <3> QED
      BY <1>3, <3>1 DEF StartIsCut, MayStart, StopServer, ScriptDies, SetKey
  <2> QED
    BY <1>3, <2>1 DEF StartIsCut, StopServer, ScriptDies, SetKey, WritesInTurn
<1>4. ASSUME active # Nothing, UNCHANGED <<active, keyAt, script, pending>>
      PROVE  Apart' /\ WritesInTurn
  BY <1>4 DEF KeyFound, CurrentKey, WritesInTurn
<1>5. ASSUME NEW old \in RootKeys, NEW new \in RootKeys, rotateSecrets(old, new)
      PROVE  Apart' /\ WritesInTurn
  BY <1>5 DEF rotateSecrets, WritesInTurn
<1>6. CASE applyRotation
  BY <1>1, <1>6 DEF applyRotation, WritesInTurn
<1> QED
  BY <1>2, <1>3, <1>4, <1>5, <1>6
  DEF SecretsNext, Erase, Store, createBackup, deleteBackup, restoreBackup, MayRestore

LEMMA SecretsStart == SecretsInit => KeysInv /\ Apart
<1> SUFFICES ASSUME SecretsInit PROVE KeysInv /\ Apart
  OBVIOUS
<1>1. PICK p \in Places, k \in RootKeys :
        keyAt = [[q \in Places |-> Nothing] EXCEPT ![p] = k]
  BY DEF SecretsInit
<1>2. keyAt \in [Places -> RootKeys \cup {Nothing}] /\ KeyFound = k
  BY <1>1, SecretsAssumption DEF KeyFound, Places, SecretsAssumption
<1>3. ~script.running /\ script = NoScript
  BY DEF SecretsInit, NoScript
<1>4. SecretsTypeOK
  BY <1>2 DEF SecretsInit, SecretsTypeOK
<1>5. SecretsOpen /\ DumpsAreSound
  BY DEF SecretsInit, SecretsOpen, DumpsAreSound, Opens, ValueOf
<1> QED BY <1>2, <1>3, <1>4, <1>5 DEF SecretsInit, KeysInv, ReadIsCurrent, Apart

LEMMA SecretsIsInv == ASSUME ~Live PROVE SecretsSpec => [](KeysInv /\ Apart)
<1>1. ASSUME KeysInv, Apart, [SecretsNext]_secrets PROVE KeysInv' /\ Apart'
  <2>1. CASE UNCHANGED secrets
    BY <1>1, <2>1, KeysStutter DEF secrets, Apart, KeyFound
  <2> QED BY <1>1, <2>1, ApartStep, KeysStep
<1> QED BY <1>1, SecretsStart, PTL DEF SecretsSpec

(* SecretsSurvive (Secrets): where the script is not run beside a server,  *)
(* initEncryptionKey(), rotateSecrets(), applyRotation() and               *)
(* restoreBackup() lose no secret, wherever the key is kept and however    *)
(* often either process dies.                                              *)
THEOREM SecretsSurviveRotation == ASSUME ~Live PROVE SecretsSpec => []SecretsSurvive
<1>1. KeysInv /\ Apart => SecretsSurvive
  BY DEF KeysInv, Apart, SecretsOpen, CurrentKey, SecretsSurvive
<1> QED BY <1>1, SecretsIsInv, PTL

(* A server that is up writes while the script runs, or with a key the     *)
(* secrets are no longer under.                                            *)
WritesOutOfTurn ==
  /\ active # Nothing
  /\ script.running \/ active # CurrentKey
  /\ <<cipher, dump, meant>>' # <<cipher, dump, meant>>
  /\ UNCHANGED <<active, keyAt, script, pending>>

LostOutOfTurn == KeysInv /\ ~KeysInv' => WritesOutOfTurn

LEMMA LossStep == ASSUME KeysInv, SecretsNext, ~KeysInv' PROVE WritesOutOfTurn
<1>1. ~WritesInTurn
  BY KeysStep
<1>2. CASE UNCHANGED <<cipher, dump, meant>>
  BY <1>1, <1>2 DEF WritesInTurn
<1>3. CASE applyRotation
  BY <1>1, <1>3 DEF applyRotation, NoScript, WritesInTurn
<1>4. CASE active # Nothing /\ UNCHANGED <<active, keyAt, script, pending>>
  BY <1>1, <1>4 DEF WritesInTurn, WritesOutOfTurn
<1> QED
  BY <1>2, <1>3, <1>4
  DEF SecretsNext, StartServer, StartIsCut, StopServer, Erase, Store, createBackup,
      deleteBackup, restoreBackup, MayRestore, rotateSecrets, ScriptDies, SetKey

(* RotatedSecretsOpen (Secrets, which the run rotation_live sees fail)     *)
(* holds as long as KeysInv does, which is true at first, and which one    *)
(* step alone can end, with a live rotation too: a server that is up       *)
(* writes a secret or a backup while the script runs, or under a key the   *)
(* secrets have left.  applyRotation(), the key's move to the file, every  *)
(* start, SetKey and the death of either process lose nothing.             *)
THEOREM OnlyWritesOutOfTurnLoseSecrets ==
  SecretsSpec => /\ KeysInv
                 /\ [](KeysInv => RotatedSecretsOpen)
                 /\ [][LostOutOfTurn]_secrets
<1>1. [SecretsNext]_secrets => [LostOutOfTurn]_secrets
  BY LossStep DEF LostOutOfTurn
<1>2. KeysInv => RotatedSecretsOpen
  BY DEF KeysInv, SecretsOpen, CurrentKey, RotatedSecretsOpen
<1> QED BY <1>1, <1>2, SecretsStart, PTL DEF SecretsSpec
=============================================================================
