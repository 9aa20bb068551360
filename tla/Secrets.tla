------------------------------ MODULE Secrets ------------------------------
(***************************************************************************)
(* Secrets at rest: the encrypted values of the database, the server that  *)
(* writes them under the ENCRYPTION_KEY it started with (lib/crypto.ts),   *)
(* its backups and restores (services/backups.ts), and the script that     *)
(* moves every value to another key (scripts/rotate-encryption-key.ts).    *)
(* Either process may die between two steps; a transaction, a dump file or *)
(* a key file is written whole or not at all.                              *)
(***************************************************************************)
CONSTANTS
  Tables,    \* places a secret is kept: ENCRYPTION_GROUPS
  Emptied,   \* those whose row may stay when the secret is erased
  Values,    \* plaintexts
  RootKeys,  \* keys of 32 bytes
  Dumps,     \* ids of backups
  Nothing,   \* no value, no key
  Live       \* whether the script may run beside a server

ASSUME SecretsAssumption ==
  /\ Nothing \notin Values \cup RootKeys \cup [value : Values, key : RootKeys]
  /\ Emptied \subseteq Tables
  /\ Live \in BOOLEAN

VARIABLES
  cipher,  \* what a table holds: a value under a key, or Nothing
  active,  \* cachedKey of the server that is up, or Nothing
  keyAt,   \* where a key is found: env, the key file, the legacy setting
  dump,    \* the backups: the fingerprint of the header, and the tables
  script,  \* the rotation under way: what it read, and the key it goes to
  pending, \* the key the operator has yet to set, or Nothing
  meant    \* history: the value last written or restored to a table

secrets == <<cipher, active, keyAt, dump, script, pending, meant>>

Ciphers == [value : Values, key : RootKeys]
Encrypted(v, k) == [value |-> v, key |-> k]
Opens(c, k) == c # Nothing => c.key = k
ValueOf(c) == IF c = Nothing THEN Nothing ELSE c.value

Places == {"env", "file", "legacy"}

(* initEncryptionKey(): the environment, the key file, the old setting. *)
KeyFound ==
  IF keyAt["env"] # Nothing THEN keyAt["env"]
  ELSE IF keyAt["file"] # Nothing THEN keyAt["file"] ELSE keyAt["legacy"]

NoScript == [running |-> FALSE]

SecretsInit ==
  /\ cipher = [t \in Tables |-> Nothing]
  /\ active = Nothing
  /\ \E p \in Places, k \in RootKeys :
       keyAt = [[q \in Places |-> Nothing] EXCEPT ![p] = k]
  /\ dump = [d \in Dumps |-> Nothing]
  /\ script = NoScript
  /\ pending = Nothing
  /\ meant = [t \in Tables |-> Nothing]

-----------------------------------------------------------------------------
(* The key of the old setting is written to the key file first. *)
KeyFileWritten ==
  IF keyAt["env"] = Nothing THEN [keyAt EXCEPT !["file"] = KeyFound] ELSE keyAt

(* The server starts.  Beside a rotation, or after one whose key has not   *)
(* been set, only when the script runs live.                               *)
MayStart ==
  /\ active = Nothing
  /\ Live \/ (~script.running /\ pending = Nothing)

StartServer ==
  /\ MayStart
  /\ active' = KeyFound
  /\ keyAt' = IF keyAt["env"] = Nothing
              THEN [KeyFileWritten EXCEPT !["legacy"] =
                      IF keyAt["file"] = Nothing THEN Nothing ELSE @]
              ELSE keyAt
  /\ UNCHANGED <<cipher, dump, script, pending, meant>>

(* It dies before it has deleted the old setting. *)
StartIsCut ==
  /\ MayStart
  /\ keyAt' = KeyFileWritten
  /\ UNCHANGED <<cipher, active, dump, script, pending, meant>>

StopServer ==
  /\ active # Nothing
  /\ active' = Nothing
  /\ UNCHANGED <<cipher, keyAt, dump, script, pending, meant>>

(* A route stores a secret, or deletes one. *)
Store(t, v) ==
  /\ active # Nothing
  /\ cipher' = [cipher EXCEPT ![t] = Encrypted(v, active)]
  /\ meant' = [meant EXCEPT ![t] = v]
  /\ UNCHANGED <<active, keyAt, dump, script, pending>>

Erase(t) ==
  /\ active # Nothing
  /\ cipher' = [cipher EXCEPT ![t] = Nothing]
  /\ meant' = [meant EXCEPT ![t] = Nothing]
  /\ UNCHANGED <<active, keyAt, dump, script, pending>>

(* createBackup() of some tables; with none of them named, of all. *)
Dumped(tables) ==
  [fingerprint |-> active, table |-> [t \in tables |-> cipher[t]],
   meant |-> [t \in tables |-> meant[t]]]

createBackup(d, tables) ==
  /\ active # Nothing
  /\ dump[d] = Nothing
  /\ dump' = [dump EXCEPT ![d] = Dumped(tables)]
  /\ UNCHANGED <<cipher, active, keyAt, script, pending, meant>>

deleteBackup(d) ==
  /\ active # Nothing
  /\ dump[d] # Nothing
  /\ dump' = [dump EXCEPT ![d] = Nothing]
  /\ UNCHANGED <<cipher, active, keyAt, script, pending, meant>>

(* Mutant: the header is not compared with the key of the server. *)
BugMayRestore(d) == active # Nothing /\ dump[d] # Nothing

MayRestore(d) ==
  /\ active # Nothing
  /\ dump[d] # Nothing
  /\ dump[d].fingerprint = active

(* restoreBackup(): a snapshot of everything, then the tables of the dump  *)
(* in one transaction.                                                     *)
restoreBackup(d, snapshot) ==
  /\ MayRestore(d)
  /\ dump[snapshot] = Nothing
  /\ dump' = [dump EXCEPT ![snapshot] = Dumped(Tables)]
  /\ cipher' = [t \in Tables |->
                 IF t \in DOMAIN dump[d].table THEN dump[d].table[t] ELSE cipher[t]]
  /\ meant' = [t \in Tables |->
                IF t \in DOMAIN dump[d].meant THEN dump[d].meant[t] ELSE meant[t]]
  /\ UNCHANGED <<active, keyAt, script, pending>>

-----------------------------------------------------------------------------
(* rotateSecrets(): every value is decrypted, or nothing is done. *)
rotateSecrets(old, new) ==
  /\ ~script.running
  /\ Live \/ active = Nothing
  /\ old # new
  /\ \E t \in Tables : cipher[t] # Nothing
  /\ \A t \in Tables : Opens(cipher[t], old)
  /\ script' = [running |-> TRUE, to |-> new, read |-> cipher]
  /\ UNCHANGED <<cipher, active, keyAt, dump, pending, meant>>

(* applyRotation(): one transaction of updates, which find no row where    *)
(* one was deleted, and bring an erased secret back where the row stayed   *)
(* (a setting cleared to '', columns set to NULL).  The script prints what *)
(* is to be done next; should it die before it does, another run with the  *)
(* same keys opens nothing, and tells as much.                             *)
applyRotation ==
  /\ script.running
  /\ \E rows \in SUBSET Emptied :
       cipher' = [t \in Tables |->
                   IF script.read[t] # Nothing /\ (cipher[t] # Nothing \/ t \in rows)
                   THEN Encrypted(script.read[t].value, script.to)
                   ELSE cipher[t]]
  /\ pending' = script.to
  /\ script' = NoScript
  /\ UNCHANGED <<active, keyAt, dump, meant>>

ScriptDies ==
  /\ script.running
  /\ script' = NoScript
  /\ UNCHANGED <<cipher, active, keyAt, dump, pending, meant>>

(* The operator sets the new key where the old one was found. *)
SetKey ==
  /\ pending # Nothing
  /\ keyAt' = [keyAt EXCEPT ![IF keyAt["env"] # Nothing THEN "env" ELSE "file"] = pending]
  /\ pending' = Nothing
  /\ UNCHANGED <<cipher, active, dump, script, meant>>

SecretsNext ==
  \/ StartServer
  \/ StartIsCut
  \/ StopServer
  \/ \E t \in Tables : Erase(t) \/ \E v \in Values : Store(t, v)
  \/ \E d \in Dumps :
       \/ \E tables \in SUBSET Tables \ {{}} : createBackup(d, tables)
       \/ deleteBackup(d)
       \/ \E snapshot \in Dumps : restoreBackup(d, snapshot)
  \/ \E old, new \in RootKeys : rotateSecrets(old, new)
  \/ applyRotation
  \/ ScriptDies
  \/ SetKey

SecretsSpec == SecretsInit /\ [][SecretsNext]_secrets

-----------------------------------------------------------------------------
Dump == UNION {[fingerprint : RootKeys, table : [tables -> Ciphers \cup {Nothing}],
                meant : [tables -> Values \cup {Nothing}]] : tables \in SUBSET Tables}

SecretsTypeOK ==
  /\ cipher \in [Tables -> Ciphers \cup {Nothing}]
  /\ active \in RootKeys \cup {Nothing}
  /\ keyAt \in [Places -> RootKeys \cup {Nothing}]
  /\ dump \in [Dumps -> Dump \cup {Nothing}]
  /\ script \in [running : {TRUE}, to : RootKeys, read : [Tables -> Ciphers \cup {Nothing}]]
               \cup {NoScript}
  /\ pending \in RootKeys \cup {Nothing}
  /\ meant \in [Tables -> Values \cup {Nothing}]

(* Every secret of the server opens and is the one that was last written   *)
(* or restored, whatever was rotated, restored or cut short before.        *)
SecretsSurvive ==
  active # Nothing =>
    \A t \in Tables : Opens(cipher[t], active) /\ ValueOf(cipher[t]) = meant[t]

(* The script "is safe to run while the server is stopped (recommended) or *)
(* even live", "both keys are valid until the process restarts with the    *)
(* new key" (rotate-encryption-key.ts): once the server is up with the key *)
(* the operator was told to set, every secret is there.                    *)
RotatedSecretsOpen ==
  active # Nothing /\ active = KeyFound /\ ~script.running /\ pending = Nothing =>
    \A t \in Tables : Opens(cipher[t], active) /\ ValueOf(cipher[t]) = meant[t]
=============================================================================
