--------------------------- MODULE OperatorFiles ---------------------------
(***************************************************************************)
(* The files a node operator keeps in SUPRA_HOME, the commands that write  *)
(* them (profile/mod.rs, profile/migrate.rs, node/identity_rotation), and  *)
(* the validator node that reads them (node/smr_node/run.rs).  A command   *)
(* writes its files one at a time and may stop between two of them: it is  *)
(* killed, or a write fails and `?` returns.  Commands of two terminals    *)
(* interleave; there is no lock.                                           *)
(*                                                                         *)
(* The chain holds the identity registered for the pool of the operator;   *)
(* the committee of the current epoch holds the one it started with.       *)
(***************************************************************************)
EXTENDS Integers, FiniteSets

CONSTANTS
  Terminals,   \* where commands run
  Commands,    \* the commands the operator uses
  Passwords,
  Faults,      \* subset of {"stop", "late"}: a command stops half way; a
               \* transaction is finalized although send_transaction failed
  MaxFresh,    \* bound: identities, profiles and network addresses made
  None

VARIABLES
  profile,     \* the protected profile file: [version, password, format]
  public,      \* the version in the public profile file
  identity,    \* the encrypted identity file: None or [id, password]
  exported,    \* the public identity file: None or an identity
  backups,     \* the identities in the backup files
  chain,       \* the identity on chain: None or an identity
  epoch,       \* the identity in the committee of the epoch
  command,     \* per terminal, the running command
  overlapped,  \* history: commands of two terminals have run at the same time
  node,        \* the validator node
  stores,      \* whether chain_store and ledger hold data
  fresh,       \* keys, addresses and versions made so far
  orphaned,    \* history: fields of the identity whose rotation stopped half way
  stopped,     \* history: the commands that stopped after their first write
  registered,  \* history: the consensus keys generated, or accepted on chain
  stored       \* history: the consensus keys that were in the identity file

Identities == [key : Nat, net : Nat \X Nat]
IdentityFiles == [id : Identities, password : Passwords]

ASSUME NoneAssumption == None \notin IdentityFiles \cup Identities

files == <<profile, public, identity, exported, backups>>
commands == <<command, overlapped>>
history == <<orphaned, stopped, registered, stored>>
vars == <<profile, public, identity, exported, backups, chain, epoch, command, overlapped, node, stores, fresh,
          orphaned, stopped, registered, stored>>

Off == [at |-> "off", password |-> None, dynamic |-> FALSE, id |-> None]
Idle == [at |-> "idle"]

Init ==
  /\ \E p \in Passwords, f \in {"current", "outdated"} : profile = [version |-> 0, password |-> p, format |-> f]
  /\ public = 0 /\ identity = None /\ exported = None /\ backups = {}
  /\ chain = None /\ epoch = None
  /\ command = [t \in Terminals |-> Idle] /\ overlapped = FALSE
  /\ node = Off /\ stores = [chain_store |-> FALSE, ledger |-> FALSE]
  /\ fresh = 0
  /\ orphaned = {} /\ stopped = {} /\ registered = {} /\ stored = {}

At(t, place) == command[t].at = place
Become(t, c) ==
  /\ command' = [command EXCEPT ![t] = c]
  /\ overlapped' = (overlapped \/ \E u \in Terminals \ {t} : ~At(u, "idle"))

\* ProtectedProfileManager::read_or_create: the profile file, decrypted with
\* the password of the operator.  A file in an older format is a SerdeJsonError.
Readable == profile.format = "current"

\* NodeIdentity::from_encrypted_file(password)
Opens(password) == identity # None /\ identity.password = password

Start(t, name) == name \in Commands /\ At(t, "idle")

(***************************************************************************)
(* Profile commands                                                        *)
(***************************************************************************)

\* ProfileTool::New, Activate, Remove and Modify: the profile manager writes
\* the protected file, then the command exports the public one.
EditProfile(t) ==
  /\ Start(t, "profile") /\ Readable /\ fresh < MaxFresh
  /\ fresh' = fresh + 1
  /\ profile' = [profile EXCEPT !.version = fresh + 1]
  /\ Become(t, [at |-> "publish", version |-> fresh + 1])
  /\ UNCHANGED <<public, identity, exported, backups, chain, epoch, node, stores, history>>

\* Migrate: a readable profile is exported again; an outdated one is converted.
Migrate(t) ==
  /\ Start(t, "profile")
  /\ profile' = [profile EXCEPT !.format = "current"]
  /\ Become(t, [at |-> "publish", version |-> profile.version])
  /\ UNCHANGED <<public, identity, exported, backups, chain, epoch, node, stores, fresh, history>>

Publish(t) ==
  /\ At(t, "publish")
  /\ public' = command[t].version
  /\ stopped' = stopped \ {"publish"}
  /\ Become(t, Idle)
  /\ UNCHANGED <<profile, identity, exported, backups, chain, epoch, node, stores, fresh, orphaned, registered, stored>>

\* ResetPassword: the profile file under the new password ...
ResetPassword(t, new) ==
  /\ Start(t, "password") /\ Readable /\ new # profile.password
  /\ profile' = [profile EXCEPT !.password = new]
  /\ Become(t, [at |-> "reopen", old |-> profile.password, new |-> new])
  /\ UNCHANGED <<public, identity, exported, backups, chain, epoch, node, stores, fresh, history>>

\* ... then the identity file, opened with the old one ...
Reopen(t) ==
  /\ At(t, "reopen")
  /\ Become(t, IF Opens(command[t].old)
               THEN [at |-> "reencrypt", id |-> identity.id, new |-> command[t].new]
               ELSE Idle)
  /\ UNCHANGED <<files, chain, epoch, node, stores, fresh, history>>

\* Bug: the identity is encrypted with the old password again.
Reencrypt_old(t) ==
  /\ At(t, "reencrypt")
  /\ identity' = [identity EXCEPT !.id = command[t].id]
  /\ Become(t, Idle)
  /\ UNCHANGED <<profile, public, exported, backups, chain, epoch, node, stores, fresh, history>>

\* ... and written under the new one.
Reencrypt(t) ==
  /\ At(t, "reencrypt")
  /\ identity' = [id |-> command[t].id, password |-> command[t].new]
  /\ Become(t, Idle)
  /\ UNCHANGED <<profile, public, exported, backups, chain, epoch, node, stores, fresh, history>>

(***************************************************************************)
(* The identity of the validator                                           *)
(***************************************************************************)

\* The address options of generate-validator-identity and rotate-network-
\* address: each is absent, well formed or malformed.
AddressOptions == [socket_addr : {None, "ok", "bad"}, dns : {None, "ok", "bad"}]
OneAddress(a) == \/ a.socket_addr = "ok" /\ a.dns = None
                 \/ a.socket_addr = None /\ a.dns = "ok"
NoAddress(a) == a.socket_addr = None /\ a.dns = None

\* GenerateValidatorIdentityArgs::execute.  Operators generate an identity
\* before they register it.
GenerateValidatorIdentity(t, a) ==
  /\ Start(t, "generate") /\ Readable /\ OneAddress(a)
  /\ chain = None /\ fresh < MaxFresh
  /\ fresh' = fresh + 1
  /\ registered' = registered \cup {fresh + 1}
  /\ Become(t, [at |-> "write", field |-> "all", password |-> profile.password,
                id |-> [key |-> fresh + 1, net |-> <<fresh + 1, fresh + 1>>]])
  /\ UNCHANGED <<files, chain, epoch, node, stores, orphaned, stopped, stored>>

\* RotateConsensusKey::execute up to the transaction.
RotateConsensusKey(t) ==
  /\ Start(t, "rotate_key") /\ Readable /\ Opens(profile.password)
  /\ fresh < MaxFresh
  /\ fresh' = fresh + 1
  /\ Become(t, [at |-> "send", field |-> "key", password |-> profile.password,
                id |-> [identity.id EXCEPT !.key = fresh + 1]])
  /\ UNCHANGED <<files, chain, epoch, node, stores, history>>

\* RotateNetworkAddress::execute up to the transaction: a new key, a new
\* address or both, from the one read before.
RotateNetworkAddress(t, a, new_key) ==
  /\ Start(t, "rotate_net") /\ Readable /\ Opens(profile.password)
  /\ OneAddress(a) \/ (NoAddress(a) /\ new_key)
  /\ fresh < MaxFresh
  /\ fresh' = fresh + 1
  /\ LET net == << IF new_key THEN fresh + 1 ELSE identity.id.net[1],
                   IF NoAddress(a) THEN identity.id.net[2] ELSE fresh + 1 >>
     IN Become(t, [at |-> "send", field |-> "net", password |-> profile.password,
                   id |-> [identity.id EXCEPT !.net = net]])
  /\ UNCHANGED <<files, chain, epoch, node, stores, history>>

\* Bug: an error of send_transaction is dropped and the command goes on.
SendTransaction_unchecked(t) ==
  /\ At(t, "send")
  /\ Become(t, [command[t] EXCEPT !.at = "backup"])
  /\ \/ /\ chain # None
        /\ chain' = [chain EXCEPT ![command[t].field] = command[t].id[command[t].field]]
        /\ registered' = registered \cup {command[t].id.key}
     \/ UNCHANGED <<chain, registered>>
  /\ UNCHANGED <<files, epoch, node, stores, fresh, orphaned, stopped, stored>>

\* send_transaction(UntilSuccess): Ok only once the transaction is finalized
\* and succeeded; otherwise `?` returns, and with "late" the transaction may
\* be finalized all the same.
SendTransaction(t) ==
  /\ At(t, "send")
  /\ LET field == command[t].field
         accepted == chain' = [chain EXCEPT ![field] = command[t].id[field]]
                     /\ registered' = registered \cup {command[t].id.key}
     IN \/ /\ chain # None /\ accepted
           /\ Become(t, [command[t] EXCEPT !.at = "backup"])
           /\ UNCHANGED orphaned
        \/ /\ chain # None /\ accepted /\ "late" \in Faults
           /\ Become(t, Idle)
           /\ orphaned' = orphaned \cup {field}
        \/ /\ Become(t, Idle)
           /\ UNCHANGED <<chain, registered, orphaned>>
  /\ UNCHANGED <<files, epoch, node, stores, fresh, stopped, stored>>

\* Bug: the identity is written without a backup of the current file.
Backup_skipped(t) ==
  /\ At(t, "backup")
  /\ Become(t, [command[t] EXCEPT !.at = "write"])
  /\ UNCHANGED <<files, chain, epoch, node, stores, fresh, history>>

\* NodeIdentity::backup
Backup(t) ==
  /\ At(t, "backup")
  /\ backups' = IF identity = None THEN backups ELSE backups \cup {identity.id}
  /\ Become(t, [command[t] EXCEPT !.at = "write"])
  /\ UNCHANGED <<profile, public, identity, exported, chain, epoch, node, stores, fresh, history>>

\* to_encrypted_file: the whole identity, as it was read when the command
\* started, with the new field.
WriteIdentity(t) ==
  /\ At(t, "write")
  /\ identity' = [id |-> command[t].id, password |-> command[t].password]
  /\ orphaned' = orphaned \ (IF command[t].field = "all" THEN {"key", "net"} ELSE {command[t].field})
  /\ stored' = stored \cup {command[t].id.key}
  /\ Become(t, [command[t] EXCEPT !.at = "export"])
  /\ UNCHANGED <<profile, public, exported, backups, chain, epoch, node, stores, fresh, stopped, registered>>

\* to_public_identity().write_to_default_path()
ExportIdentity(t) ==
  /\ At(t, "export")
  /\ exported' = command[t].id
  /\ stopped' = stopped \ {"export"}
  /\ Become(t, Idle)
  /\ UNCHANGED <<profile, public, identity, backups, chain, epoch, node, stores, fresh, orphaned, registered, stored>>

\* The command is killed, or its next step fails.
Stop(t) ==
  /\ "stop" \in Faults /\ ~At(t, "idle")
  /\ stopped' = stopped \cup {command[t].at}
  /\ orphaned' = IF command[t].at \in {"backup", "write"} /\ command[t].field # "all"
                 THEN orphaned \cup {command[t].field} ELSE orphaned
  /\ Become(t, Idle)
  /\ UNCHANGED <<files, chain, epoch, node, stores, fresh, registered, stored>>

(***************************************************************************)
(* The chain and the validator node                                        *)
(***************************************************************************)

\* The operator registers the pool with the public identity that the last
\* command exported.
Register ==
  /\ chain = None /\ exported # None /\ "export" \notin stopped
  /\ \A t \in Terminals : At(t, "idle")
  /\ chain' = exported
  /\ UNCHANGED <<files, epoch, commands, node, stores, fresh, history>>

\* start_validator_node with the password from the prompt or environment.
StartNode(password, resume, dynamic) ==
  /\ "node" \in Commands /\ node.at = "off"
  /\ node' = [at |-> IF resume THEN "load" ELSE "remove_chain_store",
              password |-> password, dynamic |-> dynamic, id |-> None]
  /\ UNCHANGED <<files, chain, epoch, commands, stores, fresh, history>>

\* remove_and_backup_directory of the chain store, then of the ledger.
RemoveChainStore ==
  /\ node.at = "remove_chain_store"
  /\ stores' = [stores EXCEPT !.chain_store = FALSE]
  /\ node' = [node EXCEPT !.at = "remove_ledger"]
  /\ UNCHANGED <<files, chain, epoch, commands, fresh, history>>

RemoveLedger ==
  /\ node.at = "remove_ledger"
  /\ stores' = [stores EXCEPT !.ledger = FALSE]
  /\ node' = [node EXCEPT !.at = "load"]
  /\ UNCHANGED <<files, chain, epoch, commands, fresh, history>>

\* The identity provider opens the identity file, and the node runs.
LoadIdentity ==
  /\ node.at = "load"
  /\ IF Opens(node.password)
     THEN /\ node' = [node EXCEPT !.at = "run", !.id = identity.id]
          /\ stores' = [chain_store |-> TRUE, ledger |-> TRUE]
     ELSE node' = Off /\ UNCHANGED stores
  /\ UNCHANGED <<files, chain, epoch, commands, fresh, history>>

StopNode ==
  /\ node.at # "off"
  /\ node' = Off
  /\ UNCHANGED <<files, chain, epoch, commands, stores, fresh, history>>

\* Bug: the node keeps the identity it started with.
ChangeEpoch_static ==
  /\ chain # None
  /\ epoch' = chain
  /\ UNCHANGED <<files, chain, commands, node, stores, fresh, history>>

\* A new epoch takes the committee from the chain; with the dynamic provider
\* the node reads its identity file again, with the password it started with.
ChangeEpoch ==
  /\ chain # None
  /\ epoch' = chain
  /\ node' = IF node.at = "run" /\ node.dynamic /\ Opens(node.password)
             THEN [node EXCEPT !.id = identity.id] ELSE node
  /\ UNCHANGED <<files, chain, commands, stores, fresh, history>>

Step(t) == Publish(t) \/ Reopen(t) \/ Reencrypt(t) \/ SendTransaction(t)
           \/ Backup(t) \/ WriteIdentity(t) \/ ExportIdentity(t)

Next ==
  \/ \E t \in Terminals :
       \/ EditProfile(t) \/ Migrate(t)
       \/ \E new \in Passwords : ResetPassword(t, new)
       \/ \E a \in AddressOptions : GenerateValidatorIdentity(t, a)
       \/ RotateConsensusKey(t)
       \/ \E a \in AddressOptions, new_key \in BOOLEAN : RotateNetworkAddress(t, a, new_key)
       \/ Publish(t) \/ Reopen(t) \/ Reencrypt(t) \/ SendTransaction(t)
       \/ Backup(t) \/ WriteIdentity(t) \/ ExportIdentity(t)
       \/ Stop(t)
  \/ Register \/ ChangeEpoch
  \/ \E p \in Passwords, resume, dynamic \in BOOLEAN : StartNode(p, resume, dynamic)
  \/ RemoveChainStore \/ RemoveLedger \/ LoadIdentity \/ StopNode

Spec == Init /\ [][Next]_vars

(***************************************************************************)
(* Properties                                                              *)
(***************************************************************************)

Quiet == \A t \in Terminals : At(t, "idle")

\* Whatever stops or interleaves, the identity file never holds a consensus
\* key the chain has not accepted, except one of generate-validator-identity:
\* the key of a rotation is written only after its transaction succeeded.
StoredKeyWasAccepted == identity # None => identity.id.key \in registered

\* As long as commands do not overlap, between commands the identity file holds what
\* the chain has, field by field, unless the last rotation of that field
\* stopped between its transaction and the file: a completed rotation of the
\* field mends it.
ChainIdentityIsStored ==
  ~overlapped /\ Quiet /\ chain # None => \A f \in {"key", "net"} \ orphaned : chain[f] = identity.id[f]

\* The rotations keep the identity file in step with the chain: it holds no key
\* the chain refused and, between commands, what the chain has.
IdentityFollowsChain == StoredKeyWasAccepted /\ ChainIdentityIsStored

\* As long as commands do not overlap, a rotation loses no key: the key of the epoch,
\* once it was in the identity file, is still there or in a backup, wherever
\* the rotation stopped.
EpochKeyIsKept ==
  ~overlapped /\ epoch # None /\ epoch.key \in stored =>
     epoch.key = identity.id.key \/ \E b \in backups : b.key = epoch.key

\* As long as commands do not overlap, between commands the identity file opens with
\* the password of the profile, unless a password reset stopped between the
\* two files.
PasswordsAgree ==
  ~overlapped /\ Quiet /\ identity # None /\ stopped \cap {"reopen", "reencrypt"} = {} => Opens(profile.password)

\* As long as commands do not overlap, the exported files show what the protected
\* files hold; the next command that completes repairs what a stopped one left.
ExportsAreCurrent ==
  ~overlapped /\ Quiet =>
    /\ "publish" \notin stopped => public = profile.version
    /\ "export" \notin stopped /\ identity # None => exported = identity.id

\* A node that starts over removes its ledger last: however often it is
\* stopped, it never resumes a chain store without the ledger.
LedgerIsRemovedLast == stores.chain_store => stores.ledger

\* Files that are written one after the other agree again, wherever a command or
\* a start was stopped, but for what that very stop left open.
FilesAgree == PasswordsAgree /\ ExportsAreCurrent /\ LedgerIsRemovedLast

\* Without stops, a node that keeps running and loading its identity, with a
\* password that opens the identity file, ends up with the consensus key of the
\* committee, though an epoch may begin between the transaction of a rotation
\* and the identity file.
NodeFollowsCommittee ==
  <>[](node.at = "run" /\ node.dynamic /\ Opens(node.password))
    => <>[](epoch # None /\ node.id # None => node.id.key = epoch.key)
============================================================================
