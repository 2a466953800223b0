--------------------------- MODULE OperatorProofs ---------------------------
(***************************************************************************)
(* Proofs about OperatorFiles, for any terminals, passwords, commands and  *)
(* faults, and any number of rotations.                                    *)
(*                                                                         *)
(* Every property speaks of what the files hold between commands; the      *)
(* inductive invariant says what a command carries in memory and what it   *)
(* still owes the files, at each point where it can be stopped.            *)
(***************************************************************************)
EXTENDS OperatorFiles, TLAPS

(***************************************************************************)
(* The inductive invariant                                                 *)
(***************************************************************************)

Fields == {"key", "net"}
Places == {"send", "backup", "write", "export"}
Rotations == [at : Places, field : Fields \cup {"all"}, password : Passwords, id : Identities]
RunningCommands ==
  [at : {"publish"}, version : Nat] \cup [at : {"reopen"}, old : Passwords, new : Passwords]
    \cup [at : {"reencrypt"}, id : Identities, new : Passwords] \cup Rotations

TypeOK ==
  /\ profile \in [version : Nat, password : Passwords, format : {"current", "outdated"}]
  /\ identity \in IdentityFiles \cup {None}
  /\ exported # None => exported \in Identities /\ identity \in IdentityFiles
  /\ chain # None => chain \in Identities /\ identity \in IdentityFiles
  /\ epoch # None => epoch \in Identities /\ chain # None
  /\ command \in [Terminals -> RunningCommands \cup {Idle}]
  /\ fresh \in Nat
  /\ \A k \in stored : k \in Nat /\ k <= fresh
  /\ stores \in [chain_store : BOOLEAN, ledger : BOOLEAN]
  /\ node \in [at : {"off", "remove_chain_store", "remove_ledger", "load", "run"},
               password : Passwords \cup {None}, dynamic : BOOLEAN, id : Identities \cup {None}]

\* What a command holds, whatever runs beside it: a key it may write was
\* accepted, a rotation has a file to replace, and an identity is generated
\* only before there is one on chain.
CarriesAccepted(t) ==
  LET c == command[t]
  IN  /\ c.at \in Places => c.id.key <= fresh
      /\ c.at \in {"backup", "write", "export", "reencrypt"} => c.id.key \in registered
      /\ c.at = "reencrypt" => c.id.key \in stored
      /\ c.at \in {"send", "backup"} => c.field # "all"
      /\ c.at \in {"reencrypt", "export"} => identity \in IdentityFiles
      /\ c.at \in Places /\ c.field # "all" => identity \in IdentityFiles
      /\ c.at \in {"backup", "write"} /\ c.field # "all" => chain # None
      /\ c.at = "write" /\ c.field = "all" => chain = None

\* What the only running command holds: the files are as it read them.
FilesAsRead(t) ==
  LET c == command[t]
  IN  /\ c.at = "publish" => c.version = profile.version
      /\ c.at = "reopen" => /\ c.new = profile.password
                            /\ identity # None /\ stopped \cap {"reopen", "reencrypt"} = {}
                                 => identity.password = c.old
      /\ c.at = "reencrypt" => c.id = identity.id /\ c.new = profile.password
      /\ c.at \in {"send", "backup", "write"} =>
           /\ c.password = profile.password
           /\ c.field = "key" => c.id.net = identity.id.net
           /\ c.field = "net" => c.id.key = identity.id.key
      /\ c.at = "send" /\ c.field = "key" => c.id.key \notin stored
      /\ c.at \in {"backup", "write"} /\ c.field # "all" => chain[c.field] = c.id[c.field]
      /\ c.at = "write" /\ c.field # "all" => identity.id \in backups
      /\ c.at = "export" => c.id = identity.id

Running(place) == \E t \in Terminals : At(t, place)
Rotating(f) == \E t \in Terminals : command[t].at \in {"backup", "write"} /\ command[t].field = f
Kept(key) == key \in stored => key = identity.id.key \/ \E b \in backups : b.key = key

\* What the files hold, but for what the running command still has to write.
FilesInStep ==
  /\ Running("publish") \/ "publish" \in stopped \/ public = profile.version
  /\ Running("export") \/ "export" \in stopped \/ identity = None \/ exported = identity.id
  /\ \/ Running("reopen") \/ Running("reencrypt") \/ stopped \cap {"reopen", "reencrypt"} # {}
     \/ identity = None \/ identity.password = profile.password
  /\ chain # None => \A f \in Fields \ orphaned : Rotating(f) \/ chain[f] = identity.id[f]
  /\ chain # None => Kept(chain.key)
  /\ epoch # None => Kept(epoch.key)

OperatorInv ==
  /\ TypeOK
  /\ identity # None => identity.id.key \in registered /\ identity.id.key \in stored
  /\ \A t \in Terminals : CarriesAccepted(t)
  /\ ~overlapped => FilesInStep /\ \A t \in Terminals : FilesAsRead(t)
  /\ stores.chain_store => stores.ledger
  /\ node.at = "remove_ledger" => ~stores.chain_store

(***************************************************************************)
(* The initial state                                                       *)
(***************************************************************************)

LEMMA OperatorInitHolds == Init => OperatorInv
<1> SUFFICES ASSUME Init PROVE OperatorInv
  OBVIOUS
<1>1. TypeOK
  BY DEF Init, TypeOK, Off
<1>2. \A t \in Terminals : CarriesAccepted(t) /\ FilesAsRead(t)
  BY DEF Init, CarriesAccepted, FilesAsRead, Idle, Places
<1>3. FilesInStep
  BY DEF Init, FilesInStep
<1>4. QED
  BY <1>1, <1>2, <1>3 DEF Init, OperatorInv, Off

(***************************************************************************)
(* A step of a command                                                     *)
(***************************************************************************)

\* What a step of one terminal leaves alone: the other commands carry what they
\* carried, and if commands still have not overlapped, they are idle.
LEMMA Frame ==
  ASSUME OperatorInv, NEW t \in Terminals, Become(t, command'[t]),
         command'[t] \in RunningCommands \cup {Idle},
         fresh' \in Nat, fresh <= fresh', registered \subseteq registered', stored \subseteq stored',
         identity \in IdentityFiles => identity' \in IdentityFiles,
         chain = None <=> chain' = None
  PROVE  /\ command' \in [Terminals -> RunningCommands \cup {Idle}]
         /\ CarriesAccepted(t)' => \A u \in Terminals : CarriesAccepted(u)'
         /\ ~overlapped' /\ FilesAsRead(t)' => \A u \in Terminals : FilesAsRead(u)'
<1>1. /\ command' \in [Terminals -> RunningCommands \cup {Idle}]
      /\ \A u \in Terminals \ {t} : command'[u] = command[u]
  BY DEF OperatorInv, TypeOK, Become
<1>2. ~overlapped' => \A u \in Terminals \ {t} : command'[u].at = "idle"
  BY <1>1, Zenon DEF Become, At
<1>3. ASSUME NEW u \in Terminals \ {t} PROVE CarriesAccepted(u)'
  <2>1. CarriesAccepted(u) /\ command'[u] = command[u] /\ fresh \in Nat
    BY <1>1 DEF OperatorInv, TypeOK
  <2>2. command[u].at \in Places => command[u].id.key \in Nat
    BY DEF OperatorInv, TypeOK, RunningCommands, Rotations, Idle, Places, Identities
  <2>3. QED
    BY <2>1, <2>2 DEF CarriesAccepted, Places
<1>4. ASSUME ~overlapped', NEW u \in Terminals \ {t} PROVE FilesAsRead(u)'
  BY <1>2, <1>4 DEF FilesAsRead
<1>5. QED
  BY <1>1, <1>2, <1>3, <1>4

\* The only terminal that may run a command, and what it then owes the files.
OnlyCommand(t) ==
  /\ \A p \in {"publish", "export", "reopen", "reencrypt"} : Running(p) <=> command[t].at = p
  /\ \A f : Rotating(f) <=> command[t].at \in {"backup", "write"} /\ command[t].field = f

\* As long as commands have not overlapped, the terminal that moves is the only
\* one that runs a command, before the step and after it.
LEMMA Alone ==
  ASSUME OperatorInv, NEW t \in Terminals, Become(t, command'[t]), ~overlapped'
  PROVE  FilesInStep /\ FilesAsRead(t) /\ OnlyCommand(t) /\ OnlyCommand(t)'
<1>1. \A u \in Terminals \ {t} : command'[u] = command[u]
  BY DEF OperatorInv, TypeOK, Become
<1>2. ~overlapped /\ \A u \in Terminals \ {t} : command[u].at = "idle"
  <2>1. overlapped' <=> (overlapped \/ \E u \in Terminals \ {t} : command[u].at # "idle")
    BY Zenon DEF Become, At
  <2>2. QED
    BY <2>1
<1>3. OnlyCommand(t) /\ OnlyCommand(t)'
  BY <1>1, <1>2 DEF OnlyCommand, Running, Rotating, At
<1>4. QED
  BY <1>2, <1>3 DEF OperatorInv

\* What Become does to the command of the terminal.
LEMMA Becomes ==
  ASSUME OperatorInv, NEW t \in Terminals, NEW c, Become(t, c)
  PROVE  command'[t] = c /\ Become(t, command'[t])
BY DEF OperatorInv, TypeOK, Become

\* The shape of a running command, by the point it has reached.
LEMMA CommandShape ==
  ASSUME TypeOK, NEW t \in Terminals
  PROVE  /\ command[t].at = "publish" => command[t].version \in Nat
         /\ command[t].at = "reopen" => command[t].old \in Passwords /\ command[t].new \in Passwords
         /\ command[t].at = "reencrypt" => command[t].id \in Identities /\ command[t].new \in Passwords
         /\ command[t].at \in Places => command[t] \in Rotations
BY DEF TypeOK, RunningCommands, Rotations, Places, Idle

LEMMA EditProfileKeeps ==
  ASSUME OperatorInv, NEW t \in Terminals, EditProfile(t)
  PROVE  OperatorInv'
<1>1. /\ command'[t] = [at |-> "publish", version |-> fresh + 1]
      /\ command[t].at = "idle"
      /\ Become(t, command'[t])
  BY Becomes DEF EditProfile, Start, At
<1>2. /\ command' \in [Terminals -> RunningCommands \cup {Idle}]
      /\ CarriesAccepted(t)' => \A u \in Terminals : CarriesAccepted(u)'
      /\ ~overlapped' /\ FilesAsRead(t)' => \A u \in Terminals : FilesAsRead(u)'
  <2>1. command'[t] \in RunningCommands
    BY <1>1 DEF EditProfile, OperatorInv, TypeOK, RunningCommands
  <2>2. QED
    BY <1>1, <2>1, Frame DEF EditProfile, files, history, OperatorInv, TypeOK
<1>3. TypeOK'
  BY <1>1, <1>2 DEF EditProfile, files, history, OperatorInv, TypeOK
<1>4. CarriesAccepted(t)'
  BY <1>1 DEF EditProfile, CarriesAccepted, Idle, Places, files, history, OperatorInv, TypeOK
<1>5. ASSUME ~overlapped' PROVE FilesAsRead(t)' /\ FilesInStep'
  <2>0. FilesInStep /\ FilesAsRead(t) /\ OnlyCommand(t) /\ OnlyCommand(t)'
    BY <1>1, <1>5, Alone
  <2>1. /\ FilesInStep /\ FilesAsRead(t)
        /\ \A f : ~Rotating(f) /\ Running("publish")'
        /\ ~Running("export") /\ ~Running("reopen") /\ ~Running("reencrypt")
    BY <1>1, <2>0 DEF OnlyCommand
  <2>2. FilesAsRead(t)'
    BY <1>1, <2>1 DEF EditProfile, files, history, OperatorInv, FilesInStep, FilesAsRead, TypeOK
  <2>3. QED
    BY <1>1, <2>1, <2>2 DEF EditProfile, files, history, OperatorInv, FilesInStep, FilesAsRead, TypeOK, Kept
<1>6. QED
  BY <1>2, <1>3, <1>4, <1>5 DEF EditProfile, files, history, OperatorInv

LEMMA MigrateKeeps ==
  ASSUME OperatorInv, NEW t \in Terminals, Migrate(t)
  PROVE  OperatorInv'
<1>1. /\ command'[t] = [at |-> "publish", version |-> profile.version]
      /\ command[t].at = "idle"
      /\ Become(t, command'[t])
  BY Becomes DEF Migrate, Start, At
<1>2. /\ command' \in [Terminals -> RunningCommands \cup {Idle}]
      /\ CarriesAccepted(t)' => \A u \in Terminals : CarriesAccepted(u)'
      /\ ~overlapped' /\ FilesAsRead(t)' => \A u \in Terminals : FilesAsRead(u)'
  <2>1. command'[t] \in RunningCommands
    BY <1>1 DEF Migrate, OperatorInv, TypeOK, RunningCommands
  <2>2. QED
    BY <1>1, <2>1, Frame DEF Migrate, files, history, OperatorInv, TypeOK
<1>3. TypeOK'
  BY <1>1, <1>2 DEF Migrate, files, history, OperatorInv, TypeOK
<1>4. CarriesAccepted(t)'
  BY <1>1 DEF Migrate, CarriesAccepted, Idle, Places, files, history, OperatorInv, TypeOK
<1>5. ASSUME ~overlapped' PROVE FilesAsRead(t)' /\ FilesInStep'
  <2>0. FilesInStep /\ FilesAsRead(t) /\ OnlyCommand(t) /\ OnlyCommand(t)'
    BY <1>1, <1>5, Alone
  <2>1. /\ FilesInStep /\ FilesAsRead(t)
        /\ \A f : ~Rotating(f) /\ Running("publish")'
        /\ ~Running("export") /\ ~Running("reopen") /\ ~Running("reencrypt")
    BY <1>1, <2>0 DEF OnlyCommand
  <2>2. FilesAsRead(t)'
    BY <1>1, <2>1 DEF Migrate, files, history, OperatorInv, FilesInStep, FilesAsRead, TypeOK
  <2>3. QED
    BY <1>1, <2>1, <2>2 DEF Migrate, files, history, OperatorInv, FilesInStep, FilesAsRead, TypeOK, Kept
<1>6. QED
  BY <1>2, <1>3, <1>4, <1>5 DEF Migrate, files, history, OperatorInv

LEMMA PublishKeeps ==
  ASSUME OperatorInv, NEW t \in Terminals, Publish(t)
  PROVE  OperatorInv'
<1>1. /\ command'[t] = Idle
      /\ command[t].at = "publish"
      /\ Become(t, command'[t])
  BY Becomes DEF Publish, At
<1>2. /\ command' \in [Terminals -> RunningCommands \cup {Idle}]
      /\ CarriesAccepted(t)' => \A u \in Terminals : CarriesAccepted(u)'
      /\ ~overlapped' /\ FilesAsRead(t)' => \A u \in Terminals : FilesAsRead(u)'
  <2>1. command'[t] \in RunningCommands \cup {Idle}
    BY <1>1 DEF Publish, OperatorInv, TypeOK, RunningCommands
  <2>2. QED
    BY <1>1, <2>1, Frame DEF Publish, files, history, OperatorInv, TypeOK
<1>3. TypeOK'
  BY <1>1, <1>2 DEF Publish, files, history, OperatorInv, TypeOK
<1>4. CarriesAccepted(t)'
  BY <1>1 DEF Publish, CarriesAccepted, Idle, Places, files, history, OperatorInv, TypeOK
<1>5. ASSUME ~overlapped' PROVE FilesAsRead(t)' /\ FilesInStep'
  <2>0. FilesInStep /\ FilesAsRead(t) /\ OnlyCommand(t) /\ OnlyCommand(t)'
    BY <1>1, <1>5, Alone
  <2>1. /\ FilesInStep /\ FilesAsRead(t)
        /\ \A f : ~Rotating(f)
        /\ ~Running("export") /\ ~Running("reopen") /\ ~Running("reencrypt")
    BY <1>1, <2>0 DEF OnlyCommand, Idle
  <2>2. FilesAsRead(t)'
    BY <1>1, <2>1 DEF Publish, files, history, OperatorInv, FilesInStep, FilesAsRead, TypeOK, Idle
  <2>3. QED
    BY <1>1, <2>1, <2>2 DEF Publish, files, history, OperatorInv, FilesInStep, FilesAsRead, TypeOK, Kept
<1>6. QED
  BY <1>2, <1>3, <1>4, <1>5 DEF Publish, files, history, OperatorInv

LEMMA ResetPasswordKeeps ==
  ASSUME OperatorInv, NEW t \in Terminals, NEW new \in Passwords, ResetPassword(t, new)
  PROVE  OperatorInv'
<1>1. /\ command'[t] = [at |-> "reopen", old |-> profile.password, new |-> new]
      /\ command[t].at = "idle"
      /\ Become(t, command'[t])
  BY Becomes DEF ResetPassword, Start, At
<1>2. /\ command' \in [Terminals -> RunningCommands \cup {Idle}]
      /\ CarriesAccepted(t)' => \A u \in Terminals : CarriesAccepted(u)'
      /\ ~overlapped' /\ FilesAsRead(t)' => \A u \in Terminals : FilesAsRead(u)'
  <2>1. command'[t] \in RunningCommands
    BY <1>1 DEF ResetPassword, OperatorInv, TypeOK, RunningCommands
  <2>2. QED
    BY <1>1, <2>1, Frame DEF ResetPassword, files, history, OperatorInv, TypeOK
<1>3. TypeOK'
  BY <1>1, <1>2 DEF ResetPassword, files, history, OperatorInv, TypeOK
<1>4. CarriesAccepted(t)'
  BY <1>1 DEF ResetPassword, CarriesAccepted, Idle, Places, files, history, OperatorInv, TypeOK
<1>5. ASSUME ~overlapped' PROVE FilesAsRead(t)' /\ FilesInStep'
  <2>0. FilesInStep /\ FilesAsRead(t) /\ OnlyCommand(t) /\ OnlyCommand(t)'
    BY <1>1, <1>5, Alone
  <2>1. /\ FilesInStep /\ FilesAsRead(t)
        /\ \A f : ~Rotating(f) /\ Running("reopen")'
        /\ ~Running("publish") /\ ~Running("export") /\ ~Running("reopen") /\ ~Running("reencrypt")
    BY <1>1, <2>0 DEF OnlyCommand
  <2>2. FilesAsRead(t)'
    BY <1>1, <2>1 DEF ResetPassword, files, history, OperatorInv, FilesInStep, FilesAsRead, TypeOK
  <2>3. QED
    BY <1>1, <2>1, <2>2 DEF ResetPassword, files, history, OperatorInv, FilesInStep, FilesAsRead, TypeOK, Kept
<1>6. QED
  BY <1>2, <1>3, <1>4, <1>5 DEF ResetPassword, files, history, OperatorInv

LEMMA GenerateValidatorIdentityKeeps ==
  ASSUME OperatorInv, NEW t \in Terminals, NEW a \in AddressOptions, GenerateValidatorIdentity(t, a)
  PROVE  OperatorInv'
<1>1. /\ command'[t] = [at |-> "write", field |-> "all", password |-> profile.password,
                        id |-> [key |-> fresh + 1, net |-> <<fresh + 1, fresh + 1>>]]
      /\ command[t].at = "idle" /\ Become(t, command'[t])
  BY Becomes DEF GenerateValidatorIdentity, Start, At
<1>2. /\ command'[t] \in Rotations /\ command'[t].at = "write" /\ command'[t].field = "all"
      /\ command'[t].password = profile.password /\ command'[t].id.key = fresh + 1
      /\ fresh \in Nat /\ fresh' = fresh + 1 /\ registered' = registered \cup {fresh + 1}
      /\ chain = None /\ UNCHANGED <<files, chain, epoch, node, stores, orphaned, stopped, stored>>
  BY <1>1 DEF GenerateValidatorIdentity, Rotations, Places, Identities, OperatorInv, TypeOK
<1>3. /\ command' \in [Terminals -> RunningCommands \cup {Idle}]
      /\ CarriesAccepted(t)' => \A u \in Terminals : CarriesAccepted(u)'
      /\ ~overlapped' /\ FilesAsRead(t)' => \A u \in Terminals : FilesAsRead(u)'
  <2>1. command'[t] \in RunningCommands
    BY <1>2 DEF RunningCommands
  <2>2. /\ fresh' \in Nat /\ fresh <= fresh' /\ UNCHANGED <<identity, chain, stored>>
        /\ registered \subseteq registered'
    BY <1>2 DEF files
  <2>3. QED
    BY <1>1, <2>1, <2>2, Frame
<1>4. TypeOK'
  <2>1. fresh' \in Nat /\ \A k \in stored' : k \in Nat /\ k <= fresh'
    BY <1>2 DEF OperatorInv, TypeOK
  <2>2. UNCHANGED <<profile, identity, exported, chain, epoch, node, stores>>
    BY <1>2 DEF files
  <2>3. QED
    BY <1>3, <2>1, <2>2 DEF OperatorInv, TypeOK
<1>5. CarriesAccepted(t)' /\ FilesAsRead(t)'
  <2>1. profile' = profile /\ chain' = None /\ fresh' = fresh + 1 /\ fresh \in Nat /\ fresh + 1 \in registered'
    BY <1>2 DEF files
  <2>2. /\ command'[t].at = "write" /\ command'[t].field = "all" /\ command'[t].id.key = fresh + 1
        /\ command'[t].password = profile.password
    BY <1>2
  <2>3. QED
    BY <2>1, <2>2 DEF CarriesAccepted, FilesAsRead
<1>6. ASSUME ~overlapped' PROVE FilesInStep'
  <2>1. FilesInStep /\ FilesAsRead(t) /\ OnlyCommand(t) /\ OnlyCommand(t)'
    BY <1>1, <1>6, Alone
  <2>2. ~Running("publish") /\ ~Running("export") /\ ~Running("reopen") /\ ~Running("reencrypt")
    BY <1>1, <2>1 DEF OnlyCommand
  <2>3. epoch = None
    BY <1>2 DEF OperatorInv, TypeOK
  <2>4. QED
    BY <1>2, <2>1, <2>2, <2>3 DEF FilesInStep, files
<1>7. QED
  BY <1>2, <1>3, <1>4, <1>5, <1>6 DEF files, OperatorInv

LEMMA ReopenKeeps ==
  ASSUME OperatorInv, NEW t \in Terminals, Reopen(t)
  PROVE  OperatorInv'
<1>1. /\ command[t].at = "reopen" /\ Become(t, command'[t])
      /\ \/ /\ Opens(command[t].old) /\ identity \in IdentityFiles
            /\ command'[t] = [at |-> "reencrypt", id |-> identity.id, new |-> command[t].new]
         \/ ~Opens(command[t].old) /\ command'[t] = Idle
  BY Becomes DEF Reopen, At, Opens, OperatorInv, TypeOK
<1>2. /\ command' \in [Terminals -> RunningCommands \cup {Idle}]
      /\ CarriesAccepted(t)' => \A u \in Terminals : CarriesAccepted(u)'
      /\ ~overlapped' /\ FilesAsRead(t)' => \A u \in Terminals : FilesAsRead(u)'
  <2>1. command'[t] \in RunningCommands \cup {Idle}
    BY <1>1, CommandShape DEF OperatorInv, RunningCommands, IdentityFiles
  <2>2. /\ fresh' \in Nat /\ fresh <= fresh' /\ UNCHANGED <<identity, chain, registered, stored>>
    BY DEF Reopen, files, history, OperatorInv, TypeOK
  <2>3. QED
    BY <1>1, <2>1, <2>2, Frame
<1>3. TypeOK'
  BY <1>2 DEF Reopen, files, history, OperatorInv, TypeOK
<1>4. CarriesAccepted(t)'
  BY <1>1 DEF Reopen, files, history, Opens, CarriesAccepted, Idle, Places, OperatorInv
<1>5. ASSUME ~overlapped' PROVE FilesAsRead(t)' /\ FilesInStep'
  <2>0. FilesInStep /\ FilesAsRead(t) /\ OnlyCommand(t) /\ OnlyCommand(t)'
    BY <1>1, <1>5, Alone
  <2>1. /\ FilesInStep /\ FilesAsRead(t) /\ \A f : ~Rotating(f)
        /\ ~Running("publish") /\ ~Running("export")
        /\ Running("reencrypt")' \/ command'[t] = Idle
    BY <1>1, <2>0 DEF OnlyCommand
  <2>2. FilesAsRead(t)'
    BY <1>1, <2>1 DEF Reopen, files, history, FilesAsRead, Idle
  <2>3. \/ Running("reencrypt")' \/ stopped \cap {"reopen", "reencrypt"} # {}
        \/ identity = None \/ identity.password = profile.password
    <3>1. CASE Running("reencrypt")'
      BY <3>1
    <3>2. CASE command'[t] = Idle
      <4>1. ~Opens(command[t].old)
        BY <1>1, <3>2 DEF Idle
      <4>2. QED
        BY <1>1, <2>1, <4>1 DEF FilesAsRead, Opens
    <3>3. QED
      BY <2>1, <3>1, <3>2
  <2>4. QED
    BY <2>1, <2>2, <2>3 DEF Reopen, files, history, FilesInStep, Kept
<1>6. QED
  BY <1>2, <1>3, <1>4, <1>5 DEF Reopen, files, history, OperatorInv

LEMMA ReencryptKeeps ==
  ASSUME OperatorInv, NEW t \in Terminals, Reencrypt(t)
  PROVE  OperatorInv'
<1>1. command[t].at = "reencrypt" /\ Become(t, command'[t]) /\ command'[t] = Idle
  BY Becomes DEF Reencrypt, At
<1>2. /\ identity' \in IdentityFiles /\ identity \in IdentityFiles
      /\ identity'.id = command[t].id /\ identity'.password = command[t].new
      /\ command[t].id.key \in registered /\ command[t].id.key \in stored
  BY <1>1, CommandShape DEF Reencrypt, IdentityFiles, OperatorInv, CarriesAccepted
<1>3. /\ command' \in [Terminals -> RunningCommands \cup {Idle}]
      /\ CarriesAccepted(t)' => \A u \in Terminals : CarriesAccepted(u)'
      /\ ~overlapped' /\ FilesAsRead(t)' => \A u \in Terminals : FilesAsRead(u)'
  <2>1. /\ fresh' \in Nat /\ fresh <= fresh' /\ UNCHANGED <<chain, registered, stored>>
    BY DEF Reencrypt, history, OperatorInv, TypeOK
  <2>2. QED
    BY <1>1, <1>2, <2>1, Frame
<1>4. TypeOK'
  BY <1>2, <1>3 DEF Reencrypt, history, OperatorInv, TypeOK
<1>5. CarriesAccepted(t)' /\ FilesAsRead(t)'
  BY <1>1 DEF CarriesAccepted, FilesAsRead, Idle, Places
<1>6. ASSUME ~overlapped' PROVE FilesInStep'
  <2>0. FilesInStep /\ FilesAsRead(t) /\ OnlyCommand(t) /\ OnlyCommand(t)'
    BY <1>1, <1>6, Alone
  <2>1. /\ FilesInStep /\ FilesAsRead(t) /\ \A f : ~Rotating(f)
        /\ ~Running("publish") /\ ~Running("export")
    BY <1>1, <2>0 DEF OnlyCommand
  <2>2. identity'.id = identity.id /\ identity'.password = profile.password
    BY <1>1, <1>2, <2>1 DEF FilesAsRead
  <2>3. QED
    BY NoneAssumption, <1>2, <2>1, <2>2 DEF Reencrypt, history, FilesInStep, Kept, OperatorInv, TypeOK
<1>7. QED
  BY <1>2, <1>3, <1>4, <1>5, <1>6 DEF Reencrypt, history, OperatorInv

LEMMA RotateConsensusKeyKeeps ==
  ASSUME OperatorInv, NEW t \in Terminals, RotateConsensusKey(t)
  PROVE  OperatorInv'
<1> DEFINE c == [at |-> "send", field |-> "key", password |-> profile.password,
                 id |-> [identity.id EXCEPT !.key = fresh + 1]]
<1>1. /\ command[t].at = "idle" /\ Become(t, command'[t]) /\ command'[t] = c
      /\ identity \in IdentityFiles
  BY Becomes DEF RotateConsensusKey, Start, At, Opens, OperatorInv, TypeOK
<1>2. /\ c \in Rotations /\ c.id.key = fresh + 1 /\ c.id.net = identity.id.net
      /\ c.password = profile.password /\ fresh' = fresh + 1 /\ fresh \in Nat
  BY <1>1 DEF RotateConsensusKey, IdentityFiles, Identities, Rotations, Places, Fields, OperatorInv, TypeOK
<1>3. /\ command' \in [Terminals -> RunningCommands \cup {Idle}]
      /\ CarriesAccepted(t)' => \A u \in Terminals : CarriesAccepted(u)'
      /\ ~overlapped' /\ FilesAsRead(t)' => \A u \in Terminals : FilesAsRead(u)'
  <2>1. command'[t] \in RunningCommands
    BY <1>1, <1>2 DEF RunningCommands
  <2>2. QED
    BY <1>1, <1>2, <2>1, Frame DEF RotateConsensusKey, files, history
<1>4. TypeOK'
  BY <1>2, <1>3 DEF RotateConsensusKey, files, history, OperatorInv, TypeOK
<1>5. CarriesAccepted(t)' /\ FilesAsRead(t)'
  BY <1>1, <1>2 DEF CarriesAccepted, FilesAsRead, RotateConsensusKey, files, history, OperatorInv, TypeOK
<1>6. ASSUME ~overlapped' PROVE FilesInStep'
  <2>0. FilesInStep /\ FilesAsRead(t) /\ OnlyCommand(t) /\ OnlyCommand(t)'
    BY <1>1, <1>6, Alone
  <2>1. /\ FilesInStep /\ \A f : ~Rotating(f)
        /\ ~Running("publish") /\ ~Running("export") /\ ~Running("reopen") /\ ~Running("reencrypt")
    BY <1>1, <2>0 DEF OnlyCommand
  <2>2. QED
    BY <2>1 DEF RotateConsensusKey, files, history, FilesInStep, Kept
<1>7. QED
  BY <1>3, <1>4, <1>5, <1>6 DEF RotateConsensusKey, files, history, OperatorInv

LEMMA RotateNetworkAddressKeeps ==
  ASSUME OperatorInv, NEW t \in Terminals, NEW a \in AddressOptions, NEW new_key \in BOOLEAN,
         RotateNetworkAddress(t, a, new_key)
  PROVE  OperatorInv'
<1> DEFINE net == << IF new_key THEN fresh + 1 ELSE identity.id.net[1],
                     IF NoAddress(a) THEN identity.id.net[2] ELSE fresh + 1 >>
           c == [at |-> "send", field |-> "net", password |-> profile.password,
                 id |-> [identity.id EXCEPT !.net = net]]
<1>1. /\ command[t].at = "idle" /\ Become(t, command'[t]) /\ command'[t] = c
      /\ identity \in IdentityFiles
  BY Becomes DEF RotateNetworkAddress, Start, At, Opens, OperatorInv, TypeOK
<1>2. /\ c \in Rotations /\ c.id.key = identity.id.key
      /\ c.password = profile.password /\ fresh' = fresh + 1 /\ fresh \in Nat
  <2>1. net \in Nat \X Nat
    BY <1>1 DEF IdentityFiles, Identities, OperatorInv, TypeOK
  <2>2. QED
    BY <1>1, <2>1 DEF RotateNetworkAddress, IdentityFiles, Identities, Rotations, Places, Fields, OperatorInv, TypeOK
<1> HIDE DEF net
<1>3. /\ command' \in [Terminals -> RunningCommands \cup {Idle}]
      /\ CarriesAccepted(t)' => \A u \in Terminals : CarriesAccepted(u)'
      /\ ~overlapped' /\ FilesAsRead(t)' => \A u \in Terminals : FilesAsRead(u)'
  <2>1. command'[t] \in RunningCommands
    BY <1>1, <1>2 DEF RunningCommands
  <2>2. QED
    BY <1>1, <1>2, <2>1, Frame DEF RotateNetworkAddress, files, history
<1>4. TypeOK'
  BY <1>2, <1>3 DEF RotateNetworkAddress, files, history, OperatorInv, TypeOK
<1>5. CarriesAccepted(t)' /\ FilesAsRead(t)'
  <2>1. identity.id.key \in stored /\ identity.id.key <= fresh + 1
    BY <1>1, <1>2, NoneAssumption DEF OperatorInv, TypeOK
  <2>2. QED
    BY <1>1, <1>2, <2>1 DEF CarriesAccepted, FilesAsRead, RotateNetworkAddress, files, history, OperatorInv, TypeOK
<1>6. ASSUME ~overlapped' PROVE FilesInStep'
  <2>0. FilesInStep /\ FilesAsRead(t) /\ OnlyCommand(t) /\ OnlyCommand(t)'
    BY <1>1, <1>6, Alone
  <2>1. /\ FilesInStep /\ \A f : ~Rotating(f)
        /\ ~Running("publish") /\ ~Running("export") /\ ~Running("reopen") /\ ~Running("reencrypt")
    BY <1>1, <2>0 DEF OnlyCommand
  <2>2. QED
    BY <2>1 DEF RotateNetworkAddress, files, history, FilesInStep, Kept
<1>7. QED
  BY <1>3, <1>4, <1>5, <1>6 DEF RotateNetworkAddress, files, history, OperatorInv

\* send_transaction, whatever it returns.
LEMMA SendTransactionKeeps ==
  ASSUME OperatorInv, NEW t \in Terminals, SendTransaction(t)
  PROVE  OperatorInv'
<1> DEFINE field == command[t].field
           accepted == /\ chain # None
                       /\ chain' = [chain EXCEPT ![field] = command[t].id[field]]
                       /\ registered' = registered \cup {command[t].id.key}
           goes_on == command'[t] = [command[t] EXCEPT !.at = "backup"] /\ orphaned' = orphaned
           late == command'[t] = Idle /\ orphaned' = orphaned \cup {field}
<1>1. /\ command[t].at = "send" /\ Become(t, command'[t])
      /\ \/ accepted /\ goes_on
         \/ accepted /\ late
         \/ command'[t] = Idle /\ UNCHANGED <<chain, registered, orphaned>>
  BY Becomes DEF SendTransaction, At
<1>2. /\ command[t] \in Rotations /\ field \in Fields /\ command[t].id \in Identities
      /\ identity \in IdentityFiles
  BY <1>1, CommandShape DEF OperatorInv, CarriesAccepted, Places, Rotations, Fields
<1>3. accepted => /\ chain' \in Identities /\ chain' # None /\ chain'[field] = command[t].id[field]
                  /\ \A g \in Fields \ {field} : chain'[g] = chain[g]
  <2>1. SUFFICES ASSUME accepted, chain \in Identities
        PROVE /\ chain' \in Identities /\ chain' # None /\ chain'[field] = command[t].id[field]
              /\ \A g \in Fields \ {field} : chain'[g] = chain[g]
    BY DEF OperatorInv, TypeOK
  <2>2. QED
    <3>1. chain' = [chain EXCEPT ![field] = command[t].id[field]]
      BY <2>1
    <3> HIDE DEF field, accepted
    <3>2. /\ chain' \in Identities /\ chain'[field] = command[t].id[field]
          /\ \A g \in Fields \ {field} : chain'[g] = chain[g]
      <4>1. CASE field = "key"
        BY <1>2, <2>1, <3>1, <4>1 DEF Identities, Fields
      <4>2. CASE field = "net"
        BY <1>2, <2>1, <3>1, <4>2 DEF Identities, Fields
      <4>3. QED
        BY <1>2, <4>1, <4>2 DEF Fields
    <3>3. QED
      BY <3>2, NoneAssumption
<1> HIDE DEF accepted
<1>4. /\ chain = None <=> chain' = None
      /\ registered \subseteq registered'
      /\ chain # None => chain \in Identities
      /\ chain' # None => chain' \in Identities
  BY <1>1, <1>3 DEF OperatorInv, TypeOK, accepted
<1>5. goes_on => command'[t] \in Rotations /\ command'[t].at = "backup" /\ command'[t].field = field
                  /\ command'[t].id = command[t].id /\ command'[t].password = command[t].password
  BY <1>2 DEF Rotations, Places
<1>6. /\ command' \in [Terminals -> RunningCommands \cup {Idle}]
      /\ CarriesAccepted(t)' => \A u \in Terminals : CarriesAccepted(u)'
      /\ ~overlapped' /\ FilesAsRead(t)' => \A u \in Terminals : FilesAsRead(u)'
  <2>1. command'[t] \in RunningCommands \cup {Idle}
    BY <1>1, <1>5 DEF RunningCommands
  <2>2. QED
    BY <1>1, <1>4, <2>1, Frame DEF SendTransaction, files, OperatorInv, TypeOK
<1>7. TypeOK'
  BY <1>2, <1>4, <1>6 DEF SendTransaction, files, OperatorInv, TypeOK
<1>8. CarriesAccepted(t)'
  <2>1. CASE command'[t] = Idle
    BY <2>1 DEF CarriesAccepted, Idle, Places
  <2>2. CASE accepted /\ goes_on
    <3>1. CarriesAccepted(t)
      BY DEF OperatorInv
    <3>2. QED
      BY <1>1, <1>2, <1>3, <1>5, <2>2, <3>1
      DEF CarriesAccepted, Places, Fields, SendTransaction, files, accepted
  <2>3. QED
    BY <1>1, <2>1, <2>2
<1>9. ASSUME ~overlapped' PROVE FilesAsRead(t)' /\ FilesInStep'
  <2>0. FilesInStep /\ FilesAsRead(t) /\ OnlyCommand(t) /\ OnlyCommand(t)'
    BY <1>1, <1>9, Alone
  <2>1. /\ FilesInStep /\ FilesAsRead(t) /\ \A f : ~Rotating(f)
        /\ ~Running("publish") /\ ~Running("export") /\ ~Running("reopen") /\ ~Running("reencrypt")
        /\ \A f : Rotating(f)' <=> command'[t].at \in {"backup", "write"} /\ command'[t].field = f
    BY <1>1, <2>0 DEF OnlyCommand
  <2>2. FilesAsRead(t)'
    <3>1. CASE command'[t] = Idle
      BY <3>1 DEF FilesAsRead, Idle
    <3>2. CASE accepted /\ goes_on
      BY <1>1, <1>2, <1>3, <1>5, <2>1, <3>2 DEF FilesAsRead, SendTransaction, files
    <3>3. QED
      BY <1>1, <3>1, <3>2
  <2>3. chain' # None => \A f \in Fields \ orphaned' : Rotating(f)' \/ chain'[f] = identity'.id[f]
    <3>1. CASE UNCHANGED <<chain, orphaned>> /\ command'[t] = Idle
      BY <2>1, <3>1 DEF FilesInStep, SendTransaction, files
    <3>2. CASE accepted /\ goes_on
      <4>1. Rotating(field)'
        BY <1>5, <2>1, <3>2
      <4>2. QED
        BY <1>3, <2>1, <3>2, <4>1 DEF FilesInStep, SendTransaction, files, accepted
    <3>3. CASE accepted /\ late
      BY <1>3, <2>1, <3>3 DEF FilesInStep, SendTransaction, files, accepted
    <3>4. QED
      BY <1>1, <3>1, <3>2, <3>3
  <2>4. chain' # None => Kept(chain.key)'
    <3>1. CASE chain' = chain
      BY <2>1, <3>1 DEF FilesInStep, Kept, SendTransaction, files
    <3>2. CASE accepted /\ field = "key"
      BY <1>1, <1>3, <2>1, <3>2 DEF FilesAsRead, Kept, SendTransaction, files
    <3>3. CASE accepted /\ field = "net"
      <4>1. chain'.key = chain.key
        BY <1>3, <3>3 DEF Fields
      <4>2. QED
        BY <2>1, <3>3, <4>1 DEF FilesInStep, Kept, SendTransaction, files, accepted
    <3>4. QED
      BY <1>1, <1>2, <3>1, <3>2, <3>3 DEF Fields
  <2>5. QED
    BY <2>1, <2>2, <2>3, <2>4 DEF FilesInStep, Kept, SendTransaction, files
<1>10. QED
  BY <1>4, <1>6, <1>7, <1>8, <1>9 DEF SendTransaction, files, OperatorInv

LEMMA BackupKeeps ==
  ASSUME OperatorInv, NEW t \in Terminals, Backup(t)
  PROVE  OperatorInv'
<1>1. /\ command[t].at = "backup" /\ Become(t, command'[t])
      /\ command'[t] = [command[t] EXCEPT !.at = "write"]
  BY Becomes DEF Backup, At
<1>2. /\ command[t] \in Rotations /\ command[t].field \in Fields
      /\ identity \in IdentityFiles /\ identity # None /\ chain # None
      /\ command[t].id.key <= fresh /\ command[t].id.key \in registered
  BY <1>1, CommandShape, NoneAssumption DEF OperatorInv, CarriesAccepted, Places, Rotations, Fields
<1>3. /\ command'[t] \in Rotations /\ command'[t].at = "write" /\ command'[t].field = command[t].field
      /\ command'[t].id = command[t].id /\ command'[t].password = command[t].password
  BY <1>1, <1>2 DEF Rotations, Places
<1>4. /\ command' \in [Terminals -> RunningCommands \cup {Idle}]
      /\ CarriesAccepted(t)' => \A u \in Terminals : CarriesAccepted(u)'
      /\ ~overlapped' /\ FilesAsRead(t)' => \A u \in Terminals : FilesAsRead(u)'
  <2>1. command'[t] \in RunningCommands
    BY <1>3 DEF RunningCommands
  <2>2. QED
    BY <1>1, <2>1, Frame DEF Backup, history, OperatorInv, TypeOK
<1>5. TypeOK'
  BY <1>4 DEF Backup, history, OperatorInv, TypeOK
<1>6. CarriesAccepted(t)'
  BY <1>2, <1>3 DEF CarriesAccepted, Fields, Backup, history
<1>7. ASSUME ~overlapped' PROVE FilesAsRead(t)' /\ FilesInStep'
  <2>0. FilesInStep /\ FilesAsRead(t) /\ OnlyCommand(t) /\ OnlyCommand(t)'
    BY <1>1, <1>7, Alone
  <2>1. /\ FilesInStep /\ FilesAsRead(t)
        /\ ~Running("publish") /\ ~Running("export") /\ ~Running("reopen") /\ ~Running("reencrypt")
        /\ \A f : Rotating(f)' <=> Rotating(f)
    BY <1>1, <1>3, <2>0 DEF OnlyCommand
  <2>2. FilesAsRead(t)'
    BY <1>1, <1>2, <1>3, <2>1 DEF FilesAsRead, Backup, history
  <2>3. QED
    BY <2>1, <2>2 DEF FilesInStep, Kept, Backup, history
<1>8. QED
  BY <1>4, <1>5, <1>6, <1>7 DEF Backup, history, OperatorInv

LEMMA WriteIdentityKeeps ==
  ASSUME OperatorInv, NEW t \in Terminals, WriteIdentity(t)
  PROVE  OperatorInv'
<1>1. /\ command[t].at = "write" /\ Become(t, command'[t])
      /\ command'[t] = [command[t] EXCEPT !.at = "export"]
  BY Becomes DEF WriteIdentity, At
<1>2. /\ command[t] \in Rotations /\ command[t].id.key \in Nat
      /\ command[t].id.key <= fresh /\ command[t].id.key \in registered
      /\ command[t].field \in Fields => identity \in IdentityFiles /\ identity # None /\ chain # None
      /\ command[t].field \notin Fields => command[t].field = "all" /\ chain = None
  <2>1. command[t] \in Rotations /\ CarriesAccepted(t)
    BY <1>1, CommandShape DEF OperatorInv, Places
  <2>2. QED
    BY <1>1, <2>1, NoneAssumption DEF CarriesAccepted, Places, Rotations, Fields, Identities
<1>3. /\ command'[t] \in Rotations /\ command'[t].at = "export" /\ command'[t].field = command[t].field
      /\ command'[t].id = command[t].id /\ command'[t].password = command[t].password
      /\ identity' \in IdentityFiles /\ identity' # None
      /\ identity'.id = command[t].id /\ identity'.password = command[t].password
  BY <1>1, <1>2, NoneAssumption DEF Rotations, Places, IdentityFiles, WriteIdentity
<1>4. /\ command' \in [Terminals -> RunningCommands \cup {Idle}]
      /\ CarriesAccepted(t)' => \A u \in Terminals : CarriesAccepted(u)'
      /\ ~overlapped' /\ FilesAsRead(t)' => \A u \in Terminals : FilesAsRead(u)'
  <2>1. command'[t] \in RunningCommands
    BY <1>3 DEF RunningCommands
  <2>2. QED
    BY <1>1, <1>3, <2>1, Frame DEF WriteIdentity, OperatorInv, TypeOK
<1>5. TypeOK'
  BY <1>2, <1>3, <1>4 DEF WriteIdentity, OperatorInv, TypeOK
<1>6. CarriesAccepted(t)' /\ FilesAsRead(t)'
  BY <1>2, <1>3 DEF CarriesAccepted, FilesAsRead, Places, WriteIdentity
<1>7. ASSUME ~overlapped' PROVE FilesInStep'
  <2>0. FilesInStep /\ FilesAsRead(t) /\ OnlyCommand(t) /\ OnlyCommand(t)'
    BY <1>1, <1>7, Alone
  <2>1. /\ FilesInStep /\ FilesAsRead(t)
        /\ ~Running("publish") /\ ~Running("reopen") /\ ~Running("reencrypt") /\ Running("export")'
        /\ \A f : Rotating(f) <=> command[t].field = f
    BY <1>1, <1>3, <2>0 DEF OnlyCommand
  <2>2. identity'.password = profile.password
    BY <1>1, <1>3, <2>1 DEF FilesAsRead
  <2>3. CASE command[t].field = "all"
    <3>1. chain = None /\ epoch = None
      BY <1>2, <2>3 DEF OperatorInv, TypeOK, Fields
    <3>2. QED
      BY <2>1, <2>2, <3>1 DEF FilesInStep, WriteIdentity
  <2>4. CASE command[t].field \in Fields
    <3>1. \A f \in Fields \ {command[t].field} : identity'.id[f] = identity.id[f]
      BY <1>1, <1>3, <2>1, <2>4 DEF FilesAsRead, Fields
    <3>2. identity'.id[command[t].field] = chain[command[t].field]
      BY <1>1, <1>3, <2>1, <2>4 DEF FilesAsRead, Fields
    <3>3. \A f \in Fields \ orphaned' : chain[f] = identity'.id[f]
      <4>1. orphaned' = orphaned \ {command[t].field}
        BY <2>4 DEF WriteIdentity, Fields
      <4>2. QED
        BY <1>2, <2>1, <2>4, <3>1, <3>2, <4>1 DEF FilesInStep
    <3>4. identity.id \in backups
      BY <1>1, <2>1, <2>4 DEF FilesAsRead, Fields
    <3>5. \A k : Kept(k) => Kept(k)'
      BY <1>3, <3>4 DEF Kept, WriteIdentity
    <3>6. QED
      BY <2>1, <2>2, <3>3, <3>5 DEF FilesInStep, WriteIdentity
  <2>5. QED
    BY <1>2, <2>3, <2>4
<1>8. QED
  BY <1>2, <1>3, <1>4, <1>5, <1>6, <1>7 DEF WriteIdentity, OperatorInv

LEMMA ExportIdentityKeeps ==
  ASSUME OperatorInv, NEW t \in Terminals, ExportIdentity(t)
  PROVE  OperatorInv'
<1>1. command[t].at = "export" /\ Become(t, command'[t]) /\ command'[t] = Idle
  BY Becomes DEF ExportIdentity, At
<1>2. command[t].id \in Identities /\ identity \in IdentityFiles
  BY <1>1, CommandShape DEF OperatorInv, CarriesAccepted, Places, Rotations
<1>3. /\ command' \in [Terminals -> RunningCommands \cup {Idle}]
      /\ CarriesAccepted(t)' => \A u \in Terminals : CarriesAccepted(u)'
      /\ ~overlapped' /\ FilesAsRead(t)' => \A u \in Terminals : FilesAsRead(u)'
  <2>1. /\ fresh' \in Nat /\ fresh <= fresh' /\ UNCHANGED <<identity, chain, registered, stored>>
    BY DEF ExportIdentity, OperatorInv, TypeOK
  <2>2. QED
    BY <1>1, <2>1, Frame
<1>4. TypeOK'
  BY <1>2, <1>3 DEF ExportIdentity, OperatorInv, TypeOK
<1>5. CarriesAccepted(t)' /\ FilesAsRead(t)'
  BY <1>1 DEF CarriesAccepted, FilesAsRead, Idle, Places
<1>6. ASSUME ~overlapped' PROVE FilesInStep'
  <2>0. FilesInStep /\ FilesAsRead(t) /\ OnlyCommand(t) /\ OnlyCommand(t)'
    BY <1>1, <1>6, Alone
  <2>1. /\ FilesInStep /\ command[t].id = identity.id
        /\ ~Running("publish") /\ ~Running("reopen") /\ ~Running("reencrypt") /\ \A f : ~Rotating(f)
    BY <1>1, <2>0 DEF OnlyCommand, FilesAsRead
  <2>2. QED
    BY <2>1 DEF FilesInStep, Kept, ExportIdentity
<1>7. QED
  BY <1>3, <1>4, <1>5, <1>6 DEF ExportIdentity, OperatorInv

\* A command that stops leaves a trace in `stopped` or `orphaned` wherever the
\* files are out of step.
LEMMA StopKeeps ==
  ASSUME OperatorInv, NEW t \in Terminals, Stop(t)
  PROVE  OperatorInv'
<1>1. Become(t, command'[t]) /\ command'[t] = Idle
  BY Becomes DEF Stop
<1>2. /\ command' \in [Terminals -> RunningCommands \cup {Idle}]
      /\ CarriesAccepted(t)' => \A u \in Terminals : CarriesAccepted(u)'
      /\ ~overlapped' /\ FilesAsRead(t)' => \A u \in Terminals : FilesAsRead(u)'
  <2>1. /\ fresh' \in Nat /\ fresh <= fresh' /\ UNCHANGED <<identity, chain, registered, stored>>
    BY DEF Stop, files, OperatorInv, TypeOK
  <2>2. QED
    BY <1>1, <2>1, Frame
<1>3. TypeOK'
  <2>1. UNCHANGED <<profile, identity, exported, chain, epoch, node, stores, fresh, stored>>
    BY DEF Stop, files
  <2>2. QED
    BY <1>2, <2>1 DEF OperatorInv, TypeOK
<1>4. CarriesAccepted(t)' /\ FilesAsRead(t)'
  BY <1>1 DEF CarriesAccepted, FilesAsRead, Idle, Places
<1>5. ASSUME ~overlapped' PROVE FilesInStep'
  <2>0. FilesInStep /\ FilesAsRead(t) /\ OnlyCommand(t) /\ OnlyCommand(t)'
    BY <1>1, <1>5, Alone
  <2>1. /\ FilesInStep
        /\ \A p \in {"publish", "export", "reopen", "reencrypt"} : Running(p) <=> command[t].at = p
        /\ \A f : Rotating(f) <=> command[t].at \in {"backup", "write"} /\ command[t].field = f
    BY <1>1, <2>0 DEF OnlyCommand
  <2>2. \A f \in Fields \ orphaned' : f \notin orphaned /\ ~Rotating(f)
    BY <2>1 DEF Stop, Fields
  <2>3. QED
    BY <2>1, <2>2 DEF FilesInStep, Kept, Stop, files
<1>6. QED
  BY <1>2, <1>3, <1>4, <1>5 DEF Stop, files, OperatorInv

(***************************************************************************)
(* Steps of the chain and of the node                                      *)
(***************************************************************************)

\* A step that leaves the commands, the files and the chain alone.
LEMMA NodeFrame ==
  ASSUME OperatorInv, UNCHANGED <<files, chain, epoch, commands, fresh, history>>, TypeOK',
         stores'.chain_store => stores'.ledger,
         node'.at = "remove_ledger" => ~stores'.chain_store
  PROVE  OperatorInv'
<1>1. \A t \in Terminals : CarriesAccepted(t) => CarriesAccepted(t)'
  BY DEF CarriesAccepted, files, commands, history
<1>2. \A t \in Terminals : FilesAsRead(t) => FilesAsRead(t)'
  BY DEF FilesAsRead, files, commands, history
<1>3. FilesInStep => FilesInStep'
  BY DEF FilesInStep, Running, Rotating, Kept, At, files, commands, history
<1>4. QED
  BY <1>1, <1>2, <1>3 DEF OperatorInv, files, commands, history

LEMMA StartNodeKeeps ==
  ASSUME OperatorInv, NEW p \in Passwords, NEW resume \in BOOLEAN, NEW dynamic \in BOOLEAN,
         StartNode(p, resume, dynamic)
  PROVE  OperatorInv'
<1>1. TypeOK'
  BY DEF StartNode, files, commands, history, OperatorInv, TypeOK
<1>2. QED
  BY <1>1, NodeFrame DEF StartNode, OperatorInv

LEMMA RemoveChainStoreKeeps ==
  ASSUME OperatorInv, RemoveChainStore
  PROVE  OperatorInv'
<1>1. stores' \in [chain_store : BOOLEAN, ledger : BOOLEAN] /\ ~stores'.chain_store
  <2>1. stores' = [stores EXCEPT !.chain_store = FALSE] /\ stores \in [chain_store : BOOLEAN, ledger : BOOLEAN]
    BY DEF RemoveChainStore, OperatorInv, TypeOK
  <2>2. QED
    BY <2>1, Zenon
<1>2. TypeOK'
  BY <1>1 DEF RemoveChainStore, files, commands, history, OperatorInv, TypeOK
<1>3. QED
  BY <1>1, <1>2, NodeFrame DEF RemoveChainStore

LEMMA RemoveLedgerKeeps ==
  ASSUME OperatorInv, RemoveLedger
  PROVE  OperatorInv'
<1>1. stores' \in [chain_store : BOOLEAN, ledger : BOOLEAN] /\ ~stores'.chain_store
  <2>1. /\ stores' = [stores EXCEPT !.ledger = FALSE] /\ stores \in [chain_store : BOOLEAN, ledger : BOOLEAN]
        /\ ~stores.chain_store
    BY DEF RemoveLedger, OperatorInv, TypeOK
  <2>2. QED
    BY <2>1, Zenon
<1>2. TypeOK'
  BY <1>1 DEF RemoveLedger, files, commands, history, OperatorInv, TypeOK
<1>3. QED
  BY <1>1, <1>2, NodeFrame DEF RemoveLedger

LEMMA LoadIdentityKeeps ==
  ASSUME OperatorInv, LoadIdentity
  PROVE  OperatorInv'
<1>1. /\ node' \in [at : {"off", "run"}, password : Passwords \cup {None}, dynamic : BOOLEAN,
                    id : Identities \cup {None}]
      /\ stores' = stores \/ (stores'.ledger /\ stores' \in [chain_store : BOOLEAN, ledger : BOOLEAN])
  <2>1. CASE Opens(node.password)
    <3>1. node' = [node EXCEPT !.at = "run", !.id = identity.id] /\ identity.id \in Identities
      BY <2>1 DEF LoadIdentity, Opens, IdentityFiles, OperatorInv, TypeOK
    <3>2. stores' = [chain_store |-> TRUE, ledger |-> TRUE]
      BY <2>1 DEF LoadIdentity
    <3>3. stores'.ledger /\ stores' \in [chain_store : BOOLEAN, ledger : BOOLEAN]
      BY <3>2
    <3>4. node' \in [at : {"off", "run"}, password : Passwords \cup {None}, dynamic : BOOLEAN,
                    id : Identities \cup {None}]
      BY <3>1, Zenon DEF OperatorInv, TypeOK
    <3>5. QED
      BY <3>3, <3>4
  <2>2. CASE ~Opens(node.password)
    <3>1. node' = Off /\ stores' = stores
      BY <2>2 DEF LoadIdentity
    <3>2. QED
      BY <3>1 DEF Off
  <2>3. QED
    BY <2>1, <2>2
<1>2. UNCHANGED <<files, chain, epoch, commands, fresh, history>>
  BY DEF LoadIdentity
<1>3. TypeOK'
  <2>1. stores' \in [chain_store : BOOLEAN, ledger : BOOLEAN]
    BY <1>1 DEF OperatorInv, TypeOK
  <2>2. QED
    BY <1>1, <1>2, <2>1 DEF files, commands, history, OperatorInv, TypeOK
<1>4. QED
  BY <1>1, <1>2, <1>3, NodeFrame DEF OperatorInv

LEMMA StopNodeKeeps ==
  ASSUME OperatorInv, StopNode
  PROVE  OperatorInv'
<1>1. TypeOK'
  BY DEF StopNode, Off, files, commands, history, OperatorInv, TypeOK
<1>2. QED
  BY <1>1, NodeFrame DEF StopNode, Off, OperatorInv

\* The pool is registered between commands, with the identity that was exported.
LEMMA RegisterKeeps ==
  ASSUME OperatorInv, Register
  PROVE  OperatorInv'
<1>1. TypeOK' /\ chain' = exported /\ identity \in IdentityFiles /\ identity # None
  BY NoneAssumption DEF Register, files, commands, history, OperatorInv, TypeOK
<1>2. \A t \in Terminals : command'[t].at = "idle" /\ command[t].at = "idle"
  BY DEF Register, commands, At
<1>3. \A t \in Terminals : CarriesAccepted(t)' /\ FilesAsRead(t)'
  BY <1>2 DEF CarriesAccepted, FilesAsRead, Places
<1>4. ASSUME ~overlapped' PROVE FilesInStep'
  <2>1. FilesInStep
    BY <1>4 DEF Register, commands, OperatorInv
  <2>2. \A p \in {"publish", "export", "reopen", "reencrypt"} : ~Running(p)
    BY <1>2 DEF Running, At
  <2>3. exported = identity.id
    BY <1>1, <2>1, <2>2 DEF FilesInStep, Register
  <2>4. QED
    BY <1>1, <2>1, <2>2, <2>3 DEF FilesInStep, Kept, Register, files, commands, history
<1>5. QED
  BY <1>1, <1>3, <1>4 DEF Register, files, commands, history, OperatorInv

LEMMA ChangeEpochKeeps ==
  ASSUME OperatorInv, ChangeEpoch
  PROVE  OperatorInv'
<1>1. node'.at = node.at /\ TypeOK'
  <2>1. node' \in [at : {"off", "remove_chain_store", "remove_ledger", "load", "run"},
                   password : Passwords \cup {None}, dynamic : BOOLEAN, id : Identities \cup {None}]
        /\ node'.at = node.at
    BY DEF ChangeEpoch, Opens, IdentityFiles, OperatorInv, TypeOK
  <2>2. QED
    BY <2>1 DEF ChangeEpoch, files, commands, history, OperatorInv, TypeOK
<1>2. \A t \in Terminals : CarriesAccepted(t) => CarriesAccepted(t)'
  BY DEF CarriesAccepted, ChangeEpoch, files, commands, history
<1>3. \A t \in Terminals : FilesAsRead(t) => FilesAsRead(t)'
  BY DEF FilesAsRead, ChangeEpoch, files, commands, history
<1>4. FilesInStep => FilesInStep'
  BY DEF FilesInStep, Running, Rotating, Kept, At, ChangeEpoch, files, commands, history
<1>5. QED
  BY <1>1, <1>2, <1>3, <1>4 DEF OperatorInv, ChangeEpoch, files, commands, history

(***************************************************************************)
(* The theorems                                                            *)
(***************************************************************************)

LEMMA OperatorStepHolds == OperatorInv /\ [Next]_vars => OperatorInv'
<1> SUFFICES ASSUME OperatorInv, [Next]_vars PROVE OperatorInv'
  OBVIOUS
<1>1. CASE UNCHANGED vars
  <2>1. TypeOK'
    BY <1>1 DEF vars, OperatorInv, TypeOK
  <2>2. QED
    BY <1>1, <2>1, NodeFrame DEF vars, files, commands, history, OperatorInv
<1>2. CASE \E t \in Terminals :
             \/ EditProfile(t) \/ Migrate(t)
             \/ \E new \in Passwords : ResetPassword(t, new)
             \/ \E a \in AddressOptions : GenerateValidatorIdentity(t, a)
             \/ RotateConsensusKey(t)
             \/ \E a \in AddressOptions, new_key \in BOOLEAN : RotateNetworkAddress(t, a, new_key)
  BY <1>2, EditProfileKeeps, MigrateKeeps, ResetPasswordKeeps, GenerateValidatorIdentityKeeps,
     RotateConsensusKeyKeeps, RotateNetworkAddressKeeps
<1>3. CASE \E t \in Terminals :
             \/ Publish(t) \/ Reopen(t) \/ Reencrypt(t) \/ SendTransaction(t)
             \/ Backup(t) \/ WriteIdentity(t) \/ ExportIdentity(t)
             \/ Stop(t)
  BY <1>3, PublishKeeps, ReopenKeeps, ReencryptKeeps, SendTransactionKeeps, BackupKeeps,
     WriteIdentityKeeps, ExportIdentityKeeps, StopKeeps
<1>4. CASE \/ Register \/ ChangeEpoch
           \/ \E p \in Passwords, resume, dynamic \in BOOLEAN : StartNode(p, resume, dynamic)
           \/ RemoveChainStore \/ RemoveLedger \/ LoadIdentity \/ StopNode
  BY <1>4, RegisterKeeps, ChangeEpochKeeps, StartNodeKeeps, RemoveChainStoreKeeps, RemoveLedgerKeeps,
     LoadIdentityKeeps, StopNodeKeeps
<1>5. QED
  BY <1>1, <1>2, <1>3, <1>4 DEF Next

\* The inductive invariant of the commands and the node.
THEOREM OperatorInvariance == Spec => []OperatorInv
BY OperatorInitHolds, OperatorStepHolds, PTL DEF Spec

\* Between commands no command owes anything to the files.
LEMMA QuietFiles ==
  ASSUME OperatorInv, ~overlapped, Quiet
  PROVE  FilesInStep /\ (\A p \in {"publish", "export", "reopen", "reencrypt"} : ~Running(p)) /\ \A f : ~Rotating(f)
<1>1. \A t \in Terminals : command[t].at = "idle"
  BY DEF Quiet, At
<1>2. QED
  BY <1>1 DEF OperatorInv, Running, Rotating, At

\* The rotations keep the identity file in step with the chain, wherever they
\* stop: it holds no key the chain refused and, between commands that never
\* overlapped, what the chain has, but for a field whose rotation stopped half way.
THEOREM IdentityAlwaysFollowsChain == Spec => []IdentityFollowsChain
<1>1. OperatorInv => IdentityFollowsChain
  <2> SUFFICES ASSUME OperatorInv PROVE IdentityFollowsChain
    OBVIOUS
  <2>1. StoredKeyWasAccepted
    BY DEF OperatorInv, StoredKeyWasAccepted
  <2>2. ChainIdentityIsStored
    BY QuietFiles DEF FilesInStep, ChainIdentityIsStored, Fields
  <2>3. QED
    BY <2>1, <2>2 DEF IdentityFollowsChain
<1>2. QED
  BY <1>1, OperatorInvariance, PTL

\* However rotations stop and epochs begin, the consensus key of the epoch is in
\* the identity file or in a backup once it was in the file, as long as commands
\* do not overlap.
THEOREM EpochKeyIsAlwaysKept == Spec => []EpochKeyIsKept
<1>1. OperatorInv => EpochKeyIsKept
  BY DEF OperatorInv, EpochKeyIsKept, FilesInStep, Kept
<1>2. QED
  BY <1>1, OperatorInvariance, PTL

\* The files of a command that are written one after the other agree between
\* commands, but for what a stop left open, and a node that starts over removes
\* its ledger last.
THEOREM FilesAlwaysAgree == Spec => []FilesAgree
<1>1. OperatorInv => FilesAgree
  <2> SUFFICES ASSUME OperatorInv PROVE FilesAgree
    OBVIOUS
  <2>1. PasswordsAgree
    BY QuietFiles DEF PasswordsAgree, FilesInStep, Opens
  <2>2. ExportsAreCurrent
    BY QuietFiles DEF ExportsAreCurrent, FilesInStep
  <2>3. QED
    BY <2>1, <2>2 DEF FilesAgree, LedgerIsRemovedLast, OperatorInv
<1>2. QED
  BY <1>1, OperatorInvariance, PTL
=============================================================================
