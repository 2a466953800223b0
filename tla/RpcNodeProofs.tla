---------------------------- MODULE RpcNodeProofs ----------------------------
(***************************************************************************)
(* What the services of the RPC node promise for every value of their      *)
(* constants: the start-up, the limit on simulations, the gas prices, and  *)
(* the export of its databases.                                            *)
(***************************************************************************)
EXTENDS NodeStartup, SimulationLimiter, GasPriceStatistics, DatabaseExport,
        FiniteSetTheorems, WellFoundedInduction, TLAPS

(***************************************************************************)
(* Start-up: RunningNodeIsSound for any number of starts, crashes, failed  *)
(* steps and edits of the configuration.                                   *)
(***************************************************************************)

\* The steps before the databases are open, and those after the chain state exists.
Opening == {"open_store", "open_ledger", "open_archive"}
Created == {"epoch_manager", "client", "assembler", "pruner", "spawn_epoch_manager", "spawn_assembler", "state",
            "bind", "serving", "stopping"}
StartupSteps == Opening \cup Created \cup
  {"off", "config", "databases", "remove_store", "remove_ledger", "remove_archive", "genesis", "stopped", "failed"}

StartupType ==
  /\ step \in StartupSteps
  /\ generation \in Nat \ {0} /\ disk \in [Databases -> Nat] /\ genesis \in Nat
  /\ genesis \in {0, disk["store"]} /\ (genesis = 0 => chain = "none")
  /\ chain \in {"none", "mainnet", "testnet"} /\ (genesis # 0 => chain # "none")

\* Opening what is there and creating what is not makes the databases agree.
Mendable == (\A d, e \in Databases : disk[d] = disk[e]) \/ (\A d \in Databases : disk[d] \in {0, generation})

\* How far a reset and the opening of the databases have got.
Directories ==
  /\ config.resume \/ step \in Opening => Mendable
  /\ step \in {"remove_ledger", "remove_archive"} => disk["store"] = 0
  /\ step = "remove_archive" => disk["ledger"] = 0
  /\ step \in {"open_ledger", "open_archive"} => disk["store"] # 0
  /\ step = "open_archive" => disk["ledger"] # 0
  /\ step \in {"remove_store", "remove_ledger", "remove_archive"} => ~ config.resume
  /\ step \in Created \cup {"genesis"} => \A d \in Databases : disk[d] = disk["store"] /\ disk[d] # 0
  /\ step \in Created => genesis = disk["store"]

\* Tasks and subscriptions follow the steps; a start that failed leaves them.
Wiring ==
  /\ step \notin Created \cup {"stopped", "failed"} => tasks = {} /\ faucet = "none"
  /\ step \in {"epoch_manager", "client", "assembler", "pruner", "spawn_epoch_manager", "spawn_assembler"}
       => "assembler" \notin tasks
  /\ step \in {"pruner", "spawn_epoch_manager"} => "assembler" \in subscribed
  /\ "pruner" \in tasks => "pruner" \in subscribed
  /\ "faucet" \in tasks => chain = "testnet"

StartupInv == StartupType /\ Directories /\ Wiring /\ RunningNodeIsSound

LEMMA StartupInitHolds == StartupInit => StartupInv
BY DEF StartupInit, StartupInv, StartupType, StartupSteps, Opening, Created, Databases, Directories, Mendable, Wiring,
       RunningNodeIsSound, DatabasesAgree, Wired, NoneMissed, NoFaucetOnMainnet

\* A step that leaves the directories, the chain and the tasks as they are.
LEMMA AdvanceHolds ==
  ASSUME StartupInv,
         read_config \/ create_epoch_manager \/ serve \/ wait_for_shutdown \/ server_exit
           \/ (\E from \in Fallible : FailAt(from))
  PROVE  StartupInv'
<1>1. UNCHANGED <<config, generation, disk, genesis, chain, tasks, subscribed, missed, faucet>>
  BY DEF read_config, create_epoch_manager, serve, wait_for_shutdown, server_exit, FailAt, durable, process
<1>2. \/ step' = "failed"
      \/ step = "config" /\ step' = "databases"
      \/ step = "epoch_manager" /\ step' = "client"
      \/ step = "bind" /\ step' = "serving"
      \/ step = "serving" /\ step' = "stopping"
      \/ step = "stopping" /\ step' = "stopped"
  BY DEF read_config, create_epoch_manager, serve, wait_for_shutdown, server_exit, FailAt, Go
<1>3. StartupType'
  BY <1>1, <1>2 DEF StartupInv, StartupType, StartupSteps, Created
<1>4. Directories'
  BY <1>1, <1>2 DEF StartupInv, Directories, Mendable, Opening, Created
<1>5. Wiring'
  BY <1>1, <1>2 DEF StartupInv, Wiring, Created
<1>6. RunningNodeIsSound'
  BY <1>1 DEF StartupInv, RunningNodeIsSound, DatabasesAgree, Wired, NoneMissed, NoFaucetOnMainnet
<1>7. QED
  BY <1>3, <1>4, <1>5, <1>6 DEF StartupInv

\* A process that starts, or is killed, has no tasks.
LEMMA RestartHolds ==
  ASSUME StartupInv, Start \/ Crash
  PROVE  StartupInv'
<1>1. /\ UNCHANGED <<config, generation, disk, genesis, chain>> /\ step' \in {"off", "config"}
      /\ tasks' = {} /\ subscribed' = {} /\ missed' = {} /\ faucet' = "none"
  BY DEF Start, Crash, durable
<1>2. StartupType'
  BY <1>1 DEF StartupInv, StartupType, StartupSteps
<1>3. Directories'
  BY <1>1 DEF StartupInv, Directories, Mendable, Opening, Created
<1>4. Wiring' /\ RunningNodeIsSound'
  BY <1>1 DEF Wiring, Created, RunningNodeIsSound, DatabasesAgree, Wired, NoneMissed, NoFaucetOnMainnet
<1>5. QED
  BY <1>2, <1>3, <1>4 DEF StartupInv

LEMMA EditHolds ==
  ASSUME StartupInv, NEW c \in Configs, Edit(c)
  PROVE  StartupInv'
<1>1. /\ UNCHANGED <<step, generation, disk, genesis, chain, tasks, subscribed, missed, faucet>>
      /\ step \in {"off", "stopped", "failed"}
      /\ c.resume /\ ~ config.resume => \A d, e \in Databases : disk[d] = disk[e]
      /\ config' = c
  BY DEF Edit, Running, durable, process
<1>2. StartupType'
  BY <1>1 DEF StartupInv, StartupType
<1>3. Directories'
  BY <1>1 DEF StartupInv, Directories, Mendable, Opening, Created
<1>4. Wiring' /\ RunningNodeIsSound'
  BY <1>1 DEF StartupInv, Wiring, RunningNodeIsSound, DatabasesAgree, Wired, NoneMissed, NoFaucetOnMainnet
<1>5. QED
  BY <1>2, <1>3, <1>4 DEF StartupInv

\* Without tasks and faucet there is nothing that could run on mixed databases.
LEMMA QuietIsSound ==
  ASSUME StartupInv, UNCHANGED <<tasks, subscribed, missed, faucet>>,
         step \notin Created \cup {"stopped", "failed"}, step' \in StartupSteps \ {"pruner", "spawn_epoch_manager"}
  PROVE  Wiring' /\ RunningNodeIsSound'
<1>1. tasks = {} /\ faucet = "none" /\ missed = {}
  BY DEF StartupInv, Wiring, RunningNodeIsSound, NoneMissed
<1>2. QED
  BY <1>1 DEF Wiring, RunningNodeIsSound, DatabasesAgree, Wired, NoneMissed, NoFaucetOnMainnet

LEMMA SetupDatabasesHolds ==
  ASSUME StartupInv, setup_databases
  PROVE  StartupInv'
<1>1. /\ UNCHANGED <<config, disk, genesis, chain, tasks, subscribed, missed, faucet>>
      /\ step = "databases" /\ step' = IF config.resume THEN "open_store" ELSE "remove_store"
      /\ generation' = IF config.resume THEN generation ELSE generation + 1
  BY DEF setup_databases, Go, durable, process
<1>2. StartupType'
  BY <1>1 DEF StartupInv, StartupType, StartupSteps, Opening
<1>3. Directories'
  BY <1>1 DEF StartupInv, Directories, Mendable, Opening, Created
<1>4. Wiring' /\ RunningNodeIsSound'
  BY <1>1, QuietIsSound DEF StartupSteps, Opening, Created
<1>5. QED
  BY <1>2, <1>3, <1>4 DEF StartupInv

\* Each database is removed whether or not it is there.
LEMMA RemoveHolds ==
  ASSUME StartupInv,
         \/ remove_and_backup_directory("store", "remove_store", "remove_ledger")
         \/ remove_and_backup_directory("ledger", "remove_ledger", "remove_archive")
         \/ remove_and_backup_directory("archive", "remove_archive", "open_store")
  PROVE  StartupInv'
<1>1. PICK d \in Databases :
        /\ \/ d = "store" /\ step = "remove_store" /\ step' = "remove_ledger"
           \/ d = "ledger" /\ step = "remove_ledger" /\ step' = "remove_archive"
           \/ d = "archive" /\ step = "remove_archive" /\ step' = "open_store"
        /\ disk' = [disk EXCEPT ![d] = 0]
        /\ genesis' = (IF d = "store" THEN 0 ELSE genesis) /\ chain' = (IF d = "store" THEN "none" ELSE chain)
        /\ UNCHANGED <<config, generation, tasks, subscribed, missed, faucet>>
  BY DEF remove_and_backup_directory, Go, Databases, process
<1>2. StartupType'
  BY <1>1 DEF StartupInv, StartupType, StartupSteps, Opening, Databases
<1>3. Directories'
  <2>1. disk \in [Databases -> Nat] /\ ~ config.resume
    BY <1>1 DEF StartupInv, StartupType, Directories
  <2>2. step' = "open_store" => \A e \in Databases : disk'[e] = 0
    BY <1>1, <2>1 DEF StartupInv, Directories, Databases
  <2>3. QED
    BY <1>1, <2>1, <2>2 DEF StartupInv, Directories, Mendable, Opening, Created, Databases
<1>4. Wiring' /\ RunningNodeIsSound'
  BY <1>1, QuietIsSound DEF StartupSteps, Opening, Created
<1>5. QED
  BY <1>2, <1>3, <1>4 DEF StartupInv

LEMMA OpenHolds ==
  ASSUME StartupInv,
         \/ open("store", "open_store", "open_ledger")
         \/ open("ledger", "open_ledger", "open_archive")
         \/ open("archive", "open_archive", "genesis")
  PROVE  StartupInv'
<1>1. PICK d \in Databases :
        /\ \/ d = "store" /\ step = "open_store" /\ step' = "open_ledger"
           \/ d = "ledger" /\ step = "open_ledger" /\ step' = "open_archive"
           \/ d = "archive" /\ step = "open_archive" /\ step' = "genesis"
        /\ disk' = [disk EXCEPT ![d] = IF disk[d] = 0 THEN generation ELSE disk[d]]
        /\ UNCHANGED <<config, generation, genesis, chain, tasks, subscribed, missed, faucet>>
  BY DEF open, Go, Databases, process
<1>2. disk \in [Databases -> Nat] /\ generation \in Nat \ {0} /\ genesis \in {0, disk["store"]} /\ step \in Opening
  BY <1>1 DEF StartupInv, StartupType, Opening
<1>3. StartupType'
  BY <1>1, <1>2 DEF StartupInv, StartupType, StartupSteps, Opening, Databases
<1>4. Mendable'
  <2>1. Mendable
    BY <1>2 DEF StartupInv, Directories
  <2>2. QED
    BY <1>1, <1>2, <2>1 DEF Mendable, Databases
<1>5. /\ disk'[d] # 0 /\ \A e \in Databases \ {d} : disk'[e] = disk[e]
      /\ step \in {"open_ledger", "open_archive"} => disk["store"] # 0
      /\ step = "open_archive" => disk["ledger"] # 0
  BY <1>1, <1>2 DEF StartupInv, Directories
<1>6. step' = "genesis" => \A e \in Databases : disk'[e] = disk'["store"] /\ disk'[e] # 0
  BY <1>1, <1>2, <1>4, <1>5 DEF Mendable, Databases
<1>7. Directories'
  BY <1>1, <1>4, <1>5, <1>6 DEF Directories, Opening, Created, Databases
<1>8. Wiring' /\ RunningNodeIsSound'
  BY <1>1, QuietIsSound DEF StartupSteps, Opening, Created
<1>9. QED
  BY <1>3, <1>7, <1>8 DEF StartupInv

LEMMA GenesisHolds ==
  ASSUME StartupInv, load_or_create_genesis
  PROVE  StartupInv'
<1>1. /\ UNCHANGED <<config, generation, disk, tasks, subscribed, missed, faucet>>
      /\ step = "genesis" /\ step' = "epoch_manager"
      /\ genesis = 0 => genesis' = disk["store"] /\ chain' \in {"mainnet", "testnet"}
      /\ genesis # 0 => UNCHANGED <<genesis, chain>>
  BY DEF load_or_create_genesis, Go, process
<1>2. disk["store"] # 0 /\ disk["store"] \in Nat
  BY <1>1 DEF StartupInv, StartupType, Directories, Databases
<1>3. StartupType'
  BY <1>1, <1>2 DEF StartupInv, StartupType, StartupSteps, Created
<1>4. Directories'
  BY <1>1, <1>2 DEF StartupInv, StartupType, Directories, Mendable, Opening, Created
<1>5. Wiring' /\ RunningNodeIsSound'
  BY <1>1, QuietIsSound DEF StartupSteps, Opening, Created
<1>6. QED
  BY <1>3, <1>4, <1>5 DEF StartupInv

\* The steps that wire and spawn the tasks leave the databases alone.
LEMMA WireHolds ==
  ASSUME StartupInv,
         setup_client \/ create_assembler \/ setup_prune_scheduler \/ spawn_epoch_manager
           \/ spawn_assembler \/ build_state
  PROVE  StartupInv'
<1>1. UNCHANGED <<config, generation, disk, genesis, chain>>
  BY DEF setup_client, create_assembler, setup_prune_scheduler, spawn_epoch_manager, spawn_assembler, build_state,
         durable
<1>2. step \in Created \ {"epoch_manager", "bind", "serving", "stopping"} /\ step' \in Created \cup {"failed"}
  BY DEF setup_client, create_assembler, setup_prune_scheduler, spawn_epoch_manager, spawn_assembler, build_state,
         Go, Created
<1>3. StartupType'
  BY <1>1, <1>2 DEF StartupInv, StartupType, StartupSteps
<1>4. Directories'
  BY <1>1, <1>2 DEF StartupInv, Directories, Mendable, Opening, Created
<1>5. \A d \in Databases : disk'[d] = genesis' /\ disk'[d] # 0
  BY <1>1, <1>2 DEF StartupInv, Directories
<1>6. DatabasesAgree'
  BY <1>5 DEF DatabasesAgree
<1>7. missed = {} /\ (faucet # "none" => chain = "testnet")
  BY DEF StartupInv, RunningNodeIsSound, NoneMissed, NoFaucetOnMainnet
<1>8. chain \in {"mainnet", "testnet"}
  BY <1>2, <1>5, <1>1 DEF StartupInv, StartupType, Databases
<1>9. CASE setup_client
  BY <1>6, <1>7, <1>1, <1>3, <1>4, <1>9
  DEF setup_client, Go, StartupInv, Wiring, Created, RunningNodeIsSound, NoneMissed, NoFaucetOnMainnet
<1>10. CASE create_assembler
  BY <1>6, <1>7, <1>1, <1>3, <1>4, <1>10
  DEF create_assembler, Go, StartupInv, Wiring, Created, RunningNodeIsSound, NoneMissed, NoFaucetOnMainnet
<1>11. CASE setup_prune_scheduler
  BY <1>6, <1>7, <1>1, <1>3, <1>4, <1>11
  DEF setup_prune_scheduler, StartupInv, Wiring, Created, RunningNodeIsSound, NoneMissed, NoFaucetOnMainnet
<1>12. CASE spawn_epoch_manager
  BY <1>6, <1>7, <1>1, <1>3, <1>4, <1>12
  DEF spawn_epoch_manager, Go, StartupInv, Wiring, Created, RunningNodeIsSound, NoneMissed, NoFaucetOnMainnet
<1>13. CASE spawn_assembler
  BY <1>6, <1>7, <1>1, <1>3, <1>4, <1>13
  DEF spawn_assembler, Go, StartupInv, Wiring, Created, RunningNodeIsSound, NoneMissed, NoFaucetOnMainnet
<1>14. CASE build_state
  BY <1>6, <1>7, <1>8, <1>1, <1>3, <1>4, <1>14
  DEF build_state, Go, StartupInv, Wiring, Created, RunningNodeIsSound, NoneMissed, NoFaucetOnMainnet
<1>15. QED
  BY <1>9, <1>10, <1>11, <1>12, <1>13, <1>14

LEMMA TaskHolds ==
  ASSUME StartupInv, set_faucet \/ (\E t \in tasks : task_ends(t))
  PROVE  StartupInv'
<1>1. /\ UNCHANGED <<step, config, generation, disk, genesis, chain, subscribed, missed>>
      /\ tasks' \subseteq tasks /\ tasks # {} /\ (faucet' = faucet \/ "faucet" \in tasks)
  BY DEF set_faucet, task_ends, durable
<1>2. step \in Created \cup {"stopped", "failed"}
  BY <1>1 DEF StartupInv, Wiring
<1>3. StartupType' /\ Directories'
  BY <1>1 DEF StartupInv, StartupType, Directories, Mendable
<1>4. Wiring'
  BY <1>1, <1>2 DEF StartupInv, Wiring
<1>5. RunningNodeIsSound'
  BY <1>1 DEF StartupInv, Wiring, RunningNodeIsSound, DatabasesAgree, Wired, NoneMissed, NoFaucetOnMainnet
<1>6. QED
  BY <1>3, <1>4, <1>5 DEF StartupInv

LEMMA StartupStepHolds == StartupInv /\ [StartupNext]_startupVars => StartupInv'
<1> SUFFICES ASSUME StartupInv, [StartupNext]_startupVars PROVE StartupInv'
  OBVIOUS
<1>1. CASE Steps
  BY <1>1, AdvanceHolds, SetupDatabasesHolds, RemoveHolds, OpenHolds, GenesisHolds, WireHolds DEF Steps
<1>2. CASE start_rpc_server /\ ~ Steps
  BY <1>2, AdvanceHolds, TaskHolds DEF start_rpc_server
<1>3. CASE Start \/ Crash \/ \E c \in Configs : Edit(c)
  BY <1>3, RestartHolds, EditHolds
<1>4. CASE UNCHANGED startupVars
  BY <1>4 DEF startupVars, durable, process, StartupInv, StartupType, Directories, Mendable, Wiring,
              RunningNodeIsSound, DatabasesAgree, Wired, NoneMissed, NoFaucetOnMainnet
<1>5. QED
  BY <1>1, <1>2, <1>3, <1>4 DEF StartupNext

\* However many starts were killed or failed in the middle of a reset: when the
\* assembler runs, the three databases and the chain state belong together, every
\* component subscribed before the epochs started, and a faucet is offered only
\* on a test network.
THEOREM RunningNodeIsAlwaysSound == StartupSpec => []RunningNodeIsSound
<1>1. StartupInv => RunningNodeIsSound
  BY DEF StartupInv
<1>2. QED
  BY <1>1, StartupInitHolds, StartupStepHolds, PTL DEF StartupSpec

(***************************************************************************)
(* Simulations: CounterIsExact and OvershootBounded for any requests,      *)
(* workers and limit.  Room below the limit is promised to a request when  *)
(* it loads the counter and taken when it increments it, so the counter    *)
(* and the requests between the two are bounded together; from this        *)
(* follows that the 16-bit counter never wraps.                            *)
(***************************************************************************)

Labels == {"idle", "refused", "loaded", "counted", "simulated"}

LimiterInv ==
  /\ counter \in Nat /\ leaked \in Nat
  /\ pc \in [Requests -> Labels]
  /\ CounterIsExact
  /\ counter + Cardinality(At("loaded")) <= MAX_CONCURRENCY + Workers - 1

USE RequestAssumption, LimitAssumption

\* Arithmetic of the AtomicU16 below its size.
LEMMA NoWrap ==
  ASSUME NEW n \in Nat, n < U16Size PROVE n % U16Size = n
OBVIOUS

LEMMA SetsAreFinite ==
  /\ \A l : IsFiniteSet(At(l)) /\ Cardinality(At(l)) \in Nat
  /\ IsFiniteSet(InFlight) /\ Cardinality(InFlight) \in Nat
BY FS_Subset, FS_CardinalityType DEF At, InFlight

LEMMA LimiterInitHolds == LimiterInit => LimiterInv
<1> SUFFICES ASSUME LimiterInit PROVE LimiterInv OBVIOUS
<1>1. At("loaded") = {} /\ InFlight = {} BY DEF LimiterInit, At, InFlight
<1>2. Cardinality({}) = 0 BY FS_EmptySet
<1> QED BY <1>1, <1>2 DEF LimiterInit, LimiterInv, Labels, CounterIsExact

\* Requests that are refused or try again are in no set that is counted.
LEMMA AsideHolds ==
  ASSUME LimiterInv, NEW r \in Requests, Refuse(r) \/ Retry(r) PROVE LimiterInv'
<1>1. At("loaded")' = At("loaded") /\ InFlight' = InFlight
  BY DEF LimiterInv, Refuse, Retry, At, InFlight
<1>2. pc' \in [Requests -> Labels] /\ UNCHANGED <<counter, leaked>>
  BY DEF LimiterInv, Refuse, Retry, Labels
<1> QED BY <1>1, <1>2 DEF LimiterInv, CounterIsExact

LEMMA LoadHolds == ASSUME LimiterInv, NEW r \in Requests, Load(r) PROVE LimiterInv'
<1>1. /\ pc' \in [Requests -> Labels] /\ At("loaded")' = At("loaded") \cup {r} /\ r \notin At("loaded")
      /\ At("counted")' = At("counted") /\ At("simulated")' = At("simulated")
  BY DEF LimiterInv, Load, Labels, At
<1>2. InFlight' = InFlight BY <1>1 DEF InFlight
<1>3. Cardinality(At("loaded")') = Cardinality(At("loaded")) + 1
  BY <1>1, SetsAreFinite, FS_AddElement
<1>4. UNCHANGED <<counter, leaked>> /\ counter < MAX_CONCURRENCY /\ Cardinality(At("loaded")) < Workers
  BY DEF Load
<1>5. counter' + Cardinality(At("loaded"))' <= MAX_CONCURRENCY + Workers - 1
  BY <1>3, <1>4, SetsAreFinite DEF LimiterInv
<1> QED BY <1>1, <1>2, <1>4, <1>5 DEF LimiterInv, CounterIsExact

LEMMA IncrementHolds == ASSUME LimiterInv, NEW r \in Requests, Increment(r) PROVE LimiterInv'
<1>1. /\ pc' \in [Requests -> Labels] /\ At("loaded")' = At("loaded") \ {r} /\ r \in At("loaded")
      /\ At("counted")' = At("counted") \cup {r} /\ At("simulated")' = At("simulated")
      /\ r \notin At("counted") /\ r \notin At("simulated")
  BY DEF LimiterInv, Increment, Labels, At
<1>2. Cardinality(At("loaded")') = Cardinality(At("loaded")) - 1
  BY <1>1, SetsAreFinite, FS_RemoveElement
<1>3. InFlight' = InFlight \cup {r} /\ r \notin InFlight BY <1>1 DEF InFlight
<1>4. Cardinality(InFlight') = Cardinality(InFlight) + 1
  BY <1>3, SetsAreFinite, FS_AddElement, Zenon
<1>5. Cardinality(At("loaded")) \in Nat /\ Cardinality(At("loaded")') \in Nat
  <2>1. IsFiniteSet(At("loaded") \ {r}) BY SetsAreFinite, FS_RemoveElement
  <2> QED BY <1>1, <2>1, SetsAreFinite, FS_CardinalityType, Zenon
<1>6. counter + 1 < U16Size
  BY <1>2, <1>5 DEF LimiterInv
<1>7. counter' = counter + 1 /\ leaked' = leaked
  BY <1>6, NoWrap DEF Increment, LimiterInv
<1>8. CounterIsExact' BY <1>4, <1>7, SetsAreFinite DEF LimiterInv, CounterIsExact
<1>9. counter' + Cardinality(At("loaded"))' <= MAX_CONCURRENCY + Workers - 1
  BY <1>2, <1>5, <1>7 DEF LimiterInv
<1> QED BY <1>1, <1>7, <1>8, <1>9 DEF LimiterInv

LEMMA SimulateHolds == ASSUME LimiterInv, NEW r \in Requests, Simulate(r) PROVE LimiterInv'
<1>1. /\ pc' \in [Requests -> Labels] /\ At("loaded")' = At("loaded")
      /\ At("counted")' = At("counted") \ {r} /\ r \in At("counted")
      /\ At("simulated")' = At("simulated") \cup {r}
  BY DEF LimiterInv, Simulate, Labels, At
<1>2. InFlight' = InFlight BY <1>1 DEF InFlight
<1> QED BY <1>1, <1>2 DEF LimiterInv, CounterIsExact, Simulate

\* A request that ends, with or without the decrement.
LEMMA EndHolds ==
  ASSUME LimiterInv, NEW r \in Requests, Fail(r) \/ Decrement(r) PROVE LimiterInv'
<1>1. PICK l \in {"counted", "simulated"} : pc[r] = l /\ pc' = [pc EXCEPT ![r] = "idle"]
  BY DEF Fail, Decrement
<1>2. /\ pc' \in [Requests -> Labels] /\ At("loaded")' = At("loaded")
      /\ InFlight' = InFlight \ {r} /\ r \in InFlight
  BY <1>1 DEF LimiterInv, Labels, At, InFlight
<1>3. Cardinality(InFlight') = Cardinality(InFlight) - 1
  BY <1>2, SetsAreFinite, FS_RemoveElement, Zenon
<1>4. Cardinality(InFlight) >= 1
  <2>1. IsFiniteSet(InFlight \ {r}) BY SetsAreFinite, FS_RemoveElement
  <2>2. Cardinality(InFlight') \in Nat BY <1>2, <2>1, FS_CardinalityType
  <2> QED BY <1>3, <2>2, SetsAreFinite
<1>5. CASE Fail(r)
  <2>1. counter' = counter /\ leaked' = leaked + 1 BY <1>5 DEF Fail
  <2> QED BY <1>2, <1>3, <2>1, SetsAreFinite DEF LimiterInv, CounterIsExact
<1>6. CASE Decrement(r)
  <2>1. counter >= 1 /\ counter - 1 < U16Size /\ counter - 1 \in Nat
    BY <1>4, SetsAreFinite DEF LimiterInv, CounterIsExact
  <2>2. counter' = counter - 1 /\ leaked' = leaked BY <1>6, <2>1, NoWrap DEF Decrement
  <2> QED BY <1>2, <1>3, <2>1, <2>2, SetsAreFinite DEF LimiterInv, CounterIsExact
<1> QED BY <1>5, <1>6

LEMMA LimiterStepHolds == LimiterInv /\ [LimiterNext]_limiterVars => LimiterInv'
<1> SUFFICES ASSUME LimiterInv, [LimiterNext]_limiterVars PROVE LimiterInv' OBVIOUS
<1>1. ASSUME NEW r \in Requests,
             Refuse(r) \/ Load(r) \/ Increment(r) \/ Simulate(r) \/ Fail(r) \/ Decrement(r) \/ Retry(r)
      PROVE  LimiterInv'
  BY <1>1, AsideHolds, LoadHolds, IncrementHolds, SimulateHolds, EndHolds
<1>2. CASE UNCHANGED limiterVars BY <1>2 DEF limiterVars, LimiterInv, CounterIsExact, InFlight, At
<1> QED BY <1>1, <1>2 DEF LimiterNext

\* The counter is the number of simulations in flight and of those that ended
\* without the decrement: it never wraps, whatever the workers interleave.
THEOREM CounterIsAlwaysExact == LimiterSpec => []CounterIsExact
<1>1. LimiterInv => CounterIsExact BY DEF LimiterInv
<1> QED BY <1>1, LimiterInitHolds, LimiterStepHolds, PTL DEF LimiterSpec

\* The limit is exceeded by at most one simulation for each other worker.
THEOREM OvershootIsBounded == LimiterSpec => []OvershootBounded
<1>1. LimiterInv => OvershootBounded BY SetsAreFinite DEF LimiterInv, CounterIsExact, OvershootBounded
<1> QED BY <1>1, LimiterInitHolds, LimiterStepHolds, PTL DEF LimiterSpec

(***************************************************************************)
(* Gas prices: MaxIsMaximal for every capacity, set of prices and batch.   *)
(* While a push that will not search the buffer again is in progress, the  *)
(* slots it is still going to overwrite do not include that of the         *)
(* maximum: this is what overwrites_max decides before the loop, from the  *)
(* index, the length and the wrap-around.                                  *)
(***************************************************************************)

USE CapacityAssumption

LEMMA PriceFacts == U64Max \in Nat /\ StartPrice \in Prices /\ \A p \in Prices : p \in Nat /\ p <= U64Max
BY PriceAssumption, WidthAssumption

\* Slots of the ring.
LEMMA ModLow == ASSUME NEW x \in 0 .. Capacity - 1 PROVE x % Capacity = x
OBVIOUS

LEMMA ModHigh == ASSUME NEW x \in 0 .. Capacity - 1 PROVE (Capacity + x) % Capacity = x
OBVIOUS

LEMMA LeastElement ==
  ASSUME NEW S \in SUBSET Nat, S # {} PROVE \E m \in S : \A n \in S : m <= n
<1>1. PICK m \in S : \A n \in S : ~(<<n, m>> \in OpToRel(<, Nat))
  BY NatLessThanWellFounded, WFMin, Zenon
<1>2. ASSUME NEW n \in S, n < m PROVE <<n, m>> \in OpToRel(<, Nat)
  <2>1. <<n, m>> \in Nat \X Nat /\ <<n, m>>[1] < <<n, m>>[2] BY <1>2
  <2> QED BY <2>1, Zenon DEF OpToRel
<1>3. \A n \in S : ~(n < m) BY <1>1, <1>2, Zenon
<1> QED BY <1>3

\* The search for the maximum finds one: the values have a least upper bound,
\* which is taken, and the slots that take it have a last one.
LEMMA MaxIndexOf ==
  ASSUME NEW buf \in [Slots -> Prices]
  PROVE  max_index_of(buf) \in Slots /\ \A j \in Slots : buf[j] <= buf[max_index_of(buf)]
<1> DEFINE Bounds == {u \in Nat : \A j \in Slots : buf[j] <= u}
<1>0. \A j \in Slots : buf[j] \in Nat /\ buf[j] <= U64Max BY PriceFacts
<1>1. U64Max \in Bounds BY <1>0, PriceFacts
<1>2. PICK u \in Bounds : \A n \in Bounds : u <= n BY <1>1, LeastElement, Zenon
<1>3. PICK k \in Slots : buf[k] = u
  <2> SUFFICES ASSUME \A j \in Slots : buf[j] # u PROVE FALSE OBVIOUS
  <2>1. \A j \in Slots : buf[j] \in Nat /\ buf[j] < u BY <1>0, <1>2
  <2>2. 0 \in Slots BY DEF Slots
  <2>3. u - 1 \in Nat /\ \A j \in Slots : buf[j] <= u - 1 BY <2>1, <2>2
  <2>4. u - 1 \in Bounds BY <2>3
  <2> QED BY <1>2, <2>4
<1> DEFINE FromEnd == {n \in Nat : n < Capacity /\ buf[Capacity - 1 - n] = u}
<1>4. Capacity - 1 - k \in FromEnd BY <1>3 DEF Slots
<1>5. PICK n \in FromEnd : \A m \in FromEnd : n <= m BY <1>4, LeastElement, Zenon
<1> DEFINE i == Capacity - 1 - n
<1>6. i \in Slots /\ buf[i] = u BY <1>5 DEF Slots
<1>7. ASSUME NEW j \in Slots PROVE buf[j] < buf[i] \/ (buf[j] = buf[i] /\ j <= i)
  <2>1. buf[j] \in Nat /\ buf[j] <= u BY <1>0, <1>2
  <2>2. CASE buf[j] = u
    <3>1. Capacity - 1 - j \in FromEnd BY <2>2 DEF Slots
    <3>2. n <= Capacity - 1 - j BY <1>5, <3>1
    <3> QED BY <1>6, <2>2, <3>2 DEF Slots
  <2> QED BY <1>6, <2>1, <2>2
<1> HIDE DEF i
<1>8. \E x \in Slots : \A j \in Slots : buf[j] < buf[x] \/ (buf[j] = buf[x] /\ j <= x)
  BY <1>6, <1>7
<1>9. /\ max_index_of(buf) \in Slots
      /\ \A j \in Slots : buf[j] < buf[max_index_of(buf)] \/ (buf[j] = buf[max_index_of(buf)] /\ j <= max_index_of(buf))
  BY <1>8 DEF max_index_of
<1> QED BY <1>0, <1>9

\* The slots a push in progress will still overwrite.
Ahead == {(index + k) % Capacity : k \in 0 .. Len(values) - 1}

GasInv ==
  /\ inner \in [Slots -> Prices] /\ index \in Slots /\ max_index \in Slots
  /\ pushing \in BOOLEAN /\ updating_max \in BOOLEAN
  /\ values \in Seq(Prices) /\ (pushing => Len(values) < Capacity)
  /\ ~(pushing /\ updating_max) => \A i \in Slots : inner[i] <= max
  /\ pushing /\ ~updating_max => max_index \notin Ahead

LEMMA GasInitHolds == Init => GasInv
<1> SUFFICES ASSUME Init PROVE GasInv OBVIOUS
<1>1. 0 \in Slots /\ Capacity - 1 \in Slots BY DEF Slots
<1>2. inner = [i \in Slots |-> StartPrice] /\ index = 0 /\ max_index = Capacity - 1 BY DEF Init
<1>3. \A i \in Slots : inner[i] <= max BY <1>1, <1>2, PriceFacts DEF max
<1>4. inner \in [Slots -> Prices] BY <1>2, PriceFacts
<1>5. pushing = FALSE /\ updating_max = FALSE /\ values \in Seq(Prices) BY DEF Init
<1> QED BY <1>1, <1>2, <1>3, <1>4, <1>5, Zenon DEF GasInv

\* overwrites_max sees every batch that reaches the slot of the maximum.
LEMMA OverwritesIsSound ==
  ASSUME index \in Slots, max_index \in Slots, NEW len \in 1 .. Capacity - 1, ~overwrites_max(len),
         NEW k \in 0 .. len - 1
  PROVE  (index + k) % Capacity # max_index
<1>1. ~(index <= max_index /\ max_index < index + len)
  BY DEF overwrites_max
<1>2. CASE index + k < Capacity
  BY <1>1, <1>2, ModLow DEF Slots
<1>3. CASE index + k >= Capacity
  <2> DEFINE x == index + k - Capacity
             y == index + len - Capacity
  <2>1. x \in 0 .. Capacity - 1 /\ y \in 0 .. Capacity - 1 /\ index + k = Capacity + x /\ index + len = Capacity + y
    BY <1>3 DEF Slots
  <2>2. (index + k) % Capacity = x /\ (index + len) % Capacity = y
    <3> HIDE DEF x, y
    <3> QED BY <2>1, ModHigh
  <2>3. max_index < index => ~(max_index < (index + len) % Capacity)
    BY DEF overwrites_max
  <2> QED BY <1>1, <2>1, <2>2, <2>3 DEF Slots
<1> QED BY <1>2, <1>3 DEF Slots

LEMMA PushBatchHolds == ASSUME GasInv, NEW batch \in Batches, PushBatch(batch) PROVE GasInv'
<1>1. batch \in Seq(Prices) /\ Len(batch) \in 1 .. Capacity - 1
  <2>1. PICK n \in 0 .. MaxBatch : batch \in [1 .. n -> Prices] BY DEF Batches
  <2>2. batch \in Seq(Prices) BY <2>1
  <2> QED BY <2>2 DEF PushBatch
<1>2. /\ ~pushing /\ pushing' = TRUE /\ values' = batch /\ updating_max' = overwrites_max(Len(batch))
      /\ UNCHANGED <<inner, index, max_index>>
  BY DEF PushBatch, buffer
<1>3. updating_max' \in BOOLEAN BY <1>2 DEF overwrites_max
<1>4. ~updating_max' => max_index' \notin Ahead'
  BY <1>1, <1>2, OverwritesIsSound DEF Ahead, GasInv
<1> QED BY <1>1, <1>2, <1>3, <1>4 DEF GasInv, max

LEMMA PushWindowHolds == ASSUME GasInv, NEW batch \in Batches, PushWindow(batch) PROVE GasInv'
<1>1. batch \in Seq(Prices) /\ Len(batch) >= Capacity
  <2>1. PICK n \in 0 .. MaxBatch : batch \in [1 .. n -> Prices] BY DEF Batches
  <2>2. batch \in Seq(Prices) BY <2>1
  <2> QED BY <2>2 DEF PushWindow
<1>2. /\ inner' = [i \in Slots |-> batch[Len(batch) - Capacity + i + 1]] /\ index' = 0
      /\ max_index' = max_index_of(inner') /\ UNCHANGED <<pushing, values, updating_max>> /\ ~pushing
  BY DEF PushWindow
<1>3. inner' \in [Slots -> Prices]
  <2>1. \A i \in Slots : batch[Len(batch) - Capacity + i + 1] \in Prices BY <1>1 DEF Slots
  <2> QED BY <1>2, <2>1
<1>4. max_index' \in Slots /\ \A j \in Slots : inner'[j] <= inner'[max_index']
  BY <1>2, <1>3, MaxIndexOf
<1>5. index' \in Slots BY <1>2 DEF Slots
<1> QED BY <1>2, <1>3, <1>4, <1>5 DEF GasInv, max

\* One turn of the loop keeps the maximum, or replaces it by a larger one in a
\* slot that the rest of the batch does not reach.
LEMMA InsertNextHolds == ASSUME GasInv, InsertNext PROVE GasInv'
<1> DEFINE val == Head(values)
<1>1. /\ pushing /\ values # <<>> /\ values' = Tail(values) /\ UNCHANGED <<pushing, updating_max>>
      /\ max_index' = IF val >= max THEN index ELSE max_index
      /\ inner' = [inner EXCEPT ![index] = val]
      /\ index' = (index + 1) % Capacity
  BY DEF InsertNext, insert
<1>2. /\ val \in Prices /\ values' \in Seq(Prices) /\ Len(values') = Len(values) - 1
      /\ Len(values) \in 1 .. Capacity - 1 /\ Len(values') < Capacity
  BY <1>1 DEF GasInv
<1> HIDE DEF val
<1>3. index' \in Slots /\ index' = (IF index + 1 = Capacity THEN 0 ELSE index + 1)
  <2>1. index + 1 \in 0 .. Capacity - 1 \/ index + 1 = Capacity BY DEF GasInv, Slots
  <2>2. CASE index + 1 \in 0 .. Capacity - 1
    <3>1. (index + 1) % Capacity = index + 1 BY <2>2, ModLow, Zenon
    <3> QED BY <1>1, <2>2, <3>1 DEF Slots
  <2>3. CASE index + 1 = Capacity
    <3>1. 0 \in 0 .. Capacity - 1 /\ index + 1 = Capacity + 0 BY <2>3
    <3>2. (index + 1) % Capacity = 0 BY <3>1, ModHigh
    <3> QED BY <1>1, <2>3, <3>1, <3>2 DEF Slots
  <2> QED BY <2>1, <2>2, <2>3
<1>4. inner' \in [Slots -> Prices] /\ max_index' \in Slots BY <1>1, <1>2 DEF GasInv
<1>5. CASE updating_max BY <1>1, <1>2, <1>3, <1>4, <1>5, Zenon DEF GasInv
<1>6. CASE ~updating_max
  <2>1. \A i \in Slots : inner[i] <= max /\ inner[i] \in Nat BY <1>6, PriceFacts DEF GasInv
  <2>2. max \in Nat /\ val \in Nat /\ index \in Slots BY <1>2, PriceFacts DEF GasInv, max
  <2>3. index \in Ahead
    <3>1. (index + 0) % Capacity = index BY <2>2, ModLow DEF Slots
    <3>2. 0 \in 0 .. Len(values) - 1 BY <1>2
    <3> QED BY <3>1, <3>2 DEF Ahead
  <2>4. max_index # index BY <1>1, <1>6, <2>3 DEF GasInv
  <2>5. \A i \in Slots : inner'[i] <= inner'[max_index']
    <3>1. CASE val >= max BY <1>1, <2>1, <2>2, <3>1 DEF GasInv
    <3>2. CASE ~(val >= max)
      <4>1. max_index' = max_index /\ inner'[max_index] = max BY <1>1, <2>4, <3>2 DEF GasInv, max
      <4> QED BY <1>1, <2>1, <2>2, <3>2, <4>1 DEF GasInv
    <3> QED BY <3>1, <3>2
  <2>6. ASSUME NEW k \in 0 .. Len(values') - 1 PROVE (index' + k) % Capacity # max_index'
    <3>1. (index' + k) % Capacity = (index + (k + 1)) % Capacity
      <4>1. k \in 0 .. Capacity - 3 /\ index \in 0 .. Capacity - 1 BY <1>2, <2>2 DEF Slots
      <4>2. CASE index + 1 = Capacity
        <5>1. index + (k + 1) = Capacity + k /\ k \in 0 .. Capacity - 1 BY <4>1, <4>2
        <5>2. (index + (k + 1)) % Capacity = k /\ k % Capacity = k BY <5>1, ModLow, ModHigh
        <5>3. index' + k = k BY <1>3, <4>1, <4>2
        <5> QED BY <4>1, <4>2, <5>2, <5>3
      <4>3. CASE index + 1 # Capacity
        <5>1. index' + k = index + (k + 1) BY <1>3, <4>1, <4>3
        <5> QED BY <5>1
      <4> QED BY <4>2, <4>3
    <3>2. (index + (k + 1)) % Capacity \in Ahead BY <1>2 DEF Ahead
    <3>3. (index + (k + 1)) % Capacity # index
      <4>1. k + 1 \in 1 .. Capacity - 1 BY <1>2
      <4>2. CASE index + (k + 1) < Capacity BY <2>2, <4>1, <4>2, ModLow DEF Slots
      <4>3. CASE index + (k + 1) >= Capacity
        <5> DEFINE x == index + (k + 1) - Capacity
        <5>1. x \in 0 .. Capacity - 1 /\ index + (k + 1) = Capacity + x /\ x # index
          BY <2>2, <4>1, <4>3 DEF Slots
        <5> HIDE DEF x
        <5> QED BY <5>1, ModHigh, Zenon
      <4> QED BY <2>2, <4>1, <4>2, <4>3 DEF Slots
    <3>4. (index + (k + 1)) % Capacity # max_index BY <1>1, <1>6, <3>2 DEF GasInv
    <3> QED BY <1>1, <3>1, <3>3, <3>4
  <2>7. max_index' \notin Ahead' BY <2>6 DEF Ahead
  <2> QED BY <1>1, <1>2, <1>3, <1>4, <2>5, <2>7 DEF GasInv, max
<1> QED BY <1>5, <1>6 DEF GasInv

LEMMA FinishPushHolds == ASSUME GasInv, FinishPush PROVE GasInv'
<1>1. /\ pushing' = FALSE /\ UNCHANGED <<inner, index, values, updating_max>>
      /\ pushing /\ max_index' = IF updating_max THEN max_index_of(inner) ELSE max_index
  BY DEF FinishPush
<1>2. max_index' \in Slots /\ \A j \in Slots : inner[j] <= inner[max_index']
  BY <1>1, MaxIndexOf DEF GasInv, max
<1> QED BY <1>1, <1>2, Zenon DEF GasInv, max

LEMMA GasStepHolds == GasInv /\ [Next]_vars => GasInv'
<1> SUFFICES ASSUME GasInv, [Next]_vars PROVE GasInv' OBVIOUS
<1>1. CASE PushNothing BY <1>1 DEF PushNothing, buffer, GasInv, max, Ahead
<1>2. ASSUME NEW batch \in Batches, PushBatch(batch) \/ PushWindow(batch) PROVE GasInv'
  BY <1>2, PushBatchHolds, PushWindowHolds
<1>3. CASE InsertNext BY <1>3, InsertNextHolds
<1>4. CASE FinishPush BY <1>4, FinishPushHolds
<1>5. CASE UNCHANGED vars
  BY <1>5 DEF vars, buffer, GasInv, max, Ahead
<1> QED BY <1>1, <1>2, <1>3, <1>4, <1>5 DEF Next

\* The slot named by max_index holds the largest price of the window between
\* any two pushes, for every capacity of the ring and every batch.
THEOREM MaxIsAlwaysMaximal == Spec => []MaxIsMaximal
<1>1. GasInv => MaxIsMaximal BY DEF GasInv, MaxIsMaximal
<1> QED BY <1>1, GasInitHolds, GasStepHolds, PTL DEF Spec

(***************************************************************************)
(* The export of the databases: ExportIsWhole for any tables, records and  *)
(* number of runs.                                                         *)
(***************************************************************************)

\* What is written of the array after n records.
Part(n) ==
  [i \in 1..(IF n = 0 THEN 1 ELSE 2*n) |->
     IF i = 1 THEN Mark("[") ELSE IF i % 2 = 0 THEN Rec(i \div 2) ELSE Mark(",")]

ExportTypeOK ==
  /\ args \in [opened : SUBSET Exported, table : Tables \cup {"all", "unknown"}, dry_run : BOOLEAN]
  /\ columns \in [Exported -> SUBSET Tables]
  /\ rows \in 0..MaxRows /\ runs \in Nat
  /\ fetcher \in Exported \cup {Nil}
  /\ pending \in Seq(Tables)
  /\ current \in Tables \cup {Nil}
  /\ files = [t \in Tables |-> files[t]]
  /\ outcome \in {"running", "ok", "error"}

\* The databases the command has come to.
Reached == {d \in args.opened : d = fetcher \/ (d = "archive" /\ fetcher = "chain_store")}

\* The tables of a database that the command has to write.
Owed(d) == {t \in Range(Exports[d]) : should_export(t) /\ t \in columns[d]}

\* What the command has to write of the databases it has come to is whole, is
\* being written or is still to come.
OwedIsKept ==
  outcome \in {"running", "ok"} /\ ~args.dry_run =>
    \A d \in Reached : \A t \in Owed(d) :
      files[t] = Json(rows) \/ t = current \/ (d = fetcher /\ t \in Range(pending))

\* The table being written has a proper beginning of its array.
WrittenIsPart == current # Nil => outcome = "running" /\ \E n \in 0..rows : written = Part(n)

\* When the command has succeeded, nothing is left to do.
OkIsDone == outcome = "ok" => current = Nil /\ pending = <<>> /\ NextDatabase = Nil

\* Only the file being written by the run in progress can become one more
\* that is broken.
BrokenIsCounted == Cardinality(Broken \ {current}) + (IF outcome = "running" THEN 1 ELSE 0) <= runs

ExportInv == ExportTypeOK /\ OwedIsKept /\ WrittenIsPart /\ OkIsDone /\ BrokenIsCounted

Pieces == {Mark("["), Mark(","), Mark("]")} \cup {Rec(i) : i \in Nat}

LEMMA PieceTypes ==
  /\ Mark("[") \in Pieces /\ Mark(",") \in Pieces /\ Mark("]") \in Pieces
  /\ \A i \in Nat : Rec(i) \in Pieces
BY DEF Pieces

LEMMA AppendAt ==
  ASSUME NEW s \in Seq(Pieces), NEW e \in Pieces
  PROVE  /\ Append(s, e) \in Seq(Pieces) /\ Len(Append(s, e)) = Len(s) + 1
         /\ \A i \in 1..Len(s) : Append(s, e)[i] = s[i]
         /\ Append(s, e)[Len(s) + 1] = e
OBVIOUS

LEMMA ConcatOne ==
  ASSUME NEW s \in Seq(Pieces), NEW e \in Pieces
  PROVE  s \o <<e>> = Append(s, e)
OBVIOUS

LEMMA SameSeq ==
  ASSUME NEW s \in Seq(Pieces), NEW t \in Seq(Pieces), Len(s) = Len(t), \A i \in 1..Len(s) : s[i] = t[i]
  PROVE  s = t
OBVIOUS

\* The elements of the beginning of an array.
ArrayAt(i) == IF i = 1 THEN Mark("[") ELSE IF i % 2 = 0 THEN Rec(i \div 2) ELSE Mark(",")

LEMMA ArrayAtType == ASSUME NEW i \in Nat PROVE ArrayAt(i) \in Pieces
<1>1. i \div 2 \in Nat
  OBVIOUS
<1> QED BY <1>1, PieceTypes DEF ArrayAt

LEMMA PartIsSeq ==
  ASSUME NEW n \in Nat
  PROVE  /\ Part(n) \in Seq(Pieces)
         /\ Len(Part(n)) = IF n = 0 THEN 1 ELSE 2*n
         /\ Len(Part(n)) \div 2 = n
         /\ \A i \in 1..Len(Part(n)) : Part(n)[i] = ArrayAt(i)
<1> DEFINE m == IF n = 0 THEN 1 ELSE 2*n
<1>1. m \in Nat /\ m \div 2 = n
  OBVIOUS
<1>2. Part(n) = [i \in 1..m |-> ArrayAt(i)]
  BY DEF Part, ArrayAt
<1> HIDE DEF m
<1>3. \A i \in 1..m : ArrayAt(i) \in Pieces
  BY <1>1, ArrayAtType
<1>4. Part(n) \in Seq(Pieces) /\ Len(Part(n)) = m
  BY <1>1, <1>2, <1>3
<1> QED BY <1>1, <1>2, <1>4 DEF m

LEMMA PartAppend ==
  ASSUME NEW n \in Nat, NEW e \in Pieces
  PROVE  /\ Append(Part(n), e) \in Seq(Pieces) /\ Len(Append(Part(n), e)) = Len(Part(n)) + 1
         /\ \A i \in 1..Len(Part(n)) : Append(Part(n), e)[i] = ArrayAt(i)
         /\ Append(Part(n), e)[Len(Part(n)) + 1] = e
<1>1. Part(n) \in Seq(Pieces) /\ \A i \in 1..Len(Part(n)) : Part(n)[i] = ArrayAt(i)
  BY PartIsSeq
<1>2. /\ Append(Part(n), e) \in Seq(Pieces) /\ Len(Append(Part(n), e)) = Len(Part(n)) + 1
      /\ \A i \in 1..Len(Part(n)) : Append(Part(n), e)[i] = Part(n)[i]
      /\ Append(Part(n), e)[Len(Part(n)) + 1] = e
  BY <1>1, AppendAt
<1> QED BY <1>1, <1>2

\* The comma before the next record.
LEMMA PartContinues ==
  ASSUME NEW n \in Nat
  PROVE  /\ Part(n) \o Separator(n) \in Seq(Pieces)
         /\ Len(Part(n) \o Separator(n)) = 2*n + 1
         /\ \A i \in 1..(2*n + 1) : (Part(n) \o Separator(n))[i] = ArrayAt(i)
<1>1. CASE n = 0
  <2>1. Part(n) \o Separator(n) = Part(n)
    BY <1>1, PartIsSeq DEF Separator
  <2>2. Len(Part(n)) = 2*n + 1
    BY <1>1, PartIsSeq
  <2> QED BY <2>1, <2>2, PartIsSeq, Zenon
<1>2. CASE n # 0
  <2>1. Separator(n) = <<Mark(",")>>
    BY <1>2 DEF Separator
  <2>2. Part(n) \o Separator(n) = Append(Part(n), Mark(","))
    BY <2>1, ConcatOne, PartIsSeq, PieceTypes, Zenon
  <2>3. Len(Part(n)) = 2*n
    BY <1>2, PartIsSeq
  <2>4. ArrayAt(2*n + 1) = Mark(",")
    <3>1. 2*n + 1 # 1 /\ (2*n + 1) % 2 # 0
      BY <1>2
    <3> QED BY <3>1 DEF ArrayAt
  <2>5. /\ Append(Part(n), Mark(",")) \in Seq(Pieces)
        /\ Len(Append(Part(n), Mark(","))) = 2*n + 1
        /\ \A i \in 1..2*n : Append(Part(n), Mark(","))[i] = ArrayAt(i)
        /\ Append(Part(n), Mark(","))[2*n + 1] = ArrayAt(2*n + 1)
    <3>1. Mark(",") \in Pieces
      BY PieceTypes
    <3>2. /\ Append(Part(n), Mark(",")) \in Seq(Pieces)
          /\ Len(Append(Part(n), Mark(","))) = 2*n + 1
      BY <2>3, <3>1, PartAppend, Zenon
    <3>3. \A i \in 1..2*n : Append(Part(n), Mark(","))[i] = ArrayAt(i)
      BY <2>3, <3>1, PartAppend, Zenon
    <3>4. Append(Part(n), Mark(","))[2*n + 1] = Mark(",")
      BY <2>3, <3>1, PartAppend, Zenon
    <3> QED BY <2>4, <3>2, <3>3, <3>4
  <2>6. \A i \in 1..(2*n + 1) : i \in 1..2*n \/ i = 2*n + 1
    OBVIOUS
  <2> QED BY <2>2, <2>5, <2>6, Zenon
<1> QED BY <1>1, <1>2

\* The comma and the next record.
LEMMA PartExtends ==
  ASSUME NEW n \in Nat
  PROVE  Append(Part(n) \o Separator(n), Rec(n + 1)) = Part(n + 1)
<1> DEFINE head == Part(n) \o Separator(n)
           long == Append(head, Rec(n + 1))
<1>1. head \in Seq(Pieces) /\ Len(head) = 2*n + 1 /\ \A i \in 1..(2*n + 1) : head[i] = ArrayAt(i)
  BY PartContinues
<1> HIDE DEF head
<1>2. n + 1 \in Nat /\ Rec(n + 1) \in Pieces
  <2>1. n + 1 \in Nat
    OBVIOUS
  <2> QED BY <2>1, PieceTypes, Zenon
<1>3. ArrayAt(2*n + 2) = Rec(n + 1)
  <2>1. 2*n + 2 # 1 /\ (2*n + 2) % 2 = 0 /\ (2*n + 2) \div 2 = n + 1
    OBVIOUS
  <2> QED BY <2>1 DEF ArrayAt
<1>4. /\ long \in Seq(Pieces) /\ Len(long) = 2*n + 2
      /\ \A i \in 1..(2*n + 1) : long[i] = ArrayAt(i)
      /\ long[2*n + 2] = ArrayAt(2*n + 2)
  BY <1>1, <1>2, <1>3, AppendAt
<1> HIDE DEF long
<1>5. /\ Part(n + 1) \in Seq(Pieces) /\ Len(Part(n + 1)) = 2*n + 2
      /\ \A i \in 1..(2*n + 2) : Part(n + 1)[i] = ArrayAt(i)
  <2>1. Len(Part(n + 1)) = 2*(n + 1)
    <3>1. n + 1 # 0
      OBVIOUS
    <3> QED BY <1>2, <3>1, PartIsSeq, Zenon
  <2>2. 2*(n + 1) = 2*n + 2
    OBVIOUS
  <2> QED BY <1>2, <2>1, <2>2, PartIsSeq, Zenon
<1>6. \A i \in 1..(2*n + 2) : i \in 1..(2*n + 1) \/ i = 2*n + 2
  OBVIOUS
<1>7. \A i \in 1..(2*n + 2) : long[i] = Part(n + 1)[i]
  BY <1>4, <1>5, <1>6, Zenon
<1>8. long = Part(n + 1)
  BY <1>4, <1>5, <1>7, SameSeq
<1> QED BY <1>8 DEF long, head

\* The closing bracket.
LEMMA PartCloses ==
  ASSUME NEW n \in Nat
  PROVE  Append(Part(n), Mark("]")) = Json(n)
<1> DEFINE long == Append(Part(n), Mark("]"))
           m == IF n = 0 THEN 1 ELSE 2*n
<1>1. Json(n) = [i \in 1..(m + 1) |-> IF i = m + 1 THEN Mark("]") ELSE ArrayAt(i)]
  <2>1. \A i \in 1..(m + 1) : (i # 1 /\ i > 2*n) <=> i = m + 1
    OBVIOUS
  <2>2. Json(n) = [i \in 1..(m + 1) |-> IF i = 1 THEN Mark("[") ELSE IF i > 2*n THEN Mark("]")
                                        ELSE IF i % 2 = 0 THEN Rec(i \div 2) ELSE Mark(",")]
    BY DEF Json
  <2> HIDE DEF m
  <2> QED BY <2>1, <2>2 DEF ArrayAt
<1>2. m \in Nat /\ m = Len(Part(n))
  BY PartIsSeq
<1> HIDE DEF m
<1>3. \A i \in 1..(m + 1) : Json(n)[i] = (IF i = m + 1 THEN Mark("]") ELSE ArrayAt(i))
  BY <1>1
<1>4. Json(n) \in Seq(Pieces) /\ Len(Json(n)) = m + 1
  <2>1. \A i \in 1..(m + 1) : i \in Nat
    OBVIOUS
  <2>2. \A i \in 1..(m + 1) : (IF i = m + 1 THEN Mark("]") ELSE ArrayAt(i)) \in Pieces
    BY <2>1, ArrayAtType, PieceTypes, Zenon
  <2>3. Json(n) \in [1..(m + 1) -> Pieces]
    BY <1>1, <2>2
  <2> QED BY <1>2, <2>3
<1>5. /\ long \in Seq(Pieces) /\ Len(long) = m + 1
      /\ \A i \in 1..m : long[i] = ArrayAt(i)
      /\ long[m + 1] = Mark("]")
  <2>1. Mark("]") \in Pieces
    BY PieceTypes
  <2> QED BY <1>2, <2>1, PartAppend, Zenon
<1> HIDE DEF long
<1>6. \A i \in 1..(m + 1) : i = m + 1 \/ (i # m + 1 /\ i \in 1..m)
  BY <1>2
<1>7. \A i \in 1..(m + 1) : long[i] = Json(n)[i]
  BY <1>3, <1>5, <1>6, Zenon
<1>8. long = Json(n)
  BY <1>4, <1>5, <1>7, SameSeq
<1> QED BY <1>8 DEF long

LEMMA RangeOfTail ==
  ASSUME NEW s \in Seq(Tables), s # <<>>
  PROVE  /\ Head(s) \in Tables /\ Tail(s) \in Seq(Tables)
         /\ \A t \in Range(s) : t = Head(s) \/ t \in Range(Tail(s))
<1>1. Head(s) \in Tables /\ Tail(s) \in Seq(Tables) /\ Len(Tail(s)) = Len(s) - 1
  OBVIOUS
<1>2. ASSUME NEW i \in DOMAIN s PROVE s[i] = Head(s) \/ s[i] \in Range(Tail(s))
  <2>1. CASE i = 1
    BY <2>1
  <2>2. CASE i # 1
    <3>1. i - 1 \in DOMAIN Tail(s) /\ Tail(s)[i - 1] = s[i]
      BY <2>2
    <3> QED BY <3>1 DEF Range
  <2> QED BY <2>1, <2>2
<1> QED BY <1>1, <1>2 DEF Range

LEMMA RangeOfEmpty == Range(<<>>) = {}
BY DEF Range

LEMMA WithoutOne ==
  ASSUME NEW B \in SUBSET Tables, NEW c
  PROVE  /\ IsFiniteSet(B \ {c}) /\ Cardinality(B \ {c}) \in Nat
         /\ IsFiniteSet(B) /\ Cardinality(B) \in Nat
         /\ Cardinality(B \ {c}) <= Cardinality(B)
         /\ Cardinality(B) <= Cardinality(B \ {c}) + 1
<1>1. IsFiniteSet(B)
  BY ExportAssumption, FS_Subset
<1>2. IsFiniteSet(B \ {c}) /\ Cardinality(B \ {c}) <= Cardinality(B)
  BY <1>1, FS_Subset
<1>3. Cardinality(B) \in Nat /\ Cardinality(B \ {c}) \in Nat
  BY <1>1, <1>2, FS_CardinalityType
<1>4. CASE c \in B
  <2>1. Cardinality(B \ {c}) = Cardinality(B) - 1
    BY <1>1, <1>4, FS_RemoveElement
  <2> QED BY <1>1, <1>2, <1>3, <2>1
<1>5. CASE c \notin B
  <2>1. B \ {c} = B
    BY <1>5
  <2> QED BY <1>1, <1>2, <1>3, <2>1
<1> QED BY <1>4, <1>5

LEMMA BrokenTables == Broken \in SUBSET Tables /\ Broken' \in SUBSET Tables
BY DEF Broken

\* One file is written.
LEMMA OneFile ==
  ASSUME ExportTypeOK, NEW c \in Tables, NEW x, files' = [files EXCEPT ![c] = x]
  PROVE  /\ files' = [t \in Tables |-> files'[t]]
         /\ files'[c] = x /\ \A t \in Tables : t # c => files'[t] = files[t]
         /\ Broken' \ {c} = Broken \ {c}
<1>1. /\ files' = [t \in Tables |-> files'[t]]
      /\ files'[c] = x /\ \A t \in Tables : t # c => files'[t] = files[t]
  BY DEF ExportTypeOK
<1>2. ASSUME NEW t, t # c PROVE t \in Broken' <=> t \in Broken
  BY <1>1, <1>2 DEF Broken
<1> QED BY <1>1, <1>2

LEMMA ExportInitHolds == ExportInit => ExportInv
<1> SUFFICES ASSUME ExportInit PROVE ExportInv
  OBVIOUS
<1>1. ExportTypeOK
  <2>1. columns \in [archive : Columns["archive"], chain_store : Columns["chain_store"]]
    BY DEF ExportInit
  <2>2. columns \in [Exported -> SUBSET Tables]
    BY <2>1 DEF Exported, Tables
  <2> QED BY <2>2, ExportAssumption DEF ExportInit, ExportTypeOK, Exported
<1>2. Broken = {}
  BY DEF ExportInit, Broken
<1>3. Cardinality(Broken \ {current}) = 0
  BY <1>2, FS_EmptySet
<1> QED BY <1>1, <1>3 DEF ExportInit, ExportInv, OwedIsKept, WrittenIsPart, OkIsDone, BrokenIsCounted

LEMMA StartExportHolds == ASSUME ExportInv, StartExport PROVE ExportInv'
<1>1. current = Nil /\ current' = Nil
  BY DEF ExportInv, WrittenIsPart, StartExport
<1>2. ExportTypeOK'
  BY DEF ExportInv, ExportTypeOK, StartExport
<1>3. Reached' = {}
  BY <1>2, ExportAssumption DEF StartExport, Reached, ExportTypeOK, Exported
<1>4. BrokenIsCounted'
  <2>1. Broken' = Broken
    BY DEF StartExport, Broken
  <2>2. Cardinality(Broken' \ {current'}) = Cardinality(Broken \ {current})
    BY <1>1, <2>1
  <2>3. Cardinality(Broken \ {current}) \in Nat /\ Cardinality(Broken \ {current}) + 0 <= runs
    BY WithoutOne, BrokenTables DEF ExportInv, BrokenIsCounted, StartExport
  <2>4. runs \in Nat /\ runs' = runs + 1 /\ outcome' = "running"
    BY DEF StartExport, ExportInv, ExportTypeOK
  <2> QED BY <2>2, <2>3, <2>4 DEF BrokenIsCounted
<1> QED BY <1>1, <1>2, <1>3, <1>4 DEF StartExport, ExportInv, OwedIsKept, WrittenIsPart, OkIsDone

LEMMA OpenDatabaseHolds == ASSUME ExportInv, OpenDatabase PROVE ExportInv'
<1>1. NextDatabase \in Exported
  BY DEF OpenDatabase, NextDatabase, Exported
<1>2. ExportTypeOK'
  <2>1. Exports[NextDatabase] \in Seq(Tables)
    BY <1>1, ExportAssumption
  <2> QED BY <1>1, <2>1 DEF ExportInv, ExportTypeOK, OpenDatabase
<1>3. Broken' = Broken /\ current' = current /\ current = Nil /\ outcome' # "ok" /\ outcome = "running"
  BY DEF OpenDatabase, Broken
<1>4. BrokenIsCounted'
  <2>1. Cardinality(Broken' \ {current'}) = Cardinality(Broken \ {current}) /\ runs' = runs /\ runs \in Nat
    BY <1>3 DEF OpenDatabase, ExportInv, ExportTypeOK
  <2>2. Cardinality(Broken \ {current}) \in Nat /\ Cardinality(Broken \ {current}) + 1 <= runs
    BY <1>3, WithoutOne, BrokenTables DEF ExportInv, BrokenIsCounted
  <2> QED BY <2>1, <2>2 DEF BrokenIsCounted
<1>5. OwedIsKept'
  <2> SUFFICES ASSUME outcome' = "running", ~args.dry_run,
                      NEW d \in Reached', NEW t \in Owed(d)'
               PROVE  files[t] = Json(rows) \/ (d = NextDatabase /\ t \in Range(pending'))
    BY <1>3 DEF OwedIsKept, OpenDatabase
  <2>1. fetcher' = NextDatabase /\ d \in args.opened /\ t \in Owed(d)
    BY <1>3 DEF OpenDatabase, Reached, Owed, should_export
  <2>2. CASE d = NextDatabase
    <3>1. args.table \in {t, "all"} /\ t \in columns[d] /\ t \in Range(Exports[d])
      BY <2>1 DEF Owed, should_export
    <3>2. will_export(d)
      BY <3>1 DEF will_export
    <3>3. pending' = Exports[d]
      BY <2>2, <3>2 DEF OpenDatabase
    <3> QED BY <2>2, <3>1, <3>3
  <2>3. CASE d # NextDatabase
    <3>1. d = "archive" /\ NextDatabase = "chain_store" /\ fetcher = "archive"
      BY <2>1, <2>3 DEF Reached, NextDatabase, ExportInv, ExportTypeOK, Exported
    <3>2. d \in Reached
      BY <2>1, <3>1 DEF Reached
    <3>3. t \in Tables
      BY <2>1, <3>1 DEF Owed, ExportInv, ExportTypeOK, Exported
    <3>4. t # current /\ t \notin Range(pending)
      BY <1>3, <3>3, RangeOfEmpty, ExportAssumption DEF OpenDatabase
    <3> QED BY <1>3, <2>1, <3>2, <3>4 DEF ExportInv, OwedIsKept
  <2> QED BY <2>2, <2>3
<1> QED BY <1>2, <1>3, <1>4, <1>5 DEF ExportInv, WrittenIsPart, OkIsDone

LEMMA SkipTableHolds == ASSUME ExportInv, SkipTable PROVE ExportInv'
<1>1. Head(pending) \in Tables /\ Tail(pending) \in Seq(Tables)
      /\ \A t \in Range(pending) : t = Head(pending) \/ t \in Range(Tail(pending))
  BY RangeOfTail DEF ExportInv, ExportTypeOK, SkipTable
<1>2. ExportTypeOK'
  BY <1>1 DEF ExportInv, ExportTypeOK, SkipTable
<1>3. Broken' = Broken /\ Reached' = Reached /\ \A d : Owed(d)' = Owed(d)
  BY DEF SkipTable, Broken, Reached, Owed, should_export
<1>4. \A d : Head(pending) \notin Owed(d)
  BY DEF SkipTable, Owed
<1>5. OwedIsKept'
  BY <1>1, <1>3, <1>4 DEF ExportInv, OwedIsKept, SkipTable
<1> QED BY <1>2, <1>3, <1>5 DEF SkipTable, ExportInv, WrittenIsPart, OkIsDone, BrokenIsCounted

\* What a step does to the count when it leaves all files but that of c alone.
LEMMA CountHolds ==
  ASSUME ExportInv, outcome = "running", runs' = runs, NEW c \in Tables \cup {Nil}, Broken' \ {c} = Broken \ {c},
         \/ outcome' # "running" /\ c = current
         \/ c = current' /\ (current = Nil \/ current = c)
         \/ current' = Nil /\ c = current /\ c \notin Broken'
  PROVE  BrokenIsCounted'
<1>1. Cardinality(Broken \ {current}) \in Nat /\ Cardinality(Broken \ {current}) + 1 <= runs /\ runs \in Nat
  BY WithoutOne, BrokenTables DEF ExportInv, BrokenIsCounted, ExportTypeOK
<1>2. CASE outcome' # "running" /\ c = current
  <2>1. /\ Cardinality(Broken' \ {c}) = Cardinality(Broken \ {current})
        /\ Cardinality(Broken') <= Cardinality(Broken' \ {c}) + 1 /\ Cardinality(Broken') \in Nat
        /\ Cardinality(Broken' \ {current'}) <= Cardinality(Broken') /\ Cardinality(Broken' \ {current'}) \in Nat
    BY <1>2, WithoutOne, BrokenTables
  <2> QED BY <1>1, <1>2, <2>1 DEF BrokenIsCounted
<1>3. ASSUME Broken' \ {current'} \subseteq Broken \ {current} PROVE BrokenIsCounted'
  <2>1. IsFiniteSet(Broken \ {current})
    BY WithoutOne, BrokenTables
  <2>2. Cardinality(Broken' \ {current'}) <= Cardinality(Broken \ {current}) /\ IsFiniteSet(Broken' \ {current'})
    BY <1>3, <2>1, FS_Subset
  <2>3. Cardinality(Broken' \ {current'}) \in Nat
    BY <2>2, FS_CardinalityType
  <2> QED BY <1>1, <2>2, <2>3 DEF BrokenIsCounted
<1>4. CASE c = current' /\ (current = Nil \/ current = c)
  <2>1. Nil \notin Broken
    BY ExportAssumption DEF Broken
  <2> QED BY <1>3, <1>4, <2>1
<1>5. CASE current' = Nil /\ c = current /\ c \notin Broken'
  BY <1>3, <1>5
<1> QED BY <1>2, <1>4, <1>5

LEMMA BeginTableHolds == ASSUME ExportInv, BeginTable PROVE ExportInv'
<1> DEFINE t == Head(pending)
<1>1. /\ t \in Tables /\ Tail(pending) \in Seq(Tables)
      /\ \A u \in Range(pending) : u = t \/ u \in Range(Tail(pending))
  BY RangeOfTail DEF ExportInv, ExportTypeOK, BeginTable
<1> HIDE DEF t
<1>2. Reached' = Reached /\ \A d : Owed(d)' = Owed(d)
  BY DEF BeginTable, Reached, Owed, should_export
<1>3. outcome = "running" /\ current = Nil /\ runs' = runs
  BY DEF BeginTable
<1>4. CASE t \in columns[fetcher]
  <2>1. /\ current' = t /\ pending' = Tail(pending) /\ written' = <<Mark("[")>>
        /\ files' = [files EXCEPT ![t] = <<>>] /\ outcome' = outcome
        /\ UNCHANGED <<args, columns, rows, fetcher>>
    BY <1>4 DEF BeginTable, t
  <2>2. /\ files' = [u \in Tables |-> files'[u]]
        /\ \A u \in Tables : u # t => files'[u] = files[u]
        /\ Broken' \ {t} = Broken \ {t}
    BY <1>1, <2>1, OneFile DEF ExportInv
  <2>3. ExportTypeOK'
    BY <1>1, <1>3, <2>1, <2>2 DEF ExportInv, ExportTypeOK
  <2>4. BrokenIsCounted'
    BY <1>1, <1>3, <2>1, <2>2, CountHolds
  <2>5. WrittenIsPart'
    <3>1. Part(0) = <<Mark("[")>>
      <4>1. Part(0) \in Seq(Pieces) /\ Len(Part(0)) = 1 /\ \A i \in 1..1 : Part(0)[i] = ArrayAt(i)
        BY PartIsSeq
      <4>2. ArrayAt(1) = Mark("[")
        BY DEF ArrayAt
      <4> QED BY <4>1, <4>2
    <3>2. 0 \in 0..rows'
      BY <2>3 DEF ExportTypeOK
    <3> QED BY <1>3, <2>1, <3>1, <3>2 DEF WrittenIsPart
  <2>6. OwedIsKept'
    <3> SUFFICES ASSUME ~args.dry_run, NEW d \in Reached, NEW u \in Owed(d)
                 PROVE  files'[u] = Json(rows) \/ u = t \/ (d = fetcher /\ u \in Range(pending'))
      BY <1>2, <2>1 DEF OwedIsKept
    <3>1. u \in Tables
      BY DEF Owed, Reached, ExportInv, ExportTypeOK
    <3>2. u # current
      BY <1>3, <3>1, ExportAssumption
    <3>3. files[u] = Json(rows) \/ (d = fetcher /\ u \in Range(pending))
      BY <1>3, <3>2 DEF ExportInv, OwedIsKept
    <3> QED BY <1>1, <2>1, <2>2, <3>1, <3>3
  <2> QED BY <1>3, <2>1, <2>3, <2>4, <2>5, <2>6 DEF ExportInv, OkIsDone
<1>5. CASE t \notin columns[fetcher]
  <2>1. outcome' = "error" /\ UNCHANGED <<args, columns, rows, fetcher, pending, current, written, files>>
    BY <1>5 DEF BeginTable, t
  <2>2. ExportTypeOK'
    BY <1>3, <2>1 DEF ExportInv, ExportTypeOK
  <2>3. BrokenIsCounted'
    <3>1. Broken' = Broken
      BY <2>1 DEF Broken
    <3> QED BY <1>3, <2>1, <3>1, CountHolds
  <2> QED BY <1>3, <2>1, <2>2, <2>3 DEF ExportInv, OwedIsKept, WrittenIsPart, OkIsDone
<1> QED BY <1>4, <1>5

LEMMA WriteRecordHolds == ASSUME ExportInv, WriteRecord PROVE ExportInv'
<1>1. /\ outcome = "running" /\ current \in Tables /\ rows \in Nat
      /\ UNCHANGED <<args, columns, rows, fetcher, pending, current, outcome, runs>>
  BY DEF WriteRecord, ExportInv, ExportTypeOK
<1>2. PICK n \in 0..rows : written = Part(n)
  BY <1>1, ExportAssumption DEF ExportInv, WrittenIsPart
<1>3. Records = n
  BY <1>2, PartIsSeq DEF Records
<1>4. n + 1 \in 0..rows
  BY <1>1, <1>2, <1>3 DEF WriteRecord
<1>5. written' = Part(n + 1)
  <2>1. written' = Append(written \o Separator(Records), Rec(Records + 1))
    BY DEF WriteRecord
  <2>2. n \in Nat
    BY <1>1
  <2> QED BY <1>2, <1>3, <2>1, <2>2, PartExtends, Zenon
<1>6. \E x : files' = [files EXCEPT ![current] = x]
  BY DEF WriteRecord
<1>7. /\ files' = [u \in Tables |-> files'[u]]
      /\ \A u \in Tables : u # current => files'[u] = files[u]
      /\ Broken' \ {current} = Broken \ {current}
  BY <1>1, <1>6, OneFile DEF ExportInv
<1>8. ExportTypeOK'
  BY <1>1, <1>7 DEF ExportInv, ExportTypeOK
<1>9. BrokenIsCounted'
  BY <1>1, <1>7, CountHolds
<1>10. WrittenIsPart'
  BY <1>1, <1>4, <1>5 DEF WrittenIsPart
<1>11. OwedIsKept'
  <2> SUFFICES ASSUME ~args.dry_run, NEW d \in Reached, NEW u \in Owed(d), u # current
               PROVE  files'[u] = Json(rows) \/ (d = fetcher /\ u \in Range(pending))
    BY <1>1 DEF OwedIsKept, Reached, Owed, should_export
  <2>1. u \in Tables
    BY DEF Owed, Reached, ExportInv, ExportTypeOK
  <2> QED BY <1>1, <1>7, <2>1 DEF ExportInv, OwedIsKept
<1> QED BY <1>1, <1>8, <1>9, <1>10, <1>11 DEF ExportInv, OkIsDone

LEMMA EndTableHolds == ASSUME ExportInv, EndTable PROVE ExportInv'
<1>1. /\ outcome = "running" /\ current \in Tables /\ rows \in 0..MaxRows /\ rows \in Nat /\ current' = Nil
      /\ UNCHANGED <<args, columns, rows, fetcher, pending, outcome, runs>>
  BY ExportAssumption DEF EndTable, ExportInv, ExportTypeOK
<1>2. PICK n \in 0..rows : written = Part(n)
  BY <1>1, ExportAssumption DEF ExportInv, WrittenIsPart
<1>3. n = rows
  <2>1. Records = n
    BY <1>2, PartIsSeq DEF Records
  <2> QED BY <2>1 DEF EndTable
<1>4. files' = [files EXCEPT ![current] = Json(rows)]
  <2>1. Append(written, Mark("]")) = Json(rows)
    BY <1>1, <1>2, <1>3, PartCloses
  <2> QED BY <2>1 DEF EndTable
<1>5. /\ files' = [u \in Tables |-> files'[u]] /\ files'[current] = Json(rows)
      /\ \A u \in Tables : u # current => files'[u] = files[u]
      /\ Broken' \ {current} = Broken \ {current}
  BY <1>1, <1>4, OneFile DEF ExportInv
<1>6. ExportTypeOK'
  BY <1>1, <1>5 DEF ExportInv, ExportTypeOK
<1>7. BrokenIsCounted'
  <2>1. current \notin Broken'
    BY <1>1, <1>5 DEF Broken
  <2> QED BY <1>1, <1>5, <2>1, CountHolds
<1>8. OwedIsKept'
  <2> SUFFICES ASSUME ~args.dry_run, NEW d \in Reached, NEW u \in Owed(d)
               PROVE  files'[u] = Json(rows) \/ (d = fetcher /\ u \in Range(pending))
    BY <1>1 DEF OwedIsKept, Reached, Owed, should_export
  <2>1. u \in Tables
    BY DEF Owed, Reached, ExportInv, ExportTypeOK
  <2> QED BY <1>1, <1>5, <2>1 DEF ExportInv, OwedIsKept
<1> QED BY <1>1, <1>6, <1>7, <1>8 DEF ExportInv, WrittenIsPart, OkIsDone

\* The steps that end a run without success: at most the file being written
\* changes.
LEMMA FailureHolds == ASSUME ExportInv, FailTable \/ Stop PROVE ExportInv'
<1>1. /\ outcome = "running" /\ outcome' = "error" /\ current' = Nil
      /\ current \in Tables \cup {Nil}
      /\ UNCHANGED <<args, columns, rows, fetcher, pending, runs>>
  BY DEF FailTable, Stop, ExportInv, ExportTypeOK
<1>2. files' = [u \in Tables |-> files'[u]] /\ Broken' \ {current} = Broken \ {current}
  <2>1. CASE current = Nil
    <3>1. files' = files
      BY <2>1 DEF FailTable, Stop
    <3> QED BY <3>1 DEF ExportInv, ExportTypeOK, Broken
  <2>2. CASE current # Nil
    <3>1. \E x : files' = [files EXCEPT ![current] = x]
      BY <2>2 DEF FailTable, Stop
    <3> QED BY <1>1, <2>2, <3>1, OneFile DEF ExportInv
  <2> QED BY <2>1, <2>2
<1>3. ExportTypeOK'
  BY <1>1, <1>2 DEF ExportInv, ExportTypeOK
<1>4. BrokenIsCounted'
  BY <1>1, <1>2, CountHolds
<1> QED BY <1>1, <1>3, <1>4 DEF ExportInv, OwedIsKept, WrittenIsPart, OkIsDone

LEMMA FinishHolds == ASSUME ExportInv, Finish PROVE ExportInv'
<1>1. /\ outcome = "running" /\ outcome' = "ok" /\ current = Nil /\ pending = <<>> /\ NextDatabase = Nil
      /\ UNCHANGED <<args, columns, rows, fetcher, pending, current, written, files, runs>>
  BY DEF Finish
<1>2. ExportTypeOK'
  BY <1>1 DEF ExportInv, ExportTypeOK
<1>3. Broken' = Broken /\ Reached' = Reached /\ NextDatabase' = NextDatabase /\ \A d : Owed(d)' = Owed(d)
  BY <1>1 DEF Broken, Reached, NextDatabase, Owed, should_export
<1>4. BrokenIsCounted'
  BY <1>1, <1>3, CountHolds
<1> QED BY <1>1, <1>2, <1>3, <1>4 DEF ExportInv, OwedIsKept, WrittenIsPart, OkIsDone

LEMMA ExportStepHolds == ExportInv /\ [ExportNext]_exportVars => ExportInv'
<1> SUFFICES ASSUME ExportInv, [ExportNext]_exportVars PROVE ExportInv'
  OBVIOUS
<1>1. CASE UNCHANGED exportVars
  BY <1>1 DEF exportVars, ExportInv, ExportTypeOK, OwedIsKept, Reached, Owed, should_export, WrittenIsPart,
              OkIsDone, NextDatabase, BrokenIsCounted, Broken
<1> QED
  BY <1>1, StartExportHolds, OpenDatabaseHolds, SkipTableHolds, BeginTableHolds, WriteRecordHolds, EndTableHolds,
     FailureHolds, FinishHolds DEF ExportNext

LEMMA WholeHolds == ExportInv => ExportIsWhole
<1> SUFFICES ASSUME ExportInv PROVE ExportIsWhole
  OBVIOUS
<1>1. OneBrokenFilePerRun
  <2>1. /\ Cardinality(Broken \ {current}) \in Nat /\ Cardinality(Broken) \in Nat /\ runs \in Nat
        /\ Cardinality(Broken) <= Cardinality(Broken \ {current}) + 1
    BY WithoutOne, BrokenTables DEF ExportInv, ExportTypeOK
  <2>2. CASE outcome = "running"
    <3>1. Cardinality(Broken \ {current}) + 1 <= runs
      BY <2>2 DEF ExportInv, BrokenIsCounted
    <3> QED BY <2>1, <3>1 DEF OneBrokenFilePerRun
  <2>3. CASE outcome # "running"
    <3>1. current = Nil
      BY <2>3 DEF ExportInv, WrittenIsPart
    <3>2. Broken \ {current} = Broken
      BY <3>1, ExportAssumption, BrokenTables
    <3>3. Cardinality(Broken) + 0 <= runs
      BY <2>3, <3>2 DEF ExportInv, BrokenIsCounted
    <3> QED BY <2>1, <3>3 DEF OneBrokenFilePerRun
  <2> QED BY <2>2, <2>3
<1>2. OkIsWhole
  <2> SUFFICES ASSUME outcome = "ok", ~args.dry_run, NEW d \in args.opened, NEW t \in Range(Exports[d]),
                      should_export(t), t \in columns[d]
               PROVE  files[t] = Json(rows)
    BY DEF OkIsWhole
  <2>1. current = Nil /\ pending = <<>> /\ NextDatabase = Nil
    BY DEF ExportInv, OkIsDone
  <2>2. d \in Exported
    BY DEF ExportInv, ExportTypeOK
  <2>3. d \in Reached
    BY <2>1, <2>2, ExportAssumption DEF Reached, NextDatabase, ExportInv, ExportTypeOK, Exported
  <2>4. t \in Owed(d) /\ t \in Tables
    BY <2>2 DEF Owed, ExportInv, ExportTypeOK
  <2> QED BY <2>1, <2>3, <2>4, RangeOfEmpty, ExportAssumption DEF ExportInv, OwedIsKept
<1> QED BY <1>1, <1>2 DEF ExportIsWhole

\* export-all: whatever runs failed, were stopped or succeeded before, a run that
\* reports success has left whole arrays of the tables it was asked for, and
\* there are never more broken files than there were runs.
THEOREM ExportIsAlwaysWhole == ExportSpec => []ExportIsWhole
BY ExportInitHolds, ExportStepHolds, WholeHolds, PTL DEF ExportSpec
=============================================================================
