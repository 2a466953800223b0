---------------------------- MODULE NodeStartup ----------------------------
(***************************************************************************)
(* start_rpc_server: the order in which an RPC node checks its             *)
(* configuration, resets or opens its three databases, creates the chain   *)
(* state from the genesis blob, wires and spawns its tasks, serves         *)
(* requests and stops.  Every step may fail, and the process may be killed *)
(* between any two steps and be started again.                             *)
(*                                                                         *)
(* A database is named by its generation: one more than the resets before  *)
(* it was created, 0 if its directory does not exist.                      *)
(***************************************************************************)
EXTENDS Integers, Sequences, FiniteSets

CONSTANTS
  MaxStarts,   \* bound on the number of starts
  Configs      \* configurations the operator may use: [resume, mainnet, faucet, pruning,
               \* prune_config], where mainnet tells the genesis blob and pruning is the set
               \* of databases to be pruned

Databases == {"store", "ledger", "archive"}

VARIABLES
  step,         \* the next step of start_rpc_server
  config,       \* the configuration file
  starts,       \* starts so far
  generation,   \* of the databases created next
  disk,         \* database -> generation of its directory
  genesis,      \* the chain state (Move store, block store) in the store: generation
  chain,        \* the chain it belongs to: "mainnet", "testnet" or "none"
  tasks,        \* tasks that are running
  subscribed,   \* components that receive epoch changes
  missed,       \* components that were not subscribed when the epochs started
  faucet,       \* the faucet of the API server: "none", "empty", "ready"
  notified      \* notify_shutdown was called

process == <<tasks, subscribed, missed, faucet, notified>>
durable == <<disk, genesis, chain>>
startupVars == <<step, config, starts, generation, durable, process>>

Running == step \notin {"off", "stopped", "failed"}

StartupInit ==
  /\ step = "off" /\ config \in Configs /\ starts = 0 /\ generation = 1
  /\ disk = [d \in Databases |-> 0] /\ genesis = 0 /\ chain = "none"
  /\ tasks = {} /\ subscribed = {} /\ missed = {} /\ faucet = "none" /\ notified = FALSE

Go(from, to) == step = from /\ step' = to

\* Any step that can fail returns its error or panics, and the process ends as it is.
FailAt(from) ==
  /\ step = from /\ step' = "failed"
  /\ UNCHANGED <<config, starts, generation, durable, process>>

\* The process is started, also after a crash or a failed start.
Start ==
  /\ ~ Running /\ starts < MaxStarts
  /\ step' = "config" /\ starts' = starts + 1
  /\ tasks' = {} /\ subscribed' = {} /\ missed' = {} /\ faucet' = "none" /\ notified' = FALSE
  /\ UNCHANGED <<config, generation, durable>>

\* The process is killed.
Crash ==
  /\ Running
  /\ step' = "off"
  /\ tasks' = {} /\ subscribed' = {} /\ missed' = {} /\ faucet' = "none" /\ notified' = FALSE
  /\ UNCHANGED <<config, starts, generation, durable>>

\* The operator edits the configuration, but does not turn a reset that was
\* interrupted into a resume.
Edit(c) ==
  /\ ~ Running
  /\ c # config
  /\ c.resume /\ ~ config.resume => \A d, e \in Databases : disk[d] = disk[e]
  /\ config' = c
  /\ UNCHANGED <<step, starts, generation, durable, process>>

\* The configuration is read and checked, the console and the loggers are started.
read_config ==
  /\ Go("config", "databases")
  /\ UNCHANGED <<config, starts, generation, durable, process>>

\* setup_databases: without resume the three directories are moved away in turn.
setup_databases ==
  /\ Go("databases", IF config.resume THEN "open_store" ELSE "remove_store")
  /\ generation' = IF config.resume THEN generation ELSE generation + 1
  /\ UNCHANGED <<config, starts, durable, process>>

remove_complete(d, from, to) ==
  /\ Go(from, to)
  /\ disk' = IF \A e \in Databases : disk[e] # 0 THEN [disk EXCEPT ![d] = 0] ELSE disk
  /\ genesis' = IF disk'["store"] = 0 THEN 0 ELSE genesis
  /\ chain' = IF disk'["store"] = 0 THEN "none" ELSE chain
  /\ UNCHANGED <<config, starts, generation, process>>

remove_and_backup_directory(d, from, to) ==
  /\ Go(from, to)
  /\ disk' = [disk EXCEPT ![d] = 0]
  /\ genesis' = IF d = "store" THEN 0 ELSE genesis
  /\ chain' = IF d = "store" THEN "none" ELSE chain
  /\ UNCHANGED <<config, starts, generation, process>>

\* A database is opened, and created where it does not exist.
open(d, from, to) ==
  /\ Go(from, to)
  /\ disk' = [disk EXCEPT ![d] = IF @ = 0 THEN generation ELSE @]
  /\ UNCHANGED <<config, starts, generation, genesis, chain, process>>

\* MoveStore::load_or_create_genesis: the genesis blob counts only for a new store.
load_or_create_genesis ==
  /\ Go("genesis", "epoch_manager")
  /\ IF genesis # 0 THEN UNCHANGED <<genesis, chain>>
     ELSE /\ genesis' = disk["store"]
          /\ chain' = IF config.mainnet THEN "mainnet" ELSE "testnet"
  /\ UNCHANGED <<config, starts, generation, disk, process>>

\* RpcStorage, gas monitor, epoch manager and executor.
create_epoch_manager ==
  /\ Go("epoch_manager", "client")
  /\ UNCHANGED <<config, starts, generation, durable, process>>

\* setup_client by WebSocket or REST, and the middleware.
setup_client ==
  /\ Go("client", "assembler")
  /\ tasks' = tasks \union {"client", "middleware"}
  /\ UNCHANGED <<config, starts, generation, durable, subscribed, missed, faucet, notified>>

\* The block store is initialized from the genesis blob and the assembler is
\* created, with its subscription to epoch changes.
create_assembler ==
  /\ Go("assembler", "pruner")
  /\ subscribed' = subscribed \union {"assembler"}
  /\ UNCHANGED <<config, starts, generation, durable, tasks, missed, faucet, notified>>

\* Pruning of any database needs a pruning configuration.
setup_prune_scheduler ==
  /\ step = "pruner"
  /\ IF config.pruning = {}
       THEN step' = "spawn_epoch_manager" /\ UNCHANGED <<tasks, subscribed>>
     ELSE IF ~ config.prune_config
       THEN step' = "failed" /\ UNCHANGED <<tasks, subscribed>>
     ELSE /\ step' = "spawn_epoch_manager"
          /\ subscribed' = subscribed \union {"pruner"}
          /\ tasks' = tasks \union {"pruner"}
  /\ UNCHANGED <<config, starts, generation, durable, missed, faucet, notified>>

\* From here on epoch changes are sent to those that have subscribed.
spawn_epoch_manager ==
  /\ Go("spawn_epoch_manager", "spawn_assembler")
  /\ tasks' = tasks \union {"epoch_manager"}
  /\ missed' = ({"assembler"} \union (tasks \intersect {"pruner"})) \ subscribed
  /\ UNCHANGED <<config, starts, generation, durable, subscribed, faucet, notified>>

spawn_assembler ==
  /\ Go("spawn_assembler", "state")
  /\ tasks' = tasks \union {"assembler"}
  /\ UNCHANGED <<config, starts, generation, durable, subscribed, missed, faucet, notified>>

\* The dispatcher and the API server state; off mainnet an empty faucet, if
\* configured, and a task that fills it.
build_state ==
  /\ Go("state", "bind")
  /\ IF chain # "mainnet" /\ config.faucet
       THEN faucet' = "empty" /\ tasks' = tasks \union {"faucet"}
       ELSE UNCHANGED <<faucet, tasks>>
  /\ UNCHANGED <<config, starts, generation, durable, subscribed, missed, notified>>

\* The minters are ready and the faucet of the running server is replaced.
set_faucet ==
  /\ Running /\ ~ notified /\ "faucet" \in tasks
  /\ faucet' = "ready" /\ tasks' = tasks \ {"faucet"}
  /\ UNCHANGED <<step, config, starts, generation, durable, subscribed, missed, notified>>

\* The server binds its address and serves.
serve ==
  /\ Go("bind", "serving")
  /\ UNCHANGED <<config, starts, generation, durable, process>>

\* The server ends, with or without an error: the tasks are told.
server_exit ==
  /\ Go("serving", "stopping")
  /\ notified' = TRUE
  /\ UNCHANGED <<config, starts, generation, durable, tasks, subscribed, missed, faucet>>

task_ends(t) ==
  /\ notified /\ Running /\ t \in tasks
  /\ tasks' = tasks \ {t}
  /\ UNCHANGED <<step, config, starts, generation, durable, subscribed, missed, faucet, notified>>

\* wait_for_shutdown, then the console is stopped.
wait_for_shutdown ==
  /\ tasks = {}
  /\ Go("stopping", "stopped")
  /\ UNCHANGED <<config, starts, generation, durable, process>>

Steps ==
  \/ read_config \/ setup_databases
  \/ remove_and_backup_directory("store", "remove_store", "remove_ledger")
  \/ remove_and_backup_directory("ledger", "remove_ledger", "remove_archive")
  \/ remove_and_backup_directory("archive", "remove_archive", "open_store")
  \/ open("store", "open_store", "open_ledger")
  \/ open("ledger", "open_ledger", "open_archive")
  \/ open("archive", "open_archive", "genesis")
  \/ load_or_create_genesis \/ create_epoch_manager \/ setup_client \/ create_assembler
  \/ setup_prune_scheduler \/ spawn_epoch_manager \/ spawn_assembler \/ build_state \/ serve

Fallible ==
  {"config", "databases", "remove_store", "remove_ledger", "remove_archive", "open_store",
   "open_ledger", "open_archive", "genesis", "epoch_manager", "client", "assembler",
   "spawn_epoch_manager", "bind"}

start_rpc_server ==
  \/ Steps \/ set_faucet \/ server_exit \/ wait_for_shutdown
  \/ (\E t \in tasks : task_ends(t)) \/ (\E from \in Fallible : FailAt(from))

StartupNext == Start \/ Crash \/ (\E c \in Configs : Edit(c)) \/ start_rpc_server

StartupSpec == StartupInit /\ [][StartupNext]_startupVars

(***************************************************************************)
(* Properties                                                              *)
(***************************************************************************)

\* Tasks that write to the databases are up.
Wired == "assembler" \in tasks

\* When the node's tasks run, its three databases and the chain state in them belong
\* together, however many starts were killed or failed in the middle of a reset or of
\* the creation of the databases.
DatabasesAgree ==
  Wired => \A d \in Databases : disk[d] = genesis /\ disk[d] # 0

\* No component misses an epoch change because the epoch manager was spawned before
\* the component subscribed.
NoneMissed == missed = {}

\* A node whose databases hold mainnet offers no faucet, whatever its configuration
\* and its genesis blob say by now.
NoFaucetOnMainnet == faucet # "none" => chain = "testnet"

\* What holds of a node whose tasks run, whatever happened in earlier starts.
RunningNodeIsSound == DatabasesAgree /\ NoneMissed /\ NoFaucetOnMainnet
=============================================================================
