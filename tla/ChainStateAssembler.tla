------------------------- MODULE ChainStateAssembler -------------------------
(***************************************************************************)
(* rpc_node/src/consensus/chain_state_assembler.rs: the task that rebuilds *)
(* the chain state of an RPC node from the certified blocks a provider     *)
(* sends, in any order, more than once or not at all.                      *)
(*                                                                         *)
(* The task is one sequential loop.  A handler is cut into several actions *)
(* only at its persistent writes and at the call of the executor, the      *)
(* places where a crash leaves different things on disk; `pc' forces the   *)
(* pieces to follow each other, so no other handler runs in between:       *)
(*                                                                         *)
(*   idle -> batches -> persist -> commit -> execute -> record -> finish   *)
(*        -> (boundary ->) idle                                            *)
(*                                                                         *)
(* A start with no data goes through `genesis'; a start that finds a       *)
(* committed block that was not executed enters at `commit' with task      *)
(* "restore" (the state consistency warranter).                            *)
(***************************************************************************)
EXTENDS BlockStore, BlockVerifier, Synchronizer, Sequences

CONSTANTS
  EpochEnding,   \* the blocks whose execution ends their epoch
  CrashPoints    \* the values of pc at which the process may be killed

Stages == {"down", "genesis", "idle", "batches", "persist", "commit",
           "execute", "record", "finish", "boundary"}

ASSUME AssemblerAssumption ==
  /\ EpochEnding \subseteq Blocks \ {Genesis}
  /\ CrashPoints \subseteq Stages \ {"down"}

(***************************************************************************)
(* What the consensus that certifies the blocks guarantees: the epochs     *)
(* start with genesis, and an epoch has no blocks above the one that ends  *)
(* it.                                                                     *)
(***************************************************************************)
ASSUME EpochAssumption ==
  /\ \A b \in Blocks : b.epoch >= Genesis.epoch
  /\ \A b \in EpochEnding, c \in Blocks : c.epoch <= b.epoch => c.height <= b.height

VARIABLES
  \* control of the task
  pc,       \* where in the loop it is; "down" when it does not run
  exit,     \* why it last stopped running, "none" while it runs
  current,  \* the block the current handler works on, or NoBlock
  task,     \* "run": in the loop; "restore": in the consistency warranter
  \* fields in memory
  last_executed_block_info,
  last_observed_highest_block,   \* its height; 0 for None
  pending_execution,
  last_committed_block_height,
  ready_to_execute,              \* the feedback channel of size 1, or NoBlock
  epoch,                         \* the verifier's current epoch
  epoch_status,                  \* "active" or "over"
  \* the persistent ChainStore
  batch,                         \* the blocks whose batches are written
  certified_block,               \* by height
  committed_block,               \* LastStateItem CommittedBlock
  executed_block,                \* LastStateItem ExecutedBlock
  epoch_boundary_block,          \* LastStateItem EpochBoundaryBlockQC
  \* outside this module
  ledger,                        \* the blocks applied to the Move store
  epoch_manager                  \* the notification it is about to deliver

controlVars == <<pc, exit, current, task>>
chainVars   == <<last_executed_block_info, last_observed_highest_block,
                 ready_to_execute>>
cacheVars   == <<pending_execution, last_committed_block_height>>
epochVars   == <<epoch, epoch_status, epoch_manager>>
blockVars   == <<batch, certified_block>>
lastVars    == <<committed_block, executed_block, epoch_boundary_block>>

vars == <<controlVars, chainVars, cacheVars, epochVars, blockVars, lastVars,
          ledger, syncVars>>

(***************************************************************************)
(* RpcInternalError and Regression are logged and the loop goes on; these  *)
(* are the ways out of it.                                                 *)
(***************************************************************************)
Exits == {"none", "crash", "shutdown", "inconsistent_store", "invalid_block",
          "wrong_parent", "execution_failed", "sync_conflict",
          "feedback_full", "epoch_regression"}

-----------------------------------------------------------------------------
(* Helpers *)

last_applied == ledger[Len(ledger)]

\* The relation initialize checks between the committed and executed blocks.
correctly_extends(b, p) == b.parent = p.hash /\ b.height = p.height + 1

next_block_height == last_executed_block_info.height + 1

is_current_epoch_over == epoch_status = "over"

\* Leaves the loop; what is in memory is gone and no longer matters.
Halt(reason) ==
  /\ pc' = "down"
  /\ exit' = reason
  /\ current' = NoBlock
  /\ task' = "run"

\* Ends the handler: the loop waits for its next input.
Continue ==
  /\ pc' = "idle"
  /\ current' = NoBlock
  /\ task' = "run"
  /\ UNCHANGED exit

GoTo(stage, b) ==
  /\ pc' = stage
  /\ current' = b
  /\ UNCHANGED <<exit, task>>

observe_block(b) ==
  last_observed_highest_block' =
    IF b.height > last_observed_highest_block
      THEN b.height
      ELSE last_observed_highest_block

\* should_be_skipped_if_executed, a mutant: cached and scheduled blocks are
\* handled again.
should_be_skipped_if_executed(b) ==
  \/ is_current_epoch_over
  \/ b.height <= last_executed_block_info.height

should_be_skipped(b) ==
  \/ is_current_epoch_over
  \/ b.height <= last_executed_block_info.height
  \/ has_entry(pending_execution, last_committed_block_height, b.height)

(***************************************************************************)
(* The last thing several handlers do, so it reads the fields as the       *)
(* handler has left them.  `request' is the pending sync request at that   *)
(* point.                                                                  *)
(***************************************************************************)
try_to_sync_skipped_blocks(request) ==
  LET next   == next_block_height'
      wanted == /\ last_observed_highest_block' >= next
                /\ ~has_entry(pending_execution', last_committed_block_height', next)
  IN  IF ~wanted
      THEN Continue /\ pending_sync_request' = request /\ UNCHANGED sync_requests
      ELSE IF conflicts(request, next)
      THEN Halt("sync_conflict") /\ pending_sync_request' = request /\ UNCHANGED sync_requests
      ELSE Continue /\ try_post_sync_request(request, next)

-----------------------------------------------------------------------------
(* Starting the node: BlockStore::initialize, ChainStateAssembler::new *)

(***************************************************************************)
(* The epoch state handed to a new verifier, and what the epoch manager    *)
(* still has to announce.  The manager reads the Move store; if the last   *)
(* applied block ended its epoch, it may or may not know the committee of  *)
(* the next one yet.                                                       *)
(***************************************************************************)
RestoreEpoch ==
  \/ /\ last_applied \notin EpochEnding
     /\ epoch' = last_applied.epoch
     /\ epoch_status' = "active"
     /\ epoch_manager' = "stable"
  \/ /\ last_applied \in EpochEnding
     /\ epoch' = last_applied.epoch + 1
     /\ epoch_status' = "active"
     /\ epoch_manager' = "stable"
  \/ /\ last_applied \in EpochEnding
     /\ committed_block = last_applied
     /\ epoch' = last_applied.epoch
     /\ epoch_status' = "over"
     /\ epoch_manager' = "NewEpoch"

(***************************************************************************)
(* A new assembler; the warranter executes the last committed block if it  *)
(* is not the last executed one.                                           *)
(***************************************************************************)
NewAssembler(executed, committed) ==
  /\ last_executed_block_info' = executed
  /\ last_observed_highest_block' = 0
  /\ ready_to_execute' = NoBlock
  /\ pending_execution' = EmptyCache
  /\ pending_sync_request' = NoRequest
  /\ sync_requests' = {}
  /\ RestoreEpoch
  /\ exit' = "none"
  /\ IF committed = executed
       THEN pc' = "idle"   /\ current' = NoBlock   /\ task' = "run"
       ELSE pc' = "commit" /\ current' = committed /\ task' = "restore"

InitializeGenesis ==
  /\ pc = "down"
  /\ committed_block = NoBlock /\ executed_block = NoBlock
  /\ last_committed_block_height' = Genesis.height
  /\ committed_block' = Genesis
  /\ pc' = "genesis"
  /\ exit' = "none"
  /\ UNCHANGED <<current, task, chainVars, pending_execution, epochVars,
                 blockVars, executed_block, epoch_boundary_block, ledger,
                 syncVars>>

WriteGenesisExecuted ==
  /\ pc = "genesis"
  /\ executed_block' = Genesis
  /\ NewAssembler(Genesis, Genesis)
  /\ UNCHANGED <<last_committed_block_height, blockVars, committed_block,
                 epoch_boundary_block, ledger>>

IsConsistentStore ==
  /\ committed_block # NoBlock /\ executed_block # NoBlock
  /\ \/ committed_block = executed_block
     \/ correctly_extends(committed_block, executed_block)

Resume ==
  /\ pc = "down"
  /\ IsConsistentStore
  /\ last_committed_block_height' = committed_block.height
  /\ NewAssembler(executed_block, committed_block)
  /\ UNCHANGED <<blockVars, lastVars, ledger>>

RefuseToStart ==
  /\ pc = "down"
  /\ ~(committed_block = NoBlock /\ executed_block = NoBlock)
  /\ ~IsConsistentStore
  /\ Halt("inconsistent_store")
  /\ UNCHANGED <<chainVars, cacheVars, epochVars, blockVars, lastVars, ledger,
                 syncVars>>

-----------------------------------------------------------------------------
(* The handlers of the loop *)

(***************************************************************************)
(* handle_incoming_block, up to the first write of handle_full_block.      *)
(* Where the block comes from makes no difference to the code: NewBlock,   *)
(* an answer to a sync request, a late or a duplicated one.                *)
(***************************************************************************)
HandleIncomingBlock(b) ==
  /\ pc = "idle"
  /\ observe_block(b)
  /\ \/ /\ should_be_skipped(b) \/ verify(b, epoch) = "OldEpochBlock"
        /\ UNCHANGED <<controlVars, syncVars>>
     \/ /\ ~should_be_skipped(b) /\ verify(b, epoch) = "FutureEpochBlock"
        /\ UNCHANGED <<last_executed_block_info, cacheVars>>
        /\ try_to_sync_skipped_blocks(pending_sync_request)
     \/ /\ ~should_be_skipped(b) /\ verify(b, epoch) = "InvalidBlock"
        /\ Halt("invalid_block")
        /\ UNCHANGED syncVars
     \/ /\ ~should_be_skipped(b) /\ verify(b, epoch) = "Success"
        /\ GoTo("batches", b)
        /\ UNCHANGED syncVars
  /\ UNCHANGED <<last_executed_block_info, ready_to_execute, cacheVars,
                 epochVars, blockVars, lastVars, ledger>>

\* persist, first part: the batches of the block are written one by one.
PersistBatches ==
  /\ pc = "batches"
  /\ batch' = batch \union {current}
  /\ GoTo("persist", current)
  /\ UNCHANGED <<chainVars, cacheVars, epochVars, certified_block, lastVars,
                 ledger, syncVars>>

(***************************************************************************)
(* persist, second part, and the rest of handle_full_block: the block is   *)
(* executed at once, cached, or it contradicts the chain.                  *)
(***************************************************************************)
PersistBlock ==
  LET h       == current.height
      request == clear(pending_sync_request, h)
  IN
  /\ pc = "persist"
  /\ certified_block' = persist(certified_block, current)
  /\ \/ /\ h = next_block_height
        /\ current.parent # last_executed_block_info.hash
        /\ Halt("wrong_parent")
        /\ UNCHANGED <<cacheVars, syncVars>>
     \/ /\ correctly_extends(current, last_executed_block_info)
        /\ GoTo("commit", current)
        /\ pending_sync_request' = request
        /\ UNCHANGED <<cacheVars, sync_requests>>
     \/ /\ h # next_block_height
        /\ UNCHANGED <<chainVars, last_committed_block_height>>
        /\ IF can_be_cached(pending_execution, last_committed_block_height, h)
           THEN /\ pending_execution' =
                     cache(pending_execution, last_committed_block_height, current)
                /\ try_to_sync_skipped_blocks(request)
           ELSE /\ Continue
                /\ pending_sync_request' = request
                /\ UNCHANGED <<pending_execution, sync_requests>>
  /\ UNCHANGED <<chainVars, epochVars, batch, lastVars, ledger>>

\* HandleScheduledBlock_any_parent, a mutant: the parent is not compared.
HandleScheduledBlock_any_parent ==
  LET b == ready_to_execute
  IN
  /\ pc = "idle"
  /\ ready_to_execute # NoBlock
  /\ ready_to_execute' = NoBlock
  /\ pending_sync_request' = clear(pending_sync_request, b.height)
  /\ b.height = next_block_height
  /\ GoTo("commit", b)
  /\ UNCHANGED <<last_executed_block_info, last_observed_highest_block, cacheVars,
                 epochVars, blockVars, lastVars, ledger, sync_requests>>

(***************************************************************************)
(* A block taken from the feedback channel.  A block that may not be       *)
(* executed now is a Regression, which is logged.                          *)
(***************************************************************************)
HandleScheduledBlock ==
  LET b == ready_to_execute
  IN
  /\ pc = "idle"
  /\ ready_to_execute # NoBlock
  /\ ready_to_execute' = NoBlock
  /\ pending_sync_request' = clear(pending_sync_request, b.height)
  /\ IF is_current_epoch_over
     THEN Continue /\ UNCHANGED pending_execution
     ELSE IF b.height # next_block_height
     THEN Continue /\ pending_execution' = retain(pending_execution, b.height)
     ELSE /\ UNCHANGED pending_execution
          /\ \/ b.parent # last_executed_block_info.hash /\ Halt("wrong_parent")
             \/ b.parent = last_executed_block_info.hash /\ GoTo("commit", b)
  /\ UNCHANGED <<last_executed_block_info, last_observed_highest_block,
                 last_committed_block_height, epochVars, blockVars, lastVars,
                 ledger, sync_requests>>

-----------------------------------------------------------------------------
(* execute_block and the rest of try_execute_block_chain *)

\* CommitBlock_in_memory, a mutant: the CommittedBlock item is not written.
CommitBlock_in_memory ==
  /\ pc = "commit"
  /\ last_committed_block_height' = current.height
  /\ GoTo("execute", current)
  /\ UNCHANGED <<chainVars, pending_execution, epochVars, blockVars, lastVars,
                 ledger, syncVars>>

\* update_last_committed_block_info: the intention to execute the block.
CommitBlock ==
  /\ pc = "commit"
  /\ last_committed_block_height' = current.height
  /\ committed_block' = current
  /\ GoTo("execute", current)
  /\ UNCHANGED <<chainVars, pending_execution, epochVars, blockVars,
                 executed_block, epoch_boundary_block, ledger, syncVars>>

(***************************************************************************)
(* The executor.  It applies the block to the Move store, then writes the  *)
(* ExecutedBlock item; a block the Move store already holds is refused as  *)
(* a duplicate, and any other block may fail.                              *)
(***************************************************************************)
ApplyToMoveStore ==
  /\ pc = "execute"
  /\ last_applied # current
  /\ ledger' = Append(ledger, current)
  /\ GoTo("record", current)
  /\ UNCHANGED <<chainVars, cacheVars, epochVars, blockVars, lastVars, syncVars>>

RecordExecuted ==
  /\ pc = "record"
  /\ executed_block' = current
  /\ epoch_manager' = IF current \in EpochEnding THEN "EndEpoch" ELSE epoch_manager
  /\ GoTo("finish", current)
  /\ UNCHANGED <<chainVars, cacheVars, epoch, epoch_status, blockVars,
                 committed_block, epoch_boundary_block, ledger, syncVars>>

\* The warranter suppresses the duplicate error; the loop does not.
RefuseDuplicate ==
  /\ pc = "execute"
  /\ last_applied = current
  /\ IF task = "restore"
       THEN Continue
       ELSE Halt("execution_failed")
  /\ UNCHANGED <<chainVars, cacheVars, epochVars, blockVars, lastVars, ledger,
                 syncVars>>

FailExecution ==
  /\ pc = "execute"
  /\ last_applied # current
  /\ Halt("execution_failed")
  /\ UNCHANGED <<chainVars, cacheVars, epochVars, blockVars, lastVars, ledger,
                 syncVars>>

(***************************************************************************)
(* The executor has answered: the epoch flag, the last executed block and  *)
(* the cache are updated.  In the loop this goes on with the boundary      *)
(* write, with the next cached block, or with a sync request.              *)
(***************************************************************************)
FinishExecution ==
  LET kept  == retain(pending_execution, current.height)
      next  == current.height + 1
      ready == next_ready_block(kept, certified_block, next)
      ended == is_current_epoch_over \/ current \in EpochEnding
  IN
  /\ pc = "finish"
  /\ epoch_status' = IF ended THEN "over" ELSE "active"
  /\ last_executed_block_info' = current
  /\ UNCHANGED <<last_observed_highest_block, last_committed_block_height>>
  /\ \/ /\ task = "restore"
        /\ pending_execution' = kept
        /\ Continue
        /\ UNCHANGED <<ready_to_execute, syncVars>>
     \/ /\ task = "run" /\ ended
        /\ pending_execution' = kept
        /\ GoTo("boundary", current)
        /\ UNCHANGED <<ready_to_execute, syncVars>>
     \/ /\ task = "run" /\ ~ended /\ ready # NoBlock
        /\ pending_execution' = mark_scheduled(kept, next)
        /\ IF ready_to_execute = NoBlock
             THEN ready_to_execute' = ready /\ Continue
             ELSE UNCHANGED ready_to_execute /\ Halt("feedback_full")
        /\ UNCHANGED syncVars
     \/ /\ task = "run" /\ ~ended /\ ready = NoBlock
        /\ UNCHANGED ready_to_execute
        /\ IF is_dangling(kept, certified_block, next)
           THEN /\ pending_execution' = [kept EXCEPT ![next] = NoBlock]
                /\ Continue
                /\ UNCHANGED syncVars
           ELSE /\ pending_execution' = kept
                /\ try_to_sync_skipped_blocks(pending_sync_request)
  /\ UNCHANGED <<epoch, epoch_manager, blockVars, lastVars, ledger>>

WriteEpochBoundary ==
  /\ pc = "boundary"
  /\ epoch_boundary_block' = current
  /\ Continue
  /\ UNCHANGED <<chainVars, cacheVars, epochVars, blockVars, committed_block,
                 executed_block, ledger, syncVars>>

-----------------------------------------------------------------------------
(* Epoch changes, the sync timer, the end of the process *)

(***************************************************************************)
(* handle_epoch_manager_notification.  The new epoch starts after the      *)
(* block that ended the previous one.                                      *)
(***************************************************************************)
HandleEndEpoch ==
  /\ pc = "idle"
  /\ epoch_manager = "EndEpoch"
  /\ epoch_manager' = "NewEpoch"
  /\ IF is_current_epoch_over
       THEN UNCHANGED controlVars
       ELSE Halt("epoch_regression")
  /\ UNCHANGED <<chainVars, cacheVars, epoch, epoch_status, blockVars,
                 lastVars, ledger, syncVars>>

\* HandleNewEpoch_no_sync, a mutant: the missing block is not asked for.
HandleNewEpoch_no_sync ==
  /\ pc = "idle"
  /\ epoch_manager = "NewEpoch"
  /\ epoch_manager' = "stable"
  /\ epoch' = epoch + 1
  /\ epoch_status' = "active"
  /\ UNCHANGED <<controlVars, chainVars, cacheVars, blockVars, lastVars, ledger,
                 syncVars>>

HandleNewEpoch ==
  /\ pc = "idle"
  /\ epoch_manager = "NewEpoch"
  /\ epoch_manager' = "stable"
  /\ UNCHANGED <<chainVars, last_committed_block_height>>
  /\ IF is_current_epoch_over
     THEN /\ pending_execution' = retain(pending_execution, last_applied.height)
          /\ epoch' = epoch + 1
          /\ epoch_status' = "active"
          /\ try_to_sync_skipped_blocks(pending_sync_request)
     ELSE /\ Halt("epoch_regression")
          /\ UNCHANGED <<pending_execution, epoch, epoch_status, syncVars>>
  /\ UNCHANGED <<blockVars, lastVars, ledger>>

RetrySync ==
  /\ pc = "idle"
  /\ retry
  /\ UNCHANGED <<controlVars, chainVars, cacheVars, epochVars, blockVars,
                 lastVars, ledger>>

\* A shutdown token, or one of the input channels was closed.
Shutdown ==
  /\ pc = "idle"
  /\ Halt("shutdown")
  /\ UNCHANGED <<chainVars, cacheVars, epochVars, blockVars, lastVars, ledger,
                 syncVars>>

\* The process is killed, or a persistent write fails, which is Fatal; only the
\* persistent stores survive.
Crash ==
  /\ pc \in CrashPoints
  /\ Halt("crash")
  /\ UNCHANGED <<chainVars, cacheVars, epochVars, blockVars, lastVars, ledger,
                 syncVars>>

\* A request, or every answer to it, is lost between the node and the provider.
LoseRequest(h) ==
  /\ h \in sync_requests
  /\ sync_requests' = sync_requests \ {h}
  /\ UNCHANGED <<controlVars, chainVars, cacheVars, epochVars, blockVars,
                 lastVars, ledger, pending_sync_request>>

-----------------------------------------------------------------------------
(* The specification *)

Init ==
  /\ pc = "down" /\ exit = "none" /\ current = NoBlock /\ task = "run"
  /\ last_executed_block_info = Genesis
  /\ last_observed_highest_block = 0
  /\ ready_to_execute = NoBlock
  /\ pending_execution = EmptyCache
  /\ last_committed_block_height = 0
  /\ epoch = Genesis.epoch /\ epoch_status = "active" /\ epoch_manager = "stable"
  /\ batch = {}
  /\ certified_block = [h \in Heights |-> NoBlock]
  /\ committed_block = NoBlock
  /\ executed_block = NoBlock
  /\ epoch_boundary_block = NoBlock
  /\ ledger = <<Genesis>>
  /\ pending_sync_request = NoRequest
  /\ sync_requests = {}

\* What the task does by itself once it has started on an input.
ContinueHandler ==
  \/ WriteGenesisExecuted
  \/ PersistBatches
  \/ PersistBlock
  \/ CommitBlock
  \/ ApplyToMoveStore
  \/ RecordExecuted
  \/ RefuseDuplicate
  \/ FailExecution
  \/ FinishExecution
  \/ WriteEpochBoundary

Next ==
  \/ InitializeGenesis
  \/ Resume
  \/ RefuseToStart
  \/ \E b \in Blocks : HandleIncomingBlock(b)
  \/ HandleScheduledBlock
  \/ ContinueHandler
  \/ HandleEndEpoch
  \/ HandleNewEpoch
  \/ RetrySync
  \/ Shutdown
  \/ Crash
  \/ \E h \in sync_requests : LoseRequest(h)

Spec == Init /\ [][Next]_vars

\* The provider answers a request that reached it.
AnswerSyncRequest(h) ==
  /\ h \in sync_requests
  /\ \E b \in Blocks : b.height = h /\ HandleIncomingBlock(b)

(***************************************************************************)
(* A started handler finishes; the loop gets around to each of its inputs; *)
(* a request that keeps being sent is answered in the end.  Nothing is     *)
(* assumed of the blocks the provider pushes by itself.                    *)
(***************************************************************************)
Fairness ==
  /\ WF_vars(ContinueHandler)
  /\ WF_vars(HandleScheduledBlock)
  /\ WF_vars(HandleEndEpoch \/ HandleNewEpoch)
  /\ WF_vars(RetrySync)
  /\ \A h \in Heights : SF_vars(AnswerSyncRequest(h))

FairSpec == Spec /\ Fairness

-----------------------------------------------------------------------------
(* Properties *)

\* The fields of the assembler and the items on disk keep their types.
TypeOK ==
  /\ pc \in Stages
  /\ exit \in Exits
  /\ current \in Blocks \union {NoBlock}
  /\ task \in {"run", "restore"}
  /\ last_executed_block_info \in Blocks
  /\ last_observed_highest_block \in Nat
  /\ pending_execution \in [Heights -> BlockReference \union {NoBlock}]
  /\ last_committed_block_height \in Nat
  /\ ready_to_execute \in Blocks \union {NoBlock}
  /\ epoch \in Nat
  /\ epoch_status \in {"active", "over"}
  /\ epoch_manager \in {"stable", "EndEpoch", "NewEpoch"}
  /\ batch \subseteq Blocks
  /\ certified_block \in [Heights -> Blocks \union {NoBlock}]
  /\ committed_block \in Blocks \union {NoBlock}
  /\ executed_block \in Blocks \union {NoBlock}
  /\ epoch_boundary_block \in Blocks \union {NoBlock}
  /\ ledger \in Seq(Blocks) /\ ledger # <<>>
  /\ pending_sync_request \in Nat
  /\ sync_requests \subseteq Nat

\* The task is in its loop or in a handler, with its fields in use.
Running == pc \notin {"down", "genesis"}

\* The epoch of the block that may follow b.
epoch_after(b) == IF b \in EpochEnding THEN b.epoch + 1 ELSE b.epoch

(***************************************************************************)
(* The Move store is only ever built from verified blocks, each the child  *)
(* of the one before it, each once, across epoch changes and restarts:     *)
(* what verify, does_follow_chain, the halt at an epoch end and the        *)
(* consistency warranter achieve together.                                 *)
(***************************************************************************)
LedgerIsChain ==
  \A i \in 1 .. Len(ledger) - 1 :
    /\ correctly_extends(ledger[i + 1], ledger[i])
    /\ ledger[i + 1].epoch = epoch_after(ledger[i])
    /\ ledger[i + 1].defect \in Tolerated

(***************************************************************************)
(* The Fatal errors that report a broken internal protocol never happen:   *)
(* a second sync request while one is pending (try_post_sync_request), a   *)
(* full feedback channel (try_execute_block_chain), an epoch notification  *)
(* for an epoch that is not over (handle_epoch_manager_notification).      *)
(***************************************************************************)
RegressionsUnreachable ==
  exit \notin {"sync_conflict", "feedback_full", "epoch_regression"}

(***************************************************************************)
(* The block in the feedback channel is the next one to execute and the    *)
(* epoch is not over, however many blocks were handled since it was        *)
(* scheduled: the two Regressions of handle_scheduled_block cannot occur.  *)
(***************************************************************************)
ScheduledBlockIsNext ==
  Running /\ ready_to_execute # NoBlock =>
    /\ ready_to_execute.height = next_block_height
    /\ ~is_current_epoch_over

(***************************************************************************)
(* The block a memo stands for is the one the persistent store returns for *)
(* its height, so take_next_ready_block_by_height never finds a dangling   *)
(* memo, which would end the handler without a sync request.               *)
(***************************************************************************)
MemoIsBacked ==
  Running => \A h \in Heights :
    pending_execution[h] # NoBlock /\ pending_execution[h].kind = "Memo"
      => certified_block[h] = pending_execution[h].block

(***************************************************************************)
(* Full blocks are kept in memory only for the heights the BlockStore      *)
(* documentation names: (last_committed_block_height,                      *)
(* last_committed_block_height + certified_block_cache_bucket_size].       *)
(***************************************************************************)
FullBlocksInBucket ==
  Running => \A h \in Heights :
    pending_execution[h] # NoBlock /\ pending_execution[h].kind = "Block"
      => /\ h > last_committed_block_height
         /\ h <= last_committed_block_height + BucketSize

(***************************************************************************)
(* No block is cached while the epoch is over, as the comment in the       *)
(* NewEpoch branch of handle_epoch_manager_notification supposes: the      *)
(* clean-up there is redundant.                                            *)
(***************************************************************************)
CacheEmptyAtEpochEnd ==
  Running /\ is_current_epoch_over => pending_execution = EmptyCache

(***************************************************************************)
(* No lost wake-up: when the loop waits in an active epoch and knows of a  *)
(* block it has not executed, the next block is either scheduled or asked  *)
(* for, so the next answer or timer tick moves the node on.  Every handler *)
(* that ends without scheduling must have called                           *)
(* try_to_sync_skipped_blocks with the right state for this to hold.       *)
(***************************************************************************)
SyncPostedForMissing ==
  /\ pc = "idle"
  /\ ~is_current_epoch_over
  /\ last_observed_highest_block >= next_block_height
  => \/ pending_sync_request = next_block_height
     \/ ready_to_execute # NoBlock

(***************************************************************************)
(* Whatever a crash leaves on disk, the next BlockStore::initialize finds  *)
(* a committed block that equals or extends the executed one and starts.   *)
(***************************************************************************)
StartNeverRefused == exit # "inconsistent_store"

(***************************************************************************)
(* When the loop waits for the next epoch, the block that ended the epoch  *)
(* is the persisted epoch boundary block (try_execute_block_chain).        *)
(***************************************************************************)
EpochBoundaryRecorded ==
  pc = "idle" /\ is_current_epoch_over =>
    epoch_boundary_block = last_executed_block_info

(***************************************************************************)
(* The node catches up: a height it has seen a block for is executed in    *)
(* the end, through lost requests and epoch changes, unless the task stops *)
(* (crash, shutdown, invalid block, failed execution).                     *)
(***************************************************************************)
CatchUp ==
  \A h \in Heights :
    (pc = "idle" /\ last_observed_highest_block >= h)
      ~> (pc = "down" \/ last_executed_block_info.height >= h)

\* b is a verified block that continues p, in the epoch p calls for.
Follows(b, p) ==
  /\ correctly_extends(b, p)
  /\ b.epoch = epoch_after(p)
  /\ b.defect \in Tolerated

\* Before the first start has written the genesis items, the abstract ledger
\* already holds genesis.
WAL == INSTANCE WriteAheadLedger WITH
  committed <- IF committed_block = NoBlock THEN Genesis ELSE committed_block,
  executed  <- IF executed_block = NoBlock THEN Genesis ELSE executed_block

(***************************************************************************)
(* The assembler, with its cache, sync requests, epoch changes, crashes    *)
(* and restarts, implements the write-ahead ledger: execute_block commits, *)
(* applies and records one verified child of the last executed block at a  *)
(* time, and the warranter finishes what a crash interrupted.              *)
(***************************************************************************)
ImplementsWriteAheadLedger == WAL!Spec
=============================================================================
