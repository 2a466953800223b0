---------------------------- MODULE WakeUpProofs ----------------------------
(***************************************************************************)
(* No lost wake-up: if the process cannot be killed between the two writes *)
(* of the executor, a loop that waits with a known block ahead of it has   *)
(* asked for the next block or has scheduled it.                           *)
(***************************************************************************)
EXTENDS ChainStateAssemblerProofs

USE DEF controlVars, chainVars, cacheVars, epochVars, blockVars, lastVars, syncVars

LEMMA InitWakeInv == Init => WakeInv
<1> SUFFICES ASSUME Init PROVE WakeInv
  OBVIOUS
<1>1. last_applied = Genesis
  BY DEF Init, last_applied
<1>2. Genesis \notin EpochEnding
  BY AssemblerAssumption
<1>3. PastEpochsInv
  BY <1>1, <1>2, EpochAssumption, BlocksAssumption DEF PastEpochsInv, epoch_after
<1> QED
  BY <1>3 DEF Init, WakeInv, StoreInv, ObservedInv, SyncPostedForMissing, Running

\* The only steps that move a handler to or from the executor's second write.
LEMMA RecordStage ==
  ASSUME [Next]_vars, "record" \notin CrashPoints
  PROVE  /\ pc' = "record" => ApplyToMoveStore \/ pc = "record"
         /\ pc = "record" => RecordExecuted \/ pc' = "record"
<1> DEFINE Stays == /\ pc' = "record" => ApplyToMoveStore \/ pc = "record"
                    /\ pc = "record" => RecordExecuted \/ pc' = "record"
<1>1. CASE InitializeGenesis \/ Resume \/ WriteGenesisExecuted \/ RefuseToStart \/ Shutdown \/ Crash
  BY <1>1 DEF InitializeGenesis, Resume, WriteGenesisExecuted, NewAssembler, RefuseToStart, Shutdown, Crash, Halt
<1>2. ASSUME NEW b \in Blocks, HandleIncomingBlock(b) PROVE Stays
  BY <1>2 DEF HandleIncomingBlock, try_to_sync_skipped_blocks, Halt, Continue, GoTo
<1>3. CASE HandleScheduledBlock \/ HandleEndEpoch \/ HandleNewEpoch \/ RetrySync \/ UNCHANGED vars
  BY <1>3 DEF HandleScheduledBlock, HandleEndEpoch, HandleNewEpoch, RetrySync, vars, controlVars,
              try_to_sync_skipped_blocks, Halt, Continue, GoTo
<1>4. CASE PersistBatches \/ PersistBlock \/ CommitBlock
  BY <1>4 DEF PersistBatches, PersistBlock, CommitBlock, try_to_sync_skipped_blocks, Halt, Continue, GoTo
<1>5. CASE ApplyToMoveStore \/ RecordExecuted
  BY <1>5 DEF ApplyToMoveStore, RecordExecuted, GoTo
<1>6. CASE RefuseDuplicate \/ FailExecution
  BY <1>6 DEF RefuseDuplicate, FailExecution, Halt, Continue
<1>7. CASE FinishExecution \/ WriteEpochBoundary
  BY <1>7 DEF FinishExecution, WriteEpochBoundary, try_to_sync_skipped_blocks, Halt, Continue, GoTo
<1>8. ASSUME NEW h \in sync_requests, LoseRequest(h) PROVE Stays
  BY <1>8 DEF LoseRequest, controlVars
<1> QED
  BY <1>1, <1>2, <1>3, <1>4, <1>5, <1>6, <1>7, <1>8 DEF Next, ContinueHandler

\* The warranter finds the committed block unapplied, so nothing is a duplicate.
LEMMA NoDuplicate ==
  ASSUME IInv, StoreInv
  PROVE  ~RefuseDuplicate
BY ExecutorFacts, BlockFields
DEF RefuseDuplicate, StoreInv, Follows, correctly_extends

LEMMA StoreInvStep ==
  ASSUME IInv, StoreInv, [Next]_vars, "record" \notin CrashPoints
  PROVE  StoreInv'
<1>1. ~RefuseDuplicate
  BY NoDuplicate
<1>2. executed_block' # NoBlock /\ pc' # "record" => last_applied' = executed_block'
  <2>1. CASE ApplyToMoveStore
    BY <2>1 DEF ApplyToMoveStore, GoTo
  <2>2. CASE RecordExecuted
    BY <2>2, ExecutorFacts DEF RecordExecuted, IInv, StageInv, last_applied
  <2>3. CASE InitializeGenesis \/ WriteGenesisExecuted
    BY <2>3, BlocksAssumption
    DEF InitializeGenesis, WriteGenesisExecuted, IInv, DiskInv, Running, last_applied
  <2>4. CASE CommitBlock
    BY <2>4 DEF CommitBlock, StoreInv, last_applied
  <2>5. CASE UNCHANGED <<committed_block, executed_block, ledger>>
    BY <2>2, <2>5, RecordStage DEF StoreInv, last_applied
  <2> QED
    BY <2>1, <2>2, <2>3, <2>4, <2>5, AbstractStutter
<1>3. pc' \in {"idle", "batches", "persist"} => committed_block' = executed_block'
  <2>1. CASE WriteGenesisExecuted \/ Resume
    BY <2>1
    DEF WriteGenesisExecuted, Resume, NewAssembler, IInv, DiskInv, Running
  <2>2. CASE FinishExecution \/ WriteEpochBoundary
    BY <2>2 DEF FinishExecution, WriteEpochBoundary, IInv, StageInv
  <2>3. CASE ~WriteGenesisExecuted /\ ~Resume /\ ~FinishExecution /\ ~WriteEpochBoundary
    <3> DEFINE Agrees == pc' \in {"idle", "batches", "persist"} => committed_block' = executed_block'
    <3>1. CASE InitializeGenesis \/ RefuseToStart \/ Shutdown \/ Crash \/ UNCHANGED vars
      BY <3>1 DEF InitializeGenesis, RefuseToStart, Shutdown, Crash, Halt, vars, StoreInv
    <3>2. ASSUME NEW b \in Blocks, HandleIncomingBlock(b) PROVE Agrees
      BY <3>2 DEF HandleIncomingBlock, StoreInv, lastVars
    <3>3. CASE HandleScheduledBlock \/ HandleEndEpoch \/ HandleNewEpoch \/ RetrySync
      BY <3>3 DEF HandleScheduledBlock, HandleEndEpoch, HandleNewEpoch, RetrySync, StoreInv, lastVars
    <3>4. CASE PersistBatches \/ PersistBlock
      BY <3>4 DEF PersistBatches, PersistBlock, StoreInv, lastVars
    <3>5. CASE CommitBlock \/ ApplyToMoveStore \/ RecordExecuted \/ FailExecution
      BY <3>5 DEF CommitBlock, ApplyToMoveStore, RecordExecuted, FailExecution, Halt, GoTo
    <3>6. ASSUME NEW h \in sync_requests, LoseRequest(h) PROVE Agrees
      BY <3>6 DEF LoseRequest, controlVars, lastVars, StoreInv
    <3> QED
      BY <1>1, <2>3, <3>1, <3>2, <3>3, <3>4, <3>5, <3>6 DEF Next, ContinueHandler
  <2> QED
    BY <2>1, <2>2, <2>3
<1> QED
  BY <1>2, <1>3 DEF StoreInv

LEMMA PastEpochsInvStep ==
  ASSUME IInv, PastEpochsInv, [Next]_vars
  PROVE  PastEpochsInv'
<1>1. CASE ApplyToMoveStore
  <2>1. /\ last_applied' = current /\ last_applied = executed_block
        /\ current \in Blocks /\ executed_block \in Blocks
        /\ Follows(current, executed_block)
    BY <1>1, ExecutorFacts, AppendToLedger DEF ApplyToMoveStore, IInv, TypeOK
  <2> SUFFICES ASSUME NEW b \in Blocks, b.epoch < epoch_after(current)
               PROVE  b.height <= current.height
    BY <2>1 DEF PastEpochsInv, epoch_after
  <2>2. CASE current \in EpochEnding
    BY <2>1, <2>2, EpochAssumption, BlockFields DEF epoch_after
  <2>3. CASE current \notin EpochEnding
    BY <2>1, <2>3, BlockFields DEF epoch_after, PastEpochsInv, Follows, correctly_extends
  <2> QED
    BY <2>2, <2>3
<1>2. CASE UNCHANGED ledger
  BY <1>2 DEF PastEpochsInv, epoch_after, last_applied
<1> QED
  BY <1>1, <1>2, AbstractStutter
  DEF InitializeGenesis, WriteGenesisExecuted, CommitBlock, RecordExecuted

LEMMA ObservedInvStep ==
  ASSUME IInv, ObservedInv, [Next]_vars
  PROVE  ObservedInv'
<1>1. CASE WriteGenesisExecuted \/ Resume
  BY <1>1 DEF WriteGenesisExecuted, Resume, NewAssembler, EmptyCache, ObservedInv
<1>2. ASSUME NEW b \in Blocks, HandleIncomingBlock(b)
      PROVE  ObservedInv'
  <2>1. /\ last_observed_highest_block' >= last_observed_highest_block
        /\ last_observed_highest_block' >= b.height
        /\ last_observed_highest_block' \in Nat /\ last_observed_highest_block \in Nat
    BY <1>2, BlockFields DEF HandleIncomingBlock, observe_block, IInv, TypeOK
  <2>2. /\ pc' \in {"batches", "persist"} => current' = b
        /\ task' = "run"
        /\ Running
    BY <1>2
    DEF HandleIncomingBlock, GoTo, Halt, Continue, try_to_sync_skipped_blocks, IInv,
        StageInv, Running
  <2> QED
    BY <1>2, <2>1, <2>2, BlockFields, HeightsAreNat DEF HandleIncomingBlock, ObservedInv
<1>3. CASE PersistBlock
  <2>1. /\ pc = "persist" /\ pc' \notin {"batches", "persist"}
        /\ task' = "run"
        /\ UNCHANGED last_observed_highest_block
    BY <1>3
    DEF PersistBlock, GoTo, Halt, Continue, try_to_sync_skipped_blocks, IInv, StageInv
  <2>2. \A h \in Heights : pending_execution'[h] # NoBlock =>
          pending_execution[h] # NoBlock \/ h = current.height
    BY <1>3, PersistFacts DEF PersistBlock, cache, IInv, TypeOK
  <2> QED
    BY <2>1, <2>2 DEF ObservedInv, Running
\* Every other handler only removes entries, or marks one as scheduled.
<1>4. ASSUME \A h \in Heights : pending_execution'[h] # NoBlock => pending_execution[h] # NoBlock,
             UNCHANGED last_observed_highest_block,
             Running' => Running,
             pc' \in {"batches", "persist"} =>
               pc \in {"batches", "persist"} /\ current' = current,
             task' = "restore" => task = "restore"
      PROVE  ObservedInv'
  BY <1>4 DEF ObservedInv
<1>5. CASE FinishExecution
  <2> DEFINE kept  == retain(pending_execution, current.height)
             next  == current.height + 1
             ready == next_ready_block(kept, certified_block, next)
  <2>1. /\ pc = "finish" /\ pc' \notin {"batches", "persist"}
        /\ UNCHANGED last_observed_highest_block
        /\ task' = "restore" => task = "restore"
    BY <1>5 DEF FinishExecution, GoTo, Halt, Continue, try_to_sync_skipped_blocks
  <2>2. kept \in Cache /\ \A h \in Heights : kept[h] # NoBlock => pending_execution[h] # NoBlock
    BY <2>1, FinishFacts
  <2>3. ready # NoBlock => next \in Heights /\ kept[next] # NoBlock
    BY <2>1, NextReadyBlock
  <2>4. \/ pending_execution' = kept
        \/ pending_execution' = [kept EXCEPT ![next] = NoBlock]
        \/ pending_execution' = mark_scheduled(kept, next) /\ ready # NoBlock
    BY <1>5 DEF FinishExecution
  <2> HIDE DEF kept, next, ready
  <2>5. \A h \in Heights : pending_execution'[h] # NoBlock => pending_execution[h] # NoBlock
    BY <2>2, <2>3, <2>4 DEF mark_scheduled, Cache
  <2> QED
    BY <1>4, <2>1, <2>5 DEF Running
<1>6. CASE HandleScheduledBlock \/ HandleNewEpoch
  <2>1. \A h \in Heights : pending_execution'[h] # NoBlock => pending_execution[h] # NoBlock
    BY <1>6 DEF HandleScheduledBlock, HandleNewEpoch, retain
  <2>2. /\ pc = "idle" /\ pc' \notin {"batches", "persist"}
        /\ UNCHANGED last_observed_highest_block
        /\ task' = "restore" => task = "restore"
    BY <1>6
    DEF HandleScheduledBlock, HandleNewEpoch, GoTo, Halt, Continue, try_to_sync_skipped_blocks
  <2> QED
    BY <1>4, <2>1, <2>2 DEF Running
<1>7. CASE \/ InitializeGenesis \/ RefuseToStart \/ PersistBatches \/ CommitBlock
           \/ ApplyToMoveStore \/ RecordExecuted \/ RefuseDuplicate \/ FailExecution
           \/ WriteEpochBoundary \/ HandleEndEpoch \/ RetrySync \/ Shutdown \/ Crash
           \/ (\E h \in sync_requests : LoseRequest(h)) \/ UNCHANGED vars
  <2>1. UNCHANGED <<pending_execution, last_observed_highest_block>>
    BY <1>7
    DEF vars, InitializeGenesis, RefuseToStart, PersistBatches, CommitBlock,
        ApplyToMoveStore, RecordExecuted, RefuseDuplicate, FailExecution,
        WriteEpochBoundary, HandleEndEpoch, RetrySync, Shutdown, Crash, LoseRequest
  <2>2. /\ Running' => Running
        /\ pc' \in {"batches", "persist"} => pc \in {"batches", "persist"} /\ current' = current
        /\ task' = "restore" => task = "restore"
    BY <1>7
    DEF vars, Running, InitializeGenesis, RefuseToStart, PersistBatches, CommitBlock,
        ApplyToMoveStore, RecordExecuted, RefuseDuplicate, FailExecution,
        WriteEpochBoundary, HandleEndEpoch, RetrySync, Shutdown, Crash, LoseRequest,
        Halt, Continue, GoTo
  <2> QED
    BY <1>4, <2>1, <2>2
<1> QED
  BY <1>1, <1>2, <1>3, <1>5, <1>6, <1>7 DEF Next, ContinueHandler

-----------------------------------------------------------------------------
(* The wake-up itself *)

(***************************************************************************)
(* After try_to_sync_skipped_blocks the next block is asked for unless the *)
(* store has an entry for it; as the loop waits above the committed block, *)
(* such an entry is in the cache and marked as scheduled.                  *)
(***************************************************************************)
LEMMA AskedOrScheduled ==
  ASSUME IInv', StoreInv',
         /\ last_observed_highest_block' >= next_block_height'
         /\ ~has_entry(pending_execution', last_committed_block_height', next_block_height')
         => pending_sync_request' = next_block_height'
  PROVE  SyncPostedForMissing'
<1> SUFFICES ASSUME pc' = "idle",
                    has_entry(pending_execution', last_committed_block_height', next_block_height')
             PROVE  ready_to_execute' # NoBlock
  BY DEF SyncPostedForMissing
<1>1. /\ last_committed_block_height' = last_executed_block_info'.height
      /\ last_executed_block_info' \in Blocks
  BY DEF IInv, TypeOK, MemoryInv, StoreInv, Running
<1>2. next_block_height' \in Heights /\ pending_execution'[next_block_height'] # NoBlock
  BY <1>1, BlockFields DEF has_entry, next_block_height
<1>3. PICK h \in Heights : h = next_block_height'
  BY <1>2
<1>4. EntryInv(h)' /\ pending_execution'[h] \in BlockReference
  BY <1>2, <1>3 DEF IInv, CacheInv, Running, TypeOK
<1>5. pending_execution'[h].kind = "Scheduled"
  BY <1>1, <1>3, <1>4, HeightsAreNat DEF EntryInv
<1> QED
  BY <1>4, <1>5, BlocksAssumption DEF EntryInv, BlockReference

\* The handlers that end with try_to_sync_skipped_blocks.
LEMMA SyncedStep ==
  ASSUME IInv, IInv', StoreInv', Running,
         NEW request \in Nat, request \in {NoRequest, next_block_height'},
         try_to_sync_skipped_blocks(request)
  PROVE  SyncPostedForMissing'
<1>1. next_block_height' \in Nat /\ sync_requests \subseteq Nat
  BY BlockFields DEF IInv, TypeOK, next_block_height
<1> QED
  BY <1>1, SyncSkipped, AskedOrScheduled

(***************************************************************************)
(* An incoming block that is skipped does not raise the observed height    *)
(* above what is executed or was observed before; any other one leads to   *)
(* try_to_sync_skipped_blocks, at once or after it was persisted.          *)
(***************************************************************************)
LEMMA SyncPostedIncoming ==
  ASSUME IInv, WakeInv, IInv', StoreInv', NEW b \in Blocks, HandleIncomingBlock(b)
  PROVE  SyncPostedForMissing'
<1> USE DEF HandleIncomingBlock
<1>1. /\ Running
      /\ next_block_height' = next_block_height /\ next_block_height \in Nat
      /\ last_executed_block_info \in Blocks /\ last_applied \in Blocks
      /\ last_applied = last_executed_block_info
      /\ last_committed_block_height = last_executed_block_info.height
  BY BlockFields, LastAppliedType
  DEF Running, IInv, TypeOK, next_block_height, WakeInv, StoreInv, DiskInv, MemoryInv
<1>2. CASE should_be_skipped(b) \/ verify(b, epoch) = "OldEpochBlock"
  <2> SUFFICES ASSUME pc' = "idle", epoch_status = "active",
                      last_observed_highest_block' >= next_block_height
               PROVE  last_observed_highest_block >= next_block_height
    BY <1>1, <1>2
    DEF SyncPostedForMissing, WakeInv, is_current_epoch_over, IInv, TypeOK
  <2>1. CASE b.height <= last_executed_block_info.height
    BY <1>1, <2>1, BlockFields DEF observe_block, next_block_height, IInv, TypeOK
  <2>2. CASE has_entry(pending_execution, last_committed_block_height, b.height)
    BY <1>1, <2>1, <2>2, BlockFields
    DEF has_entry, observe_block, WakeInv, ObservedInv, IInv, TypeOK
  <2>3. CASE verify(b, epoch) = "OldEpochBlock"
    <3>1. b.epoch < epoch /\ epoch = epoch_after(last_applied)
      BY <1>1, <2>3 DEF verify, IInv, EpochInv
    <3> QED
      BY <1>1, <2>1, <3>1 DEF WakeInv, PastEpochsInv
  <2> QED
    BY <1>2, <2>1, <2>2, <2>3 DEF should_be_skipped, is_current_epoch_over
<1>3. CASE try_to_sync_skipped_blocks(pending_sync_request)
  BY <1>1, <1>3, SyncedStep DEF IInv, TypeOK, SyncInv
<1>4. CASE pc' # "idle"
  BY <1>4 DEF SyncPostedForMissing
<1> QED
  BY <1>2, <1>3, <1>4 DEF Halt, GoTo

LEMMA SyncPostedFinish ==
  ASSUME IInv, ObservedInv, IInv', StoreInv', FinishExecution
  PROVE  SyncPostedForMissing'
<1> DEFINE kept  == retain(pending_execution, current.height)
           ready == next_ready_block(kept, certified_block, current.height + 1)
<1>1. /\ pc = "finish" /\ Running
      /\ UNCHANGED last_observed_highest_block
      /\ next_block_height' = current.height + 1
  BY DEF FinishExecution, Running, next_block_height
<1>2. current \in Blocks /\ pending_sync_request = NoRequest /\ ready_to_execute = NoBlock
  BY <1>1, FinishFacts
<1>3. ~is_dangling(kept, certified_block, current.height + 1)
  BY <1>1, NextReadyBlock
<1>4. CASE task = "restore"
  BY <1>1, <1>2, <1>4, BlockFields DEF ObservedInv, SyncPostedForMissing
<1>5. CASE try_to_sync_skipped_blocks(pending_sync_request)
  BY <1>1, <1>2, <1>5, SyncedStep DEF IInv, TypeOK
<1>6. CASE pc' # "idle" \/ ready_to_execute' # NoBlock
  BY <1>6 DEF SyncPostedForMissing
<1> QED
  BY <1>2, <1>3, <1>4, <1>5, <1>6 DEF FinishExecution, GoTo, Continue

LEMMA SyncPostedStep ==
  ASSUME IInv, WakeInv, IInv', StoreInv', [Next]_vars
  PROVE  SyncPostedForMissing'
<1>1. CASE WriteGenesisExecuted \/ Resume
  <2>1. last_observed_highest_block' = 0 /\ last_executed_block_info' \in Blocks
    BY <1>1 DEF WriteGenesisExecuted, Resume, NewAssembler, IInv, TypeOK
  <2> QED
    BY <2>1, BlockFields DEF SyncPostedForMissing, next_block_height
<1>2. CASE \E b \in Blocks : HandleIncomingBlock(b)
  BY <1>2, SyncPostedIncoming
<1>3. CASE PersistBlock
  <2>1. pc = "persist" /\ Running /\ UNCHANGED last_executed_block_info
    BY <1>3 DEF PersistBlock, Running
  <2>2. CASE try_to_sync_skipped_blocks(clear(pending_sync_request, current.height))
    BY <2>1, <2>2, PersistFacts, SyncedStep DEF clear, next_block_height, NoRequest
  <2>3. CASE pc' # "idle"
    BY <2>3 DEF SyncPostedForMissing
  <2> QED
    BY <1>3, <2>1, <2>2, <2>3, PersistFacts DEF PersistBlock, can_be_cached, Halt, GoTo
<1>4. CASE FinishExecution
  BY <1>4, SyncPostedFinish DEF WakeInv
<1>5. CASE HandleScheduledBlock
  BY <1>5, ScheduledFacts
  DEF HandleScheduledBlock, is_current_epoch_over, Halt, GoTo, SyncPostedForMissing
<1>6. CASE WriteEpochBoundary \/ HandleEndEpoch
  <2>1. epoch_status' = "over"
    BY <1>6
    DEF WriteEpochBoundary, HandleEndEpoch, IInv, TypeOK, StageInv, EpochInv, Running
  <2> QED
    BY <2>1 DEF SyncPostedForMissing, is_current_epoch_over
<1>7. CASE HandleNewEpoch
  <2>1. /\ Running /\ epoch_status = "over"
        /\ pending_sync_request = NoRequest
    BY <1>7 DEF HandleNewEpoch, Running, IInv, TypeOK, EpochInv, SyncInv
  <2> QED
    BY <1>7, <2>1, SyncedStep DEF HandleNewEpoch, is_current_epoch_over, IInv, TypeOK
<1>8. CASE RetrySync \/ (\E h \in sync_requests : LoseRequest(h)) \/ UNCHANGED vars
  BY <1>8
  DEF RetrySync, retry, LoseRequest, vars, WakeInv, SyncPostedForMissing,
      is_current_epoch_over, next_block_height
<1>9. CASE \/ InitializeGenesis \/ RefuseToStart \/ PersistBatches \/ CommitBlock
           \/ ApplyToMoveStore \/ RecordExecuted \/ FailExecution \/ Shutdown \/ Crash
  BY <1>9
  DEF InitializeGenesis, RefuseToStart, PersistBatches, CommitBlock, ApplyToMoveStore,
      RecordExecuted, FailExecution, Shutdown, Crash, Halt, GoTo, SyncPostedForMissing
<1>10. ~RefuseDuplicate
  BY NoDuplicate DEF WakeInv
<1> QED
  BY <1>1, <1>2, <1>3, <1>4, <1>5, <1>6, <1>7, <1>8, <1>9, <1>10 DEF Next, ContinueHandler

(***************************************************************************)
(* No lost wake-up, for every set of blocks and every choice of crash      *)
(* points outside the executor: in an active epoch, a loop that waits and  *)
(* knows of a block ahead has the next one scheduled or asked for.         *)
(***************************************************************************)
THEOREM NoLostWakeUp ==
  ASSUME "record" \notin CrashPoints
  PROVE  Spec => []SyncPostedForMissing
<1>1. IInv /\ WakeInv /\ [Next]_vars => WakeInv'
  BY NextIInv, StoreInvStep, PastEpochsInvStep, ObservedInvStep, SyncPostedStep DEF WakeInv
<1>2. WakeInv => SyncPostedForMissing
  BY DEF WakeInv
<1> QED
  BY InitIInv, NextIInv, InitWakeInv, <1>1, <1>2, PTL DEF Spec
=============================================================================
