---------------------- MODULE ChainStateAssemblerProofs ----------------------
(***************************************************************************)
(* The inductive invariant of the chain state assembler holds for every    *)
(* set of blocks, every bucket size and every choice of crash points, and  *)
(* the safety properties follow from it.  One lemma per action shows that  *)
(* the action preserves the invariant.                                     *)
(***************************************************************************)
EXTENDS AssemblerInvariant, TLAPS

USE DEF controlVars, chainVars, cacheVars, epochVars, blockVars, lastVars, syncVars

\* The type of the field pending_execution.
Cache == [Heights -> BlockReference \union {NoBlock}]

-----------------------------------------------------------------------------
(* The operators of the model *)

\* A block's fields have their types, and its height is one of Heights.
LEMMA BlockFields ==
  ASSUME NEW b \in Blocks
  PROVE  b.height \in Nat /\ b.epoch \in Nat /\ b.height \in Heights /\ b # NoBlock
BY BlocksAssumption DEF Heights

\* Heights are natural numbers, so next_block_height is one too.
LEMMA HeightsAreNat == Heights \subseteq Nat
BY BlocksAssumption DEF Heights

\* A cache entry has the kind and the block it was made of.
LEMMA ReferenceFields ==
  ASSUME NEW kind, NEW b
  PROVE  Reference(kind, b).kind = kind /\ Reference(kind, b).block = b
BY DEF Reference

\* BlockStore::retain keeps a well-formed cache, and only entries above the bound.
LEMMA RetainType ==
  ASSUME NEW pending \in Cache, NEW n
  PROVE  retain(pending, n) \in Cache
BY DEF retain, Cache

\* BlockStore::cache keeps a well-formed cache.
LEMMA CacheType ==
  ASSUME NEW pending \in Cache, NEW committed, NEW b \in Blocks
  PROVE  cache(pending, committed, b) \in Cache
<1>1. Reference(IF b.height <= committed + BucketSize THEN "Block" ELSE "Memo", b)
        \in BlockReference
  BY DEF Reference, BlockReference, RefKinds
<1> QED
  BY <1>1, Zenon DEF cache, Cache

\* Marking the entry of a taken block as scheduled keeps a well-formed cache.
LEMMA MarkScheduledType ==
  ASSUME NEW pending \in Cache, NEW h \in Heights, pending[h] # NoBlock
  PROVE  mark_scheduled(pending, h) \in Cache
<1>1. pending[h] \in BlockReference
  BY DEF Cache
<1>2. Reference("Scheduled", pending[h].block) \in BlockReference
  BY <1>1 DEF Reference, BlockReference, RefKinds
<1> QED
  BY <1>2 DEF mark_scheduled, Cache

\* Posting a request only adds its height to the requests on their way.
LEMMA PostedRequests ==
  ASSUME NEW h \in Nat, sync_requests \subseteq Nat, post_sync_request(h)
  PROVE  sync_requests' \subseteq Nat
BY DEF post_sync_request

\* Appending a block to the Move store makes it the last applied one.
LEMMA AppendToLedger ==
  ASSUME NEW b \in Blocks, ledger \in Seq(Blocks), ledger # <<>>,
         ledger' = Append(ledger, b)
  PROVE  /\ ledger' \in Seq(Blocks) /\ ledger' # <<>>
         /\ last_applied' = b
         /\ Len(ledger) \in Nat \ {0}
         /\ Len(ledger') = Len(ledger) + 1
         /\ \A i \in 1 .. Len(ledger) : ledger'[i] = ledger[i]
         /\ ledger'[Len(ledger) + 1] = b
BY DEF last_applied

\* The last applied block is a block.
LEMMA LastAppliedType ==
  ASSUME ledger \in Seq(Blocks), ledger # <<>>
  PROVE  last_applied \in Blocks
BY DEF last_applied

(***************************************************************************)
(* try_to_sync_skipped_blocks ends the handler.  If no request for another *)
(* height is pending it raises no conflict, and afterwards the next block  *)
(* is asked for whenever it is known to be missing.                        *)
(***************************************************************************)
LEMMA SyncSkipped ==
  ASSUME NEW request \in Nat, next_block_height' \in Nat, sync_requests \subseteq Nat,
         request \in {NoRequest, next_block_height'},
         try_to_sync_skipped_blocks(request)
  PROVE  /\ Continue
         /\ sync_requests' \subseteq Nat
         /\ pending_sync_request' \in {NoRequest, next_block_height'}
         /\ /\ last_observed_highest_block' >= next_block_height'
            /\ ~has_entry(pending_execution', last_committed_block_height', next_block_height')
            => pending_sync_request' = next_block_height'
<1>1. ~conflicts(request, next_block_height')
  BY DEF conflicts
<1>2. CASE try_post_sync_request(request, next_block_height') /\ Continue
  <2>1. sync_requests' \subseteq Nat
    BY <1>2, PostedRequests, Zenon DEF try_post_sync_request
  <2> QED
    BY <1>2, <2>1 DEF try_post_sync_request, NoRequest
<1> QED
  BY <1>1, <1>2, Zenon DEF try_to_sync_skipped_blocks

-----------------------------------------------------------------------------
(* Starting and stopping *)

LEMMA InitIInv == Init => IInv
<1> SUFFICES ASSUME Init PROVE IInv
  OBVIOUS
<1>1. TypeOK
  <2>1. ledger \in Seq(Blocks) /\ ledger # <<>>
    BY BlocksAssumption DEF Init
  <2> QED
    BY <2>1, BlocksAssumption
    DEF Init, TypeOK, Stages, Exits, EmptyCache, NoRequest
<1>2. DiskInv /\ LedgerIsChain
  BY BlocksAssumption DEF Init, DiskInv, Running, last_applied, LedgerIsChain
<1> QED
  BY <1>1, <1>2
  DEF Init, IInv, StageInv, MemoryInv, EpochInv, CacheInv, ReadyInv, SyncInv,
      Running, RegressionsUnreachable

(***************************************************************************)
(* A step that changes neither the LastStateItems nor the Move store, and  *)
(* does not start the node, keeps what is said of them.                    *)
(***************************************************************************)
LEMMA DiskUnchanged ==
  ASSUME DiskInv, LedgerIsChain, UNCHANGED <<lastVars, ledger>>,
         pc' # "genesis", Running' => Running
  PROVE  DiskInv' /\ LedgerIsChain'
BY DEF DiskInv, LedgerIsChain, last_applied, Running, epoch_after, Follows,
       correctly_extends

(***************************************************************************)
(* Leaving the loop keeps the invariant: all that is left is on disk.      *)
(***************************************************************************)
LEMMA HaltStep ==
  ASSUME IInv, TypeOK', UNCHANGED <<lastVars, ledger>>,
         NEW reason \in Exits \ {"sync_conflict", "feedback_full", "epoch_regression"},
         Halt(reason)
  PROVE  IInv'
<1>1. DiskInv' /\ LedgerIsChain'
  BY DiskUnchanged DEF IInv, Halt, Running
<1>2. task = "restore" => pending_execution = EmptyCache
  BY DEF IInv, StageInv
<1> QED
  BY <1>1, <1>2
  DEF Halt, IInv, StageInv, MemoryInv, EpochInv, CacheInv, ReadyInv, SyncInv,
      Running, RegressionsUnreachable

\* The ways to stop that leave everything but the control state alone.
LEMMA StopStep ==
  ASSUME IInv, RefuseToStart \/ FailExecution \/ Shutdown \/ Crash
  PROVE  IInv'
<1>1. UNCHANGED <<chainVars, cacheVars, epochVars, blockVars, lastVars, ledger, syncVars>>
  BY DEF RefuseToStart, FailExecution, Shutdown, Crash
<1>2. PICK reason \in {"inconsistent_store", "execution_failed", "shutdown", "crash"} :
        Halt(reason)
  BY DEF RefuseToStart, FailExecution, Shutdown, Crash
<1>3. TypeOK'
  BY <1>1, <1>2 DEF IInv, TypeOK, Halt, Stages, Exits
<1> QED
  BY <1>1, <1>2, <1>3, HaltStep DEF Exits

LEMMA InitializeGenesisStep ==
  ASSUME IInv, InitializeGenesis
  PROVE  IInv'
<1>1. TypeOK'
  BY BlocksAssumption DEF IInv, TypeOK, InitializeGenesis, Stages, Exits
<1>2. DiskInv' /\ LedgerIsChain'
  BY BlocksAssumption
  DEF IInv, DiskInv, LedgerIsChain, InitializeGenesis, Running, last_applied,
      correctly_extends, epoch_after
<1> QED
  BY <1>1, <1>2
  DEF InitializeGenesis, IInv, StageInv, MemoryInv, EpochInv, CacheInv, ReadyInv,
      SyncInv, Running, RegressionsUnreachable

(***************************************************************************)
(* A new assembler starts in a state of the invariant: the warranter takes *)
(* up the committed block exactly when it is not the executed one.         *)
(***************************************************************************)
LEMMA NewAssemblerStep ==
  ASSUME IInv, DiskInv', pc \in {"down", "genesis"},
         executed_block' \in Blocks, committed_block \in Blocks,
         UNCHANGED <<committed_block, epoch_boundary_block, blockVars, ledger>>,
         last_committed_block_height' = committed_block.height,
         NewAssembler(executed_block', committed_block)
  PROVE  IInv'
<1>1. last_applied \in Blocks
  BY LastAppliedType DEF IInv, TypeOK
<1>2. epoch' \in Nat
  BY <1>1, BlockFields DEF NewAssembler, RestoreEpoch
<1>3. TypeOK'
  BY <1>2, BlocksAssumption
  DEF IInv, TypeOK, NewAssembler, RestoreEpoch, EmptyCache, Stages, Exits, NoRequest
<1>4. StageInv'
  BY DEF StageInv, NewAssembler
<1>5. MemoryInv'
  BY DEF MemoryInv, NewAssembler, Running
<1>6. EpochInv'
  BY <1>1 DEF EpochInv, NewAssembler, RestoreEpoch, Running, epoch_after, last_applied
<1>7. CacheInv' /\ ReadyInv' /\ SyncInv'
  BY DEF CacheInv, ReadyInv, SyncInv, NewAssembler, EmptyCache, Running
<1>8. LedgerIsChain' /\ RegressionsUnreachable'
  BY DEF IInv, LedgerIsChain, NewAssembler, RegressionsUnreachable,
         correctly_extends, epoch_after
<1> QED
  BY <1>3, <1>4, <1>5, <1>6, <1>7, <1>8 DEF IInv

LEMMA WriteGenesisExecutedStep ==
  ASSUME IInv, WriteGenesisExecuted
  PROVE  IInv'
<1>1. committed_block = Genesis /\ last_applied = Genesis /\ executed_block = NoBlock
  BY DEF IInv, DiskInv, WriteGenesisExecuted, Running
<1>2. DiskInv'
  BY <1>1, BlocksAssumption
  DEF DiskInv, WriteGenesisExecuted, NewAssembler, Running, last_applied
<1>3. last_committed_block_height' = committed_block.height
  BY DEF IInv, MemoryInv, WriteGenesisExecuted
<1> QED
  BY <1>1, <1>2, <1>3, BlocksAssumption, NewAssemblerStep DEF WriteGenesisExecuted

LEMMA ResumeStep ==
  ASSUME IInv, Resume
  PROVE  IInv'
<1>1. executed_block \in Blocks /\ committed_block \in Blocks
  BY DEF IInv, TypeOK, Resume, IsConsistentStore
<1>2. DiskInv'
  BY <1>1, BlocksAssumption
  DEF IInv, DiskInv, Resume, NewAssembler, Running, last_applied, Follows,
      correctly_extends, epoch_after
<1> QED
  BY <1>1, <1>2, NewAssemblerStep DEF Resume

-----------------------------------------------------------------------------
(* Incoming blocks *)

(***************************************************************************)
(* A step that changes only what was observed and what was asked for.      *)
(***************************************************************************)
LEMMA QuietStep ==
  ASSUME IInv,
         UNCHANGED <<controlVars, last_executed_block_info, ready_to_execute, cacheVars,
                     epochVars, blockVars, lastVars, ledger>>,
         last_observed_highest_block' \in Nat,
         pending_sync_request' \in Nat, sync_requests' \subseteq Nat,
         SyncInv'
  PROVE  IInv'
<1>1. TypeOK'
  BY DEF IInv, TypeOK
<1>2. DiskInv' /\ LedgerIsChain'
  <2>1. pc' # "genesis" => DiskInv' /\ LedgerIsChain'
    BY DiskUnchanged DEF IInv, Running
  <2> QED
    BY <2>1 DEF IInv, DiskInv, LedgerIsChain, last_applied, Running, epoch_after,
                Follows, correctly_extends
<1>3. StageInv' /\ MemoryInv'
  BY DEF IInv, StageInv, MemoryInv, Running, next_block_height, has_entry, Follows,
         correctly_extends, epoch_after, last_applied
<1>4. EpochInv'
  BY DEF IInv, EpochInv, Running, epoch_after, last_applied
<1>5. CacheInv' /\ ReadyInv'
  BY DEF IInv, CacheInv, EntryInv, ReadyInv, Running, next_block_height, Reference
<1> QED
  BY <1>1, <1>2, <1>3, <1>4, <1>5 DEF IInv, RegressionsUnreachable

LEMMA HandleIncomingBlockStep ==
  ASSUME IInv, NEW b \in Blocks, HandleIncomingBlock(b)
  PROVE  IInv'
<1> USE DEF HandleIncomingBlock
<1>1. /\ last_observed_highest_block' \in Nat
      /\ next_block_height \in Nat
      /\ next_block_height' = next_block_height
  BY BlockFields DEF IInv, TypeOK, observe_block, next_block_height
<1>2. CASE should_be_skipped(b) \/ verify(b, epoch) = "OldEpochBlock"
  <2>1. UNCHANGED <<controlVars, syncVars, last_executed_block_info, ready_to_execute,
                    cacheVars, epochVars, blockVars, lastVars, ledger>>
    BY <1>2
  <2> HIDE DEF HandleIncomingBlock
  <2>2. TypeOK'
    BY <1>1, <2>1 DEF IInv, TypeOK
  <2>3. SyncInv'
    BY <1>1, <2>1 DEF IInv, SyncInv, Running
  <2> QED
    BY <1>1, <2>1, <2>2, <2>3, QuietStep DEF TypeOK
<1>3. CASE ~should_be_skipped(b) /\ verify(b, epoch) = "FutureEpochBlock"
  <2>1. pending_sync_request \in {NoRequest, next_block_height}
    BY DEF IInv, SyncInv, Running
  <2>2. /\ Continue
        /\ sync_requests' \subseteq Nat
        /\ pending_sync_request' \in {NoRequest, next_block_height}
    BY <1>1, <1>3, <2>1, SyncSkipped DEF IInv, TypeOK
  <2>3. UNCHANGED controlVars
    BY <2>2 DEF IInv, StageInv, Continue
  <2>4. SyncInv' /\ pending_sync_request' \in Nat
    BY <1>1, <1>3, <2>2, <2>3
    DEF SyncInv, Running, should_be_skipped, is_current_epoch_over, IInv, TypeOK, NoRequest
  <2> QED
    BY <1>1, <2>2, <2>3, <2>4, QuietStep
<1>4. CASE ~should_be_skipped(b) /\ verify(b, epoch) = "InvalidBlock"
  <2>1. TypeOK'
    BY <1>1, <1>4, Zenon DEF IInv, TypeOK, Halt, Stages, Exits
  <2> QED
    BY <1>4, <2>1, HaltStep DEF Exits
<1>5. CASE ~should_be_skipped(b) /\ verify(b, epoch) = "Success"
  <2>1. /\ b.epoch = epoch
        /\ b.defect \in Tolerated
        /\ epoch_status = "active"
        /\ b.height > last_executed_block_info.height
        /\ ~has_entry(pending_execution, last_committed_block_height, b.height)
    BY <1>5, BlockFields
    DEF verify, should_be_skipped, is_current_epoch_over, IInv, TypeOK
  <2>2. TypeOK'
    BY <1>1, <1>5, Zenon DEF IInv, TypeOK, GoTo, Stages
  <2>3. DiskInv' /\ LedgerIsChain'
    BY <1>5, DiskUnchanged DEF IInv, GoTo, Running
  <2>4. StageInv' /\ MemoryInv'
    BY <1>1, <1>5, <2>1 DEF IInv, StageInv, MemoryInv, GoTo, has_entry, Running
  <2>5. EpochInv'
    BY <1>5 DEF IInv, EpochInv, GoTo, Running, epoch_after, last_applied
  <2>6. CacheInv' /\ ReadyInv' /\ SyncInv'
    BY <1>1, <1>5 DEF IInv, CacheInv, EntryInv, ReadyInv, SyncInv, GoTo, Running, Reference
  <2> QED
    BY <1>5, <2>2, <2>3, <2>4, <2>5, <2>6 DEF IInv, GoTo, RegressionsUnreachable
<1> QED
  BY <1>2, <1>3, <1>4, <1>5

LEMMA PersistBatchesStep ==
  ASSUME IInv, PersistBatches
  PROVE  IInv'
<1> USE DEF PersistBatches, GoTo
<1>1. TypeOK'
  BY DEF IInv, TypeOK, StageInv, Stages
<1>2. DiskInv' /\ LedgerIsChain'
  BY DiskUnchanged DEF IInv, Running
<1>3. StageInv' /\ MemoryInv'
  BY DEF IInv, StageInv, MemoryInv, has_entry, Running
<1>4. EpochInv'
  BY DEF IInv, EpochInv, Running, epoch_after, last_applied
<1>5. CacheInv' /\ ReadyInv' /\ SyncInv'
  BY DEF IInv, CacheInv, EntryInv, ReadyInv, SyncInv, Running, Reference, next_block_height
<1> QED
  BY <1>1, <1>2, <1>3, <1>4, <1>5 DEF IInv, RegressionsUnreachable

(***************************************************************************)
(* What the invariant says while a verified block is being persisted.      *)
(***************************************************************************)
LEMMA PersistFacts ==
  ASSUME IInv, pc = "persist"
  PROVE  /\ current \in Blocks /\ current.height \in Heights /\ current.height \in Nat
         /\ current.height > last_executed_block_info.height
         /\ pending_execution[current.height] = NoBlock
         /\ current.height > last_committed_block_height
         /\ next_block_height \in Nat
         /\ pending_sync_request \in {NoRequest, next_block_height}
<1>1. current \in Blocks /\ Running
  BY DEF IInv, StageInv, Running
<1> QED
  BY <1>1, BlockFields
  DEF IInv, TypeOK, StageInv, SyncInv, has_entry, next_block_height

\* The verified child of the last executed block goes to execution.
LEMMA PersistChildStep ==
  ASSUME IInv, pc = "persist",
         certified_block' = persist(certified_block, current),
         correctly_extends(current, last_executed_block_info),
         GoTo("commit", current),
         pending_sync_request' = clear(pending_sync_request, current.height),
         UNCHANGED <<chainVars, cacheVars, epochVars, batch, lastVars, ledger, sync_requests>>
  PROVE  IInv'
<1> USE PersistFacts DEF GoTo, persist
<1>1. current.height = next_block_height
  BY DEF correctly_extends, next_block_height
<1>2. /\ executed_block \in Blocks /\ committed_block \in Blocks
      /\ last_executed_block_info = executed_block
      /\ last_committed_block_height = committed_block.height
  BY DEF IInv, TypeOK, DiskInv, MemoryInv, Running
<1>3. committed_block = executed_block /\ last_applied = executed_block
  <2>1. /\ executed_block.height \in Nat /\ committed_block.height \in Nat
        /\ executed_block # NoBlock
        /\ current.height = executed_block.height + 1
    BY <1>1, <1>2, BlockFields DEF next_block_height
  <2>2. committed_block.height # executed_block.height + 1
    BY <1>2, <2>1
  <2>3. ~Follows(committed_block, executed_block)
    BY <2>2 DEF Follows, correctly_extends
  <2> QED
    BY <2>1, <2>3 DEF IInv, DiskInv
<1>4. Follows(current, executed_block)
  BY <1>2, <1>3 DEF Follows, IInv, StageInv, EpochInv, Running
<1>5. ready_to_execute = NoBlock
  <2>1. ASSUME ready_to_execute # NoBlock PROVE FALSE
    <3>1. Reference("Scheduled", ready_to_execute) \in BlockReference
      BY <2>1 DEF IInv, TypeOK, Reference, BlockReference, RefKinds
    <3>2. pending_execution[next_block_height] = Reference("Scheduled", ready_to_execute)
      BY <2>1 DEF IInv, ReadyInv, Running
    <3> QED
      BY <1>1, <3>1, <3>2, BlocksAssumption
  <2> QED
    BY <2>1
<1>6. pending_sync_request' = NoRequest
  BY <1>1 DEF clear
<1>7. TypeOK'
  BY <1>6 DEF IInv, TypeOK, Stages, NoRequest
<1>8. DiskInv' /\ LedgerIsChain'
  BY DiskUnchanged DEF IInv, Running
<1>9. StageInv' /\ MemoryInv'
  BY <1>2, <1>3, <1>4
  DEF IInv, StageInv, MemoryInv, Running, Follows, correctly_extends, epoch_after
<1>10. EpochInv'
  BY DEF IInv, EpochInv, Running, epoch_after, last_applied
<1>11. CacheInv'
  BY DEF IInv, TypeOK, CacheInv, EntryInv, Running, next_block_height
<1>12. ReadyInv' /\ SyncInv'
  BY <1>5, <1>6 DEF ReadyInv, SyncInv, Running
<1> QED
  BY <1>7, <1>8, <1>9, <1>10, <1>11, <1>12 DEF IInv, RegressionsUnreachable

\* Any other verified block is cached.
LEMMA PersistCachedStep ==
  ASSUME IInv, pc = "persist",
         certified_block' = persist(certified_block, current),
         current.height # next_block_height,
         pending_execution' =
           cache(pending_execution, last_committed_block_height, current),
         try_to_sync_skipped_blocks(clear(pending_sync_request, current.height)),
         UNCHANGED <<chainVars, last_committed_block_height, epochVars, batch, lastVars, ledger>>
  PROVE  IInv'
<1> USE DEF persist
<1> DEFINE h == current.height
<1>1. clear(pending_sync_request, h) = pending_sync_request
  BY PersistFacts, BlockFields DEF clear, IInv, TypeOK, NoRequest
<1>2. /\ next_block_height' = next_block_height
      /\ h > next_block_height
  BY PersistFacts, BlockFields DEF next_block_height, IInv, TypeOK
<1>3. /\ Continue
      /\ sync_requests' \subseteq Nat
      /\ pending_sync_request' \in {NoRequest, next_block_height}
      /\ pending_sync_request' \in Nat
  <2> HIDE DEF h
  <2>1. pending_sync_request \in Nat /\ sync_requests \subseteq Nat
    BY DEF IInv, TypeOK
  <2> QED
    BY <1>1, <1>2, <2>1, PersistFacts, SyncSkipped DEF NoRequest, h
<1>4. TypeOK'
  <2>1. pending_execution' \in Cache
    BY PersistFacts, CacheType DEF IInv, TypeOK, Cache
  <2> QED
    BY <1>3, <2>1, PersistFacts, Zenon DEF IInv, TypeOK, Cache, Continue, Stages
<1>5. DiskInv' /\ LedgerIsChain'
  BY <1>3, DiskUnchanged DEF IInv, Running, Continue
<1>6. StageInv' /\ MemoryInv'
  BY <1>2, <1>3 DEF IInv, StageInv, MemoryInv, Running, Continue
<1>7. EpochInv'
  BY <1>3 DEF IInv, EpochInv, StageInv, Running, Continue, epoch_after, last_applied
<1>8. CacheInv'
  <2> SUFFICES ASSUME NEW k \in Heights, pending_execution'[k] # NoBlock
               PROVE  EntryInv(k)'
    BY DEF CacheInv
  <2>1. CASE k = h
    <3> DEFINE form == IF h <= last_committed_block_height + BucketSize
                         THEN "Block" ELSE "Memo"
    <3>1. pending_execution'[k] = Reference(form, current)
      BY <2>1, PersistFacts DEF cache, IInv, TypeOK
    <3>2. /\ current.epoch = epoch /\ current.defect \in Tolerated
          /\ certified_block'[k] = current
      BY <2>1, PersistFacts DEF IInv, TypeOK, StageInv
    <3>3. pending_execution'[k].block = current /\ pending_execution'[k].kind = form
      <4> HIDE DEF form, h
      <4> QED
        BY <3>1, ReferenceFields
    <3> QED
      BY <1>2, <2>1, <3>2, <3>3 DEF EntryInv
  <2>2. CASE k # h
    <3>1. pending_execution'[k] = pending_execution[k] /\ certified_block'[k] = certified_block[k]
      BY <2>2, PersistFacts DEF cache, IInv, TypeOK
    <3> QED
      BY <1>2, <3>1 DEF IInv, CacheInv, EntryInv, Running
  <2> QED
    BY <2>1, <2>2
<1>9. ReadyInv'
  BY <1>2, <1>3, PersistFacts, BlocksAssumption
  DEF IInv, TypeOK, ReadyInv, Running, Continue, cache
<1>10. SyncInv'
  BY <1>2, <1>3 DEF IInv, SyncInv, StageInv, Running, Continue
<1> QED
  BY <1>3, <1>4, <1>5, <1>6, <1>7, <1>8, <1>9, <1>10
  DEF IInv, RegressionsUnreachable, Continue

LEMMA PersistBlockStep ==
  ASSUME IInv, PersistBlock
  PROVE  IInv'
<1> USE DEF PersistBlock, persist
<1>1. CASE Halt("wrong_parent") /\ UNCHANGED <<cacheVars, syncVars>>
  <2>1. TypeOK'
    BY <1>1, PersistFacts DEF IInv, TypeOK, Halt, Stages, Exits
  <2> QED
    BY <1>1, <2>1, HaltStep DEF Exits
<1>2. CASE /\ correctly_extends(current, last_executed_block_info)
           /\ GoTo("commit", current)
           /\ pending_sync_request' = clear(pending_sync_request, current.height)
           /\ UNCHANGED <<cacheVars, sync_requests>>
  BY <1>2, PersistChildStep
<1>3. can_be_cached(pending_execution, last_committed_block_height, current.height)
  BY PersistFacts DEF can_be_cached
<1>4. CASE /\ current.height # next_block_height
           /\ pending_execution' =
                cache(pending_execution, last_committed_block_height, current)
           /\ try_to_sync_skipped_blocks(clear(pending_sync_request, current.height))
           /\ UNCHANGED last_committed_block_height
  BY <1>4, PersistCachedStep
<1> QED
  BY <1>1, <1>2, <1>3, <1>4

-----------------------------------------------------------------------------
(* Execution *)

\* The block in the feedback channel is the verified child of the executed one,
\* or contradicts it.
LEMMA ScheduledFacts ==
  ASSUME IInv, pc = "idle", ready_to_execute # NoBlock
  PROVE  /\ ready_to_execute \in Blocks
         /\ ready_to_execute.height = next_block_height
         /\ ready_to_execute.epoch = epoch
         /\ ready_to_execute.defect \in Tolerated
         /\ epoch_status = "active"
         /\ committed_block = executed_block
         /\ last_applied = executed_block
         /\ last_executed_block_info = executed_block
         /\ executed_block \in Blocks
<1>1. Running /\ ready_to_execute \in Blocks
  BY DEF Running, IInv, TypeOK
<1>2. /\ next_block_height \in Heights
      /\ pending_execution[next_block_height] = Reference("Scheduled", ready_to_execute)
      /\ epoch_status = "active"
      /\ committed_block = executed_block
  BY <1>1 DEF IInv, ReadyInv
<1>3. Reference("Scheduled", ready_to_execute) # NoBlock
  <2>1. Reference("Scheduled", ready_to_execute) \in BlockReference
    BY <1>1 DEF Reference, BlockReference, RefKinds
  <2> QED
    BY <2>1, BlocksAssumption
<1>4. EntryInv(next_block_height)
  BY <1>1, <1>2, <1>3 DEF IInv, CacheInv
<1>5. executed_block \in Blocks /\ last_executed_block_info = executed_block
  BY <1>1 DEF IInv, DiskInv, TypeOK, MemoryInv
<1>6. last_applied = executed_block
  BY <1>2, <1>5, BlockFields DEF IInv, DiskInv
<1>7. pending_execution[next_block_height].block = ready_to_execute
  BY <1>2 DEF Reference
<1> QED
  BY <1>1, <1>2, <1>4, <1>5, <1>6, <1>7 DEF EntryInv

LEMMA HandleScheduledBlockStep ==
  ASSUME IInv, HandleScheduledBlock
  PROVE  IInv'
<1> USE ScheduledFacts DEF HandleScheduledBlock
<1> DEFINE b == ready_to_execute
<1>1. /\ pending_execution' = pending_execution
      /\ \/ Halt("wrong_parent")
         \/ b.parent = last_executed_block_info.hash /\ GoTo("commit", b)
  BY DEF is_current_epoch_over
<1>2. /\ next_block_height \in Nat
      /\ next_block_height' = next_block_height
      /\ pending_sync_request \in {NoRequest, next_block_height}
      /\ pending_sync_request' = NoRequest
  BY BlockFields DEF IInv, TypeOK, SyncInv, Running, next_block_height, clear
<1>5. /\ ready_to_execute' = NoBlock
      /\ UNCHANGED <<last_executed_block_info, last_observed_highest_block,
                     last_committed_block_height, epochVars, blockVars, lastVars,
                     ledger, sync_requests>>
  OBVIOUS
<1>6. b \in Blocks
  OBVIOUS
<1>3. CASE Halt("wrong_parent")
  <2>1. TypeOK'
    <3> HIDE ScheduledFacts DEF HandleScheduledBlock
    <3> QED
      BY <1>1, <1>2, <1>3, <1>5 DEF IInv, TypeOK, Halt, Stages, Exits, NoRequest
  <2> QED
    BY <1>3, <2>1, HaltStep DEF Exits
<1>4. CASE b.parent = last_executed_block_info.hash /\ GoTo("commit", b)
  <2>1. Follows(b, executed_block)
    BY <1>4 DEF Follows, correctly_extends, next_block_height, IInv, EpochInv, Running
  <2>2. TypeOK'
    <3> HIDE ScheduledFacts DEF HandleScheduledBlock
    <3> QED
      BY <1>1, <1>2, <1>4, <1>5, <1>6 DEF IInv, TypeOK, GoTo, Stages, NoRequest
  <2>3. DiskInv' /\ LedgerIsChain'
    BY <1>4, DiskUnchanged DEF IInv, Running, GoTo
  <2>4. StageInv' /\ MemoryInv'
    BY <1>1, <1>4, <2>1
    DEF IInv, StageInv, MemoryInv, Running, GoTo, Follows, correctly_extends, epoch_after
  <2>5. EpochInv'
    BY <1>1, <1>4 DEF IInv, EpochInv, Running, GoTo, epoch_after, last_applied
  <2>6. CacheInv'
    BY <1>1, <1>2, <1>4 DEF IInv, CacheInv, EntryInv, Running, GoTo
  <2>7. ReadyInv' /\ SyncInv'
    BY <1>2 DEF ReadyInv, SyncInv
  <2> QED
    BY <1>4, <2>2, <2>3, <2>4, <2>5, <2>6, <2>7 DEF IInv, GoTo, RegressionsUnreachable
<1> QED
  BY <1>1, <1>3, <1>4

\* The bucket only moves up with the last committed block.
LEMMA BucketMoves == \A h, low, high, size \in Nat : h <= low + size /\ high >= low => h <= high + size
OBVIOUS

LEMMA CommitBlockStep ==
  ASSUME IInv, CommitBlock
  PROVE  IInv'
<1> USE DEF CommitBlock, GoTo
<1>1. /\ current \in Blocks /\ executed_block \in Blocks
      /\ last_executed_block_info = executed_block
      /\ ready_to_execute = NoBlock
      /\ pending_sync_request = NoRequest
  BY DEF IInv, StageInv, TypeOK, DiskInv, MemoryInv, ReadyInv, SyncInv, Running
<1>2. Follows(current, executed_block) /\ current # executed_block
  <2>1. Follows(current, executed_block)
    BY <1>1 DEF IInv, TypeOK, StageInv, DiskInv
  <2> QED
    BY <1>1, <2>1, BlockFields DEF Follows, correctly_extends
<1>3. last_applied \in {current, executed_block} /\ last_applied' = last_applied
  <2>1. last_applied \in {current, executed_block}
    BY <1>1, BlockFields DEF IInv, TypeOK, StageInv, DiskInv
  <2> QED
    BY <2>1 DEF last_applied
<1>4. TypeOK'
  BY <1>1, BlockFields DEF IInv, TypeOK, Stages
<1>5. DiskInv'
  BY <1>1, <1>2, <1>3, BlockFields
  DEF DiskInv, Running, Follows, correctly_extends, epoch_after
<1>6. StageInv' /\ MemoryInv'
  BY <1>1, <1>2 DEF IInv, StageInv, MemoryInv, Running
<1>7. EpochInv'
  BY <1>2, <1>3 DEF IInv, TypeOK, StageInv, EpochInv, Running, epoch_after
<1>8. CacheInv'
  <2>1. last_committed_block_height' >= last_committed_block_height
    <3>1. last_committed_block_height \in {executed_block.height, current.height}
      BY DEF IInv, TypeOK, StageInv, MemoryInv
    <3>2. current.height = executed_block.height + 1 /\ executed_block.height \in Nat
      BY <1>1, <1>2, BlockFields DEF Follows, correctly_extends
    <3> QED
      BY <3>1, <3>2
  <2> SUFFICES ASSUME NEW h \in Heights, pending_execution[h] # NoBlock
               PROVE  EntryInv(h)'
    BY DEF CacheInv
  <2>2. EntryInv(h)
    BY DEF IInv, CacheInv, Running
  <2>3. /\ h \in Nat /\ BucketSize \in Nat
        /\ last_committed_block_height \in Nat /\ last_committed_block_height' \in Nat
    BY <1>1, HeightsAreNat, BlockFields, BlocksAssumption DEF IInv, TypeOK
  <2>4. next_block_height' = next_block_height
    BY DEF next_block_height
  <2>5. /\ pc' = "execute"
        /\ UNCHANGED <<pending_execution, certified_block, epoch>>
    OBVIOUS
  <2> HIDE DEF CommitBlock
  <2>6. pending_execution[h].kind = "Block" => h <= last_committed_block_height + BucketSize
    BY <2>2, Zenon DEF EntryInv
  <2>7. pending_execution[h].kind = "Block" => h <= last_committed_block_height' + BucketSize
    BY <2>1, <2>3, <2>6, BucketMoves, Zenon
  <2> QED
    BY <2>2, <2>4, <2>5, <2>7, Zenon DEF EntryInv
<1>9. ReadyInv' /\ SyncInv' /\ LedgerIsChain' /\ RegressionsUnreachable'
  BY <1>1
  DEF IInv, ReadyInv, SyncInv, LedgerIsChain, RegressionsUnreachable,
      correctly_extends, epoch_after
<1> QED
  BY <1>4, <1>5, <1>6, <1>7, <1>8, <1>9 DEF IInv

\* In the executor: the block it works on is the verified child of the executed one.
LEMMA ExecutorFacts ==
  ASSUME IInv, pc \in {"execute", "record"}
  PROVE  /\ current \in Blocks /\ executed_block \in Blocks /\ last_applied \in Blocks
         /\ current = committed_block
         /\ Follows(current, executed_block)
         /\ last_executed_block_info = executed_block
         /\ ready_to_execute = NoBlock
         /\ pending_sync_request = NoRequest
         /\ last_applied # current => last_applied = executed_block
<1>1. Running /\ last_applied \in Blocks
  BY LastAppliedType DEF Running, IInv, TypeOK
<1>2. /\ current \in Blocks /\ executed_block \in Blocks
      /\ current = committed_block /\ committed_block # executed_block
  BY <1>1 DEF IInv, StageInv, TypeOK, DiskInv
<1>3. Follows(current, executed_block) /\ last_applied \in {current, executed_block}
  BY <1>2, BlockFields DEF IInv, DiskInv
<1> QED
  BY <1>1, <1>2, <1>3 DEF IInv, MemoryInv, ReadyInv, SyncInv

LEMMA ApplyToMoveStoreStep ==
  ASSUME IInv, ApplyToMoveStore
  PROVE  IInv'
<1> USE ExecutorFacts DEF ApplyToMoveStore, GoTo
<1>1. last_applied = executed_block
  OBVIOUS
<1>2. /\ ledger' \in Seq(Blocks) /\ ledger' # <<>>
      /\ last_applied' = current
      /\ Len(ledger) \in Nat \ {0}
      /\ Len(ledger') = Len(ledger) + 1
      /\ \A i \in 1 .. Len(ledger) : ledger'[i] = ledger[i]
      /\ ledger'[Len(ledger) + 1] = current
  BY AppendToLedger DEF IInv, TypeOK
<1>3. epoch_status = "active" /\ epoch = current.epoch /\ epoch_manager = "stable"
  BY <1>1 DEF IInv, TypeOK, EpochInv, Running, Follows
<1>4. TypeOK'
  BY <1>2 DEF IInv, TypeOK, Stages
<1>5. DiskInv'
  BY <1>2, BlockFields DEF IInv, DiskInv, Running, Follows, correctly_extends, epoch_after
<1>6. StageInv' /\ MemoryInv'
  BY <1>2 DEF IInv, StageInv, MemoryInv, Running
<1>7. EpochInv'
  BY <1>3 DEF EpochInv, Running
<1>8. CacheInv' /\ ReadyInv' /\ SyncInv'
  BY DEF IInv, CacheInv, EntryInv, ReadyInv, SyncInv, Running, next_block_height
<1>9. LedgerIsChain'
  <2>1. ASSUME NEW i \in 1 .. Len(ledger)
        PROVE  Follows(ledger'[i + 1], ledger'[i])
    <3>1. CASE i = Len(ledger)
      BY <1>1, <1>2, <3>1 DEF last_applied
    <3>2. CASE i \in 1 .. Len(ledger) - 1
      BY <1>2, <3>2 DEF IInv, LedgerIsChain, Follows
    <3> QED
      BY <1>2, <3>1, <3>2
  <2>2. Len(ledger') - 1 = Len(ledger)
    BY <1>2
  <2> QED
    BY <2>1, <2>2 DEF LedgerIsChain, Follows
<1> QED
  BY <1>4, <1>5, <1>6, <1>7, <1>8, <1>9 DEF IInv, RegressionsUnreachable

LEMMA RecordExecutedStep ==
  ASSUME IInv, RecordExecuted
  PROVE  IInv'
<1> USE ExecutorFacts DEF RecordExecuted, GoTo
<1>1. last_applied = current /\ last_applied' = last_applied
  BY DEF IInv, StageInv, last_applied
<1>2. TypeOK'
  BY DEF IInv, TypeOK, Stages
<1>3. DiskInv'
  BY <1>1, BlockFields DEF DiskInv, Running
<1>4. StageInv' /\ MemoryInv'
  BY DEF IInv, StageInv, MemoryInv, Running, Follows, correctly_extends, next_block_height
<1>5. EpochInv'
  BY <1>1 DEF IInv, EpochInv, Running
<1>6. CacheInv' /\ ReadyInv' /\ SyncInv'
  BY DEF IInv, CacheInv, EntryInv, ReadyInv, SyncInv, Running, next_block_height
<1>7. LedgerIsChain' /\ RegressionsUnreachable'
  BY DEF IInv, LedgerIsChain, RegressionsUnreachable, correctly_extends, epoch_after
<1> QED
  BY <1>2, <1>3, <1>4, <1>5, <1>6, <1>7 DEF IInv

LEMMA RefuseDuplicateStep ==
  ASSUME IInv, RefuseDuplicate
  PROVE  IInv'
<1> USE ExecutorFacts DEF RefuseDuplicate
<1>1. CASE task # "restore"
  <2>1. TypeOK'
    BY <1>1 DEF IInv, TypeOK, Halt, Stages, Exits
  <2> QED
    BY <1>1, <2>1, HaltStep DEF Exits
<1>2. CASE task = "restore"
  <2> USE <1>2 DEF Continue
  <2>1. pending_execution = EmptyCache
    BY DEF IInv, StageInv
  <2>2. TypeOK'
    BY DEF IInv, TypeOK, Stages
  <2>3. DiskInv' /\ LedgerIsChain'
    BY DiskUnchanged DEF IInv, Running
  <2>4. StageInv' /\ MemoryInv'
    BY DEF IInv, StageInv, MemoryInv, Running
  <2>5. EpochInv'
    BY DEF IInv, EpochInv, Running, epoch_after, last_applied
  <2>6. CacheInv' /\ ReadyInv' /\ SyncInv'
    BY <2>1 DEF EmptyCache, CacheInv, ReadyInv, SyncInv
  <2> QED
    BY <2>2, <2>3, <2>4, <2>5, <2>6 DEF IInv, RegressionsUnreachable
<1> QED
  BY <1>1, <1>2

LEMMA WriteEpochBoundaryStep ==
  ASSUME IInv, WriteEpochBoundary
  PROVE  IInv'
<1> USE DEF WriteEpochBoundary, Continue
<1>1. /\ epoch_status = "over" /\ current \in Blocks
      /\ pending_execution = EmptyCache
      /\ ready_to_execute = NoBlock
      /\ pending_sync_request = NoRequest
  BY DEF IInv, StageInv, EpochInv, ReadyInv, SyncInv, Running
<1>2. TypeOK'
  BY <1>1 DEF IInv, TypeOK, Stages
<1>3. DiskInv' /\ LedgerIsChain'
  BY DEF IInv, DiskInv, LedgerIsChain, last_applied, Running, epoch_after, Follows,
         correctly_extends
<1>4. StageInv' /\ MemoryInv'
  BY DEF IInv, StageInv, MemoryInv, Running
<1>5. EpochInv'
  BY <1>1 DEF IInv, EpochInv, Running, epoch_after, last_applied
<1>6. CacheInv' /\ ReadyInv' /\ SyncInv'
  BY <1>1 DEF EmptyCache, CacheInv, ReadyInv, SyncInv
<1> QED
  BY <1>2, <1>3, <1>4, <1>5, <1>6 DEF IInv, RegressionsUnreachable

(***************************************************************************)
(* When the executor has answered, nothing is scheduled or asked for, and  *)
(* every entry that survives retain is above the executed block and is not *)
(* scheduled; none survives when the block ended its epoch.                *)
(***************************************************************************)
LEMMA FinishFacts ==
  ASSUME IInv, pc = "finish", NEW kept, kept = retain(pending_execution, current.height)
  PROVE  /\ current \in Blocks
         /\ current = committed_block /\ current = executed_block /\ current = last_applied
         /\ epoch_status = "active" /\ epoch = current.epoch
         /\ last_committed_block_height = current.height
         /\ ready_to_execute = NoBlock
         /\ pending_sync_request = NoRequest
         /\ kept \in Cache
         /\ \A h \in Heights : kept[h] # NoBlock =>
              /\ h > current.height
              /\ kept[h] = pending_execution[h]
              /\ kept[h] \in BlockReference
              /\ kept[h].kind # "Scheduled"
              /\ EntryInv(h)
         /\ task = "restore" \/ current \in EpochEnding => kept = EmptyCache
<1>1. /\ Running
      /\ current \in Blocks
      /\ current = committed_block /\ current = executed_block
      /\ current.height = next_block_height
  BY DEF Running, IInv, StageInv, MemoryInv
<1>2. /\ epoch_status = "active" /\ epoch = current.epoch
      /\ last_committed_block_height = current.height
      /\ ready_to_execute = NoBlock
      /\ pending_sync_request = NoRequest
  BY <1>1 DEF IInv, EpochInv, MemoryInv, ReadyInv, SyncInv
<1>3. current = last_applied
  BY <1>1, BlockFields DEF IInv, DiskInv
<1>4. kept \in Cache
  BY RetainType DEF IInv, TypeOK, Cache
<1>5. \A h \in Heights : kept[h] # NoBlock =>
        /\ h > current.height
        /\ kept[h] = pending_execution[h]
        /\ kept[h] \in BlockReference
        /\ kept[h].kind # "Scheduled"
        /\ EntryInv(h)
  <2> SUFFICES ASSUME NEW h \in Heights, kept[h] # NoBlock
               PROVE  /\ h > current.height
                      /\ kept[h] = pending_execution[h]
                      /\ kept[h] \in BlockReference
                      /\ kept[h].kind # "Scheduled"
                      /\ EntryInv(h)
    OBVIOUS
  <2>1. h > current.height /\ kept[h] = pending_execution[h]
    BY DEF retain
  <2>2. kept[h] \in BlockReference
    BY <1>4 DEF Cache
  <2>3. EntryInv(h)
    BY <1>1, <2>1 DEF IInv, CacheInv
  <2>4. kept[h].kind # "Scheduled"
    <3>1. h \in Nat /\ current.height \in Nat
      BY <1>1, HeightsAreNat, BlockFields
    <3>2. h # next_block_height
      BY <1>1, <2>1, <3>1
    <3> QED
      BY <2>1, <2>3, <3>2 DEF EntryInv
  <2> QED
    BY <2>1, <2>2, <2>3, <2>4
<1>6. task = "restore" \/ current \in EpochEnding => kept = EmptyCache
  <2> SUFFICES ASSUME task = "restore" \/ current \in EpochEnding,
                      NEW h \in Heights, kept[h] # NoBlock
               PROVE  FALSE
    BY DEF retain, EmptyCache
  <2>1. CASE task = "restore"
    BY <1>5, <2>1 DEF IInv, StageInv, EmptyCache
  <2>2. CASE current \in EpochEnding
    <3>1. kept[h].block \in Blocks /\ kept[h].block.height = h /\ kept[h].block.epoch = epoch
      BY <1>5 DEF EntryInv, BlockReference
    <3>2. h <= current.height
      <4>1. kept[h].block.epoch <= current.epoch
        BY <1>1, <1>2, <3>1, BlockFields
      <4> QED
        BY <2>2, <3>1, <4>1, EpochAssumption
    <3> QED
      BY <1>5, <3>2, <1>1, HeightsAreNat, BlockFields
  <2> QED
    BY <2>1, <2>2
<1> QED
  BY <1>1, <1>2, <1>3, <1>4, <1>5, <1>6

(***************************************************************************)
(* What take_next_ready_block_by_height returns: the block of the entry,   *)
(* and nothing only if there is no entry, for no memo is dangling.         *)
(***************************************************************************)
LEMMA NextReadyBlock ==
  ASSUME IInv, pc = "finish", NEW kept, kept = retain(pending_execution, current.height),
         NEW h, NEW ready, ready = next_ready_block(kept, certified_block, h)
  PROVE  /\ ~is_dangling(kept, certified_block, h)
         /\ ready # NoBlock => h \in Heights /\ kept[h] # NoBlock /\ ready = kept[h].block
         /\ ready = NoBlock => (h \in Heights => kept[h] = NoBlock)
<1>1. CASE h \in Heights /\ kept[h] # NoBlock
  <2>1. /\ kept[h] \in BlockReference
        /\ kept[h].kind # "Scheduled"
        /\ kept[h] = pending_execution[h]
        /\ EntryInv(h)
    BY <1>1, FinishFacts
  <2>2. kept[h].kind \in {"Block", "Memo"} /\ kept[h].block \in Blocks
    BY <2>1 DEF BlockReference, RefKinds
  <2>3. kept[h].kind = "Memo" => certified_block[h] = kept[h].block
    BY <2>1 DEF EntryInv
  <2>4. ready = kept[h].block
    BY <1>1, <2>2, <2>3 DEF next_ready_block
  <2> QED
    BY <1>1, <2>2, <2>3, <2>4, BlocksAssumption DEF is_dangling
<1>2. CASE ~(h \in Heights /\ kept[h] # NoBlock)
  BY <1>2 DEF is_dangling, next_ready_block
<1> QED
  BY <1>1, <1>2

LEMMA FinishExecutionStep ==
  ASSUME IInv, FinishExecution
  PROVE  IInv'
<1> DEFINE kept  == retain(pending_execution, current.height)
           next  == current.height + 1
           ready == next_ready_block(kept, certified_block, next)
<1>1. pc = "finish"
  BY DEF FinishExecution
<1>2. /\ current \in Blocks
      /\ current = committed_block /\ current = executed_block /\ current = last_applied
      /\ epoch_status = "active" /\ epoch = current.epoch
      /\ last_committed_block_height = current.height
      /\ ready_to_execute = NoBlock
      /\ pending_sync_request = NoRequest
      /\ kept \in Cache
      /\ \A h \in Heights : kept[h] # NoBlock =>
           /\ h > current.height
           /\ kept[h] = pending_execution[h]
           /\ kept[h] \in BlockReference
           /\ kept[h].kind # "Scheduled"
           /\ EntryInv(h)
      /\ task = "restore" \/ current \in EpochEnding => kept = EmptyCache
  BY <1>1, FinishFacts
<1>3. /\ ~is_dangling(kept, certified_block, next)
      /\ ready # NoBlock => next \in Heights /\ kept[next] # NoBlock /\ ready = kept[next].block
      /\ ready = NoBlock => (next \in Heights => kept[next] = NoBlock)
  <2>1. /\ kept = retain(pending_execution, current.height)
        /\ ready = next_ready_block(kept, certified_block, next)
    OBVIOUS
  <2> HIDE DEF kept, next, ready
  <2> QED
    BY <1>1, <2>1, NextReadyBlock
<1>4. /\ epoch_status' = IF current \in EpochEnding THEN "over" ELSE "active"
      /\ last_executed_block_info' = current
      /\ next_block_height' = next
      /\ UNCHANGED <<last_observed_highest_block, last_committed_block_height,
                     epoch, epoch_manager, blockVars, lastVars, ledger>>
  BY <1>2 DEF FinishExecution, is_current_epoch_over, next_block_height
<1>5. next \in Nat /\ current.height \in Nat
  <2>1. current \in Blocks
    BY <1>2
  <2> QED
    BY <2>1, BlockFields
<1> HIDE DEF kept, next, ready
<1>6. \/ /\ task = "restore" \/ current \in EpochEnding
         /\ pending_execution' = kept
         /\ Continue \/ (current \in EpochEnding /\ task = "run" /\ GoTo("boundary", current))
         /\ UNCHANGED <<ready_to_execute, syncVars>>
      \/ /\ current \notin EpochEnding /\ ready # NoBlock
         /\ pending_execution' = mark_scheduled(kept, next)
         /\ ready_to_execute' = ready
         /\ Continue
         /\ UNCHANGED syncVars
      \/ /\ current \notin EpochEnding /\ ready = NoBlock
         /\ pending_execution' = kept
         /\ UNCHANGED ready_to_execute
         /\ try_to_sync_skipped_blocks(pending_sync_request)
  BY <1>2, <1>3 DEF FinishExecution, is_current_epoch_over, kept, next, ready
\* A stage that is left after execution, whatever the cache holds.
<1>7. ASSUME \/ Continue
             \/ current \in EpochEnding /\ task = "run" /\ GoTo("boundary", current),
             pending_execution' \in Cache,
             current \in EpochEnding => pending_execution' = EmptyCache,
             ready_to_execute' \in Blocks \union {NoBlock},
             pending_sync_request' \in {NoRequest, next},
             sync_requests' \subseteq Nat,
             CacheInv', ReadyInv', SyncInv'
      PROVE  IInv'
  <2>1. TypeOK'
    BY <1>2, <1>4, <1>5, <1>7, Zenon DEF IInv, TypeOK, Cache, Continue, GoTo, Stages, NoRequest
  <2>2. DiskInv' /\ LedgerIsChain'
    BY <1>1, <1>4, <1>7, DiskUnchanged DEF IInv, Running, Continue, GoTo
  <2>3. StageInv' /\ MemoryInv'
    BY <1>2, <1>4, <1>7, Zenon DEF StageInv, MemoryInv, Running, Continue, GoTo
  <2>4. EpochInv'
    <3>1. last_applied' = current
      BY <1>2, <1>4 DEF last_applied
    <3> QED
      BY <1>1, <1>2, <1>4, <1>7, <3>1, Zenon DEF IInv, EpochInv, Running, Continue, GoTo, epoch_after
  <2> QED
    BY <1>7, <2>1, <2>2, <2>3, <2>4 DEF IInv, RegressionsUnreachable, Continue, GoTo
\* An entry that is kept as it is, above the next block.
<1>8. ASSUME NEW h \in Heights, kept[h] # NoBlock, pending_execution'[h] = kept[h], h # next
      PROVE  EntryInv(h)'
  <2>1. EntryInv(h) /\ kept[h] = pending_execution[h] /\ kept[h].kind # "Scheduled"
    BY <1>2, <1>8
  <2>2. h > next
    BY <1>2, <1>5, <1>8, HeightsAreNat DEF next
  <2> QED
    BY <1>4, <1>8, <2>1, <2>2 DEF EntryInv
<1>9. CASE /\ task = "restore" \/ current \in EpochEnding
           /\ pending_execution' = kept
           /\ Continue \/ (current \in EpochEnding /\ task = "run" /\ GoTo("boundary", current))
           /\ UNCHANGED <<ready_to_execute, syncVars>>
  <2>1. CacheInv' /\ ReadyInv' /\ SyncInv'
    BY <1>2, <1>9 DEF CacheInv, ReadyInv, SyncInv, EmptyCache
  <2> QED
    BY <1>2, <1>7, <1>9, <2>1 DEF IInv, TypeOK
<1>10. CASE /\ current \notin EpochEnding /\ ready # NoBlock
            /\ pending_execution' = mark_scheduled(kept, next)
            /\ ready_to_execute' = ready
            /\ Continue
            /\ UNCHANGED syncVars
  <2>1. /\ pending_execution' \in Cache
        /\ pending_execution'[next] = Reference("Scheduled", ready)
        /\ \A h \in Heights \ {next} : pending_execution'[h] = kept[h]
    BY <1>2, <1>3, <1>10, MarkScheduledType DEF mark_scheduled, Cache
  <2>2. ready \in Blocks /\ ready.height = next /\ ready.epoch = epoch /\ ready.defect \in Tolerated
    <3>1. next \in Heights /\ kept[next] # NoBlock /\ ready = kept[next].block
      BY <1>3, <1>10
    <3>2. /\ kept[next] \in BlockReference
          /\ kept[next] = pending_execution[next]
          /\ EntryInv(next)
      BY <1>2, <3>1
    <3> QED
      BY <3>1, <3>2 DEF EntryInv, BlockReference
  <2>3. ASSUME NEW h \in Heights, h = next
        PROVE  EntryInv(h)'
    <3>1. pending_execution'[h].block = ready /\ pending_execution'[h].kind = "Scheduled"
      BY <2>1, <2>3 DEF Reference
    <3>2. epoch' = epoch /\ next_block_height' = next /\ ready_to_execute' = ready
      BY <1>4, <1>10
    <3> QED
      BY <2>2, <2>3, <3>1, <3>2 DEF EntryInv
  <2>4. CacheInv'
    <3> SUFFICES ASSUME NEW h \in Heights, pending_execution'[h] # NoBlock
                 PROVE  EntryInv(h)'
      BY DEF CacheInv
    <3> QED
      BY <1>8, <2>1, <2>3
  <2>5. ReadyInv'
    BY <1>2, <1>3, <1>4, <1>10, <2>1, Zenon DEF ReadyInv, Continue, Reference
  <2>6. SyncInv'
    BY <1>2, <1>10 DEF SyncInv
  <2> QED
    BY <1>2, <1>7, <1>10, <2>1, <2>2, <2>4, <2>5, <2>6 DEF IInv, TypeOK
<1>11. CASE /\ current \notin EpochEnding /\ ready = NoBlock
            /\ pending_execution' = kept
            /\ UNCHANGED ready_to_execute
            /\ try_to_sync_skipped_blocks(pending_sync_request)
  <2>1. /\ Continue
        /\ sync_requests' \subseteq Nat
        /\ pending_sync_request' \in {NoRequest, next}
    BY <1>2, <1>4, <1>5, <1>11, SyncSkipped DEF IInv, TypeOK
  <2>2. CacheInv'
    BY <1>3, <1>8, <1>11 DEF CacheInv
  <2>3. ReadyInv' /\ SyncInv'
    BY <1>2, <1>4, <1>11, <2>1 DEF ReadyInv, SyncInv, Continue
  <2> QED
    BY <1>2, <1>7, <1>11, <2>1, <2>2, <2>3
<1> QED
  BY <1>6, <1>9, <1>10, <1>11

-----------------------------------------------------------------------------
(* Epoch changes and the sync timer *)

LEMMA HandleEndEpochStep ==
  ASSUME IInv, HandleEndEpoch
  PROVE  IInv'
<1> USE DEF HandleEndEpoch
<1>1. epoch_status = "over" /\ UNCHANGED controlVars
  BY DEF IInv, TypeOK, EpochInv, Running, is_current_epoch_over
<1>2. TypeOK'
  BY <1>1 DEF IInv, TypeOK
<1>3. DiskInv' /\ LedgerIsChain'
  BY <1>1, DiskUnchanged DEF IInv, Running
<1>4. StageInv' /\ MemoryInv'
  BY <1>1 DEF IInv, StageInv, MemoryInv, Running
<1>5. EpochInv'
  BY <1>1 DEF IInv, EpochInv, Running, last_applied
<1>6. CacheInv' /\ ReadyInv' /\ SyncInv'
  BY <1>1 DEF IInv, EpochInv, CacheInv, EmptyCache, ReadyInv, SyncInv, Running
<1> QED
  BY <1>1, <1>2, <1>3, <1>4, <1>5, <1>6 DEF IInv, RegressionsUnreachable

LEMMA HandleNewEpochStep ==
  ASSUME IInv, HandleNewEpoch
  PROVE  IInv'
<1> USE DEF HandleNewEpoch
<1>1. /\ epoch_status = "over"
      /\ pending_execution = EmptyCache
      /\ last_applied \in EpochEnding /\ epoch = last_applied.epoch
      /\ ready_to_execute = NoBlock
      /\ pending_sync_request = NoRequest
  BY DEF IInv, TypeOK, EpochInv, ReadyInv, SyncInv, Running
<1>2. /\ pending_execution' = EmptyCache
      /\ epoch' = epoch + 1 /\ epoch_status' = "active"
      /\ epoch_manager' = "stable"
      /\ try_to_sync_skipped_blocks(pending_sync_request)
      /\ UNCHANGED <<chainVars, last_committed_block_height, blockVars, lastVars, ledger>>
  BY <1>1 DEF is_current_epoch_over, retain, EmptyCache
<1>3. /\ Continue
      /\ sync_requests' \subseteq Nat
      /\ pending_sync_request' \in {NoRequest, next_block_height'}
      /\ next_block_height' \in Nat
  <2>1. next_block_height' \in Nat
    <3>1. last_executed_block_info' \in Blocks
      BY <1>2 DEF IInv, TypeOK
    <3> QED
      BY <3>1, BlockFields DEF next_block_height
  <2> QED
    BY <1>1, <1>2, <2>1, SyncSkipped DEF IInv, TypeOK
<1>4. TypeOK'
  <2> HIDE DEF HandleNewEpoch
  <2>1. pending_execution' \in [Heights -> BlockReference \union {NoBlock}]
    BY <1>2 DEF EmptyCache
  <2>2. epoch' \in Nat
    BY <1>2 DEF IInv, TypeOK
  <2>3. pending_sync_request' \in Nat
    BY <1>3 DEF NoRequest
  <2> QED
    BY <1>2, <1>3, <2>1, <2>2, <2>3 DEF IInv, TypeOK, Continue, Stages
<1>5. DiskInv' /\ LedgerIsChain'
  BY <1>3, DiskUnchanged DEF IInv, Running, Continue
<1>6. StageInv' /\ MemoryInv'
  BY <1>3 DEF IInv, StageInv, MemoryInv, Running, Continue
<1>7. EpochInv'
  BY <1>1, <1>2, <1>3 DEF EpochInv, Running, Continue, epoch_after, last_applied
<1>8. CacheInv' /\ ReadyInv' /\ SyncInv'
  BY <1>1, <1>2, <1>3 DEF CacheInv, EmptyCache, ReadyInv, SyncInv, Continue
<1> QED
  BY <1>3, <1>4, <1>5, <1>6, <1>7, <1>8 DEF IInv, Continue, RegressionsUnreachable

LEMMA RequestStep ==
  ASSUME IInv, RetrySync \/ (\E h \in sync_requests : LoseRequest(h))
  PROVE  IInv'
<1>1. /\ UNCHANGED <<controlVars, chainVars, cacheVars, epochVars, blockVars, lastVars,
                     ledger, pending_sync_request>>
      /\ sync_requests' \subseteq Nat
  BY PostedRequests, Zenon DEF RetrySync, retry, LoseRequest, IInv, TypeOK
<1>2. SyncInv'
  BY <1>1 DEF IInv, SyncInv, Running, next_block_height
<1> QED
  BY <1>1, <1>2, QuietStep DEF IInv, TypeOK

LEMMA StutterStep ==
  ASSUME IInv, UNCHANGED vars
  PROVE  IInv'
<1>1. SyncInv'
  BY DEF vars, IInv, SyncInv, Running, next_block_height
<1> QED
  BY <1>1, QuietStep DEF vars, IInv, TypeOK

-----------------------------------------------------------------------------
(* The theorems *)

\* Every step of the assembler preserves the inductive invariant.
LEMMA NextIInv == IInv /\ [Next]_vars => IInv'
BY StopStep, InitializeGenesisStep, WriteGenesisExecutedStep, ResumeStep,
   HandleIncomingBlockStep, PersistBatchesStep, PersistBlockStep,
   HandleScheduledBlockStep, CommitBlockStep, ApplyToMoveStoreStep,
   RecordExecutedStep, RefuseDuplicateStep, FinishExecutionStep,
   WriteEpochBoundaryStep, HandleEndEpochStep, HandleNewEpochStep, RequestStep,
   StutterStep
DEF Next, ContinueHandler

\* The inductive invariant holds in every reachable state, for every set of blocks,
\* bucket size, kind of provider and choice of crash points.
THEOREM Invariance == Spec => []IInv
BY InitIInv, NextIInv, PTL DEF Spec

\* The fields of the assembler and the items of its store always have their types.
THEOREM TypeCorrectness == Spec => []TypeOK
<1>1. IInv => TypeOK
  BY DEF IInv
<1> QED
  BY <1>1, Invariance, PTL

\* The Move store is a chain of verified blocks, each the child of the one before it.
THEOREM LedgerSafety == Spec => []LedgerIsChain
<1>1. IInv => LedgerIsChain
  BY DEF IInv
<1> QED
  BY <1>1, Invariance, PTL

\* The Fatal errors that report a broken internal protocol never happen.
THEOREM NoRegression == Spec => []RegressionsUnreachable
<1>1. IInv => RegressionsUnreachable
  BY DEF IInv
<1> QED
  BY <1>1, Invariance, PTL

\* The block in the feedback channel is the next one, in an epoch that is not over.
THEOREM ScheduledSafety == Spec => []ScheduledBlockIsNext
<1>1. IInv => ScheduledBlockIsNext
  <2> SUFFICES ASSUME IInv, Running, ready_to_execute # NoBlock
               PROVE  ready_to_execute.height = next_block_height /\ ~is_current_epoch_over
    BY DEF ScheduledBlockIsNext
  <2>1. /\ next_block_height \in Heights
        /\ pending_execution[next_block_height] = Reference("Scheduled", ready_to_execute)
        /\ epoch_status = "active"
        /\ ready_to_execute \in Blocks
    BY DEF IInv, ReadyInv, TypeOK
  <2>2. Reference("Scheduled", ready_to_execute) # NoBlock
    <3>1. Reference("Scheduled", ready_to_execute) \in BlockReference
      BY <2>1 DEF Reference, BlockReference, RefKinds
    <3> QED
      BY <3>1, BlocksAssumption
  <2>3. EntryInv(next_block_height)
    BY <2>1, <2>2 DEF IInv, CacheInv
  <2>4. pending_execution[next_block_height].block = ready_to_execute
    BY <2>1 DEF Reference
  <2> QED
    BY <2>1, <2>3, <2>4 DEF EntryInv, is_current_epoch_over
<1> QED
  BY <1>1, Invariance, PTL

\* A memo in the cache is backed by the block in the persistent store.
THEOREM MemoSafety == Spec => []MemoIsBacked
<1>1. IInv => MemoIsBacked
  BY DEF IInv, CacheInv, EntryInv, MemoIsBacked
<1> QED
  BY <1>1, Invariance, PTL

\* Full blocks are cached only inside the documented bucket.
THEOREM BucketSafety == Spec => []FullBlocksInBucket
<1>1. IInv => FullBlocksInBucket
  <2> SUFFICES ASSUME IInv, Running, NEW h \in Heights, pending_execution[h] # NoBlock,
                      pending_execution[h].kind = "Block"
               PROVE  h > last_committed_block_height /\ h <= last_committed_block_height + BucketSize
    BY DEF FullBlocksInBucket
  <2>1. EntryInv(h)
    BY DEF IInv, CacheInv
  <2>2. executed_block \in Blocks /\ committed_block \in Blocks
    BY DEF IInv, TypeOK, DiskInv
  <2>3. executed_block.height \in Nat /\ committed_block.height \in Nat /\ h \in Nat
    BY <2>2, BlockFields, HeightsAreNat
  <2>4. last_committed_block_height = committed_block.height
    BY DEF IInv, MemoryInv, Running
  <2>5. committed_block = executed_block \/ committed_block.height = executed_block.height + 1
    BY DEF IInv, DiskInv, Follows, correctly_extends
  <2>6. h > next_block_height /\ h <= last_committed_block_height + BucketSize
    BY <2>1 DEF EntryInv
  <2>7. CASE pc = "finish"
    <3>1. committed_block.height = next_block_height
      BY <2>7 DEF IInv, StageInv, MemoryInv
    <3> QED
      BY <2>3, <2>4, <2>6, <3>1
  <2>8. CASE pc # "finish"
    <3>1. next_block_height = executed_block.height + 1
      BY <2>8 DEF IInv, MemoryInv, next_block_height
    <3> QED
      BY <2>3, <2>4, <2>5, <2>6, <3>1
  <2> QED
    BY <2>7, <2>8
<1> QED
  BY <1>1, Invariance, PTL

\* No block is cached while the epoch is over.
THEOREM EpochEndSafety == Spec => []CacheEmptyAtEpochEnd
<1>1. IInv => CacheEmptyAtEpochEnd
  BY DEF IInv, EpochInv, CacheEmptyAtEpochEnd, is_current_epoch_over
<1> QED
  BY <1>1, Invariance, PTL

\* The other handlers touch neither the LastStateItems nor the Move store.
LEMMA AbstractStutter ==
  ASSUME [Next]_vars,
         ~InitializeGenesis, ~WriteGenesisExecuted, ~CommitBlock, ~ApplyToMoveStore,
         ~RecordExecuted
  PROVE  UNCHANGED <<committed_block, executed_block, ledger>>
<1>1. CASE Resume \/ RefuseToStart \/ RetrySync \/ Shutdown \/ Crash \/ UNCHANGED vars
  BY <1>1 DEF Resume, RefuseToStart, RetrySync, Shutdown, Crash, vars, lastVars
<1>2. ASSUME NEW b \in Blocks, HandleIncomingBlock(b) PROVE UNCHANGED <<committed_block, executed_block, ledger>>
  BY <1>2 DEF HandleIncomingBlock, lastVars
<1>3. CASE HandleScheduledBlock \/ HandleEndEpoch \/ HandleNewEpoch
  BY <1>3 DEF HandleScheduledBlock, HandleEndEpoch, HandleNewEpoch, lastVars
<1>4. CASE PersistBatches \/ PersistBlock \/ RefuseDuplicate
  BY <1>4 DEF PersistBatches, PersistBlock, RefuseDuplicate, lastVars
<1>5. CASE FailExecution \/ FinishExecution \/ WriteEpochBoundary
  BY <1>5 DEF FailExecution, FinishExecution, WriteEpochBoundary, lastVars
<1>6. ASSUME NEW h \in sync_requests, LoseRequest(h) PROVE UNCHANGED <<committed_block, executed_block, ledger>>
  BY <1>6 DEF LoseRequest, lastVars
<1> QED
  BY <1>1, <1>2, <1>3, <1>4, <1>5, <1>6 DEF Next, ContinueHandler

\* Between its two writes of genesis the node can only be killed.
LEMMA OnlyCrashEndsGenesis ==
  ASSUME [Next]_vars, pc = "genesis", pc' = "down" PROVE "genesis" \in CrashPoints
<1>1. CASE InitializeGenesis \/ Resume \/ RefuseToStart \/ RetrySync \/ Shutdown \/ Crash \/ UNCHANGED vars
  BY <1>1 DEF InitializeGenesis, Resume, RefuseToStart, RetrySync, Shutdown, Crash, vars
<1>2. ASSUME NEW b \in Blocks, HandleIncomingBlock(b) PROVE FALSE
  BY <1>2 DEF HandleIncomingBlock
<1>3. CASE HandleScheduledBlock \/ HandleEndEpoch \/ HandleNewEpoch
  BY <1>3 DEF HandleScheduledBlock, HandleEndEpoch, HandleNewEpoch
<1>4. CASE WriteGenesisExecuted
  BY <1>4 DEF WriteGenesisExecuted, NewAssembler
<1>5. CASE PersistBatches \/ PersistBlock \/ CommitBlock \/ ApplyToMoveStore \/ RecordExecuted
  BY <1>5 DEF PersistBatches, PersistBlock, CommitBlock, ApplyToMoveStore, RecordExecuted
<1>6. CASE RefuseDuplicate \/ FailExecution \/ FinishExecution \/ WriteEpochBoundary
  BY <1>6 DEF RefuseDuplicate, FailExecution, FinishExecution, WriteEpochBoundary
<1>7. ASSUME NEW h \in sync_requests, LoseRequest(h) PROVE FALSE
  BY <1>7 DEF LoseRequest, controlVars
<1> QED
  BY <1>1, <1>2, <1>3, <1>4, <1>5, <1>6, <1>7 DEF Next, ContinueHandler

(***************************************************************************)
(* Unless the process can be killed between the two writes of genesis, the *)
(* store is consistent at every start.                                     *)
(***************************************************************************)
THEOREM StartSafety ==
  ASSUME "genesis" \notin CrashPoints
  PROVE  Spec => []StartNeverRefused
<1> DEFINE StartInv == /\ StartNeverRefused
                       /\ pc = "down" /\ executed_block = NoBlock => committed_block = NoBlock
<1>1. Init => StartInv
  BY DEF Init, StartNeverRefused
<1>2. IInv /\ StartInv /\ [Next]_vars => StartInv'
  <2> SUFFICES ASSUME IInv, StartInv, [Next]_vars PROVE StartInv'
    OBVIOUS
  <2>1. ~RefuseToStart
    BY DEF RefuseToStart, IInv, DiskInv, IsConsistentStore, Follows
  <2>2. exit' # "inconsistent_store"
    <3> USE <2>1 DEF StartNeverRefused
    <3>1. CASE InitializeGenesis \/ Resume \/ WriteGenesisExecuted \/ Shutdown \/ Crash
      BY <3>1 DEF InitializeGenesis, Resume, WriteGenesisExecuted, NewAssembler, Shutdown, Crash, Halt
    <3>2. ASSUME NEW b \in Blocks, HandleIncomingBlock(b) PROVE exit' # "inconsistent_store"
      BY <3>2 DEF HandleIncomingBlock, try_to_sync_skipped_blocks, Halt, Continue, GoTo
    <3>3. CASE HandleScheduledBlock \/ HandleEndEpoch \/ HandleNewEpoch \/ RetrySync \/ UNCHANGED vars
      BY <3>3 DEF HandleScheduledBlock, HandleEndEpoch, HandleNewEpoch, RetrySync, vars, controlVars,
                  try_to_sync_skipped_blocks, Halt, Continue, GoTo
    <3>4. CASE PersistBatches \/ PersistBlock \/ CommitBlock
      BY <3>4 DEF PersistBatches, PersistBlock, CommitBlock, try_to_sync_skipped_blocks, Halt, Continue, GoTo
    <3>5. CASE ApplyToMoveStore \/ RecordExecuted \/ RefuseDuplicate \/ FailExecution
      BY <3>5 DEF ApplyToMoveStore, RecordExecuted, RefuseDuplicate, FailExecution, Halt, Continue, GoTo
    <3>6. CASE FinishExecution \/ WriteEpochBoundary
      BY <3>6 DEF FinishExecution, WriteEpochBoundary, try_to_sync_skipped_blocks, Halt, Continue, GoTo
    <3>7. ASSUME NEW h \in sync_requests, LoseRequest(h) PROVE exit' # "inconsistent_store"
      BY <3>7 DEF LoseRequest, controlVars
    <3> QED
      BY <3>1, <3>2, <3>3, <3>4, <3>5, <3>6, <3>7 DEF Next, ContinueHandler
  <2>3. ASSUME pc' = "down", executed_block' = NoBlock
        PROVE  committed_block' = NoBlock
    <3>1. CASE InitializeGenesis \/ WriteGenesisExecuted \/ CommitBlock \/ ApplyToMoveStore \/ RecordExecuted
      BY <2>3, <3>1, BlocksAssumption
      DEF InitializeGenesis, WriteGenesisExecuted, CommitBlock, ApplyToMoveStore, RecordExecuted, GoTo
    <3>2. CASE ~(InitializeGenesis \/ WriteGenesisExecuted \/ CommitBlock \/ ApplyToMoveStore \/ RecordExecuted)
      <4>1. UNCHANGED <<committed_block, executed_block>>
        BY <3>2, AbstractStutter
      <4>2. pc \in {"down", "genesis"}
        BY <2>3, <4>1 DEF IInv, DiskInv, Running
      <4>3. CASE pc = "genesis"
        BY <2>1, <2>3, <3>2, <4>3, OnlyCrashEndsGenesis
      <4> QED
        BY <2>3, <4>1, <4>2, <4>3
    <3> QED
      BY <3>1, <3>2
  <2> QED
    BY <2>2, <2>3 DEF StartNeverRefused
<1>3. StartInv => StartNeverRefused
  OBVIOUS
<1> QED
  BY <1>1, <1>2, <1>3, Invariance, PTL DEF Spec

-----------------------------------------------------------------------------
(* Refinement *)

\* The abstract values of the two LastStateItems.
Committed == IF committed_block = NoBlock THEN Genesis ELSE committed_block
Executed  == IF executed_block = NoBlock THEN Genesis ELSE executed_block

(***************************************************************************)
(* The assembler implements the write-ahead ledger: CommitBlock, apart     *)
(* from the warranter's, is its Commit, the executor's two writes are its  *)
(* Apply and Record, and every other step, a crash or a restart included,  *)
(* leaves it alone.                                                        *)
(***************************************************************************)
THEOREM Refinement == Spec => ImplementsWriteAheadLedger
<1>1. Init => WAL!Init
  BY DEF Init, WAL!Init
<1>2. IInv /\ [Next]_vars => [WAL!Next]_(WAL!vars)
  <2> SUFFICES ASSUME IInv, [Next]_vars
               PROVE  WAL!Next \/ UNCHANGED <<Committed, Executed, ledger>>
    BY DEF WAL!vars, Committed, Executed
  <2>1. CASE InitializeGenesis \/ WriteGenesisExecuted
    BY <2>1, BlocksAssumption
    DEF InitializeGenesis, WriteGenesisExecuted, Committed, Executed, IInv, DiskInv, Running
  <2>2. CASE CommitBlock
    <3>1. executed_block \in Blocks /\ committed_block \in Blocks /\ current \in Blocks
      BY <2>2 DEF CommitBlock, IInv, TypeOK, StageInv, DiskInv, Running
    <3>2. CASE task = "restore"
      BY <2>2, <3>1, <3>2
      DEF CommitBlock, IInv, StageInv, Committed, Executed
    <3>3. CASE task = "run"
      <4>1. WAL!Commit(current)
        BY <2>2, <3>1, <3>3, BlocksAssumption
        DEF CommitBlock, IInv, StageInv, WAL!Commit
      <4> QED
        BY <3>1, <4>1 DEF WAL!Next
    <3> QED
      BY <3>2, <3>3 DEF IInv, TypeOK
  <2>3. CASE ApplyToMoveStore
    <3>1. WAL!Apply
      BY <2>3, ExecutorFacts, BlocksAssumption
      DEF ApplyToMoveStore, IInv, StageInv, WAL!Apply, last_applied
    <3> QED
      BY <3>1 DEF WAL!Next
  <2>4. CASE RecordExecuted
    <3>1. WAL!Record
      BY <2>4, ExecutorFacts, BlocksAssumption
      DEF RecordExecuted, IInv, StageInv, WAL!Record, last_applied
    <3> QED
      BY <3>1 DEF WAL!Next
  <2> QED
    BY <2>1, <2>2, <2>3, <2>4, AbstractStutter DEF Committed, Executed
<1> QED
  BY <1>1, <1>2, Invariance, PTL DEF Spec, ImplementsWriteAheadLedger, WAL!Spec
=============================================================================
