------------------------- MODULE AssemblerInvariant -------------------------
(***************************************************************************)
(* The inductive invariant of ChainStateAssembler: what holds between the  *)
(* persistent store, the fields in memory and the position in the handler  *)
(* after every step.  The safety properties are consequences of it.        *)
(***************************************************************************)
EXTENDS ChainStateAssembler

(***************************************************************************)
(* On disk, at all times: nothing yet, or genesis half written, or the     *)
(* committed block is the executed one or its verified child; and the Move *)
(* store ends with one of the two.                                         *)
(***************************************************************************)
DiskInv ==
  /\ executed_block = NoBlock =>
       /\ committed_block \in {NoBlock, Genesis}
       /\ last_applied = Genesis
       /\ pc = "genesis" <=> (pc # "down" /\ committed_block = Genesis)
  /\ executed_block # NoBlock =>
       /\ committed_block # NoBlock
       /\ pc # "genesis"
       /\ \/ committed_block = executed_block /\ last_applied = executed_block
          \/ /\ Follows(committed_block, executed_block)
             /\ last_applied \in {committed_block, executed_block}
  /\ Running => executed_block # NoBlock

(***************************************************************************)
(* What each stage of a handler knows of the block it works on.            *)
(***************************************************************************)
StageInv ==
  /\ pc \in {"down", "genesis", "idle"} => task = "run" /\ current = NoBlock
  /\ pc \notin {"down", "genesis", "idle"} => current \in Blocks
  /\ pc \in {"batches", "persist"} =>
       /\ task = "run"
       /\ epoch_status = "active"
       /\ current.epoch = epoch
       /\ current.defect \in Tolerated
       /\ current.height > last_executed_block_info.height
       /\ ~has_entry(pending_execution, last_committed_block_height, current.height)
  /\ pc = "commit" /\ task = "run" =>
       /\ committed_block = executed_block
       /\ Follows(current, executed_block)
       /\ epoch_status = "active"
  /\ pc = "commit" /\ task = "restore" =>
       current = committed_block /\ committed_block # executed_block
  /\ pc = "execute" => current = committed_block /\ committed_block # executed_block
  /\ pc = "record" =>
       /\ current = committed_block
       /\ committed_block # executed_block
       /\ last_applied = current
  /\ pc = "finish" => current = committed_block /\ committed_block = executed_block
  /\ pc = "boundary" =>
       /\ task = "run"
       /\ current = committed_block
       /\ committed_block = executed_block
       /\ epoch_status = "over"
  /\ task = "restore" => pending_execution = EmptyCache

(***************************************************************************)
(* The fields in memory agree with the disk.                               *)
(***************************************************************************)
MemoryInv ==
  /\ pc # "down" => last_committed_block_height = committed_block.height
  /\ Running =>
       /\ pc # "finish" => last_executed_block_info = executed_block
       /\ pc = "finish" => current.height = next_block_height

(***************************************************************************)
(* The verifier's epoch is the one the last applied block calls for.  The  *)
(* epoch manager announces an epoch change only when the verifier knows    *)
(* that the epoch is over, except while the executor's answer is pending.  *)
(***************************************************************************)
EpochInv ==
  Running =>
    /\ pc \in {"record", "finish"} => epoch_status = "active" /\ epoch = current.epoch
    /\ pc \notin {"record", "finish"} /\ epoch_status = "active" => epoch = epoch_after(last_applied)
    /\ epoch_status = "over" =>
         /\ last_applied \in EpochEnding
         /\ epoch = last_applied.epoch
         /\ committed_block = last_applied
         /\ pending_execution = EmptyCache
    /\ pc # "finish" => (epoch_manager = "stable" <=> epoch_status = "active")
    /\ pc = "finish" => epoch_manager = IF current \in EpochEnding THEN "EndEpoch" ELSE "stable"

(***************************************************************************)
(* A cached block was verified in the current epoch.  A scheduled one is   *)
(* the next block and waits in the feedback channel; the others are above  *)
(* the next block.                                                         *)
(***************************************************************************)
EntryInv(h) ==
  LET entry == pending_execution[h]
  IN  /\ entry.block.height = h
      /\ entry.block.epoch = epoch
      /\ entry.block.defect \in Tolerated
      /\ entry.kind = "Scheduled" =>
           /\ h = next_block_height
           /\ pc \in {"idle", "batches", "persist"} => ready_to_execute = entry.block
      /\ entry.kind # "Scheduled" => h > next_block_height
      /\ entry.kind = "Memo" => certified_block[h] = entry.block
      /\ entry.kind = "Block" => h <= last_committed_block_height + BucketSize

CacheInv ==
  Running => \A h \in Heights : pending_execution[h] # NoBlock => EntryInv(h)

(***************************************************************************)
(* A block in the feedback channel is marked as scheduled in the cache.    *)
(***************************************************************************)
ReadyInv ==
  Running /\ ready_to_execute # NoBlock =>
    /\ pc \in {"idle", "batches", "persist"}
    /\ epoch_status = "active"
    /\ committed_block = executed_block
    /\ next_block_height \in Heights
    /\ pending_execution[next_block_height] = Reference("Scheduled", ready_to_execute)

(***************************************************************************)
(* A sync request is pending only for the next block, and only while the   *)
(* loop waits for blocks of an active epoch.                               *)
(***************************************************************************)
SyncInv ==
  Running =>
    /\ pending_sync_request \in {NoRequest, next_block_height}
    /\ pending_sync_request # NoRequest =>
         pc \in {"idle", "batches", "persist"} /\ epoch_status = "active"

IInv ==
  /\ TypeOK
  /\ DiskInv
  /\ StageInv
  /\ MemoryInv
  /\ EpochInv
  /\ CacheInv
  /\ ReadyInv
  /\ SyncInv
  /\ LedgerIsChain
  /\ RegressionsUnreachable

(***************************************************************************)
(* What the absence of lost wake-ups rests on, if the process is not       *)
(* killed between the two writes of the executor.                          *)
(***************************************************************************)

\* Outside the executor, the Move store and the ExecutedBlock item agree, and
\* the loop waits only for blocks above the committed one.
StoreInv ==
  /\ executed_block # NoBlock /\ pc # "record" => last_applied = executed_block
  /\ pc \in {"idle", "batches", "persist"} => committed_block = executed_block

\* The blocks of past epochs are not above the last applied block.
PastEpochsInv ==
  \A b \in Blocks : b.epoch < epoch_after(last_applied) => b.height <= last_applied.height

\* A block that is handled or cached was observed; a restart forgets all.
ObservedInv ==
  /\ Running => \A h \in Heights :
       pending_execution[h] # NoBlock => last_observed_highest_block >= h
  /\ pc \in {"batches", "persist"} => last_observed_highest_block >= current.height
  /\ task = "restore" => last_observed_highest_block = 0

WakeInv ==
  /\ StoreInv
  /\ PastEpochsInv
  /\ ObservedInv
  /\ SyncPostedForMissing
=============================================================================
