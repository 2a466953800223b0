----------------------------- MODULE BlockStore -----------------------------
(***************************************************************************)
(* The in-memory half of rpc_node/src/consensus/block_store.rs: the cache  *)
(* of blocks that wait for their predecessor.  The persistent half is a    *)
(* set of variables of ChainStateAssembler, because its writes are the     *)
(* points at which a crash can tell two executions apart.                  *)
(*                                                                         *)
(* The operators take the cache `pending' (the field pending_execution)    *)
(* and the field last_committed_block_height, and return the new cache.    *)
(***************************************************************************)
EXTENDS Integers

CONSTANTS
  Blocks,      \* every block the node can meet, genesis included
  Genesis,     \* the block written by the first start
  NoBlock,     \* the absent block, and the absent cache entry
  BucketSize   \* certified_block_cache_bucket_size

(***************************************************************************)
(* What verification finds wrong with a block: "none" is a block that is   *)
(* commit-certified, agrees with its batches and carries a valid quorum    *)
(* certificate.                                                            *)
(***************************************************************************)
Defects == {"none", "uncertified", "inconsistent", "bad_qc"}

RefKinds == {"Block", "Memo", "Scheduled"}

BlockReference == [kind : RefKinds, block : Blocks]

ASSUME BlocksAssumption ==
  /\ \A b \in Blocks : /\ b.height \in Nat
                       /\ b.epoch \in Nat
                       /\ b.defect \in Defects
  /\ \A b, c \in Blocks : b.hash = c.hash => b = c
  /\ Genesis \in Blocks
  /\ Genesis.height = 0
  /\ NoBlock \notin Blocks
  /\ NoBlock \notin BlockReference
  /\ BucketSize \in Nat

Heights == {b.height : b \in Blocks}

Reference(kind, b) == [kind |-> kind, block |-> b]

EmptyCache == [h \in Heights |-> NoBlock]

has_entry(pending, committed, h) ==
  \/ h <= committed
  \/ h \in Heights /\ pending[h] # NoBlock

can_be_cached(pending, committed, h) ==
  /\ h > committed
  /\ pending[h] # NoBlock => pending[h].kind # "Scheduled"

\* The records of the persistent store are overwritten.
\* persist_if_absent, a mutant: a height that has a block keeps it.
persist_if_absent(certified, b) ==
  [certified EXCEPT ![b.height] = IF certified[b.height] = NoBlock THEN b ELSE @]

persist(certified, b) == [certified EXCEPT ![b.height] = b]

\* cache_bucket_off_by_one, a mutant: the bucket has one block too many.
cache_bucket_off_by_one(pending, committed, b) ==
  [pending EXCEPT ![b.height] =
     Reference(IF b.height <= committed + BucketSize + 1 THEN "Block" ELSE "Memo", b)]

cache(pending, committed, b) ==
  [pending EXCEPT ![b.height] =
     Reference(IF b.height <= committed + BucketSize THEN "Block" ELSE "Memo", b)]

retain(pending, lower_bound) ==
  [h \in Heights |-> IF h > lower_bound THEN pending[h] ELSE NoBlock]

(***************************************************************************)
(* take_next_ready_block_by_height, in three parts: whether the entry is a *)
(* memo whose block is missing from the persistent store (the reported     *)
(* InvalidState), the block it returns (NoBlock for None), and the cache   *)
(* it leaves behind when it returns a block.                               *)
(***************************************************************************)
is_dangling(pending, certified, h) ==
  /\ h \in Heights
  /\ pending[h] # NoBlock
  /\ pending[h].kind = "Memo"
  /\ certified[h] = NoBlock

\* next_ready_reference, a mutant: a memo is returned without loading its block.
next_ready_reference(pending, certified, h) ==
  IF h \notin Heights THEN NoBlock
  ELSE IF pending[h] = NoBlock THEN NoBlock
  ELSE CASE pending[h].kind = "Block"     -> pending[h].block
         [] pending[h].kind = "Memo"      -> pending[h]
         [] pending[h].kind = "Scheduled" -> NoBlock

next_ready_block(pending, certified, h) ==
  IF h \notin Heights THEN NoBlock
  ELSE IF pending[h] = NoBlock THEN NoBlock
  ELSE CASE pending[h].kind = "Block"     -> pending[h].block
         [] pending[h].kind = "Memo"      -> certified[h]
         [] pending[h].kind = "Scheduled" -> NoBlock

mark_scheduled(pending, h) ==
  [pending EXCEPT ![h] = Reference("Scheduled", pending[h].block)]
=============================================================================
