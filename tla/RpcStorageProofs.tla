-------------------------- MODULE RpcStorageProofs --------------------------
(***************************************************************************)
(* What RpcStorage and the lookups over it promise, for any transactions   *)
(* and any number of blocks.                                               *)
(*                                                                         *)
(* Storage: between blocks the backlog and the archive are consistent; the *)
(* invariant says how far the block that is being inserted has got: what   *)
(* it still has to take out of the backlog, and what the tables written so *)
(* far already answer.                                                     *)
(*                                                                         *)
(* Lookups: one holds no lock from one read to the next.  What it has read *)
(* stays true because the archive only grows, a success or failure is      *)
(* final, and nothing touches a stored transaction except its block and    *)
(* its expiry; the invariant says what a lookup may rely on at each read.  *)
(***************************************************************************)
EXTENDS ApiServerState, TLAPS

Archives ==
  [transaction : SUBSET Hashes, output : SUBSET Hashes, header : SUBSET Nat,
   status : [Hashes -> Executed \cup {None}], block_hash : [Hashes -> Nat],
   index : [1 .. MaxHeight -> SUBSET Hashes]]

TypeOK ==
  /\ backlog \subseteq Txs /\ stored \subseteq Txs
  /\ height \in Nat
  /\ stage \in {"idle", "expire", "finalize", "archive"}
  /\ unwritten \subseteq Tables
  /\ archive \in Archives
  /\ pcs \in [Txs -> {"idle", "store", "forward", "accepted", "rejected"}]
  /\ stage # "idle" => height > 0 /\ DOMAIN block \subseteq Hashes /\ \A t \in DOMAIN block : block[t] \in Executed

Submitted == forwarded \subseteq stored /\ \A t \in Txs : pcs[t] = "forward" => t \in stored

\* What the block being inserted has not taken out of the backlog yet.
Stale ==
  /\ \A t \in backlog \cap consumed : stage \in {"expire", "finalize"} /\ t \in DOMAIN block
  /\ \A t \in backlog \cap expired : stage = "expire"

\* What the tables written so far say about the transactions of the block.
Progress ==
  stage = "archive" =>
    \A t \in DOMAIN block :
      /\ "transaction" \notin unwritten => t \in archive.transaction
      /\ "status" \notin unwritten => archive.status[t] = block[t]
      /\ "block_hash" \notin unwritten /\ block[t] \in Final => archive.block_hash[t] = height

Kept ==
  \A t \in stored :
    t \in backlog \/ t \in expired \/ Archived(t) \/ (stage = "archive" /\ t \in DOMAIN block)

IInv == TypeOK /\ Submitted /\ Stale /\ Progress /\ Kept

USE OutcomeAssumption

LEMMA InitHolds == Init => IInv
<1> SUFFICES ASSUME Init PROVE IInv OBVIOUS
<1>1. archive \in Archives BY DEF Init, EmptyArchive, Archives
<1>2. TypeOK BY <1>1 DEF Init, TypeOK
<1> QED BY <1>2 DEF Init, IInv, Submitted, Stale, Progress, Kept

LEMMA SubmitHolds ==
  ASSUME IInv, NEW t \in Txs, submit_txn(t) \/ Resubmit(t) PROVE IInv'
<1>1. UNCHANGED <<backlog, consumed, expired, height, block, stage, unwritten, archive, forwarded, stored>>
  BY DEF submit_txn, Resubmit, storage
<1>2. /\ pcs' \in [Txs -> {"idle", "store", "forward", "accepted", "rejected"}]
      /\ \A u \in Txs : pcs'[u] = "forward" => pcs[u] = "forward"
  BY DEF submit_txn, Resubmit, IInv, TypeOK
<1>3. TypeOK' BY <1>1, <1>2 DEF IInv, TypeOK
<1>4. Submitted' BY <1>1, <1>2 DEF IInv, Submitted
<1>5. Stale' /\ Progress' /\ Kept' BY <1>1 DEF IInv, Stale, Progress, Kept, Archived
<1> QED BY <1>3, <1>4, <1>5 DEF IInv

\* The backlog checks again what the verifier checked before.
LEMMA ConsumeHolds == ASSUME IInv, NEW t \in Txs, consume(t) PROVE IInv'
<1>1. UNCHANGED <<consumed, expired, height, block, stage, unwritten, archive, forwarded>> BY DEF consume
<1>2. CASE /\ Acceptable(t) /\ backlog' = backlog \union {t} /\ stored' = stored \union {t}
           /\ pcs' = [pcs EXCEPT ![t] = "forward"]
  <2>1. TypeOK' BY <1>1, <1>2 DEF IInv, TypeOK
  <2>2. Submitted' BY <1>1, <1>2 DEF IInv, TypeOK, Submitted
  <2>3. Stale' BY <1>1, <1>2 DEF IInv, Stale, Acceptable
  <2>4. Progress' BY <1>1 DEF IInv, Progress
  <2>5. Kept' BY <1>1, <1>2 DEF IInv, Kept, Archived
  <2> QED BY <2>1, <2>2, <2>3, <2>4, <2>5 DEF IInv
<1>3. CASE pcs' = [pcs EXCEPT ![t] = "rejected"] /\ UNCHANGED <<backlog, stored>>
  <2>1. TypeOK' BY <1>1, <1>3 DEF IInv, TypeOK
  <2>2. Submitted' BY <1>1, <1>3 DEF IInv, TypeOK, Submitted
  <2>3. Stale' /\ Progress' /\ Kept' BY <1>1, <1>3 DEF IInv, Stale, Progress, Kept, Archived
  <2> QED BY <2>1, <2>2, <2>3 DEF IInv
<1> QED BY <1>2, <1>3 DEF consume

LEMMA ForwardHolds == ASSUME IInv, NEW t \in Txs, forward(t) PROVE IInv'
<1>1. UNCHANGED <<backlog, consumed, expired, height, block, stage, unwritten, archive, stored>>
  BY DEF forward, storage
<1>2. /\ pcs[t] = "forward" /\ forwarded' \subseteq forwarded \union {t}
      /\ pcs' \in [Txs -> {"idle", "store", "forward", "accepted", "rejected"}]
      /\ \A u \in Txs : pcs'[u] = "forward" => pcs[u] = "forward"
  BY DEF forward, IInv, TypeOK
<1>3. TypeOK' BY <1>1, <1>2 DEF IInv, TypeOK
<1>4. Submitted' BY <1>1, <1>2 DEF IInv, Submitted
<1>5. Stale' /\ Progress' /\ Kept' BY <1>1 DEF IInv, Stale, Progress, Kept, Archived
<1> QED BY <1>3, <1>4, <1>5 DEF IInv

LEMMA ExecuteHolds ==
  ASSUME IInv, NEW txs \in SUBSET Hashes, NEW gone, Execute(txs, gone) PROVE IInv'
<1>1. /\ stage = "idle" /\ stage' = "expire" /\ height' = height + 1
      /\ block' \in [txs -> Outcomes]
      /\ consumed' = consumed \union {t \in txs : block'[t] \in {"Success", "Fail"}}
      /\ expired' = expired \union gone
      /\ UNCHANGED <<backlog, unwritten, archive, pcs, forwarded, stored>>
  BY DEF Execute, submission
<1>2. DOMAIN block' = txs /\ \A t \in txs : block'[t] \in Executed BY <1>1
<1>3. TypeOK' BY <1>1, <1>2 DEF IInv, TypeOK
<1>4. Submitted' BY <1>1 DEF IInv, Submitted
<1>5. Stale' BY <1>1, <1>2 DEF IInv, Stale
<1>6. Progress' BY <1>1 DEF Progress
<1>7. Kept' BY <1>1 DEF IInv, Kept, Archived
<1> QED BY <1>3, <1>4, <1>5, <1>6, <1>7 DEF IInv

LEMMA ExpireHolds == ASSUME IInv, expire PROVE IInv'
<1>1. /\ stage = "expire" /\ stage' = "finalize" /\ backlog' = backlog \ expired
      /\ UNCHANGED <<consumed, expired, height, block, unwritten, archive, pcs, forwarded, stored>>
  BY DEF expire, submission
<1>2. TypeOK' BY <1>1 DEF IInv, TypeOK
<1>3. Submitted' BY <1>1 DEF IInv, Submitted
<1>4. Stale' BY <1>1 DEF IInv, Stale
<1>5. Progress' /\ Kept' BY <1>1 DEF IInv, Progress, Kept, Archived
<1> QED BY <1>2, <1>3, <1>4, <1>5 DEF IInv

LEMMA FinalizeHolds == ASSUME IInv, finalize PROVE IInv'
<1>1. /\ stage = "finalize" /\ stage' = "archive" /\ backlog' = backlog \ DOMAIN block /\ unwritten' = Tables
      /\ UNCHANGED <<consumed, expired, height, block, archive, pcs, forwarded, stored>>
  BY DEF finalize, submission
<1>2. TypeOK' BY <1>1 DEF IInv, TypeOK
<1>3. Submitted' BY <1>1 DEF IInv, Submitted
<1>4. Stale' BY <1>1 DEF IInv, Stale
<1>5. Progress' BY <1>1 DEF Progress, Tables
<1>6. Kept' BY <1>1 DEF IInv, Kept, Archived
<1> QED BY <1>2, <1>3, <1>4, <1>5, <1>6 DEF IInv

\* What a write changes for the transactions of the block, and that it leaves the
\* others alone.
LEMMA WrittenFacts ==
  ASSUME IInv, stage = "archive", NEW table \in Tables
  PROVE  /\ Written(table) \in Archives
         /\ archive.transaction \subseteq Written(table).transaction
         /\ \A t \in Hashes \ DOMAIN block :
              Written(table).status[t] = archive.status[t] /\ Written(table).block_hash[t] = archive.block_hash[t]
         /\ \A t \in DOMAIN block :
              /\ table = "transaction" => t \in Written(table).transaction
              /\ Written(table).status[t] = IF table = "status" THEN block[t] ELSE archive.status[t]
              /\ table = "block_hash" /\ block[t] \in Final => Written(table).block_hash[t] = height
              /\ table # "block_hash" => Written(table).block_hash[t] = archive.block_hash[t]
<1>1. /\ archive \in Archives /\ height \in Nat /\ DOMAIN block \subseteq Hashes
      /\ \A t \in DOMAIN block : block[t] \in Executed
      /\ Finalized \subseteq DOMAIN block /\ Finalized \subseteq Hashes
  BY DEF IInv, TypeOK, Finalized
<1>2. CASE table = "transaction" BY <1>1, <1>2, Zenon DEF Written, Archives
<1>3. CASE table = "status" BY <1>1, <1>3, Zenon DEF Written, Archives
<1>4. CASE table = "output" BY <1>1, <1>4 DEF Written, Archives
<1>5. CASE table = "block_hash"
  <2>1. Written(table) = [archive EXCEPT !.block_hash = [t \in Hashes |-> IF t \in Finalized THEN height ELSE @[t]]]
    BY <1>5 DEF Written
  <2>2. [t \in Hashes |-> IF t \in Finalized THEN height ELSE archive.block_hash[t]] \in [Hashes -> Nat]
    BY <1>1 DEF Archives
  <2>3. \A t \in DOMAIN block : block[t] \in Final => t \in Finalized BY DEF Finalized
  <2>4. /\ Written(table).transaction = archive.transaction /\ Written(table).status = archive.status
        /\ Written(table).block_hash = [t \in Hashes |-> IF t \in Finalized THEN height ELSE archive.block_hash[t]]
    BY <1>1, <2>1 DEF Archives
  <2>5. Written(table) \in Archives BY <1>1, <2>1, <2>2, Zenon DEF Archives
  <2> QED BY <1>1, <1>5, <2>3, <2>4, <2>5
<1>6. CASE table = "header" BY <1>1, <1>6, Zenon DEF Written, Archives
<1> QED BY <1>2, <1>3, <1>4, <1>5, <1>6 DEF Tables

LEMMA WriteTableHolds == ASSUME IInv, NEW table \in Tables, WriteTable(table) PROVE IInv'
<1>1. /\ stage = "archive" /\ table \in unwritten /\ archive' = Written(table) /\ unwritten' = unwritten \ {table}
      /\ UNCHANGED <<backlog, consumed, expired, height, block, stage, pcs, forwarded, stored>>
  BY DEF WriteTable, submission
<1>2. TypeOK'
  <2>1. Written(table) \in Archives BY <1>1, WrittenFacts
  <2> QED BY <1>1, <2>1 DEF IInv, TypeOK
<1>3. Submitted' /\ Stale' BY <1>1 DEF IInv, Submitted, Stale
<1>4. Progress'
  <2> SUFFICES ASSUME NEW t \in DOMAIN block
               PROVE  /\ "transaction" \notin unwritten' => t \in archive'.transaction
                      /\ "status" \notin unwritten' => archive'.status[t] = block[t]
                      /\ "block_hash" \notin unwritten' /\ block[t] \in Final => archive'.block_hash[t] = height
    BY <1>1 DEF Progress
  <2>1. /\ "transaction" \notin unwritten => t \in archive.transaction
        /\ "status" \notin unwritten => archive.status[t] = block[t]
        /\ "block_hash" \notin unwritten /\ block[t] \in Final => archive.block_hash[t] = height
    BY <1>1 DEF IInv, Progress
  <2> QED BY <1>1, <2>1, WrittenFacts
<1>5. Kept'
  <2> SUFFICES ASSUME NEW t \in stored, t \notin backlog, t \notin expired, t \notin DOMAIN block
               PROVE  Archived(t)'
    BY <1>1 DEF Kept
  <2>1. Archived(t) /\ t \in Hashes BY DEF IInv, Kept, TypeOK, Hashes
  <2>2. /\ archive'.status[t] = archive.status[t] /\ archive'.block_hash[t] = archive.block_hash[t]
        /\ archive.transaction \subseteq archive'.transaction
    BY <1>1, <2>1, WrittenFacts
  <2> QED BY <2>1, <2>2 DEF Archived
<1> QED BY <1>2, <1>3, <1>4, <1>5 DEF IInv

\* With all tables written, the archive answers for the whole block.
LEMMA WriteIndexHolds == ASSUME IInv, WriteIndex PROVE IInv'
<1>1. /\ stage = "archive" /\ unwritten = {} /\ stage' = "idle"
      /\ archive' = [archive EXCEPT !.index[height] = Finalized]
      /\ UNCHANGED <<backlog, consumed, expired, height, unwritten, pcs, forwarded, stored>>
  BY DEF WriteIndex, submission
<1>2. Finalized \subseteq Hashes BY <1>1 DEF IInv, TypeOK, Finalized
<1>3. /\ archive' \in Archives /\ archive'.transaction = archive.transaction
      /\ archive'.status = archive.status /\ archive'.block_hash = archive.block_hash
  BY <1>1, <1>2, Zenon DEF IInv, TypeOK, Archives
<1>4. TypeOK' BY <1>1, <1>3 DEF IInv, TypeOK
<1>5. Submitted' BY <1>1 DEF IInv, Submitted
<1>6. Stale' BY <1>1 DEF IInv, Stale
<1>7. Progress' BY <1>1 DEF Progress
<1>8. ASSUME NEW t \in DOMAIN block PROVE Archived(t)
  <2>1. /\ t \in archive.transaction /\ archive.status[t] = block[t] /\ block[t] \in Executed
        /\ block[t] \in Final => archive.block_hash[t] = height
    BY <1>1 DEF IInv, TypeOK, Progress
  <2>2. height # 0 BY <1>1 DEF IInv, TypeOK
  <2>3. block[t] # None BY <2>1 DEF Executed, Final, None
  <2> QED BY <2>1, <2>2, <2>3 DEF Archived
<1>9. Kept' BY <1>1, <1>3, <1>8 DEF IInv, Kept, Archived
<1> QED BY <1>4, <1>5, <1>6, <1>7, <1>9 DEF IInv

LEMMA StepHolds == IInv /\ [Next]_vars => IInv'
<1> SUFFICES ASSUME IInv, [Next]_vars PROVE IInv' OBVIOUS
<1>1. ASSUME NEW t \in Txs, submit_txn(t) \/ send(t) \/ Resubmit(t) PROVE IInv'
  BY <1>1, SubmitHolds, ConsumeHolds, ForwardHolds DEF send
<1>2. ASSUME NEW txs \in SUBSET {t \in Hashes : Acceptable(t)}, NEW gone, Execute(txs, gone) PROVE IInv'
  BY <1>2, ExecuteHolds
<1>3. CASE insert_executed_block
  BY <1>3, ExpireHolds, FinalizeHolds, WriteTableHolds, WriteIndexHolds DEF insert_executed_block
<1>4. ASSUME UNCHANGED <<storage, submission>> PROVE IInv'
  BY <1>4 DEF storage, submission, IInv, TypeOK, Submitted, Stale, Progress, Kept, Archived
<1> QED BY <1>1, <1>2, <1>3, <1>4 DEF Next, StorageNext, wait, vars

\* Only what the local backlog accepted is sent to the validators.
THEOREM ForwardedWasAlwaysStored == Spec => []ForwardedWasStored
<1>1. IInv => ForwardedWasStored BY DEF IInv, Submitted, ForwardedWasStored
<1> QED BY <1>1, InitHolds, StepHolds, PTL DEF Spec

\* Between two blocks the backlog holds nothing the chain has ruled out, and every
\* transaction it once accepted is in it, has expired, or is answered for by the
\* archive.
THEOREM BacklogIsAlwaysExact == Spec => []BacklogIsExact
<1>1. IInv => BacklogIsCurrent BY DEF IInv, Stale, BacklogIsCurrent
<1>2. IInv => StoredIsKept BY DEF IInv, Kept, StoredIsKept
<1>3. IInv => BacklogIsExact BY <1>1, <1>2 DEF BacklogIsExact
<1> QED BY <1>3, InitHolds, StepHolds, PTL DEF Spec

(***************************************************************************)
(* The lookups                                                             *)
(***************************************************************************)

Settled == {"Success", "Fail"}

\* The archive answers for the hash from now on: the tables only grow, and a
\* status is replaced by another one.
Answerable(h) ==
  /\ h \in archive.transaction /\ archive.status[h] # None /\ archive.block_hash[h] # 0
  /\ h \notin Txs => h \in archive.output

Complete(h) == Answerable(h) /\ h \in archive.output

\* In which order the tables come to hold a transaction.
ArchiveOrder ==
  /\ \A t \in Hashes : archive.status[t] # None \/ archive.block_hash[t] # 0 \/ t \in archive.output
                         => t \in archive.transaction
  /\ \A t \in Hashes : archive.status[t] \in Settled => t \in consumed /\ t \notin backlog
  /\ \A b \in 1 .. MaxHeight : \A t \in archive.index[b] : Complete(t)

\* The transactions of a block succeed or fail once, and the tables already
\* written hold them.
BlockIsNew ==
  stage # "idle" =>
    \A t \in DOMAIN block :
      /\ block[t] \in Settled => t \in consumed
      /\ archive.status[t] \in Settled => stage = "archive" /\ "status" \notin unwritten
      /\ stage = "archive" /\ "output" \notin unwritten /\ block[t] \in Final => t \in archive.output

StorageInv == IInv /\ ArchiveOrder /\ BlockIsNew

Reads == {"backlog", "transaction", "automated", "metadata", "backlog_status", "status", "output", "block_hash"}

Errors == {"TransactionNotFound", "MissingTransactionStatus", "MissingAutomatedTransactionOutput",
           "MissingBlockMetadataOutput", "MissingBlockTransactionOutput"}

Pcs == Reads \cup {"idle", "hashes", "list", "answered"}

Queries ==
  [pc : Pcs, kind : ByHash \cup Lists \cup {None}, mode : {"user", "auto", "meta"},
   hash : Hashes \cup {None}, height : 0 .. MaxHeight, todo : SUBSET Hashes,
   status : Executed \cup {"Pending", None}, output : BOOLEAN,
   answer : Errors \cup {"info", "list", None}, known : BOOLEAN, transit : BOOLEAN]

LookupType == q \in Queries /\ seen \in [Hashes -> Settled \cup {None}] /\ listed \subseteq Hashes

\* Where a lookup stands, and what it has read so far that is still so.
LookupShape(r) ==
  /\ r.pc = "idle" => r = Idle
  /\ r.pc = "hashes" => r.kind \in Lists /\ r.height \in 1 .. MaxHeight
  /\ r.pc = "list" => r.kind \in {"block", "account"}
  /\ r.pc # "answered" => r.answer = None
  /\ r.kind \in {"user", "auto", "meta"} => r.mode = r.kind
  /\ r.pc \in Reads => r.hash \in Hashes /\ r.kind \in ByHash \cup {"block", "account"}
  /\ r.pc \in {"backlog", "backlog_status", "metadata"} => r.kind \in ByHash
  /\ r.pc \in {"backlog", "transaction"} => r.mode = "user"
  /\ r.pc = "automated" => r.mode = "auto"
  /\ r.pc = "metadata" => r.mode = "meta"
  /\ r.pc = "backlog_status" => r.hash \in Txs
  /\ r.pc \in {"backlog_status", "status", "output", "block_hash"} => r.mode = Mode(r.hash)
  /\ r.pc = "answered" /\ r.answer = "info" => r.hash \in Hashes /\ r.kind \in ByHash

StatusIsCurrent(r) ==
  /\ r.pc \in {"output", "block_hash"} /\ r.status \in Settled => archive.status[r.hash] = r.status
  /\ r.pc = "block_hash" /\ r.output => r.hash \in archive.output
  /\ r.pc = "answered" /\ r.answer = "info" /\ r.status \in Settled
       => archive.status[r.hash] = r.status /\ Answerable(r.hash)

\* What clients were told is settled, and a lookup for it cannot go wrong.
Known(h) == h \in listed \/ seen[h] # None

KnownIsAnswerable ==
  \A h \in Hashes : /\ Known(h) => Answerable(h)
                    /\ seen[h] # None => archive.status[h] = seen[h]

KnownIsFound(r) ==
  r.hash \in Hashes /\ r.kind \in {"any", Mode(r.hash)} /\ Known(r.hash) =>
    /\ r.pc = "automated" => r.hash \notin Txs
    /\ r.pc = "metadata" => r.hash \in Metadata
    /\ r.pc = "block_hash" /\ r.mode # "user" => r.output
    /\ r.pc = "answered" => r.answer = "info"
    /\ r.pc \in {"output", "block_hash", "answered"} /\ seen[r.hash] # None => r.status = seen[r.hash]

\* A stored transaction that no block or expiry has touched since the lookup began
\* is in the backlog or in the archive, and the lookup is on its track.
KeptIsFound(r) ==
  r.known /\ ~ r.transit =>
    /\ r.hash \in stored /\ ~ InTransit(r.hash)
    /\ r.kind \in {"any", "user"} =>
         /\ r.pc \notin {"automated", "metadata"}
         /\ r.pc \in {"transaction", "status", "output", "block_hash"} => Archived(r.hash)
         /\ r.pc \in {"output", "block_hash"} => archive.block_hash[r.hash] # 0
         /\ r.pc = "answered" => r.answer \notin {"TransactionNotFound", "MissingTransactionStatus"}

\* What a list has found in the index of a block is complete.
ListIsFound(r) ==
  r.kind \in Lists =>
    /\ ~ r.known
    /\ \A t \in r.todo : Complete(t)
    /\ r.pc \in Reads => Complete(r.hash)
    /\ r.pc = "transaction" => r.hash \in Txs
    /\ r.pc = "automated" => r.hash \in Automated
    /\ r.pc = "block_hash" => r.output
    /\ r.pc = "answered" => r.answer \in {"list", None}

OnTrack(r) == LookupShape(r) /\ StatusIsCurrent(r) /\ KnownIsFound(r) /\ KeptIsFound(r) /\ ListIsFound(r)

ApiInv == StorageInv /\ LookupType /\ KnownIsAnswerable /\ OnTrack(q)

(***************************************************************************)
(* Steps of the storage                                                    *)
(***************************************************************************)

\* The archive forgets nothing, and what is not in transit is left alone.
Grows ==
  /\ stored \subseteq stored'
  /\ \A t \in Hashes :
       /\ t \in archive.transaction => t \in archive'.transaction
       /\ t \in archive.output => t \in archive'.output
       /\ archive.status[t] # None => archive'.status[t] # None
       /\ archive.status[t] \in Settled => archive'.status[t] = archive.status[t]
       /\ archive.block_hash[t] # 0 => archive'.block_hash[t] # 0
       /\ ~InTransit(t) => archive'.status[t] = archive.status[t] /\ archive'.block_hash[t] = archive.block_hash[t]

LEMMA ArchiveOrderInit == Init => ArchiveOrder /\ BlockIsNew
BY DEF Init, ArchiveOrder, BlockIsNew, EmptyArchive, Settled, None

LEMMA ArchiveSame ==
  ASSUME StorageInv, archive' = archive, stored \subseteq stored'
  PROVE  Grows
BY DEF Grows

LEMMA SubmissionKeepsOrder ==
  ASSUME StorageInv, NEW t \in Txs, submit_txn(t) \/ send(t) \/ Resubmit(t)
  PROVE  ArchiveOrder' /\ BlockIsNew' /\ Grows
<1>1. UNCHANGED <<consumed, block, stage, unwritten, archive>> /\ stored \subseteq stored'
  BY DEF submit_txn, send, consume, forward, Resubmit, storage
<1>2. \A u \in backlog' : u \in backlog \/ u \notin consumed
  BY DEF submit_txn, send, consume, forward, Resubmit, storage, Acceptable
<1>3. ArchiveOrder'
  BY <1>1, <1>2 DEF StorageInv, ArchiveOrder, Complete, Answerable
<1>4. BlockIsNew'
  BY <1>1 DEF StorageInv, BlockIsNew
<1>5. QED
  BY <1>1, <1>3, <1>4, ArchiveSame

LEMMA ExecuteKeepsOrder ==
  ASSUME StorageInv, NEW txs \in SUBSET {t \in Hashes : Acceptable(t)}, NEW gone, Execute(txs, gone)
  PROVE  ArchiveOrder' /\ BlockIsNew' /\ Grows
<1>1. /\ stage' = "expire" /\ DOMAIN block' = txs /\ UNCHANGED <<backlog, archive, stored>>
      /\ consumed' = consumed \union {t \in txs : block'[t] \in {"Success", "Fail"}}
  BY DEF Execute, submission
<1>2. ArchiveOrder'
  BY <1>1 DEF StorageInv, ArchiveOrder, Complete, Answerable
<1>3. BlockIsNew'
  BY <1>1 DEF StorageInv, ArchiveOrder, BlockIsNew, Acceptable, Settled
<1>4. QED
  BY <1>1, <1>2, <1>3, ArchiveSame

LEMMA ExpireKeepsOrder ==
  ASSUME StorageInv, expire \/ finalize
  PROVE  ArchiveOrder' /\ BlockIsNew' /\ Grows
<1>1. /\ UNCHANGED <<consumed, archive, block, stored>> /\ backlog' \subseteq backlog
      /\ stage \in {"expire", "finalize"} /\ (stage' = "archive" => unwritten' = Tables)
  BY DEF expire, finalize, submission
<1>2. ArchiveOrder'
  BY <1>1 DEF StorageInv, ArchiveOrder, Complete, Answerable
<1>3. BlockIsNew'
  BY <1>1 DEF StorageInv, BlockIsNew, Tables
<1>4. QED
  BY <1>1, <1>2, <1>3, ArchiveSame

\* What a write does to the outputs, the block hashes and the lists.
LEMMA WrittenOutput ==
  ASSUME IInv, stage = "archive", NEW table \in Tables
  PROVE  /\ Written(table).output \in {archive.output, archive.output \cup Finalized}
         /\ table = "output" => Written(table).output = archive.output \cup Finalized
         /\ Written(table).transaction \in {archive.transaction, archive.transaction \cup DOMAIN block}
         /\ Written(table).index = archive.index
         /\ \A t \in Hashes : Written(table).block_hash[t] # archive.block_hash[t] => Written(table).block_hash[t] # 0
<1>1. archive \in Archives /\ height # 0
  BY DEF IInv, TypeOK
<1>2. CASE table = "transaction"
  <2>1. Written(table) = [archive EXCEPT !.transaction = @ \union DOMAIN block]
    BY <1>2 DEF Written
  <2>2. QED
    BY <1>1, <1>2, <2>1 DEF Archives
<1>3. CASE table = "status"
  <2>1. Written(table) = [archive EXCEPT !.status = [t \in Hashes |-> IF t \in DOMAIN block THEN block[t] ELSE @[t]]]
    BY <1>3 DEF Written
  <2>2. QED
    BY <1>1, <1>3, <2>1 DEF Archives
<1>4. CASE table = "output"
  <2>1. Written(table) = [archive EXCEPT !.output = @ \union Finalized]
    BY <1>4 DEF Written
  <2>2. QED
    BY <1>1, <1>4, <2>1 DEF Archives
<1>5. CASE table = "block_hash"
  <2>1. Written(table) = [archive EXCEPT !.block_hash = [t \in Hashes |-> IF t \in Finalized THEN height ELSE @[t]]]
    BY <1>5 DEF Written
  <2>2. QED
    BY <1>1, <1>5, <2>1 DEF Archives
<1>6. CASE table = "header"
  <2>1. Written(table) = [archive EXCEPT !.header = @ \union {height}]
    BY <1>6 DEF Written
  <2>2. QED
    BY <1>1, <1>6, <2>1 DEF Archives
<1>7. QED
  BY <1>2, <1>3, <1>4, <1>5, <1>6 DEF Tables

LEMMA WriteTableKeepsOrder ==
  ASSUME StorageInv, NEW table \in Tables, WriteTable(table)
  PROVE  ArchiveOrder' /\ BlockIsNew' /\ Grows
<1>1. /\ stage = "archive" /\ table \in unwritten /\ archive' = Written(table) /\ unwritten' = unwritten \ {table}
      /\ UNCHANGED <<backlog, consumed, expired, height, block, stage, stored>>
      /\ table # "transaction" => "transaction" \notin unwritten
  BY DEF WriteTable, submission
<1>2. DOMAIN block \subseteq Hashes /\ \A t \in DOMAIN block : block[t] \in Executed /\ block[t] # None
  BY <1>1 DEF StorageInv, IInv, TypeOK, Executed, Final, None
<1>3. \A t \in Hashes \ DOMAIN block :
        /\ archive'.status[t] = archive.status[t] /\ archive'.block_hash[t] = archive.block_hash[t]
        /\ t \in archive'.output <=> t \in archive.output
        /\ t \in archive'.transaction <=> t \in archive.transaction
  <2>1. Finalized \subseteq DOMAIN block
    BY DEF Finalized
  <2>2. QED
    BY <1>1, <2>1, WrittenFacts, WrittenOutput DEF StorageInv
<1>4. ASSUME NEW t \in DOMAIN block
      PROVE  /\ t \in archive.transaction => t \in archive'.transaction
             /\ t \in archive.output => t \in archive'.output
             /\ archive'.status[t] = IF table = "status" THEN block[t] ELSE archive.status[t]
             /\ archive.block_hash[t] # 0 => archive'.block_hash[t] # 0
             /\ table # "transaction" => t \in archive.transaction
             /\ table = "transaction" => t \in archive'.transaction
             /\ table = "output" /\ block[t] \in Final => t \in archive'.output
  <2>1. table # "transaction" => t \in archive.transaction
    BY <1>1 DEF StorageInv, IInv, Progress
  <2>2. block[t] \in Final => t \in Finalized
    BY DEF Finalized
  <2>3. t \in Hashes
    BY <1>2
  <2>4. QED
    BY <1>1, <2>1, <2>2, <2>3, WrittenFacts, WrittenOutput DEF StorageInv
<1>5. Grows
  <2>1. \A t \in DOMAIN block : archive.status[t] \in Settled => "status" \notin unwritten
    BY <1>1 DEF StorageInv, BlockIsNew
  <2>2. \A t \in DOMAIN block : InTransit(t)
    BY <1>1 DEF InTransit
  <2>3. QED
    BY <1>1, <1>2, <1>3, <1>4, <2>1, <2>2 DEF Grows
<1>6. ArchiveOrder'
  <2>1. \A t \in Hashes : archive'.status[t] # None \/ archive'.block_hash[t] # 0 \/ t \in archive'.output
                            => t \in archive'.transaction
    <3>1. ASSUME NEW t \in Hashes \ DOMAIN block,
                 archive'.status[t] # None \/ archive'.block_hash[t] # 0 \/ t \in archive'.output
          PROVE  t \in archive'.transaction
      BY <1>3, <3>1 DEF StorageInv, ArchiveOrder
    <3>2. \A t \in DOMAIN block : t \in archive'.transaction
      BY <1>4
    <3>3. QED
      BY <3>1, <3>2
  <2>2. \A t \in Hashes : archive'.status[t] \in Settled => t \in consumed /\ t \notin backlog
    <3>1. ASSUME NEW t \in DOMAIN block, archive'.status[t] \in Settled PROVE t \in consumed /\ t \notin backlog
      <4>1. t \in consumed
        BY <1>1, <1>2, <1>4, <3>1 DEF StorageInv, BlockIsNew, ArchiveOrder
      <4>2. QED
        BY <1>1, <4>1 DEF StorageInv, IInv, Stale
    <3>2. ASSUME NEW t \in Hashes \ DOMAIN block, archive'.status[t] \in Settled
          PROVE  t \in consumed /\ t \notin backlog
      BY <1>3, <3>2 DEF StorageInv, ArchiveOrder
    <3>3. QED
      BY <3>1, <3>2
  <2>3. \A b \in 1 .. MaxHeight : \A t \in archive'.index[b] : Complete(t)'
    <3>1. archive'.index = archive.index
      BY <1>1, WrittenOutput DEF StorageInv
    <3>2. ASSUME NEW b \in 1 .. MaxHeight, NEW t \in archive.index[b] PROVE Complete(t)'
      <4>1. t \in Hashes /\ Complete(t)
        BY Zenon DEF StorageInv, IInv, TypeOK, Archives, ArchiveOrder
      <4>2. QED
        BY <1>5, <4>1 DEF Grows, Complete, Answerable
    <3>3. QED
      BY <3>1, <3>2
  <2>4. QED
    BY <1>1, <2>1, <2>2, <2>3 DEF ArchiveOrder
<1>7. BlockIsNew'
  <2> SUFFICES ASSUME NEW t \in DOMAIN block
               PROVE  /\ block[t] \in Settled => t \in consumed
                      /\ archive'.status[t] \in Settled => "status" \notin unwritten'
                      /\ "output" \notin unwritten' /\ block[t] \in Final => t \in archive'.output
    BY <1>1 DEF BlockIsNew
  <2>1. /\ block[t] \in Settled => t \in consumed
        /\ archive.status[t] \in Settled => "status" \notin unwritten
        /\ "output" \notin unwritten /\ block[t] \in Final => t \in archive.output
    BY <1>1 DEF StorageInv, BlockIsNew
  <2>2. QED
    BY <1>1, <1>4, <2>1
<1>8. QED
  BY <1>5, <1>6, <1>7

LEMMA WriteIndexKeepsOrder ==
  ASSUME StorageInv, WriteIndex
  PROVE  ArchiveOrder' /\ BlockIsNew' /\ Grows
<1>1. /\ stage = "archive" /\ unwritten = {} /\ stage' = "idle"
      /\ archive' = [archive EXCEPT !.index[height] = Finalized]
      /\ UNCHANGED <<backlog, consumed, stored>>
  BY DEF WriteIndex, submission
<1>2. /\ archive'.transaction = archive.transaction /\ archive'.output = archive.output
      /\ archive'.status = archive.status /\ archive'.block_hash = archive.block_hash
      /\ archive'.index = [archive.index EXCEPT ![height] = Finalized]
  BY <1>1 DEF StorageInv, IInv, TypeOK, Archives
<1>3. Grows
  BY <1>1, <1>2 DEF Grows
<1>4. ASSUME NEW t \in Finalized PROVE Complete(t)
  <2>1. t \in DOMAIN block /\ block[t] \in Final /\ block[t] # None
    BY DEF Finalized, Final, None
  <2>2. /\ t \in archive.transaction /\ archive.status[t] = block[t] /\ archive.block_hash[t] = height
        /\ height # 0 /\ t \in archive.output
    BY <1>1, <2>1 DEF StorageInv, IInv, TypeOK, Progress, BlockIsNew
  <2>3. QED
    BY <2>1, <2>2 DEF Complete, Answerable
<1>5. ASSUME NEW b \in 1 .. MaxHeight, NEW t \in archive'.index[b] PROVE Complete(t)'
  <2>1. t \in archive.index[b] \/ t \in Finalized
    BY <1>2 DEF StorageInv, IInv, TypeOK, Archives
  <2>2. Complete(t)
    BY <1>4, <2>1 DEF StorageInv, ArchiveOrder
  <2>3. QED
    BY <1>2, <2>2 DEF Complete, Answerable
<1>6. ArchiveOrder'
  BY <1>1, <1>2, <1>5 DEF StorageInv, ArchiveOrder
<1>7. QED
  BY <1>1, <1>3, <1>6 DEF BlockIsNew

LEMMA StorageStep ==
  ASSUME StorageInv, StorageNext
  PROVE  StorageInv' /\ Grows
<1>1. IInv'
  BY StepHolds DEF StorageInv, Next
<1>2. ArchiveOrder' /\ BlockIsNew' /\ Grows
  BY SubmissionKeepsOrder, ExecuteKeepsOrder, ExpireKeepsOrder, WriteTableKeepsOrder, WriteIndexKeepsOrder
  DEF StorageNext, insert_executed_block
<1>3. QED
  BY <1>1, <1>2 DEF StorageInv

(***************************************************************************)
(* Steps of a lookup                                                       *)
(***************************************************************************)

LEMMA Modes ==
  /\ \A h \in Txs : Mode(h) = "user"
  /\ \A h \in Automated : Mode(h) = "auto"
  /\ \A h \in Metadata : Mode(h) = "meta"
  /\ \A h \in Hashes : (Mode(h) = "user" => h \in Txs) /\ (Mode(h) = "auto" => h \in Automated)
                        /\ (Mode(h) = "meta" => h \in Metadata)
  /\ Mode(q.hash) \in {"user", "auto", "meta"}
BY KindsAssumption DEF Mode, Hashes

\* A stored transaction that is neither in transit nor in the backlog is archived.
LEMMA KeptIsArchived ==
  ASSUME StorageInv, NEW h \in stored, ~InTransit(h), h \notin backlog
  PROVE  Archived(h)
BY DEF StorageInv, IInv, Kept, InTransit

\* A read changes nothing but the lookup.
LEMMA ReadHolds ==
  ASSUME ApiInv, NEW pc, NEW r, Read(pc, r), r \in Queries, OnTrack(r)
  PROVE  ApiInv'
<1>1. /\ UNCHANGED <<backlog, consumed, expired, height, block, stage, unwritten, archive>>
      /\ UNCHANGED <<pcs, forwarded, stored, seen, listed>> /\ q' = r
  BY DEF Read, vars, storage, submission, api
<1>2. IInv'
  BY <1>1 DEF ApiInv, StorageInv, IInv, TypeOK, Submitted, Stale, Progress, Kept, Archived
<1>3. ArchiveOrder' /\ BlockIsNew'
  BY <1>1 DEF ApiInv, StorageInv, ArchiveOrder, BlockIsNew, Complete, Answerable
<1>4. KnownIsAnswerable'
  BY <1>1 DEF ApiInv, KnownIsAnswerable, Known, Answerable
<1>5. OnTrack(q)'
  <2>1. LookupShape(q)' /\ StatusIsCurrent(q)'
    <3>1. LookupShape(q)'
      BY <1>1 DEF OnTrack, LookupShape
    <3>2. StatusIsCurrent(q)'
      BY <1>1 DEF OnTrack, StatusIsCurrent, Answerable
    <3>3. QED
      BY <3>1, <3>2
  <2>2. KnownIsFound(q)'
    BY <1>1 DEF OnTrack, KnownIsFound, Known
  <2>3. KeptIsFound(q)'
    BY <1>1 DEF OnTrack, KeptIsFound, InTransit, Archived
  <2>4. ListIsFound(q)'
    BY <1>1 DEF OnTrack, ListIsFound, Complete, Answerable
  <2>5. QED
    BY <2>1, <2>2, <2>3, <2>4 DEF OnTrack
<1>6. QED
  BY <1>1, <1>2, <1>3, <1>4, <1>5 DEF ApiInv, StorageInv, LookupType

LEMMA GotoFields ==
  ASSUME q \in Queries, NEW pc \in Pcs
  PROVE  /\ Goto(pc) \in Queries /\ Goto(pc).pc = pc /\ Goto(pc).kind = q.kind /\ Goto(pc).mode = q.mode
         /\ Goto(pc).hash = q.hash /\ Goto(pc).height = q.height /\ Goto(pc).todo = q.todo
         /\ Goto(pc).status = q.status /\ Goto(pc).output = q.output /\ Goto(pc).answer = q.answer
         /\ Goto(pc).known = q.known /\ Goto(pc).transit = q.transit
BY DEF Queries, Goto

LEMMA AnswerFields ==
  ASSUME q \in Queries, NEW a \in Errors \cup {"info", "list", None}
  PROVE  /\ Answer(a) \in Queries /\ Answer(a).pc = "answered" /\ Answer(a).kind = q.kind
         /\ Answer(a).mode = q.mode /\ Answer(a).hash = q.hash /\ Answer(a).height = q.height
         /\ Answer(a).todo = q.todo /\ Answer(a).status = q.status /\ Answer(a).output = q.output
         /\ Answer(a).answer = a /\ Answer(a).known = q.known /\ Answer(a).transit = q.transit
BY ZenonT(30) DEF Queries, Answer, Pcs

\* The lookup goes on with the next kind of transaction, or ends, only if nobody
\* knows of the transaction and it is not kept.
LEMMA NotFoundOnTrack ==
  ASSUME ApiInv, q.pc \in Reads, q.kind \in ByHash,
         q.kind \in {"any", Mode(q.hash)} /\ Known(q.hash) =>
           q.kind = "any" /\ q.mode \in {"user", "auto"} /\ q.hash \notin Txs /\ (q.mode = "auto" => q.hash \in Metadata),
         ~(q.known /\ ~ q.transit /\ q.kind \in {"any", "user"})
  PROVE  NotFound \in Queries /\ OnTrack(NotFound)
<1>1. q \in Queries /\ OnTrack(q) /\ q.hash \in Hashes
  BY DEF ApiInv, LookupType, OnTrack, LookupShape
<1>2. CASE q.kind = "any" /\ q.mode = "user"
  <2>1. NotFound = [q EXCEPT !.pc = "automated", !.mode = "auto"]
    BY <1>2 DEF NotFound
  <2>2. /\ NotFound \in Queries /\ NotFound.pc = "automated" /\ NotFound.mode = "auto" /\ NotFound.kind = q.kind
        /\ NotFound.hash = q.hash /\ NotFound.answer = q.answer /\ NotFound.known = q.known
        /\ NotFound.transit = q.transit
    BY <1>1, <2>1, Zenon DEF Queries, Pcs, Reads
  <2>3. LookupShape(NotFound) /\ StatusIsCurrent(NotFound)
    BY <1>1, <1>2, <2>2 DEF OnTrack, LookupShape, StatusIsCurrent, Reads
  <2>4. KnownIsFound(NotFound)
    BY <1>1, <1>2, <2>2 DEF KnownIsFound
  <2>5. KeptIsFound(NotFound) /\ ListIsFound(NotFound)
    BY <1>1, <1>2, <2>2 DEF OnTrack, KeptIsFound, ListIsFound, Lists
  <2>6. QED
    BY <2>2, <2>3, <2>4, <2>5 DEF OnTrack
<1>3. CASE q.kind = "any" /\ q.mode = "auto"
  <2>1. NotFound = [q EXCEPT !.pc = "metadata", !.mode = "meta"]
    BY <1>3 DEF NotFound
  <2>2. /\ NotFound \in Queries /\ NotFound.pc = "metadata" /\ NotFound.mode = "meta" /\ NotFound.kind = q.kind
        /\ NotFound.hash = q.hash /\ NotFound.answer = q.answer /\ NotFound.known = q.known
        /\ NotFound.transit = q.transit
    BY <1>1, <2>1, Zenon DEF Queries, Pcs, Reads
  <2>3. LookupShape(NotFound) /\ StatusIsCurrent(NotFound)
    BY <1>1, <1>3, <2>2 DEF OnTrack, LookupShape, StatusIsCurrent, Reads, ByHash
  <2>4. KnownIsFound(NotFound)
    BY <1>1, <1>3, <2>2 DEF KnownIsFound
  <2>5. KeptIsFound(NotFound) /\ ListIsFound(NotFound)
    BY <1>1, <1>3, <2>2 DEF OnTrack, KeptIsFound, ListIsFound, Lists
  <2>6. QED
    BY <2>2, <2>3, <2>4, <2>5 DEF OnTrack
<1>4. CASE ~(q.kind = "any" /\ q.mode \in {"user", "auto"})
  <2>1. NotFound = Answer("TransactionNotFound")
    BY <1>4 DEF NotFound
  <2>2. /\ NotFound \in Queries /\ NotFound.pc = "answered" /\ NotFound.mode = q.mode /\ NotFound.kind = q.kind
        /\ NotFound.hash = q.hash /\ NotFound.answer = "TransactionNotFound" /\ NotFound.known = q.known
        /\ NotFound.transit = q.transit
    BY <1>1, <2>1, AnswerFields DEF Errors
  <2>3. LookupShape(NotFound) /\ StatusIsCurrent(NotFound)
    BY <1>1, <2>2 DEF OnTrack, LookupShape, StatusIsCurrent, Reads
  <2>4. KnownIsFound(NotFound)
    BY <1>1, <1>4, <2>2 DEF KnownIsFound
  <2>5. KeptIsFound(NotFound) /\ ListIsFound(NotFound)
    BY <1>1, <2>2 DEF OnTrack, KeptIsFound, ListIsFound, Lists, ByHash
  <2>6. QED
    BY <2>2, <2>3, <2>4, <2>5 DEF OnTrack
<1>5. QED
  BY <1>2, <1>3, <1>4

LEMMA ReadBacklogHolds ==
  ASSUME ApiInv, read_backlog
  PROVE  ApiInv'
<1> DEFINE pc == IF q.hash \in backlog THEN "backlog_status" ELSE "transaction"
           r == Goto(pc)
<1>1. q \in Queries /\ OnTrack(q) /\ q.pc = "backlog" /\ Read("backlog", r)
  BY DEF ApiInv, LookupType, read_backlog, Read
<1>2. /\ r \in Queries /\ r.pc = pc /\ r.kind = q.kind /\ r.mode = q.mode /\ r.hash = q.hash
      /\ r.answer = q.answer /\ r.known = q.known /\ r.transit = q.transit
  BY <1>1, GotoFields DEF Pcs, Reads
<1>3. /\ q.hash \in Hashes /\ q.kind \in ByHash /\ q.mode = "user" /\ q.answer = None
      /\ q.kind \in {"user", "auto", "meta"} => q.mode = q.kind
  BY <1>1 DEF OnTrack, LookupShape, Reads
<1>4. LookupShape(r)
  <2>1. backlog \subseteq Txs
    BY DEF ApiInv, StorageInv, IInv, TypeOK
  <2>2. QED
    BY <1>2, <1>3, <2>1, Modes DEF LookupShape, Reads
<1>5. KeptIsFound(r)
  BY <1>1, <1>2, KeptIsArchived DEF ApiInv, OnTrack, KeptIsFound
<1>6. StatusIsCurrent(r) /\ KnownIsFound(r) /\ ListIsFound(r)
  BY <1>2, <1>3 DEF StatusIsCurrent, KnownIsFound, ListIsFound, ByHash, Lists
<1>7. QED
  BY <1>1, <1>2, <1>4, <1>5, <1>6, ReadHolds DEF OnTrack

LEMMA ReadTransactionHolds ==
  ASSUME ApiInv, read_transaction
  PROVE  ApiInv'
<1>1. /\ q \in Queries /\ OnTrack(q) /\ q.pc = "transaction" /\ KnownIsAnswerable
      /\ q.hash \in Hashes /\ q.mode = "user" /\ q.answer = None /\ q.kind \in ByHash \cup {"block", "account"}
      /\ q.kind \in {"user", "auto", "meta"} => q.mode = q.kind
  BY DEF ApiInv, LookupType, read_transaction, Read, OnTrack, LookupShape, Reads
<1>2. CASE q.hash \notin archive.transaction \intersect Txs
  <2>1. q.kind \in ByHash
    BY <1>1, <1>2 DEF OnTrack, ListIsFound, Lists, Reads, Complete, Answerable
  <2>2. Known(q.hash) => q.hash \notin Txs
    BY <1>1, <1>2 DEF KnownIsAnswerable, Answerable
  <2>3. ~(q.known /\ ~ q.transit /\ q.kind \in {"any", "user"})
    <3>1. stored \subseteq Txs
      BY DEF ApiInv, StorageInv, IInv, TypeOK
    <3>2. QED
      BY <1>1, <1>2, <3>1 DEF OnTrack, KeptIsFound, Archived
  <2>4. q.kind \in {"any", Mode(q.hash)} /\ Known(q.hash) => q.kind = "any"
    BY <1>1, <2>1, <2>2, Modes DEF ByHash
  <2>5. NotFound \in Queries /\ OnTrack(NotFound)
    BY <1>1, <2>1, <2>2, <2>3, <2>4, NotFoundOnTrack DEF Reads
  <2>6. Read("transaction", NotFound)
    BY <1>2 DEF read_transaction
  <2>7. QED
    BY <2>5, <2>6, ReadHolds
<1>3. CASE q.hash \in archive.transaction \intersect Txs
  <2> DEFINE pc == IF q.kind \in ByHash THEN "backlog_status" ELSE "status"
             r == Goto(pc)
  <2>1. /\ r \in Queries /\ r.pc = pc /\ r.kind = q.kind /\ r.mode = q.mode /\ r.hash = q.hash /\ r.todo = q.todo
        /\ r.answer = q.answer /\ r.known = q.known /\ r.transit = q.transit
    BY <1>1, GotoFields DEF Pcs, Reads
  <2>2. LookupShape(r)
    BY <1>1, <1>3, <2>1, Modes DEF LookupShape, Reads
  <2>3. KeptIsFound(r)
    BY <1>1, <2>1 DEF OnTrack, KeptIsFound
  <2>4. StatusIsCurrent(r) /\ KnownIsFound(r)
    BY <2>1 DEF StatusIsCurrent, KnownIsFound
  <2>5. ListIsFound(r)
    BY <1>1, <2>1 DEF OnTrack, ListIsFound, Reads
  <2>6. Read("transaction", r)
    BY <1>3 DEF read_transaction
  <2>7. QED
    BY <2>1, <2>2, <2>3, <2>4, <2>5, <2>6, ReadHolds DEF OnTrack
<1>4. QED
  BY <1>2, <1>3

LEMMA ReadAutomatedHolds ==
  ASSUME ApiInv, read_automated
  PROVE  ApiInv'
<1>1. /\ q \in Queries /\ OnTrack(q) /\ q.pc = "automated" /\ KnownIsAnswerable
      /\ q.hash \in Hashes /\ q.mode = "auto" /\ q.answer = None /\ q.kind \in ByHash \cup {"block", "account"}
      /\ q.kind \in {"user", "auto", "meta"} => q.mode = q.kind
  BY DEF ApiInv, LookupType, read_automated, Read, OnTrack, LookupShape, Reads
<1>2. CASE q.hash \notin archive.transaction \intersect Automated
  <2>1. q.kind \in ByHash
    BY <1>1, <1>2 DEF OnTrack, ListIsFound, Lists, Reads, Complete, Answerable
  <2>2. Known(q.hash) => q.hash \notin Automated
    BY <1>1, <1>2 DEF KnownIsAnswerable, Answerable
  <2>3. ~(q.known /\ ~ q.transit /\ q.kind \in {"any", "user"})
    BY <1>1 DEF OnTrack, KeptIsFound
  <2>4. q.kind \in {"any", Mode(q.hash)} /\ Known(q.hash) => q.kind = "any"
    BY <1>1, <2>1, <2>2, Modes DEF ByHash
  <2>5. q.kind = "any" /\ Known(q.hash) => q.hash \notin Txs /\ q.hash \in Metadata
    BY <1>1, <2>2 DEF OnTrack, KnownIsFound, Hashes
  <2>6. NotFound \in Queries /\ OnTrack(NotFound)
    BY <1>1, <2>1, <2>3, <2>4, <2>5, NotFoundOnTrack DEF Reads
  <2>7. Read("automated", NotFound)
    BY <1>2 DEF read_automated
  <2>8. QED
    BY <2>6, <2>7, ReadHolds
<1>3. CASE q.hash \in archive.transaction \intersect Automated
  <2> DEFINE r == Goto("status")
  <2>1. /\ r \in Queries /\ r.pc = "status" /\ r.kind = q.kind /\ r.mode = q.mode /\ r.hash = q.hash
        /\ r.todo = q.todo /\ r.answer = q.answer /\ r.known = q.known /\ r.transit = q.transit
    BY <1>1, GotoFields DEF Pcs, Reads
  <2>2. LookupShape(r)
    BY <1>1, <1>3, <2>1, Modes DEF LookupShape, Reads
  <2>3. KeptIsFound(r)
    BY <1>1, <2>1 DEF OnTrack, KeptIsFound
  <2>4. StatusIsCurrent(r) /\ KnownIsFound(r)
    BY <2>1 DEF StatusIsCurrent, KnownIsFound
  <2>5. ListIsFound(r)
    BY <1>1, <2>1 DEF OnTrack, ListIsFound, Reads
  <2>6. Read("automated", r)
    BY <1>3 DEF read_automated
  <2>7. QED
    BY <2>1, <2>2, <2>3, <2>4, <2>5, <2>6, ReadHolds DEF OnTrack
<1>4. QED
  BY <1>2, <1>3

LEMMA ReadMetadataHolds ==
  ASSUME ApiInv, read_metadata
  PROVE  ApiInv'
<1>1. /\ q \in Queries /\ OnTrack(q) /\ q.pc = "metadata" /\ KnownIsAnswerable
      /\ q.hash \in Hashes /\ q.mode = "meta" /\ q.answer = None /\ q.kind \in ByHash
      /\ q.kind \in {"user", "auto", "meta"} => q.mode = q.kind
  BY DEF ApiInv, LookupType, read_metadata, Read, OnTrack, LookupShape, Reads
<1>2. CASE q.hash \notin archive.transaction \intersect Metadata
  <2>1. Known(q.hash) => q.hash \notin Metadata
    BY <1>1, <1>2 DEF KnownIsAnswerable, Answerable
  <2>2. ~(q.known /\ ~ q.transit /\ q.kind \in {"any", "user"})
    BY <1>1 DEF OnTrack, KeptIsFound
  <2>3. ~(q.kind \in {"any", Mode(q.hash)} /\ Known(q.hash))
    BY <1>1, <2>1, Modes DEF ByHash, OnTrack, KnownIsFound
  <2>4. NotFound \in Queries /\ OnTrack(NotFound)
    BY <1>1, <2>2, <2>3, NotFoundOnTrack DEF Reads
  <2>5. Read("metadata", NotFound)
    BY <1>2 DEF read_metadata
  <2>6. QED
    BY <2>4, <2>5, ReadHolds
<1>3. CASE q.hash \in archive.transaction \intersect Metadata
  <2> DEFINE r == Goto("status")
  <2>1. /\ r \in Queries /\ r.pc = "status" /\ r.kind = q.kind /\ r.mode = q.mode /\ r.hash = q.hash
        /\ r.answer = q.answer /\ r.known = q.known /\ r.transit = q.transit
    BY <1>1, GotoFields DEF Pcs, Reads
  <2>2. LookupShape(r)
    BY <1>1, <1>3, <2>1, Modes DEF LookupShape, Reads
  <2>3. KeptIsFound(r)
    BY <1>1, <2>1 DEF OnTrack, KeptIsFound
  <2>4. StatusIsCurrent(r) /\ KnownIsFound(r) /\ ListIsFound(r)
    BY <1>1, <2>1 DEF StatusIsCurrent, KnownIsFound, ListIsFound, Lists, ByHash
  <2>5. Read("metadata", r)
    BY <1>3 DEF read_metadata
  <2>6. QED
    BY <2>1, <2>2, <2>3, <2>4, <2>5, ReadHolds DEF OnTrack
<1>4. QED
  BY <1>2, <1>3

LEMMA ReadBacklogStatusHolds ==
  ASSUME ApiInv, read_backlog_status
  PROVE  ApiInv'
<1>1. /\ q \in Queries /\ OnTrack(q) /\ q.pc = "backlog_status" /\ KnownIsAnswerable
      /\ q.hash \in Txs /\ q.hash \in Hashes /\ q.mode = Mode(q.hash) /\ q.answer = None /\ q.kind \in ByHash
      /\ q.kind \in {"user", "auto", "meta"} => q.mode = q.kind
  BY DEF ApiInv, LookupType, read_backlog_status, Read, OnTrack, LookupShape, Reads
<1>2. CASE q.hash \in backlog
  <2> DEFINE r == [Answer("info") EXCEPT !.status = "Pending"]
  <2>1. /\ r \in Queries /\ r.pc = "answered" /\ r.kind = q.kind /\ r.mode = q.mode /\ r.hash = q.hash
        /\ r.answer = "info" /\ r.status = "Pending" /\ r.known = q.known /\ r.transit = q.transit
    BY <1>1, Zenon DEF Queries, Answer, Pcs
  <2>2. LookupShape(r)
    BY <1>1, <2>1 DEF LookupShape, Reads
  <2>3. seen[q.hash] = None
    <3>1. seen[q.hash] \in Settled \cup {None}
      BY <1>1 DEF ApiInv, LookupType
    <3>2. archive.status[q.hash] \notin Settled
      BY <1>1, <1>2 DEF ApiInv, StorageInv, ArchiveOrder
    <3>3. QED
      BY <1>1, <3>1, <3>2 DEF KnownIsAnswerable
  <2>4. StatusIsCurrent(r) /\ KnownIsFound(r)
    BY <1>1, <2>1, <2>3 DEF StatusIsCurrent, KnownIsFound, Settled
  <2>5. KeptIsFound(r) /\ ListIsFound(r)
    BY <1>1, <2>1 DEF OnTrack, KeptIsFound, ListIsFound, ByHash, Lists
  <2>6. Read("backlog_status", r)
    BY <1>2 DEF read_backlog_status
  <2>7. QED
    BY <2>1, <2>2, <2>4, <2>5, <2>6, ReadHolds DEF OnTrack
<1>3. CASE q.hash \notin backlog
  <2> DEFINE r == Goto("status")
  <2>1. /\ r \in Queries /\ r.pc = "status" /\ r.kind = q.kind /\ r.mode = q.mode /\ r.hash = q.hash
        /\ r.answer = q.answer /\ r.known = q.known /\ r.transit = q.transit
    BY <1>1, GotoFields DEF Pcs, Reads
  <2>2. LookupShape(r)
    BY <1>1, <2>1 DEF LookupShape, Reads
  <2>3. KeptIsFound(r)
    BY <1>1, <1>3, <2>1, KeptIsArchived DEF ApiInv, OnTrack, KeptIsFound
  <2>4. StatusIsCurrent(r) /\ KnownIsFound(r) /\ ListIsFound(r)
    BY <1>1, <2>1 DEF StatusIsCurrent, KnownIsFound, ListIsFound, Lists, ByHash
  <2>5. Read("backlog_status", r)
    BY <1>3 DEF read_backlog_status
  <2>6. QED
    BY <2>1, <2>2, <2>3, <2>4, <2>5, ReadHolds DEF OnTrack
<1>4. QED
  BY <1>2, <1>3

LEMMA ReadStatusHolds ==
  ASSUME ApiInv, read_status
  PROVE  ApiInv'
<1> DEFINE s == archive.status[q.hash]
<1>1. /\ q \in Queries /\ OnTrack(q) /\ q.pc = "status" /\ KnownIsAnswerable
      /\ q.hash \in Hashes /\ q.mode = Mode(q.hash) /\ q.answer = None /\ q.kind \in ByHash \cup {"block", "account"}
      /\ q.kind \in {"user", "auto", "meta"} => q.mode = q.kind
  BY DEF ApiInv, LookupType, read_status, Read, OnTrack, LookupShape, Reads
<1>2. s \in Executed \cup {None}
  BY <1>1 DEF ApiInv, StorageInv, IInv, TypeOK, Archives
<1>3. seen[q.hash] # None => seen[q.hash] = s /\ s \in Settled
  BY <1>1 DEF ApiInv, LookupType, KnownIsAnswerable
<1>4. Known(q.hash) => s # None
  BY <1>1 DEF KnownIsAnswerable, Answerable
<1>5. CASE s = None
  <2> DEFINE r == Answer("MissingTransactionStatus")
  <2>1. /\ r \in Queries /\ r.pc = "answered" /\ r.kind = q.kind /\ r.mode = q.mode /\ r.hash = q.hash
        /\ r.answer = "MissingTransactionStatus" /\ r.known = q.known /\ r.transit = q.transit
    BY <1>1, AnswerFields DEF Errors
  <2>2. LookupShape(r) /\ StatusIsCurrent(r) /\ KnownIsFound(r)
    BY <1>1, <1>4, <1>5, <2>1 DEF LookupShape, Reads, StatusIsCurrent, KnownIsFound
  <2>3. KeptIsFound(r)
    BY <1>1, <1>5, <2>1 DEF OnTrack, KeptIsFound, Archived
  <2>4. ListIsFound(r)
    BY <1>1, <1>5, <2>1 DEF OnTrack, ListIsFound, Reads, Complete, Answerable
  <2>5. Read("status", r)
    BY <1>5 DEF read_status
  <2>6. QED
    BY <2>1, <2>2, <2>3, <2>4, <2>5, ReadHolds DEF OnTrack
<1>6. CASE q.kind \in ByHash /\ q.mode = "user" /\ s = "PendingAfterExecution"
  <2> DEFINE r == [Answer("info") EXCEPT !.status = s]
  <2>1. /\ r \in Queries /\ r.pc = "answered" /\ r.kind = q.kind /\ r.mode = q.mode /\ r.hash = q.hash
        /\ r.answer = "info" /\ r.status = s /\ r.known = q.known /\ r.transit = q.transit
    BY <1>1, <1>2, Zenon DEF Queries, Answer, Pcs
  <2>2. LookupShape(r)
    BY <1>1, <1>6, <2>1 DEF LookupShape, Reads
  <2>3. StatusIsCurrent(r) /\ KnownIsFound(r)
    BY <1>3, <1>6, <2>1 DEF StatusIsCurrent, KnownIsFound, Settled
  <2>4. KeptIsFound(r) /\ ListIsFound(r)
    BY <1>1, <1>6, <2>1 DEF OnTrack, KeptIsFound, ListIsFound, ByHash, Lists
  <2>5. Read("status", r)
    BY <1>6 DEF read_status, None
  <2>6. QED
    BY <2>1, <2>2, <2>3, <2>4, <2>5, ReadHolds DEF OnTrack
<1>7. CASE s # None /\ ~(q.kind \in ByHash /\ q.mode = "user" /\ s = "PendingAfterExecution")
  <2> DEFINE r == [Goto("output") EXCEPT !.status = s]
  <2>1. /\ r \in Queries /\ r.pc = "output" /\ r.kind = q.kind /\ r.mode = q.mode /\ r.hash = q.hash /\ r.todo = q.todo
        /\ r.answer = q.answer /\ r.status = s /\ r.known = q.known /\ r.transit = q.transit
    BY <1>1, <1>2, ZenonT(30) DEF Queries, Goto, Pcs, Reads
  <2>2. LookupShape(r) /\ StatusIsCurrent(r) /\ KnownIsFound(r)
    BY <1>1, <1>3, <2>1 DEF LookupShape, Reads, StatusIsCurrent, KnownIsFound
  <2>3. ASSUME q.known, ~ q.transit, q.kind \in {"any", "user"}
        PROVE  Archived(q.hash) /\ archive.block_hash[q.hash] # 0
    <3>1. Archived(q.hash) /\ q.hash \in Txs
      BY <1>1, <2>3 DEF OnTrack, KeptIsFound, ApiInv, StorageInv, IInv, TypeOK
    <3>2. q.mode = "user" /\ q.kind \in ByHash
      BY <1>1, <2>3, <3>1, Modes DEF ByHash
    <3>3. s \in Final
      BY <1>2, <1>7, <3>2 DEF Executed
    <3>4. QED
      BY <3>1, <3>3 DEF Archived
  <2>4. KeptIsFound(r)
    BY <1>1, <2>1, <2>3 DEF OnTrack, KeptIsFound
  <2>5. ListIsFound(r)
    BY <1>1, <2>1 DEF OnTrack, ListIsFound, Reads
  <2>6. Read("status", r)
    BY <1>7 DEF read_status
  <2>7. QED
    BY <2>1, <2>2, <2>4, <2>5, <2>6, ReadHolds DEF OnTrack
<1>8. QED
  BY <1>5, <1>6, <1>7

LEMMA ReadOutputHolds ==
  ASSUME ApiInv, read_output
  PROVE  ApiInv'
<1> DEFINE r == [Goto("block_hash") EXCEPT !.output = q.hash \in archive.output]
<1>1. /\ q \in Queries /\ OnTrack(q) /\ q.pc = "output" /\ KnownIsAnswerable /\ Read("output", r)
      /\ q.hash \in Hashes /\ q.mode = Mode(q.hash) /\ q.answer = None /\ q.kind \in ByHash \cup {"block", "account"}
      /\ q.kind \in {"user", "auto", "meta"} => q.mode = q.kind
  BY DEF ApiInv, LookupType, read_output, Read, OnTrack, LookupShape, Reads
<1>2. /\ r \in Queries /\ r.pc = "block_hash" /\ r.kind = q.kind /\ r.mode = q.mode /\ r.hash = q.hash /\ r.todo = q.todo
      /\ r.answer = q.answer /\ r.status = q.status /\ r.known = q.known /\ r.transit = q.transit
      /\ r.output <=> q.hash \in archive.output
  <2>1. CASE q.hash \in archive.output
    <3>1. r = [Goto("block_hash") EXCEPT !.output = TRUE]
      BY <2>1, Zenon
    <3>2. QED
      BY <1>1, <2>1, <3>1, ZenonT(30) DEF Queries, Goto, Pcs, Reads
  <2>2. CASE q.hash \notin archive.output
    <3>1. (q.hash \in archive.output) = FALSE
      BY <2>2
    <3>2. r = [Goto("block_hash") EXCEPT !.output = FALSE]
      BY <3>1, Zenon
    <3>3. QED
      BY <1>1, <2>2, <3>2, ZenonT(30) DEF Queries, Goto, Pcs, Reads
  <2>3. QED
    BY <2>1, <2>2
<1>3. LookupShape(r)
  BY <1>1, <1>2 DEF LookupShape, Reads
<1>4. StatusIsCurrent(r)
  BY <1>1, <1>2 DEF OnTrack, StatusIsCurrent
<1>5. KnownIsFound(r)
  <2>1. Known(q.hash) /\ q.mode # "user" => q.hash \in archive.output
    BY <1>1, Modes DEF KnownIsAnswerable, Answerable
  <2>2. QED
    BY <1>1, <1>2, <2>1 DEF OnTrack, KnownIsFound
<1>6. KeptIsFound(r)
  BY <1>1, <1>2 DEF OnTrack, KeptIsFound
<1>7. ListIsFound(r)
  BY <1>1, <1>2 DEF OnTrack, ListIsFound, Reads, Complete
<1>8. QED
  BY <1>1, <1>2, <1>3, <1>4, <1>5, <1>6, <1>7, ReadHolds DEF OnTrack

\* The info of a transaction with a final status is about a transaction that the
\* archive answers for.
LEMMA DeliverOnTrack ==
  ASSUME ApiInv, q.pc = "block_hash", archive.block_hash[q.hash] # 0
  PROVE  Deliver \in Queries /\ OnTrack(Deliver)
<1>1. /\ q \in Queries /\ OnTrack(q)
      /\ q.hash \in Hashes /\ q.mode = Mode(q.hash) /\ q.answer = None /\ q.kind \in ByHash \cup {"block", "account"}
      /\ q.kind \in {"user", "auto", "meta"} => q.mode = q.kind
  BY DEF ApiInv, LookupType, OnTrack, LookupShape, Reads
<1>2. ASSUME NEW a \in Errors, Deliver = Answer(a), ~ q.output, q.mode # "user" \/ q.kind = "block",
             a \notin {"TransactionNotFound", "MissingTransactionStatus"}
      PROVE  Deliver \in Queries /\ OnTrack(Deliver)
  <2> DEFINE r == Answer(a)
  <2>1. /\ r \in Queries /\ r.pc = "answered" /\ r.kind = q.kind /\ r.mode = q.mode /\ r.hash = q.hash
        /\ r.answer = a /\ r.known = q.known /\ r.transit = q.transit /\ a # "info"
    BY <1>1, AnswerFields DEF Errors
  <2>2. q.kind \in ByHash /\ q.mode # "user"
    BY <1>1, <1>2 DEF OnTrack, ListIsFound, Lists
  <2>3. LookupShape(r) /\ StatusIsCurrent(r)
    BY <1>1, <2>1 DEF LookupShape, StatusIsCurrent, Reads
  <2>4. KnownIsFound(r)
    BY <1>1, <1>2, <2>1, <2>2 DEF OnTrack, KnownIsFound
  <2>5. KeptIsFound(r) /\ ListIsFound(r)
    BY <1>1, <1>2, <2>1, <2>2 DEF OnTrack, KeptIsFound, ListIsFound, Lists, ByHash
  <2>6. QED
    BY <1>2, <2>1, <2>3, <2>4, <2>5 DEF OnTrack
<1>3. ASSUME Deliver = Answer("info"), q.kind \in ByHash, q.mode # "user" => q.output
      PROVE  Deliver \in Queries /\ OnTrack(Deliver)
  <2> DEFINE r == Answer("info")
  <2>1. /\ r \in Queries /\ r.pc = "answered" /\ r.kind = q.kind /\ r.mode = q.mode /\ r.hash = q.hash
        /\ r.answer = "info" /\ r.status = q.status /\ r.known = q.known /\ r.transit = q.transit
    BY <1>1, AnswerFields
  <2>2. LookupShape(r)
    BY <1>1, <1>3, <2>1 DEF LookupShape, Reads
  <2>3. ASSUME q.status \in Settled PROVE archive.status[q.hash] = q.status /\ Answerable(q.hash)
    <3>1. archive.status[q.hash] = q.status /\ q.status # None
      BY <1>1, <2>3 DEF OnTrack, StatusIsCurrent, Settled, None
    <3>2. q.hash \in archive.transaction
      BY <1>1, <3>1 DEF ApiInv, StorageInv, ArchiveOrder
    <3>3. q.hash \notin Txs => q.hash \in archive.output
      BY <1>1, <1>3, Modes DEF OnTrack, StatusIsCurrent
    <3>4. QED
      BY <3>1, <3>2, <3>3 DEF Answerable
  <2>4. StatusIsCurrent(r)
    BY <2>1, <2>3 DEF StatusIsCurrent
  <2>5. KnownIsFound(r)
    BY <1>1, <2>1 DEF OnTrack, KnownIsFound
  <2>6. KeptIsFound(r) /\ ListIsFound(r)
    BY <1>1, <1>3, <2>1 DEF OnTrack, KeptIsFound, ListIsFound, Lists, ByHash
  <2>7. QED
    BY <1>3, <2>1, <2>2, <2>4, <2>5, <2>6 DEF OnTrack
<1>4. ASSUME Deliver = Goto("list"), q.kind \notin ByHash
      PROVE  Deliver \in Queries /\ OnTrack(Deliver)
  <2> DEFINE r == Goto("list")
  <2>1. /\ r \in Queries /\ r.pc = "list" /\ r.kind = q.kind /\ r.mode = q.mode /\ r.hash = q.hash
        /\ r.todo = q.todo /\ r.answer = q.answer /\ r.known = q.known /\ r.transit = q.transit
    BY <1>1, GotoFields DEF Pcs
  <2>2. LookupShape(r) /\ StatusIsCurrent(r) /\ KnownIsFound(r)
    BY <1>1, <1>4, <2>1 DEF LookupShape, Reads, StatusIsCurrent, KnownIsFound, ByHash
  <2>3. KeptIsFound(r) /\ ListIsFound(r)
    BY <1>1, <1>4, <2>1 DEF OnTrack, KeptIsFound, ListIsFound, Reads, ByHash, Lists
  <2>4. QED
    BY <1>4, <2>1, <2>2, <2>3 DEF OnTrack
<1>5. CASE ~ q.output /\ q.mode = "auto"
  <2>1. Deliver = Answer("MissingAutomatedTransactionOutput")
    BY <1>5 DEF Deliver
  <2>2. QED
    BY <1>2, <1>5, <2>1 DEF Errors
<1>6. CASE ~ q.output /\ q.mode = "meta"
  <2>1. Deliver = Answer("MissingBlockMetadataOutput")
    BY <1>6 DEF Deliver
  <2>2. QED
    BY <1>2, <1>6, <2>1 DEF Errors
<1>7. CASE (q.output \/ q.mode = "user") /\ q.kind \in ByHash
  <2>1. Deliver = Answer("info")
    BY <1>7 DEF Deliver
  <2>2. QED
    BY <1>3, <1>7, <2>1
<1>8. CASE ~ q.output /\ q.mode = "user" /\ q.kind = "block"
  <2>1. Deliver = Answer("MissingBlockTransactionOutput")
    BY <1>8 DEF Deliver, ByHash
  <2>2. QED
    BY <1>2, <1>8, <2>1 DEF Errors
<1>9. CASE q.kind \notin ByHash /\ (q.output \/ (q.mode = "user" /\ q.kind # "block"))
  <2>1. Deliver = Goto("list")
    BY <1>9 DEF Deliver
  <2>2. QED
    BY <1>4, <1>9, <2>1
<1>10. q.mode \in {"user", "auto", "meta"} /\ q.output \in BOOLEAN
  BY <1>1 DEF Queries
<1>11. QED
  BY <1>5, <1>6, <1>7, <1>8, <1>9, <1>10

LEMMA ReadBlockHashHolds ==
  ASSUME ApiInv, read_block_hash
  PROVE  ApiInv'
<1>1. /\ q \in Queries /\ OnTrack(q) /\ q.pc = "block_hash" /\ KnownIsAnswerable
      /\ q.hash \in Hashes /\ q.kind \in ByHash \cup {"block", "account"}
  BY DEF ApiInv, LookupType, read_block_hash, Read, OnTrack, LookupShape, Reads
<1>2. CASE archive.block_hash[q.hash] = 0
  <2>1. q.kind \in ByHash
    BY <1>1, <1>2 DEF OnTrack, ListIsFound, Lists, Reads, Complete, Answerable
  <2>2. ~ Known(q.hash)
    BY <1>1, <1>2 DEF KnownIsAnswerable, Answerable
  <2>3. ~(q.known /\ ~ q.transit /\ q.kind \in {"any", "user"})
    BY <1>1, <1>2 DEF OnTrack, KeptIsFound
  <2>4. NotFound \in Queries /\ OnTrack(NotFound)
    BY <1>1, <2>1, <2>2, <2>3, NotFoundOnTrack DEF Reads
  <2>5. Read("block_hash", NotFound)
    BY <1>2 DEF read_block_hash
  <2>6. QED
    BY <2>4, <2>5, ReadHolds
<1>3. CASE archive.block_hash[q.hash] # 0
  <2>1. Deliver \in Queries /\ OnTrack(Deliver)
    BY <1>1, <1>3, DeliverOnTrack
  <2>2. Read("block_hash", Deliver)
    BY <1>3 DEF read_block_hash
  <2>3. QED
    BY <2>1, <2>2, ReadHolds
<1>4. QED
  BY <1>2, <1>3

\* What the index of a block lists.
LEMMA IndexIsComplete ==
  ASSUME StorageInv, NEW b \in 1 .. MaxHeight, NEW t \in archive.index[b]
  PROVE  t \in Hashes /\ Complete(t)
BY Zenon DEF StorageInv, IInv, TypeOK, Archives, ArchiveOrder

LEMMA ReadHashesHolds ==
  ASSUME ApiInv, read_hashes
  PROVE  ApiInv'
<1> DEFINE found == IF q.kind = "hashes" THEN archive.index[q.height] ELSE archive.index[q.height] \ Metadata
           pc == IF q.kind = "hashes" THEN "answered" ELSE "list"
           r == [q EXCEPT !.todo = found, !.pc = pc]
<1>1. /\ q \in Queries /\ OnTrack(q) /\ q.pc = "hashes" /\ Read("hashes", r)
      /\ q.kind \in Lists /\ q.height \in 1 .. MaxHeight /\ q.answer = None
  BY DEF ApiInv, LookupType, read_hashes, Read, OnTrack, LookupShape
<1>2. \A t \in found : t \in Hashes /\ Complete(t)
  BY <1>1, IndexIsComplete DEF ApiInv
<1>3. /\ r \in Queries /\ r.pc = pc /\ r.kind = q.kind /\ r.todo = found /\ r.answer = q.answer
      /\ r.known = q.known /\ r.height = q.height
  <2>1. found \in SUBSET Hashes /\ pc \in Pcs
    BY <1>2 DEF Pcs
  <2> HIDE DEF found, pc
  <2>2. QED
    BY <1>1, <2>1, Zenon DEF Queries
<1>4. LookupShape(r) /\ StatusIsCurrent(r)
  BY <1>1, <1>3 DEF LookupShape, StatusIsCurrent, Reads, Lists, None
<1>5. KnownIsFound(r) /\ KeptIsFound(r)
  BY <1>1, <1>3, Modes DEF OnTrack, KnownIsFound, KeptIsFound, ListIsFound, Lists, Mode
<1>6. ListIsFound(r)
  BY <1>1, <1>2, <1>3 DEF OnTrack, ListIsFound, Reads
<1>7. QED
  BY <1>1, <1>3, <1>4, <1>5, <1>6, ReadHolds DEF OnTrack

LEMMA EndListHolds ==
  ASSUME ApiInv, end_list
  PROVE  ApiInv'
<1> DEFINE r == Answer("list")
<1>1. /\ q \in Queries /\ OnTrack(q) /\ q.pc = "list" /\ Read("list", r) /\ q.kind \in {"block", "account"}
  BY DEF ApiInv, LookupType, end_list, Read, OnTrack, LookupShape
<1>2. /\ r \in Queries /\ r.pc = "answered" /\ r.kind = q.kind /\ r.todo = q.todo /\ r.answer = "list"
      /\ r.known = q.known
  BY <1>1, AnswerFields
<1>3. LookupShape(r) /\ StatusIsCurrent(r)
  BY <1>1, <1>2 DEF LookupShape, StatusIsCurrent, Reads
<1>4. KnownIsFound(r) /\ KeptIsFound(r)
  BY <1>1, <1>2 DEF OnTrack, KnownIsFound, KeptIsFound, ListIsFound, Lists, Mode
<1>5. ListIsFound(r)
  BY <1>1, <1>2 DEF OnTrack, ListIsFound, Reads
<1>6. QED
  BY <1>1, <1>2, <1>3, <1>4, <1>5, ReadHolds DEF OnTrack

LEMMA ListEntryHolds ==
  ASSUME ApiInv, NEW h \in Hashes, list_entry(h)
  PROVE  ApiInv'
<1> DEFINE r == [q EXCEPT !.todo = @ \ {h}, !.hash = h, !.mode = Mode(h), !.status = None,
                          !.output = FALSE, !.pc = ListFirst(h)]
<1>1. /\ q \in Queries /\ OnTrack(q) /\ q.pc = "list" /\ Read("list", r) /\ h \in q.todo
      /\ q.kind \in {"block", "account"} /\ q.answer = None
  BY DEF ApiInv, LookupType, list_entry, Read, OnTrack, LookupShape
<1>2. /\ h \in Txs => Mode(h) = "user" /\ ListFirst(h) = "transaction"
      /\ h \in Automated => Mode(h) = "auto" /\ ListFirst(h) = "automated"
      /\ h \in Metadata => Mode(h) = "meta" /\ ListFirst(h) = "status"
  BY Modes, KindsAssumption DEF ListFirst
<1>3. Mode(h) \in {"user", "auto", "meta"} /\ ListFirst(h) \in {"transaction", "automated", "status"}
  BY <1>2 DEF Hashes
<1>4. /\ r \in Queries /\ r.pc = ListFirst(h) /\ r.kind = q.kind /\ r.mode = Mode(h) /\ r.hash = h
      /\ r.todo = q.todo \ {h} /\ r.answer = None /\ r.known = q.known
  <2>1. ListFirst(h) \in Pcs
    BY <1>3 DEF Pcs, Reads
  <2>2. QED
    BY <1>1, <1>3, <2>1, ZenonT(30) DEF Queries
<1>5. LookupShape(r)
  BY <1>1, <1>2, <1>3, <1>4 DEF LookupShape, Reads, Hashes
<1>6. StatusIsCurrent(r) /\ KnownIsFound(r) /\ KeptIsFound(r)
  BY <1>1, <1>3, <1>4 DEF OnTrack, StatusIsCurrent, KnownIsFound, KeptIsFound, ListIsFound, Lists
<1>7. ListIsFound(r)
  BY <1>1, <1>2, <1>3, <1>4 DEF OnTrack, ListIsFound, Hashes, Lists
<1>8. QED
  BY <1>1, <1>4, <1>5, <1>6, <1>7, ReadHolds DEF OnTrack

LEMMA IdleFields ==
  /\ Idle \in Queries /\ Idle.pc = "idle" /\ Idle.kind = None /\ Idle.mode = "user" /\ Idle.hash = None
  /\ Idle.todo = {} /\ Idle.answer = None /\ Idle.known = FALSE
<1>1. 0 \in 0 .. MaxHeight
  BY HeightAssumption
<1>2. Idle \in Queries
  BY <1>1, ZenonT(30) DEF Idle, Queries, Pcs
<1>3. QED
  BY <1>2 DEF Idle

LEMMA IdleOnTrack == q = Idle => q \in Queries /\ OnTrack(q)
<1> SUFFICES ASSUME q = Idle PROVE q \in Queries /\ OnTrack(q)
  OBVIOUS
<1>1. q \in Queries
  BY IdleFields
<1>2. LookupShape(q) /\ StatusIsCurrent(q) /\ KeptIsFound(q) /\ ListIsFound(q)
  BY DEF Idle, LookupShape, StatusIsCurrent, KeptIsFound, ListIsFound, Reads, Lists, None
<1>3. KnownIsFound(q)
  BY Modes DEF Idle, KnownIsFound, None
<1>4. QED
  BY <1>1, <1>2, <1>3 DEF OnTrack

\* What a client is told becomes known.
LEMMA RespondHolds ==
  ASSUME ApiInv, Respond
  PROVE  ApiInv'
<1>1. /\ UNCHANGED <<backlog, consumed, expired, height, block, stage, unwritten, archive, pcs, forwarded, stored>>
      /\ q' = Idle /\ q.pc = "answered" /\ q \in Queries /\ OnTrack(q)
  BY DEF Respond, vars, storage, submission, ApiInv, LookupType
<1>2. IInv'
  BY <1>1 DEF ApiInv, StorageInv, IInv, TypeOK, Submitted, Stale, Progress, Kept, Archived
<1>3. ArchiveOrder' /\ BlockIsNew'
  BY <1>1 DEF ApiInv, StorageInv, ArchiveOrder, BlockIsNew, Complete, Answerable
<1>4. \/ seen' = seen
      \/ /\ q.hash \in Hashes /\ seen' = [seen EXCEPT ![q.hash] = q.status] /\ q.status \in Settled
         /\ archive.status[q.hash] = q.status /\ Answerable(q.hash)
  BY <1>1 DEF Respond, OnTrack, LookupShape, StatusIsCurrent, Settled
<1>5. \A h \in listed' : h \in Hashes /\ (h \in listed \/ Answerable(h))
  <2>1. listed' = listed \/ (q.kind = "hashes" /\ listed' = listed \union q.todo)
    BY DEF Respond
  <2>2. q.kind = "hashes" => \A t \in q.todo : t \in Hashes /\ Answerable(t)
    BY <1>1 DEF OnTrack, ListIsFound, Lists, Complete, Queries
  <2>3. QED
    BY <2>1, <2>2 DEF ApiInv, LookupType
<1>6. seen' \in [Hashes -> Settled \cup {None}]
  BY <1>4 DEF ApiInv, LookupType
<1>7. KnownIsAnswerable'
  <2> SUFFICES ASSUME NEW h \in Hashes
               PROVE  /\ h \in listed' \/ seen'[h] # None => Answerable(h)
                      /\ seen'[h] # None => archive.status[h] = seen'[h]
    BY <1>1 DEF KnownIsAnswerable, Known, Answerable
  <2>1. (Known(h) => Answerable(h)) /\ (seen[h] # None => archive.status[h] = seen[h])
    BY DEF ApiInv, KnownIsAnswerable
  <2>2. \/ seen'[h] = seen[h]
        \/ archive.status[h] = seen'[h] /\ Answerable(h)
    BY <1>4 DEF ApiInv, LookupType
  <2>3. QED
    BY <1>5, <2>1, <2>2 DEF Known
<1>8. (q = Idle => q \in Queries /\ OnTrack(q))'
  BY IdleOnTrack, PTL
<1>9. listed' \subseteq Hashes
  BY <1>5
<1>10. QED
  BY <1>1, <1>2, <1>3, <1>6, <1>7, <1>8, <1>9 DEF ApiInv, StorageInv, LookupType

(***************************************************************************)
(* A lookup begins                                                         *)
(***************************************************************************)

LEMMA ByHashHolds ==
  ASSUME ApiInv, NEW kind \in ByHash, NEW h \in Hashes, get_transaction_by_hash(kind, h)
  PROVE  ApiInv'
<1> DEFINE mode == IF kind = "any" THEN "user" ELSE kind
           known == h \in stored
           transit == InTransit(h)
           r == [Idle EXCEPT !.pc = First(mode), !.kind = kind, !.mode = mode, !.hash = h,
                             !.known = known, !.transit = transit]
<1>1. Read("idle", r)
  BY DEF get_transaction_by_hash
<1>2. /\ mode \in {"user", "auto", "meta"} /\ First(mode) \in {"backlog", "automated", "metadata"}
      /\ First(mode) = "backlog" <=> mode = "user"
      /\ First(mode) = "automated" <=> mode = "auto"
      /\ First(mode) = "metadata" <=> mode = "meta"
  BY DEF ByHash, First
<1>3. known \in BOOLEAN /\ transit \in BOOLEAN
  BY DEF InTransit
<1> HIDE DEF known, transit, mode
<1>4. /\ r \in Queries /\ r.pc = First(mode) /\ r.kind = kind /\ r.mode = mode /\ r.hash = h
      /\ r.answer = None /\ r.known = known /\ r.transit = transit
  <2>1. First(mode) \in Pcs
    BY <1>2 DEF Pcs, Reads
  <2>2. QED
    BY <1>2, <1>3, <2>1, IdleFields, ZenonT(30) DEF Queries
<1>5. LookupShape(r) /\ StatusIsCurrent(r) /\ ListIsFound(r)
  BY <1>2, <1>4 DEF LookupShape, StatusIsCurrent, ListIsFound, Reads, Lists, ByHash, mode
<1>6. KnownIsFound(r)
  BY <1>2, <1>4, Modes, KindsAssumption DEF KnownIsFound, ByHash, mode
<1>7. KeptIsFound(r)
  BY <1>2, <1>4, Zenon DEF KeptIsFound, known, transit, mode
<1>8. QED
  BY <1>1, <1>4, <1>5, <1>6, <1>7, ReadHolds DEF OnTrack

\* A block that has its header is listed by its height or its hash; a block that
\* has not is answered at once.
LEMMA ByBlockHolds ==
  ASSUME ApiInv, NEW b \in 1 .. MaxHeight, get_block_by_height(b) \/ get_txns_by_block_hash(b)
  PROVE  ApiInv'
<1> SUFFICES ASSUME NEW kind \in {"block", "hashes"}, NEW pc \in {"hashes", "answered"},
                    Read("idle", [Idle EXCEPT !.kind = kind, !.height = b, !.pc = pc])
             PROVE  ApiInv'
  BY Zenon DEF get_block_by_height, get_txns_by_block_hash
<1> DEFINE r == [Idle EXCEPT !.kind = kind, !.height = b, !.pc = pc]
<1>1. /\ r \in Queries /\ r.pc = pc /\ r.kind = kind /\ r.height = b /\ r.todo = {}
      /\ r.answer = None /\ r.known = FALSE
  <2>1. b \in 0 .. MaxHeight /\ kind \in Lists /\ pc \in Pcs
    BY HeightAssumption DEF Lists, Pcs
  <2>2. QED
    BY <2>1, IdleFields, Zenon DEF Queries
<1>2. LookupShape(r) /\ StatusIsCurrent(r) /\ KeptIsFound(r) /\ ListIsFound(r)
  BY <1>1 DEF LookupShape, StatusIsCurrent, KeptIsFound, ListIsFound, Reads, Lists, None
<1>3. KnownIsFound(r)
  BY <1>1 DEF KnownIsFound, Mode
<1>4. QED
  BY <1>1, <1>2, <1>3, ReadHolds DEF OnTrack

LEMMA BlockMetadataHolds ==
  ASSUME ApiInv, NEW b \in 1 .. MaxHeight, get_block_metadata_by_block_height(b)
  PROVE  ApiInv'
<1>1. CASE Read("idle", [Idle EXCEPT !.pc = "answered"])
  <2> DEFINE r == [Idle EXCEPT !.pc = "answered"]
  <2>1. r \in Queries /\ r.pc = "answered" /\ r.kind = None /\ r.answer = None /\ r.known = FALSE
    BY IdleFields DEF Queries, Pcs
  <2>2. LookupShape(r) /\ StatusIsCurrent(r) /\ KeptIsFound(r) /\ ListIsFound(r)
    BY <2>1 DEF LookupShape, StatusIsCurrent, KeptIsFound, ListIsFound, Reads, Lists, None
  <2>3. KnownIsFound(r)
    BY <2>1 DEF KnownIsFound, Mode, None
  <2>4. QED
    BY <1>1, <2>1, <2>2, <2>3, ReadHolds DEF OnTrack
<1>2. ASSUME NEW m \in archive.index[b] \intersect Metadata,
             Read("idle", [Idle EXCEPT !.pc = "status", !.kind = "meta", !.mode = "meta", !.hash = m])
      PROVE  ApiInv'
  <2> DEFINE r == [Idle EXCEPT !.pc = "status", !.kind = "meta", !.mode = "meta", !.hash = m]
  <2>1. /\ r \in Queries /\ r.pc = "status" /\ r.kind = "meta" /\ r.mode = "meta" /\ r.hash = m
        /\ r.answer = None /\ r.known = FALSE
    BY IdleFields, Zenon DEF Queries, Pcs, Reads, ByHash, Hashes
  <2>2. LookupShape(r)
    BY <2>1, Modes DEF LookupShape, Reads, ByHash, Hashes
  <2>3. StatusIsCurrent(r) /\ KnownIsFound(r) /\ KeptIsFound(r) /\ ListIsFound(r)
    BY <2>1 DEF StatusIsCurrent, KnownIsFound, KeptIsFound, ListIsFound, Lists
  <2>4. QED
    BY <1>2, <2>1, <2>2, <2>3, ReadHolds DEF OnTrack
<1>3. QED
  BY <1>1, <1>2, Zenon DEF get_block_metadata_by_block_height

LEMMA AccountHolds ==
  ASSUME ApiInv, NEW hashes, Account(hashes)
  PROVE  ApiInv'
<1> DEFINE found == hashes \intersect UNION {archive.index[b] : b \in 1 .. MaxHeight}
           r == [Idle EXCEPT !.kind = "account", !.pc = "list", !.todo = found]
<1>1. Read("idle", r)
  BY DEF Account
<1>2. \A t \in found : t \in Hashes /\ Complete(t)
  BY IndexIsComplete DEF ApiInv
<1> HIDE DEF found
<1>3. /\ r \in Queries /\ r.pc = "list" /\ r.kind = "account" /\ r.todo = found
      /\ r.answer = None /\ r.known = FALSE
  <2>1. found \in SUBSET Hashes
    BY <1>2
  <2>2. QED
    BY <2>1, IdleFields, Zenon DEF Queries, Pcs, Lists
<1>4. LookupShape(r) /\ StatusIsCurrent(r) /\ KeptIsFound(r)
  BY <1>3 DEF LookupShape, StatusIsCurrent, KeptIsFound, Reads
<1>5. KnownIsFound(r) /\ ListIsFound(r)
  BY <1>2, <1>3 DEF KnownIsFound, ListIsFound, Mode, Reads
<1>6. QED
  BY <1>1, <1>3, <1>4, <1>5, ReadHolds DEF OnTrack

(***************************************************************************)
(* The storage goes on during a lookup                                     *)
(***************************************************************************)

LEMMA MeanwhileHolds ==
  ASSUME ApiInv, Meanwhile
  PROVE  ApiInv'
<1> DEFINE transit == IF q.known THEN q.transit \/ InTransit(q.hash)' ELSE q.transit
<1>1. /\ StorageInv' /\ Grows /\ UNCHANGED <<seen, listed>>
      /\ q' = [q EXCEPT !.transit = transit] /\ q \in Queries /\ OnTrack(q) /\ StorageInv
  BY StorageStep DEF Meanwhile, ApiInv, LookupType, api
<1>2. transit \in BOOLEAN
  BY <1>1 DEF Queries, InTransit
<1>3. q'.known /\ ~ q'.transit => q.known /\ ~ q.transit /\ ~ InTransit(q.hash)'
  BY <1>1 DEF Queries
<1> HIDE DEF transit
<1>4. /\ q' \in Queries /\ q'.pc = q.pc /\ q'.kind = q.kind /\ q'.mode = q.mode /\ q'.hash = q.hash
      /\ q'.height = q.height /\ q'.todo = q.todo /\ q'.status = q.status /\ q'.output = q.output
      /\ q'.answer = q.answer /\ q'.known = q.known
  BY <1>1, <1>2 DEF Queries
<1>5. \A h \in Hashes : Answerable(h) => Answerable(h)'
  BY <1>1 DEF Grows, Answerable
<1>6. \A h \in Hashes : Complete(h) => Complete(h)'
  BY <1>1, <1>5 DEF Grows, Complete
<1>7. KnownIsAnswerable'
  <2> SUFFICES ASSUME NEW h \in Hashes
               PROVE  (Known(h) => Answerable(h)') /\ (seen[h] # None => archive'.status[h] = seen[h])
    BY <1>1 DEF KnownIsAnswerable, Known
  <2>1. /\ Known(h) => Answerable(h)
        /\ seen[h] # None => archive.status[h] = seen[h] /\ seen[h] \in Settled
    BY DEF ApiInv, KnownIsAnswerable, LookupType
  <2>2. QED
    BY <1>1, <1>5, <2>1 DEF Grows
<1>8. LookupShape(q)'
  <2>1. q.pc = "idle" => q' = Idle
    <3>1. q.pc = "idle" => q = Idle
      BY <1>1 DEF OnTrack, LookupShape
    <3>2. q = Idle => transit = q.transit
      BY DEF transit, Idle
    <3>3. QED
      BY <1>1, <3>1, <3>2, Zenon DEF Idle
  <2>2. QED
    BY <1>1, <1>4, <2>1 DEF OnTrack, LookupShape
<1>9. StatusIsCurrent(q)'
  <2>1. q.pc \in Reads \/ (q.pc = "answered" /\ q.answer = "info") => q.hash \in Hashes
    BY <1>1 DEF OnTrack, LookupShape
  <2>2. q.hash \in Hashes => /\ archive.status[q.hash] \in Settled => archive'.status[q.hash] = archive.status[q.hash]
                             /\ q.hash \in archive.output => q.hash \in archive'.output
    BY <1>1 DEF Grows
  <2>3. QED
    BY <1>1, <1>4, <1>5, <2>1, <2>2 DEF OnTrack, StatusIsCurrent, Reads
<1>10. KnownIsFound(q)'
  BY <1>1, <1>4 DEF OnTrack, KnownIsFound, Known
<1>11. KeptIsFound(q)'
  <2> SUFFICES ASSUME q'.known, ~ q'.transit PROVE KeptIsFound(q)'
    BY DEF KeptIsFound
  <2>1. q.known /\ ~ q.transit /\ ~ InTransit(q.hash)'
    BY <1>3
  <2>2. q.hash \in stored /\ ~ InTransit(q.hash) /\ q.hash \in Hashes
    BY <1>1, <2>1 DEF OnTrack, KeptIsFound, StorageInv, IInv, TypeOK, Hashes
  <2>3. /\ archive'.status[q.hash] = archive.status[q.hash] /\ archive'.block_hash[q.hash] = archive.block_hash[q.hash]
        /\ q.hash \in archive.transaction => q.hash \in archive'.transaction
        /\ q.hash \in stored'
    BY <1>1, <2>2 DEF Grows
  <2>4. Archived(q.hash) => Archived(q.hash)'
    BY <1>4, <2>3 DEF Archived
  <2>5. QED
    BY <1>1, <1>4, <2>1, <2>3, <2>4 DEF OnTrack, KeptIsFound
<1>12. ListIsFound(q)'
  <2>1. q.kind \in Lists => q.todo \subseteq Hashes /\ (q.pc \in Reads => q.hash \in Hashes)
    BY <1>1 DEF OnTrack, LookupShape, Queries
  <2>2. QED
    BY <1>1, <1>4, <1>6, <2>1 DEF OnTrack, ListIsFound
<1>13. QED
  BY <1>1, <1>4, <1>7, <1>8, <1>9, <1>10, <1>11, <1>12 DEF ApiInv, LookupType, OnTrack

LEMMA ApiInitHolds == ApiInit => ApiInv
<1> SUFFICES ASSUME ApiInit PROVE ApiInv
  OBVIOUS
<1>1. StorageInv
  BY InitHolds, ArchiveOrderInit DEF ApiInit, StorageInv
<1>2. KnownIsAnswerable /\ seen \in [Hashes -> Settled \cup {None}] /\ listed \subseteq Hashes
  BY DEF ApiInit, KnownIsAnswerable, Known
<1>3. q \in Queries /\ OnTrack(q)
  BY IdleOnTrack DEF ApiInit
<1>4. QED
  BY <1>1, <1>2, <1>3 DEF ApiInv, LookupType

LEMMA ApiStepHolds == ApiInv /\ [ApiNext]_apivars => ApiInv'
<1> SUFFICES ASSUME ApiInv, [ApiNext]_apivars PROVE ApiInv'
  OBVIOUS
<1>1. CASE Query
  BY <1>1, ByHashHolds, ByBlockHolds, BlockMetadataHolds, AccountHolds
  DEF Query, get_account_user_transactions, get_account_automated_transactions, get_account_coin_transactions
<1>2. CASE Lookup
  BY <1>2, ReadBacklogHolds, ReadTransactionHolds, ReadAutomatedHolds, ReadMetadataHolds, ReadBacklogStatusHolds,
     ReadStatusHolds, ReadOutputHolds, ReadBlockHashHolds, ReadHashesHolds, EndListHolds, ListEntryHolds, RespondHolds
  DEF Lookup
<1>3. CASE Meanwhile
  BY <1>3, MeanwhileHolds
<1>4. CASE UNCHANGED apivars
  <2>1. Read(q.pc, q) /\ q \in Queries /\ OnTrack(q)
    BY <1>4 DEF apivars, Read, ApiInv, LookupType
  <2>2. QED
    BY <2>1, ReadHolds
<1>5. QED
  BY <1>1, <1>2, <1>3, <1>4 DEF ApiNext

\* However blocks and submissions fall between the reads of a lookup: a status that
\* a client saw final is what every later lookup shows, and a stored transaction
\* is missed only while its block is inserted or once it has expired.
THEOREM LookupsAlwaysAgree == ApiSpec => []LookupsAgree
<1>1. ApiInv => FinalityStable
  BY DEF ApiInv, LookupType, Queries, OnTrack, KnownIsFound, Known, FinalityStable, Told
<1>2. ApiInv => LostOnlyInTransit
  BY DEF ApiInv, OnTrack, KeptIsFound, LostOnlyInTransit, Told
<1>3. ApiInv => LookupsAgree
  BY <1>1, <1>2 DEF LookupsAgree
<1>4. QED
  BY <1>3, ApiInitHolds, ApiStepHolds, PTL DEF ApiSpec

\* The branches of the lists that "will only be executed if the code has regressed"
\* are not reached, and a hash listed with a block can be looked up from then on.
THEOREM ListedIsAlwaysComplete == ApiSpec => []ListedIsComplete
<1>1. ApiInv => ListsComplete
  BY DEF ApiInv, OnTrack, ListIsFound, ListsComplete, Lists
<1>2. ApiInv => ListedIsFound
  BY DEF ApiInv, LookupType, OnTrack, KnownIsFound, Known, ListedIsFound
<1>3. ApiInv => ListedIsComplete
  BY <1>1, <1>2 DEF ListedIsComplete
<1>4. QED
  BY <1>3, ApiInitHolds, ApiStepHolds, PTL DEF ApiSpec
=============================================================================
