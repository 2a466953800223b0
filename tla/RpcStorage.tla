----------------------------- MODULE RpcStorage -----------------------------
(***************************************************************************)
(* Where the RPC node keeps transactions: RpcStorage, the dispatcher that  *)
(* feeds it (submit_txn, TransactionDispatcher::send) and the waiter that  *)
(* polls it (TxExecutionNotification::wait).                               *)
(*                                                                         *)
(* A submitted transaction enters the backlog and is then forwarded to a   *)
(* validator.  An executed block first updates the Move store, then leaves *)
(* the backlog under its lock, and then enters the archive, whose tables   *)
(* are written one by one ("their cache update is not atomic").  The body  *)
(* of a transaction is assumed to be written first and the lists of hashes *)
(* per block and account last, since "the archive should only have the     *)
(* hash of a transaction if it also has the transaction itself"; the other *)
(* tables are written in any order.                                        *)
(***************************************************************************)
EXTENDS Integers, Sequences, FiniteSets

CONSTANTS
  Txs,         \* user transactions
  Automated,   \* automated transactions: made by the chain, never submitted
  Metadata,    \* block metadata transactions: made by the chain, too
  Outcomes,    \* statuses that executing a user transaction produces
  MaxHeight    \* bound on the number of blocks

Hashes == Txs \union Automated \union Metadata

Final == {"Success", "Fail", "Invalid"}
Executed == Final \union {"PendingAfterExecution"}

\* The three kinds of transactions have different hashes.
ASSUME KindsAssumption ==
  Txs \intersect Automated = {} /\ Txs \intersect Metadata = {} /\ Automated \intersect Metadata = {}

ASSUME HeightAssumption == MaxHeight \in Nat

ASSUME OutcomeAssumption == Outcomes \subseteq Executed

None == "None"

Tables == {"transaction", "status", "output", "block_hash", "header"}

VARIABLES
  backlog,     \* transactions in the transient storage
  consumed,    \* their sequence number is used up in the Move store
  expired,     \* their expiration precedes the last executed block
  height,      \* blocks executed so far
  block,       \* the block being archived: transaction -> status; <<>> for none
  stage,       \* of insert_executed_block: "idle", "expire", "finalize", "archive"
  unwritten,   \* tables of the block that are not written yet
  archive,     \* transactions, status, output, block_hash per hash; header; index
  pcs,         \* the submission of each transaction
  forwarded,   \* history: transactions sent to the validator
  stored,      \* history: transactions the backlog has accepted
  waiting      \* what wait has returned for each transaction

storage == <<backlog, consumed, expired, height, block, stage, unwritten, archive>>
submission == <<pcs, forwarded, stored>>
vars == <<storage, submission, waiting>>

EmptyArchive ==
  [transaction |-> {}, output |-> {}, header |-> {},
   status |-> [t \in Hashes |-> None], block_hash |-> [t \in Hashes |-> 0],
   index |-> [b \in 1 .. MaxHeight |-> {}]]

Init ==
  /\ backlog = {} /\ consumed = {} /\ expired = {}
  /\ height = 0 /\ block = <<>> /\ stage = "idle" /\ unwritten = {}
  /\ archive = EmptyArchive
  /\ pcs = [t \in Txs |-> "idle"] /\ forwarded = {} /\ stored = {}
  /\ waiting = [t \in Txs |-> None]

(***************************************************************************)
(* Submission                                                              *)
(***************************************************************************)

\* TransactionVerifier::verify and Backlog::insert refuse a transaction whose
\* sequence number is used up or whose expiration has passed.
Acceptable(t) == t \notin consumed /\ t \notin expired

\* submit_txn up to the dispatch: validation in a blocking task.
submit_txn(t) ==
  /\ pcs[t] = "idle"
  /\ pcs' = [pcs EXCEPT ![t] = IF Acceptable(t) THEN "store" ELSE "rejected"]
  /\ UNCHANGED <<storage, forwarded, stored, waiting>>

consume_unchecked(t) ==
  /\ pcs[t] = "store"
  /\ backlog' = backlog \union {t}
  /\ stored' = stored \union {t}
  /\ pcs' = [pcs EXCEPT ![t] = "forward"]
  /\ UNCHANGED <<consumed, expired, height, block, stage, unwritten, archive, forwarded, waiting>>

\* RpcStorage::consume.  The transaction may have become unacceptable since it
\* was verified, and the backlog may be full or hold it already.
consume(t) ==
  /\ pcs[t] = "store"
  /\ \/ /\ Acceptable(t)
        /\ backlog' = backlog \union {t}
        /\ stored' = stored \union {t}
        /\ pcs' = [pcs EXCEPT ![t] = "forward"]
     \/ /\ pcs' = [pcs EXCEPT ![t] = "rejected"]
        /\ UNCHANGED <<backlog, stored>>
  /\ UNCHANGED <<consumed, expired, height, block, stage, unwritten, archive, forwarded, waiting>>

\* RpcClient::consume.  An error interrupts the dispatch and leaves the
\* transaction in the backlog; the validator may have received it all the same.
forward(t) ==
  /\ pcs[t] = "forward"
  /\ \/ /\ pcs' = [pcs EXCEPT ![t] = "accepted"]
        /\ forwarded' = forwarded \union {t}
     \/ /\ pcs' = [pcs EXCEPT ![t] = "rejected"]
        /\ forwarded' \in {forwarded, forwarded \union {t}}
  /\ UNCHANGED <<storage, stored, waiting>>

\* TransactionDispatcher::send: the consumers in the order of registration.
send(t) == consume(t) \/ forward(t)

\* The client has its answer and may submit the transaction again.
Resubmit(t) ==
  /\ pcs[t] \in {"accepted", "rejected"}
  /\ pcs' = [pcs EXCEPT ![t] = "idle"]
  /\ UNCHANGED <<storage, forwarded, stored, waiting>>

(***************************************************************************)
(* Executed blocks                                                         *)
(***************************************************************************)

\* The executor has run the next block: the Move store holds its effects.  Any
\* transaction that is still valid can be in it, also one sent through another
\* node; others expire at its timestamp.
Execute(txs, gone) ==
  /\ stage = "idle" /\ height < MaxHeight
  /\ height' = height + 1
  /\ block' \in {f \in [txs -> Outcomes] : \A t \in txs \ Txs : f[t] \in {"Success", "Fail"}}
  /\ consumed' = consumed \union {t \in txs : block'[t] \in {"Success", "Fail"}}
  /\ expired' = expired \union gone
  /\ stage' = "expire"
  /\ UNCHANGED <<backlog, unwritten, archive, submission, waiting>>

\* insert_executed_block: expire, under the write lock of the backlog.
expire ==
  /\ stage = "expire"
  /\ backlog' = backlog \ expired
  /\ stage' = "finalize"
  /\ UNCHANGED <<consumed, expired, height, block, unwritten, archive, submission, waiting>>

\* The block's transactions leave the backlog under a second write lock.
finalize ==
  /\ stage = "finalize"
  /\ backlog' = backlog \ DOMAIN block
  /\ stage' = "archive"
  /\ unwritten' = Tables
  /\ UNCHANGED <<consumed, expired, height, block, archive, submission, waiting>>

\* The transactions that produced a final status in the block.
Finalized == {t \in DOMAIN block : block[t] \in Final}

Written_once(table) ==
  CASE table = "transaction" -> [archive EXCEPT !.transaction = @ \union DOMAIN block]
    [] table = "status" -> [archive EXCEPT !.status = [t \in Hashes |->
                              IF t \in DOMAIN block /\ @[t] = None THEN block[t] ELSE @[t]]]
    [] table = "output" -> [archive EXCEPT !.output = @ \union Finalized]
    [] table = "block_hash" -> [archive EXCEPT !.block_hash = [t \in Hashes |-> IF t \in Finalized THEN height ELSE @[t]]]
    [] table = "header" -> [archive EXCEPT !.header = @ \union {height}]

\* A later status of a transaction replaces an earlier one.
Written(table) ==
  CASE table = "transaction" -> [archive EXCEPT !.transaction = @ \union DOMAIN block]
    [] table = "status" -> [archive EXCEPT !.status = [t \in Hashes |-> IF t \in DOMAIN block THEN block[t] ELSE @[t]]]
    [] table = "output" -> [archive EXCEPT !.output = @ \union Finalized]
    [] table = "block_hash" -> [archive EXCEPT !.block_hash = [t \in Hashes |-> IF t \in Finalized THEN height ELSE @[t]]]
    [] table = "header" -> [archive EXCEPT !.header = @ \union {height}]

\* ArchiveDb::insert_executed_block, one table at a time.
WriteTable(table) ==
  /\ stage = "archive" /\ table \in unwritten
  /\ "transaction" \in unwritten => table = "transaction"
  /\ archive' = Written(table)
  /\ unwritten' = unwritten \ {table}
  /\ UNCHANGED <<backlog, consumed, expired, height, block, stage, submission, waiting>>

\* The lists of hashes come last, and insert_executed_block returns.
WriteIndex ==
  /\ stage = "archive" /\ unwritten = {}
  /\ archive' = [archive EXCEPT !.index[height] = Finalized]
  /\ stage' = "idle"
  /\ block' = <<>>
  /\ UNCHANGED <<backlog, consumed, expired, height, unwritten, submission, waiting>>

insert_executed_block ==
  \/ expire
  \/ finalize
  \/ \E table \in Tables : WriteTable(table)
  \/ WriteIndex

(***************************************************************************)
(* Waiting for execution                                                   *)
(***************************************************************************)

\* One poll of TxExecutionNotification::wait that ends the loop.  It reads the
\* archive only; polls that find nothing or a pending status change nothing.
wait(t) ==
  /\ waiting[t] = None
  /\ archive.status[t] \in Final
  /\ waiting' = [waiting EXCEPT ![t] = archive.status[t]]
  /\ UNCHANGED <<storage, submission>>

StorageNext ==
  \/ \E t \in Txs : submit_txn(t) \/ send(t) \/ Resubmit(t)
  \/ \E txs \in SUBSET {t \in Hashes : Acceptable(t)} :
       \E gone \in SUBSET (Txs \ (txs \union consumed \union expired)) : Execute(txs, gone)
  \/ insert_executed_block

Next == StorageNext \/ \E t \in Txs : wait(t)

Spec == Init /\ [][Next]_vars

(***************************************************************************)
(* Properties                                                              *)
(***************************************************************************)

\* A transaction is sent to the validators only after the local backlog accepted
\* it: "first try adding the tx to the local storage, and if successful, send it
\* further".
ForwardedWasStored == forwarded \subseteq stored

\* When no block is being inserted, the backlog holds nothing that the Move store
\* or the block timestamps have ruled out, however submissions and blocks
\* interleave.
BacklogIsCurrent == stage = "idle" => backlog \intersect (consumed \union expired) = {}

\* The archive can answer for the transaction: its body and status, and for a
\* final status its block.
Archived(t) ==
  /\ t \in archive.transaction
  /\ archive.status[t] # None
  /\ archive.status[t] \in Final => archive.block_hash[t] # 0

\* A stored transaction is neither in the backlog nor in the archive only while a
\* block is being inserted, or once it has expired: nothing else loses it, also
\* if forwarding it failed.
StoredIsKept ==
  stage = "idle" => \A t \in stored : t \in backlog \/ t \in expired \/ Archived(t)

\* Between two blocks the backlog is what is pending: nothing the chain has ruled
\* out, and everything stored that neither expired nor is in the archive.
BacklogIsExact == BacklogIsCurrent /\ StoredIsKept

\* wait reports every transaction that succeeded or failed, though it was polling
\* before, while and after its block was archived.
ExecutedIsReported == \A t \in Txs : t \in consumed ~> waiting[t] # None
=============================================================================
