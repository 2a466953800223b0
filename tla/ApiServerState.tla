--------------------------- MODULE ApiServerState ---------------------------
(***************************************************************************)
(* The lookups of the API server over RpcStorage.  A lookup holds no lock  *)
(* from one read to the next, so blocks are inserted and transactions      *)
(* submitted between any two of its reads.                                 *)
(***************************************************************************)
EXTENDS RpcStorage

VARIABLES
  q,         \* the lookup in progress
  seen,      \* history: the success or failure a client was told, per hash
  listed     \* history: hashes a client was told are in a block

api == <<seen, listed>>
apivars == <<vars, q, api>>

ByHash == {"any", "user", "auto", "meta"}
Lists == {"block", "account", "hashes"}

Idle == [pc |-> "idle", kind |-> None, mode |-> "user", hash |-> None, height |-> 0, todo |-> {},
         status |-> None, output |-> FALSE, answer |-> None, known |-> FALSE, transit |-> FALSE]

ApiInit ==
  /\ Init /\ q = Idle
  /\ seen = [t \in Hashes |-> None] /\ listed = {}

\* The reads of a lookup change nothing but the lookup.
Read(pc, next) ==
  /\ q.pc = pc
  /\ q' = next
  /\ UNCHANGED <<vars, api>>

Goto(pc) == [q EXCEPT !.pc = pc]

Answer(a) == [q EXCEPT !.pc = "answered", !.answer = a]

\* The transaction has expired, or a block that holds it is being inserted.
InTransit(t) == t \in expired \/ (stage # "idle" /\ t \in DOMAIN block)

Mode(h) == CASE h \in Automated -> "auto" [] h \in Metadata -> "meta" [] OTHER -> "user"

First(mode) == CASE mode = "user" -> "backlog" [] mode = "auto" -> "automated" [] mode = "meta" -> "metadata"

\* controller::get_transaction_by_hash: by type, or user, automated and metadata
\* transactions in turn.
get_transaction_by_hash(kind, h) ==
  LET mode == IF kind = "any" THEN "user" ELSE kind
  IN Read("idle", [Idle EXCEPT !.pc = First(mode), !.kind = kind, !.mode = mode, !.hash = h,
                               !.known = h \in stored, !.transit = InTransit(h)])

read_archive_only == Read("backlog", Goto("transaction"))

\* RpcStorage::get_transaction_by_hash: the backlog first.  (A debug build then
\* asserts that the archive does not hold what the backlog does.)
read_backlog == Read("backlog", Goto(IF q.hash \in backlog THEN "backlog_status" ELSE "transaction"))

\* TransactionNotFound: a lookup without a type goes on with the next kind of
\* transaction; otherwise, and inside a list, it is the answer.
NotFound ==
  CASE q.kind = "any" /\ q.mode = "user" -> [q EXCEPT !.pc = "automated", !.mode = "auto"]
    [] q.kind = "any" /\ q.mode = "auto" -> [q EXCEPT !.pc = "metadata", !.mode = "meta"]
    [] OTHER -> Answer("TransactionNotFound")

\* ArchiveReader::get_transaction.
read_transaction ==
  Read("transaction",
       IF q.hash \notin archive.transaction \intersect Txs THEN NotFound
       ELSE Goto(IF q.kind \in ByHash THEN "backlog_status" ELSE "status"))

\* ArchiveReader::get_automated_transaction_data.
read_automated ==
  Read("automated", IF q.hash \in archive.transaction \intersect Automated THEN Goto("status") ELSE NotFound)

\* get_block_metadata_by_hash: is_block_metadata_hash.
read_metadata ==
  Read("metadata", IF q.hash \in archive.transaction \intersect Metadata THEN Goto("status") ELSE NotFound)

\* RpcStorage::get_transaction_status: whatever is in the backlog is pending.
read_backlog_status ==
  Read("backlog_status",
       IF q.hash \in backlog THEN [Answer("info") EXCEPT !.status = "Pending"] ELSE Goto("status"))

\* ArchiveReader::get_transaction_status; ongoing transactions that were executed
\* and are pending again have neither output nor block.
read_status ==
  LET s == archive.status[q.hash] IN
  Read("status",
       IF s = None THEN Answer("MissingTransactionStatus")
       ELSE IF q.kind \in ByHash /\ q.mode = "user" /\ s = "PendingAfterExecution"
         THEN [Answer("info") EXCEPT !.status = s]
       ELSE [Goto("output") EXCEPT !.status = s])

\* get_finalized_transaction_output_and_block_info: the output, ...
read_output == Read("output", [Goto("block_hash") EXCEPT !.output = q.hash \in archive.output])

\* What is done with the info of one transaction: returned, or checked and added
\* to the list.
Deliver ==
  IF q.mode = "auto" /\ ~ q.output THEN Answer("MissingAutomatedTransactionOutput")
  ELSE IF q.mode = "meta" /\ ~ q.output THEN Answer("MissingBlockMetadataOutput")
  ELSE IF q.kind \in ByHash THEN Answer("info")
  ELSE IF q.kind = "block" /\ ~ q.output THEN Answer("MissingBlockTransactionOutput")
  ELSE Goto("list")

\* ... and the block; a header that is not there is left out of the info.
read_block_hash ==
  Read("block_hash", IF archive.block_hash[q.hash] = 0 THEN NotFound ELSE Deliver)

\* get_block_by_height: the header, then the hashes.
get_block_by_height(b) ==
  Read("idle", [Idle EXCEPT !.kind = "block", !.height = b,
                            !.pc = IF b \in archive.header THEN "hashes" ELSE "answered"])

\* get_txns_by_block_hash_and_type: the header by its hash, then the hashes.
get_txns_by_block_hash(b) ==
  Read("idle", [Idle EXCEPT !.kind = "hashes", !.height = b,
                            !.pc = IF b \in archive.header THEN "hashes" ELSE "answered"])

read_hashes ==
  Read("hashes", [q EXCEPT !.todo = IF q.kind = "hashes" THEN archive.index[q.height]
                                    ELSE archive.index[q.height] \ Metadata,
                           !.pc = IF q.kind = "hashes" THEN "answered" ELSE "list"])

\* The hash of the block's metadata transaction, then its data.
get_block_metadata_by_block_height(b) ==
  LET metas == archive.index[b] \intersect Metadata IN
  \/ metas = {} /\ Read("idle", [Idle EXCEPT !.pc = "answered"])
  \/ \E m \in metas : Read("idle", [Idle EXCEPT !.pc = "status", !.kind = "meta", !.mode = "meta", !.hash = m])

\* All hashes listed for an account so far, of one kind or of all.
Account(hashes) ==
  Read("idle", [Idle EXCEPT !.kind = "account", !.pc = "list",
                            !.todo = hashes \intersect UNION {archive.index[b] : b \in 1 .. MaxHeight}])

get_account_user_transactions == Account(Txs)

get_account_automated_transactions == Account(Automated)

get_account_coin_transactions == Account(Hashes)

\* Where the data of one listed transaction is read first: never in the backlog.
ListFirst(h) ==
  CASE h \in Txs -> "transaction" [] h \in Automated -> "automated" [] h \in Metadata -> "status"

ListFirst_ongoing(h) == IF h \in backlog THEN "block_hash" ELSE ListFirst(h)

list_entry_ongoing(h) ==
  /\ h \in q.todo
  /\ Read("list", [q EXCEPT !.todo = @ \ {h}, !.hash = h, !.mode = Mode(h), !.status = None,
                            !.output = FALSE, !.pc = ListFirst_ongoing(h)])

\* The next hash of the list, with its executed data.
list_entry(h) ==
  /\ h \in q.todo
  /\ Read("list", [q EXCEPT !.todo = @ \ {h}, !.hash = h, !.mode = Mode(h), !.status = None,
                            !.output = FALSE, !.pc = ListFirst(h)])

end_list == q.todo = {} /\ Read("list", Answer("list"))

\* The response is sent.
Respond ==
  /\ q.pc = "answered"
  /\ seen' = IF q.answer = "info" /\ q.status \in {"Success", "Fail"}
               THEN [seen EXCEPT ![q.hash] = q.status] ELSE seen
  /\ listed' = IF q.kind = "hashes" THEN listed \union q.todo ELSE listed
  /\ q' = Idle
  /\ UNCHANGED vars

Lookup ==
  \/ read_backlog \/ read_transaction \/ read_automated \/ read_metadata
  \/ read_backlog_status \/ read_status \/ read_output \/ read_block_hash
  \/ read_hashes \/ end_list \/ (\E h \in Hashes : list_entry(h)) \/ Respond

Query ==
  \/ \E kind \in ByHash, h \in Hashes : get_transaction_by_hash(kind, h)
  \/ \E b \in 1 .. MaxHeight :
       get_block_by_height(b) \/ get_txns_by_block_hash(b) \/ get_block_metadata_by_block_height(b)
  \/ get_account_user_transactions \/ get_account_automated_transactions \/ get_account_coin_transactions

\* A step of the storage while a lookup is under way.
Meanwhile ==
  /\ StorageNext
  /\ \E h \in {q.hash} : q' = [q EXCEPT !.transit = IF q.known THEN @ \/ InTransit(h)' ELSE @]
  /\ UNCHANGED api

ApiNext == Query \/ Lookup \/ Meanwhile

ApiSpec == ApiInit /\ [][ApiNext]_apivars

(***************************************************************************)
(* Properties                                                              *)
(***************************************************************************)

\* The answer about to be sent.
Told(a) == q.pc = "answered" /\ q.answer = a

\* Finality is stable for the client: once a lookup has shown that a transaction
\* succeeded or failed, every later lookup for it shows the same status.
FinalityStable ==
  q.pc = "answered" /\ q.kind \in {"any", Mode(q.hash)} /\ q.hash # None =>
    (seen[q.hash] # None => Told("info") /\ q.status = seen[q.hash])

\* A hash that a client was told belongs to a block can be looked up: it is not
\* answered with "Cannot find transaction" or without its status.
ListedIsFound ==
  q.pc = "answered" /\ q.kind \in {"any", Mode(q.hash)} /\ q.hash \in listed => q.answer = "info"

\* A stored transaction is reported as not found or without a status only if it
\* expired or its block was being inserted at some moment of the lookup.
LostOnlyInTransit ==
  q.kind \in {"any", "user"} /\ q.known
    /\ (Told("TransactionNotFound") \/ Told("MissingTransactionStatus")) => q.transit

\* Lookups never tell less than is known: what a client saw final stays final, and
\* what was stored is missed only while its block is inserted.
LookupsAgree == FinalityStable /\ LostOnlyInTransit

\* The branches that "will only be executed if the code has regressed" are not
\* executed: a listed hash always has its transaction, status, block and output,
\* while blocks are inserted and listed transactions are submitted again.
ListsComplete ==
  q.kind \in {"block", "account"} /\ q.pc = "answered" => q.answer \in {"list", None}

\* A hash that is listed with a block leads to the whole transaction, in the list
\* and in every later lookup.
ListedIsComplete == ListsComplete /\ ListedIsFound
=============================================================================
