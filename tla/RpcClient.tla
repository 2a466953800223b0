----------------------------- MODULE RpcClient -----------------------------
(***************************************************************************)
(* Commands of the CLI that send a transaction                             *)
(* (MoveTransactionOptions::send_transaction, tool_option.rs): the gas     *)
(* parameters are fetched and confirmed, the sequence number is read, the  *)
(* transaction is signed and posted, and await_finalized polls an RPC node *)
(* until the transaction is final or its time is over.  Several commands   *)
(* run at once for one account.  The chain and the RPC nodes are external: *)
(* a transaction is executed in sequence and before it expires, and a node *)
(* learns of it some time later.                                           *)
(***************************************************************************)
EXTENDS Integers, Sequences, FiniteSets

CONSTANTS
  Clients,       \* running commands, all of one account
  Nodes,         \* RPC nodes a profile can name
  expiration_secs,
  TX_FINALIZATION_MARGIN_SECS,
  RETRY_DELAY,
  Round,         \* longest time one request, or one round of the poll, takes
  Skew,          \* how far block time may be behind the clock of the command
  MaxLag,        \* how far an RPC node may be behind the chain
  MaxStart,      \* bound: latest time at which a transaction is signed
  NoTx

MaxTime == MaxStart + Round + expiration_secs + TX_FINALIZATION_MARGIN_SECS + Round + 1

ASSUME TimeAssumption ==
  /\ {expiration_secs, TX_FINALIZATION_MARGIN_SECS, RETRY_DELAY, Round, Skew, MaxLag, MaxStart} \subseteq Nat
  /\ RETRY_DELAY <= Round /\ 0 < Round /\ Round < expiration_secs
  /\ Skew <= TX_FINALIZATION_MARGIN_SECS

VARIABLES
  clock,
  log,      \* finalized transactions, in order: [tx, status, at]
  pool,     \* transactions a node has accepted
  synced,   \* length of the prefix of the log each RPC node has executed
  active,   \* the RPC node of the active profile
  faults,   \* which requests can fail, "read" or "post": the network does not change
  cli       \* per command: [pc, todo, resolve, url, seq, tx, since, slept, res]

vars == <<clock, log, pool, synced, active, faults, cli>>

Idle == [pc |-> "start", todo |-> <<>>, resolve |-> FALSE, url |-> active, seq |-> 0, tx |-> NoTx,
         since |-> 0, slept |-> FALSE, res |-> "none"]

Init ==
  /\ clock = 0 /\ log = <<>> /\ pool = {}
  /\ synced = [n \in Nodes |-> 0]
  /\ active \in Nodes /\ faults \in SUBSET {"read", "post"}
  /\ cli = [c \in Clients |-> Idle]

\* Fields of a command that a step changes.
Set(c, fields) == cli' = [cli EXCEPT ![c] = [f \in DOMAIN cli[c] |->
                             IF f \in DOMAIN fields THEN fields[f] ELSE cli[c][f]]]
End(c, res) == Set(c, [pc |-> "done", res |-> res, todo |-> <<>>, since |-> 0, slept |-> FALSE])

At(c, label) == cli[c].pc = label

\* Transactions of the first k entries that used up a sequence number.
SequenceNumber(k) == Cardinality({i \in 1 .. k : log[i].status \in {"Success", "Fail"}})

Final(t) == {i \in 1 .. Len(log) : log[i].tx = t}

\* What node n answers about transaction t.
Replies(n, t) ==
  LET known == {i \in Final(t) : i <= synced[n]}
  IN  IF known = {} THEN {"Pending", "absent"} ELSE {log[i].status : i \in known}

(***************************************************************************)
(* The command                                                             *)
(***************************************************************************)

\* simulate_signer_profile_transaction: the estimate is fetched even when a
\* price was given, the balance limits the gas, and then comes the request.
simulate_gas_fee == <<"estimate", "balance", "account", "simulate">>

confirm_or_modify_gas_parameters(max_gas, gas_unit_price) ==
  CASE max_gas /\ gas_unit_price   -> <<>>
    [] max_gas /\ ~gas_unit_price  -> <<"estimate", "prompt">>
    [] ~max_gas /\ gas_unit_price  -> simulate_gas_fee \o <<"prompt">>
    [] OTHER                       -> simulate_gas_fee \o <<"estimate", "prompt", "prompt">>

\* send_transaction: signer_profile_helper reads the profile.
Start(c) ==
  /\ At(c, "start")
  /\ \E max_gas, gas_unit_price, resolve \in BOOLEAN :
       Set(c, [pc |-> "gas", todo |-> confirm_or_modify_gas_parameters(max_gas, gas_unit_price),
               resolve |-> resolve, url |-> active])
  /\ UNCHANGED <<clock, log, pool, synced, active, faults>>

\* One request or prompt; a prompt takes as long as the user likes.  A frozen
\* balance, a failing simulation or a cancelled prompt ends the command.
Gas(c) ==
  /\ At(c, "gas") /\ cli[c].todo # <<>>
  /\ \/ Set(c, [todo |-> Tail(cli[c].todo)])
     \/ /\ Head(cli[c].todo) # "estimate" \/ "read" \in faults
        /\ End(c, "error")
  /\ UNCHANGED <<clock, log, pool, synced, active, faults>>

\* signed_transaction_request_helper: fetch_account_information_helper.
Account(c) ==
  /\ At(c, "gas") /\ cli[c].todo = <<>>
  /\ \/ Set(c, [pc |-> "sign", seq |-> SequenceNumber(synced[cli[c].url])])
     \/ "read" \in faults /\ End(c, "error")
  /\ UNCHANGED <<clock, log, pool, synced, active, faults>>

\* create_transaction, create_raw_user_transaction.
Transaction(c, now) == [by |-> c, seq |-> cli[c].seq, exp |-> now + expiration_secs]

CreateTransaction(c) ==
  /\ At(c, "sign") /\ clock <= MaxStart
  /\ Set(c, [pc |-> "post", tx |-> Transaction(c, clock), since |-> clock])
  /\ UNCHANGED <<clock, log, pool, synced, active, faults>>

\* What the node checks before it accepts a transaction.
Acceptable(t, n) == clock < t.exp /\ t.seq >= SequenceNumber(synced[n])

\* post_request and map_response.  A transaction whose answer is lost was sent
\* all the same.
PostTransaction(c) ==
  LET t == cli[c].tx
  IN  /\ At(c, "post")
      /\ \/ /\ Acceptable(t, cli[c].url)
            /\ pool' = pool \union {t}
            /\ \/ Set(c, [pc |-> IF cli[c].resolve THEN "poll" ELSE "info", since |-> clock])
               \/ "post" \in faults /\ End(c, "error")
         \/ /\ ~Acceptable(t, cli[c].url) \/ "post" \in faults
            /\ End(c, "error")
            /\ UNCHANGED pool
      /\ UNCHANGED <<clock, log, synced, active, faults>>

Poll_any_final(c) ==
  /\ At(c, "poll")
  /\ \/ \E reply \in Replies(cli[c].url, cli[c].tx) :
          IF reply \in {"Success", "Fail", "Invalid"}
          THEN Set(c, [pc |-> "info"])
          ELSE Set(c, [pc |-> "check", slept |-> reply = "Pending", since |-> clock])
     \/ "read" \in faults /\ Set(c, [pc |-> "check", slept |-> FALSE, since |-> clock])
  /\ UNCHANGED <<clock, log, pool, synced, active, faults>>

\* await_finalized, one request: a final status ends the wait, a transaction
\* that is not final sleeps, and an error goes straight to the timeout check.
\* await_finalized_with_success then tells Success from the others.
Poll(c) ==
  /\ At(c, "poll")
  /\ \/ \E reply \in Replies(cli[c].url, cli[c].tx) :
          CASE reply = "Success" -> Set(c, [pc |-> "info"])
            [] reply \in {"Fail", "Invalid"} -> End(c, "failed")
            [] OTHER -> Set(c, [pc |-> "check", slept |-> reply = "Pending", since |-> clock])
     \/ "read" \in faults /\ Set(c, [pc |-> "check", slept |-> FALSE, since |-> clock])
  /\ UNCHANGED <<clock, log, pool, synced, active, faults>>

Check_no_margin(c) ==
  /\ At(c, "check")
  /\ cli[c].slept => clock >= cli[c].since + RETRY_DELAY
  /\ IF clock >= cli[c].tx.exp THEN End(c, "timeout") ELSE Set(c, [pc |-> "poll", since |-> clock])
  /\ UNCHANGED <<clock, log, pool, synced, active, faults>>

Check_never(c) ==
  /\ At(c, "check")
  /\ cli[c].slept => clock >= cli[c].since + RETRY_DELAY
  /\ Set(c, [pc |-> "poll", since |-> clock])
  /\ UNCHANGED <<clock, log, pool, synced, active, faults>>

\* await_finalized, the end of a round.
Check(c) ==
  /\ At(c, "check")
  /\ cli[c].slept => clock >= cli[c].since + RETRY_DELAY
  /\ IF clock > cli[c].tx.exp + TX_FINALIZATION_MARGIN_SECS
     THEN End(c, "timeout")
     ELSE Set(c, [pc |-> "poll", since |-> clock])
  /\ UNCHANGED <<clock, log, pool, synced, active, faults>>

\* check_transaction_info reads the profile again: if another command changed
\* it meanwhile, another node is asked.
Info(c) ==
  /\ At(c, "info")
  /\ \/ \E reply \in Replies(active, cli[c].tx) :
          End(c, IF reply = "absent" THEN "error" ELSE "ok")
     \/ "read" \in faults /\ End(c, "error")
  /\ UNCHANGED <<clock, log, pool, synced, active, faults>>

\* Another invocation of the CLI activates a profile of another node.
ActivateProfile ==
  /\ active' \in Nodes \ {active}
  /\ UNCHANGED <<clock, log, pool, synced, faults, cli>>

(***************************************************************************)
(* The chain, the RPC nodes and time                                       *)
(***************************************************************************)
Finalize(t, status) ==
  /\ Final(t) = {}
  /\ clock <= t.exp + Skew
  /\ IF status = "Invalid" THEN t.seq < SequenceNumber(Len(log)) ELSE t.seq = SequenceNumber(Len(log))
  /\ log' = Append(log, [tx |-> t, status |-> status, at |-> clock])
  /\ UNCHANGED <<clock, pool, synced, active, faults, cli>>

Execute(n) ==
  /\ synced[n] < Len(log)
  /\ synced' = [synced EXCEPT ![n] = @ + 1]
  /\ UNCHANGED <<clock, log, pool, active, faults, cli>>

\* Time does not pass the bound on a node's lag, nor the end of a round.
Tick ==
  /\ clock < MaxTime
  /\ \A n \in Nodes : \A i \in synced[n] + 1 .. Len(log) : clock < log[i].at + MaxLag
  /\ \A c \in Clients : cli[c].pc \in {"post", "poll", "check"} => clock < cli[c].since + Round
  /\ clock' = clock + 1
  /\ UNCHANGED <<log, pool, synced, active, faults, cli>>

Step(c) == Start(c) \/ Gas(c) \/ Account(c) \/ CreateTransaction(c) \/ PostTransaction(c)
           \/ Poll(c) \/ Check(c) \/ Info(c)

Next ==
  \/ \E c \in Clients : Step(c)
  \/ \E t \in pool, status \in {"Success", "Fail", "Invalid"} : Finalize(t, status)
  \/ \E n \in Nodes : Execute(n)
  \/ ActivateProfile
  \/ Tick

Spec == Init /\ [][Next]_vars

(***************************************************************************)
(* Properties                                                              *)
(***************************************************************************)

\* What a command reports is what the chain did with its own transaction: a
\* command that waits for success ends well only if the transaction succeeded,
\* and reports a failure only if it was finalized without success.  It says "was
\* not finalized within its expiration timestamp" only of a transaction that was
\* not finalized, if its polls are answered and the margin covers the skew, the
\* lag of a node and a round.
ReportMatchesChain ==
  \A c \in Clients :
    /\ (cli[c].res = "ok" /\ cli[c].resolve) =>
         \E i \in Final(cli[c].tx) : log[i].status = "Success"
    /\ cli[c].res = "failed" =>
         \E i \in Final(cli[c].tx) : log[i].status # "Success"
    /\ "read" \notin faults /\ Skew + MaxLag + Round <= TX_FINALIZATION_MARGIN_SECS =>
         (cli[c].res = "timeout" => Final(cli[c].tx) = {})

\* The lifetime of a transaction starts when it is signed: however long the
\* user took to confirm the gas, it has not expired when it is posted.
PostedAlive == \A c \in Clients : At(c, "post") => clock < cli[c].tx.exp

\* A command that gave up on its transaction is never contradicted later: the
\* chain no longer takes the transaction ("otherwise tx is going to be scraped
\* by the consensus").
TimeoutIsFinal ==
  [][\A c \in Clients : cli[c].res = "timeout" =>
       \A i \in 1 .. Len(log') : log'[i].tx = cli[c].tx => i <= Len(log)]_vars

\* Every command that posted its transaction ends, whatever the chain and the
\* network do.
CommandEnds == \A c \in Clients : At(c, "post") ~> At(c, "done")
=============================================================================
