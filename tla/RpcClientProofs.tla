-------------------------- MODULE RpcClientProofs --------------------------
(***************************************************************************)
(* The properties of RpcClient for any number of commands and RPC nodes,   *)
(* any times and any faults.  Time is what is argued about: a transaction  *)
(* lives from its signature for expiration_secs, the post follows the      *)
(* signature within a round, and a command gives up only past the margin,  *)
(* when no block can be behind far enough to take it and its last poll was *)
(* late enough for every node to know what the chain did.                  *)
(***************************************************************************)
EXTENDS RpcClient, FiniteSetTheorems, TLAPS

Fields == {"pc", "todo", "resolve", "url", "seq", "tx", "since", "slept", "res"}
Txs == [by : Clients, seq : Nat, exp : Nat]
Entries == [tx : Txs, status : {"Success", "Fail", "Invalid"}, at : Nat]

TypeOK ==
  /\ clock \in Nat
  /\ log \in Seq(Entries)
  /\ pool \subseteq Txs
  /\ synced \in [Nodes -> Nat]
  /\ active \in Nodes
  /\ DOMAIN cli = Clients

\* The state of a command is a function on its fields.
Structured(c) == DOMAIN cli[c] = Fields /\ cli[c] = [f \in Fields |-> cli[c][f]]

\* The times of one command.
Timely(c) ==
  /\ Structured(c)
  /\ cli[c].url \in Nodes /\ cli[c].seq \in Nat /\ cli[c].since \in Nat
  /\ cli[c].res = "timeout" => At(c, "done")
  /\ At(c, "post") \/ At(c, "poll") \/ At(c, "check") \/ cli[c].res = "timeout" => cli[c].tx \in Txs
  /\ At(c, "post") => cli[c].tx.exp = cli[c].since + expiration_secs /\ clock <= cli[c].since + Round
  /\ cli[c].res = "timeout" => clock > cli[c].tx.exp + TX_FINALIZATION_MARGIN_SECS

IInv == TypeOK /\ \A c \in Clients : Timely(c)

LEMMA Times ==
  /\ expiration_secs \in Nat /\ TX_FINALIZATION_MARGIN_SECS \in Nat /\ RETRY_DELAY \in Nat /\ Round \in Nat
  /\ Skew \in Nat /\ MaxLag \in Nat /\ MaxStart \in Nat
  /\ RETRY_DELAY <= Round /\ 0 < Round /\ Round < expiration_secs
  /\ Skew <= TX_FINALIZATION_MARGIN_SECS
BY TimeAssumption

USE Times

LEMMA SequenceNumberType == ASSUME NEW k \in Nat PROVE SequenceNumber(k) \in Nat
<1>1. IsFiniteSet(1 .. k)
  <2>1. 1 \in Int /\ k \in Int OBVIOUS
  <2> QED BY <2>1, FS_Interval, Zenon
<1>2. IsFiniteSet({i \in 1 .. k : log[i].status \in {"Success", "Fail"}}) BY <1>1, FS_Subset
<1> QED BY <1>2, FS_CardinalityType DEF SequenceNumber

\* What Set does to the command that takes the step, and to the others.
LEMMA SetFields ==
  ASSUME IInv, NEW c \in Clients, NEW fields, DOMAIN fields \subseteq Fields, Set(c, fields)
  PROVE  /\ DOMAIN cli' = Clients
         /\ \A d \in Clients \ {c} : cli'[d] = cli[d]
         /\ Structured(c)'
         /\ \A f \in Fields : cli'[c][f] = IF f \in DOMAIN fields THEN fields[f] ELSE cli[c][f]
BY DEF IInv, TypeOK, Timely, Structured, Set

LEMMA InitHolds == Init => IInv
<1> SUFFICES ASSUME Init PROVE IInv OBVIOUS
<1>1. TypeOK BY DEF Init, TypeOK
<1>2. ASSUME NEW c \in Clients PROVE Timely(c)
  <2>1. cli[c] = Idle BY DEF Init
  <2>2. DOMAIN Idle = Fields /\ Idle = [f \in Fields |-> Idle[f]] BY DEF Idle, Fields
  <2>3. Structured(c) BY <2>1, <2>2 DEF Structured
  <2> QED BY <2>1, <2>3 DEF Idle, Timely, At, Init
<1> QED BY <1>1, <1>2 DEF IInv

\* A step of one command that neither posts nor moves the clock keeps the
\* invariant if the command itself is timely afterwards.
LEMMA OneCommand ==
  ASSUME IInv, NEW c \in Clients, NEW fields, DOMAIN fields \subseteq Fields, Set(c, fields),
         UNCHANGED <<clock, log, synced, active, faults>>, pool' \subseteq Txs, Timely(c)'
  PROVE  IInv'
<1>1. TypeOK' BY SetFields DEF IInv, TypeOK
<1>2. ASSUME NEW d \in Clients \ {c} PROVE Timely(d)'
  BY <1>2, SetFields DEF IInv, Timely, Structured, At
<1> QED BY <1>1, <1>2 DEF IInv

\* A command that ends for another reason than its timeout.
LEMMA EndHolds ==
  ASSUME IInv, NEW c \in Clients, NEW res, End(c, res), cli[c].res # "timeout",
         res = "timeout" => cli[c].tx \in Txs /\ clock > cli[c].tx.exp + TX_FINALIZATION_MARGIN_SECS,
         UNCHANGED <<clock, log, synced, active, faults>>, pool' \subseteq Txs
  PROVE  IInv'
<1> DEFINE fields == [pc |-> "done", res |-> res, todo |-> <<>>, since |-> 0, slept |-> FALSE]
<1>1. DOMAIN fields \subseteq Fields /\ Set(c, fields) BY DEF Fields, End
<1>2. /\ cli'[c].pc = "done" /\ cli'[c].res = res /\ cli'[c].since = 0
      /\ cli'[c].url = cli[c].url /\ cli'[c].seq = cli[c].seq /\ cli'[c].tx = cli[c].tx
      /\ Structured(c)'
  BY <1>1, SetFields DEF Fields
<1>3. Timely(c)' BY <1>2 DEF IInv, Timely, At
<1> HIDE DEF fields
<1> QED BY <1>1, <1>3, OneCommand

\* A running command that goes on: its transaction is one where it must be.
LEMMA GoOn ==
  ASSUME IInv, NEW c \in Clients, NEW fields, DOMAIN fields \subseteq {"pc", "todo", "resolve", "url", "seq", "since", "slept"},
         Set(c, fields), cli[c].res # "timeout",
         "pc" \in DOMAIN fields =>
           fields.pc # "post" /\ (fields.pc \in {"poll", "check"} => cli[c].tx \in Txs),
         "url" \in DOMAIN fields => fields.url \in Nodes,
         "seq" \in DOMAIN fields => fields.seq \in Nat,
         "since" \in DOMAIN fields => fields.since \in Nat /\ "pc" \in DOMAIN fields,
         ~At(c, "post") \/ "pc" \in DOMAIN fields,
         UNCHANGED <<clock, log, synced, active, faults>>, pool' \subseteq Txs
  PROVE  IInv'
<1>1. DOMAIN fields \subseteq Fields BY DEF Fields
<1>2. /\ \A f \in Fields : cli'[c][f] = IF f \in DOMAIN fields THEN fields[f] ELSE cli[c][f]
      /\ Structured(c)'
  BY <1>1, SetFields
<1>3. cli'[c].tx = cli[c].tx /\ cli'[c].res = cli[c].res BY <1>2 DEF Fields
<1>4. cli'[c].url \in Nodes /\ cli'[c].seq \in Nat /\ cli'[c].since \in Nat
  BY <1>2 DEF Fields, IInv, Timely
<1>5. cli'[c].pc # "post" /\ (cli'[c].pc \in {"poll", "check"} => cli[c].tx \in Txs)
  BY <1>2 DEF Fields, IInv, Timely, At
<1>6. Timely(c)' BY <1>2, <1>3, <1>4, <1>5 DEF IInv, Timely, At
<1> QED BY <1>1, <1>6, OneCommand

LEMMA StartHolds == ASSUME IInv, NEW c \in Clients, Start(c) PROVE IInv'
<1>1. At(c, "start") /\ UNCHANGED <<clock, log, pool, synced, active, faults>> BY DEF Start
<1>2. PICK max_gas \in BOOLEAN, gas_unit_price \in BOOLEAN, resolve \in BOOLEAN :
        Set(c, [pc |-> "gas", todo |-> confirm_or_modify_gas_parameters(max_gas, gas_unit_price),
                resolve |-> resolve, url |-> active])
  BY DEF Start
<1> QED BY <1>1, <1>2, GoOn, Zenon DEF IInv, TypeOK, Timely, At

LEMMA GasHolds == ASSUME IInv, NEW c \in Clients, Gas(c) PROVE IInv'
<1>1. /\ At(c, "gas") /\ UNCHANGED <<clock, log, pool, synced, active, faults>>
      /\ cli[c].res # "timeout" /\ pool' \subseteq Txs
  BY DEF Gas, IInv, TypeOK, Timely, At
<1>2. CASE Set(c, [todo |-> Tail(cli[c].todo)]) BY <1>1, <1>2, GoOn DEF At
<1>3. CASE End(c, "error") BY <1>1, <1>3, EndHolds
<1> QED BY <1>2, <1>3 DEF Gas

LEMMA AccountHolds == ASSUME IInv, NEW c \in Clients, Account(c) PROVE IInv'
<1>1. /\ At(c, "gas") /\ UNCHANGED <<clock, log, pool, synced, active, faults>>
      /\ cli[c].res # "timeout" /\ pool' \subseteq Txs
  BY DEF Account, IInv, TypeOK, Timely, At
<1>2. CASE Set(c, [pc |-> "sign", seq |-> SequenceNumber(synced[cli[c].url])])
  <2>1. synced[cli[c].url] \in Nat BY DEF IInv, TypeOK, Timely
  <2>2. SequenceNumber(synced[cli[c].url]) \in Nat BY <2>1, SequenceNumberType
  <2> QED BY <1>1, <1>2, <2>2, GoOn
<1>3. CASE End(c, "error") BY <1>1, <1>3, EndHolds
<1> QED BY <1>2, <1>3 DEF Account

\* The lifetime of the transaction starts here.
LEMMA CreateTransactionHolds == ASSUME IInv, NEW c \in Clients, CreateTransaction(c) PROVE IInv'
<1> DEFINE fields == [pc |-> "post", tx |-> Transaction(c, clock), since |-> clock]
<1>1. At(c, "sign") /\ Set(c, fields) /\ UNCHANGED <<clock, log, pool, synced, active, faults>>
  BY DEF CreateTransaction
<1>2. DOMAIN fields \subseteq Fields BY DEF Fields
<1>3. /\ cli'[c].pc = "post" /\ cli'[c].tx = Transaction(c, clock) /\ cli'[c].since = clock
      /\ cli'[c].url = cli[c].url /\ cli'[c].seq = cli[c].seq /\ cli'[c].res = cli[c].res
      /\ Structured(c)'
  BY <1>1, <1>2, SetFields DEF Fields
<1>4. Transaction(c, clock) \in Txs /\ Transaction(c, clock).exp = clock + expiration_secs
  BY DEF Transaction, Txs, IInv, TypeOK, Timely
<1>5. cli[c].res # "timeout" BY <1>1 DEF IInv, Timely, At
<1>6. Timely(c)' BY <1>1, <1>3, <1>4, <1>5 DEF IInv, TypeOK, Timely, At
<1> HIDE DEF fields
<1> QED BY <1>1, <1>2, <1>6, OneCommand DEF IInv, TypeOK

LEMMA PostTransactionHolds == ASSUME IInv, NEW c \in Clients, PostTransaction(c) PROVE IInv'
<1>1. /\ At(c, "post") /\ UNCHANGED <<clock, log, synced, active, faults>>
      /\ cli[c].res # "timeout" /\ cli[c].tx \in Txs /\ clock \in Nat
  BY DEF PostTransaction, IInv, TypeOK, Timely, At
<1>2. pool' \subseteq Txs BY <1>1 DEF PostTransaction, IInv, TypeOK
<1>3. CASE Set(c, [pc |-> IF cli[c].resolve THEN "poll" ELSE "info", since |-> clock])
  BY <1>1, <1>2, <1>3, GoOn
<1>4. CASE End(c, "error") BY <1>1, <1>2, <1>4, EndHolds
<1> QED BY <1>3, <1>4 DEF PostTransaction

LEMMA PollHolds == ASSUME IInv, NEW c \in Clients, Poll(c) PROVE IInv'
<1>1. /\ At(c, "poll") /\ UNCHANGED <<clock, log, pool, synced, active, faults>>
      /\ cli[c].res # "timeout" /\ cli[c].tx \in Txs /\ clock \in Nat /\ pool' \subseteq Txs
  BY DEF Poll, IInv, TypeOK, Timely, At
<1>2. CASE Set(c, [pc |-> "info"]) BY <1>1, <1>2, GoOn
<1>3. CASE End(c, "failed") BY <1>1, <1>3, EndHolds
<1>4. ASSUME NEW slept, Set(c, [pc |-> "check", slept |-> slept, since |-> clock]) PROVE IInv'
  BY <1>1, <1>4, GoOn
<1> QED BY <1>2, <1>3, <1>4, Zenon DEF Poll

\* A command gives up only past the margin.
LEMMA CheckHolds == ASSUME IInv, NEW c \in Clients, Check(c) PROVE IInv'
<1>1. /\ At(c, "check") /\ UNCHANGED <<clock, log, pool, synced, active, faults>>
      /\ cli[c].res # "timeout" /\ cli[c].tx \in Txs /\ clock \in Nat /\ pool' \subseteq Txs
  BY DEF Check, IInv, TypeOK, Timely, At
<1>2. CASE End(c, "timeout") /\ clock > cli[c].tx.exp + TX_FINALIZATION_MARGIN_SECS
  BY <1>1, <1>2, EndHolds
<1>3. CASE Set(c, [pc |-> "poll", since |-> clock]) BY <1>1, <1>3, GoOn
<1> QED BY <1>2, <1>3 DEF Check

LEMMA InfoHolds == ASSUME IInv, NEW c \in Clients, Info(c) PROVE IInv'
<1>1. /\ At(c, "info") /\ UNCHANGED <<clock, log, pool, synced, active, faults>>
      /\ cli[c].res # "timeout" /\ pool' \subseteq Txs
  BY DEF Info, IInv, TypeOK, Timely, At
<1>2. PICK res \in {"ok", "error"} : End(c, res) BY DEF Info
<1> QED BY <1>1, <1>2, EndHolds

\* The chain, the nodes and time.
LEMMA OutsideHolds ==
  ASSUME IInv, (\E t \in pool, status \in {"Success", "Fail", "Invalid"} : Finalize(t, status))
               \/ (\E n \in Nodes : Execute(n)) \/ ActivateProfile \/ Tick
  PROVE  IInv'
<1>1. ASSUME NEW t \in pool, NEW status \in {"Success", "Fail", "Invalid"}, Finalize(t, status) PROVE IInv'
  <2>1. log' = Append(log, [tx |-> t, status |-> status, at |-> clock]) /\ UNCHANGED <<clock, pool, synced, active, faults, cli>>
    BY <1>1 DEF Finalize
  <2>2. [tx |-> t, status |-> status, at |-> clock] \in Entries BY DEF Entries, IInv, TypeOK
  <2>3. log' \in Seq(Entries) BY <2>1, <2>2 DEF IInv, TypeOK
  <2> QED BY <2>1, <2>3 DEF IInv, TypeOK, Timely, Structured, At
<1>2. ASSUME NEW n \in Nodes, Execute(n) PROVE IInv'
  BY <1>2 DEF Execute, IInv, TypeOK, Timely, Structured, At
<1>3. CASE ActivateProfile
  BY <1>3 DEF ActivateProfile, IInv, TypeOK, Timely, Structured, At
<1>4. CASE Tick
  <2>1. TypeOK' BY <1>4 DEF Tick, IInv, TypeOK
  <2>2. ASSUME NEW c \in Clients PROVE Timely(c)'
    <3>1. clock' = clock + 1 /\ cli' = cli /\ (At(c, "post") => clock < cli[c].since + Round)
      BY <1>4 DEF Tick, At
    <3>2. Timely(c) /\ clock \in Nat BY DEF IInv, TypeOK
    <3>3. Structured(c)' BY <3>1, <3>2 DEF Timely, Structured
    <3>4. At(c, "post") => clock' <= cli[c].since + Round BY <3>1, <3>2 DEF Timely
    <3>5. cli[c].res = "timeout" => clock' > cli[c].tx.exp + TX_FINALIZATION_MARGIN_SECS
      BY <3>1, <3>2 DEF Timely, Txs
    <3> QED BY <3>1, <3>2, <3>3, <3>4, <3>5 DEF Timely, At
  <2> QED BY <2>1, <2>2 DEF IInv
<1> QED BY <1>1, <1>2, <1>3, <1>4

LEMMA StepHolds == IInv /\ [Next]_vars => IInv'
<1> SUFFICES ASSUME IInv, [Next]_vars PROVE IInv' OBVIOUS
<1>1. ASSUME NEW c \in Clients, Step(c) PROVE IInv'
  BY <1>1, StartHolds, GasHolds, AccountHolds, CreateTransactionHolds, PostTransactionHolds,
     PollHolds, CheckHolds, InfoHolds DEF Step
<1>2. CASE UNCHANGED vars BY <1>2 DEF vars, IInv, TypeOK, Timely, Structured, At
<1> QED BY <1>1, <1>2, OutsideHolds DEF Next

\* A transaction is posted before it expires, however long the user took to
\* confirm the gas parameters.
THEOREM PostedIsAlwaysAlive == Spec => []PostedAlive
<1>1. ASSUME IInv, NEW c \in Clients, At(c, "post") PROVE clock < cli[c].tx.exp
  <2>1. /\ clock \in Nat /\ cli[c].since \in Nat
        /\ cli[c].tx.exp = cli[c].since + expiration_secs /\ clock <= cli[c].since + Round
    BY <1>1 DEF IInv, TypeOK, Timely
  <2> QED BY <2>1
<1>2. IInv => PostedAlive BY <1>1 DEF PostedAlive
<1> QED BY <1>2, InitHolds, StepHolds, PTL DEF Spec

\* No step puts the transaction of a command that gave up on the chain.
LEMMA TimeoutStep ==
  ASSUME IInv, [Next]_vars, NEW c \in Clients, cli[c].res = "timeout", NEW i \in 1 .. Len(log'), log'[i].tx = cli[c].tx
  PROVE  i <= Len(log)
<1>1. CASE log' = log BY <1>1
<1>2. ASSUME NEW t \in pool, NEW status, Finalize(t, status) PROVE i <= Len(log)
  <2>1. log' = Append(log, [tx |-> t, status |-> status, at |-> clock]) /\ clock <= t.exp + Skew
    BY <1>2 DEF Finalize
  <2>2. Len(log') = Len(log) + 1 /\ Len(log) \in Nat /\ log'[Len(log) + 1].tx = t
    BY <2>1 DEF IInv, TypeOK
  <2>3. clock > cli[c].tx.exp + TX_FINALIZATION_MARGIN_SECS /\ clock \in Nat BY DEF IInv, TypeOK, Timely
  <2>4. t \in Txs /\ t.exp \in Nat BY DEF IInv, TypeOK, Txs
  <2>5. t # cli[c].tx BY <2>1, <2>3, <2>4
  <2> QED BY <2>2, <2>5
<1>3. log' = log \/ \E t \in pool, status \in {"Success", "Fail", "Invalid"} : Finalize(t, status)
  <2>1. CASE \E n \in Nodes : Execute(n)
    BY <2>1 DEF Execute
  <2>2. CASE ActivateProfile \/ Tick \/ UNCHANGED vars
    BY <2>2 DEF ActivateProfile, Tick, vars
  <2>3. ASSUME NEW n \in Clients, Step(n) PROVE log' = log
    <3>1. CASE Start(n) \/ Gas(n) \/ Account(n) \/ CreateTransaction(n)
      BY <3>1 DEF Start, Gas, Account, CreateTransaction
    <3>2. CASE PostTransaction(n) \/ Poll(n) \/ Check(n) \/ Info(n)
      BY <3>2 DEF PostTransaction, Poll, Check, Info
    <3>3. QED
      BY <2>3, <3>1, <3>2 DEF Step
  <2>4. QED
    BY <2>1, <2>2, <2>3 DEF Next
<1> QED BY <1>1, <1>2, <1>3

\* A command that reports a timeout is never contradicted later, whichever
\* requests failed: block time cannot be behind the clock by the margin.
THEOREM TimeoutIsAlwaysFinal == Spec => TimeoutIsFinal
<1>1. IInv /\ [Next]_vars =>
        [\A c \in Clients : cli[c].res = "timeout" =>
           \A i \in 1 .. Len(log') : log'[i].tx = cli[c].tx => i <= Len(log)]_vars
  BY TimeoutStep
<1> QED BY <1>1, InitHolds, StepHolds, PTL DEF Spec, TimeoutIsFinal

(***************************************************************************)
(* What a command reports                                                  *)
(***************************************************************************)

Succeeded(t) == \E i \in Final(t) : log[i].status = "Success"
Unsuccessful(t) == \E i \in Final(t) : log[i].status # "Success"

\* The polls are answered, and the margin covers the skew, the lag and a round.
Assured == "read" \notin faults /\ Skew + MaxLag + Round <= TX_FINALIZATION_MARGIN_SECS

\* A block takes a transaction soon after it expired at the latest, and a node
\* that does not have it yet is not behind for longer than the lag.
LogTimes ==
  /\ \A i \in 1 .. Len(log) : log[i].at <= log[i].tx.exp + Skew
  /\ \A n \in Nodes : \A i \in synced[n] + 1 .. Len(log) : clock <= log[i].at + MaxLag

\* What a command has been told, and what a poll without an answer means so late
\* that nothing can be on its way any more.
Honest(c) ==
  /\ cli[c].res # "none" => At(c, "done")
  /\ cli[c].resolve /\ (At(c, "info") \/ cli[c].res = "ok") => Succeeded(cli[c].tx)
  /\ cli[c].res = "failed" => Unsuccessful(cli[c].tx)
  /\ At(c, "check") => cli[c].since <= clock /\ clock <= cli[c].since + Round
  /\ Assured /\ At(c, "check") /\ cli[c].since > cli[c].tx.exp + Skew + MaxLag => Final(cli[c].tx) = {}
  /\ Assured /\ cli[c].res = "timeout" => Final(cli[c].tx) = {}

ReportInv == IInv /\ LogTimes /\ \A c \in Clients : Honest(c)

LEMMA ReportInitHolds == Init => LogTimes /\ \A c \in Clients : Honest(c)
<1> SUFFICES ASSUME Init PROVE LogTimes /\ \A c \in Clients : Honest(c)
  OBVIOUS
<1>1. LogTimes
  BY DEF Init, LogTimes
<1>2. ASSUME NEW c \in Clients PROVE Honest(c)
  <2>1. cli[c].pc = "start" /\ cli[c].res = "none"
    BY DEF Init, Idle
  <2>2. QED
    BY <2>1 DEF Honest, At
<1>3. QED
  BY <1>1, <1>2

\* A step of one command concerns its own report only.
LEMMA OneReport ==
  ASSUME ReportInv, NEW c \in Clients, NEW fields, DOMAIN fields \subseteq Fields, Set(c, fields),
         UNCHANGED <<clock, log, synced, faults>>, Honest(c)'
  PROVE  LogTimes' /\ \A d \in Clients : Honest(d)'
<1>1. \A d \in Clients \ {c} : cli'[d] = cli[d]
  BY SetFields DEF ReportInv
<1>2. LogTimes'
  BY DEF ReportInv, LogTimes
<1>3. ASSUME NEW d \in Clients \ {c} PROVE Honest(d)'
  <2>1. Honest(d) /\ cli'[d] = cli[d]
    BY <1>1 DEF ReportInv
  <2>2. \A t : /\ Succeeded(t)' = Succeeded(t) /\ Unsuccessful(t)' = Unsuccessful(t)
              /\ Final(t)' = Final(t) /\ Assured' = Assured
    BY DEF Succeeded, Unsuccessful, Final, Assured
  <2>3. QED
    BY <2>1, <2>2 DEF Honest, At
<1>4. QED
  BY <1>2, <1>3

LEMMA EndReport ==
  ASSUME ReportInv, NEW c \in Clients, NEW res, End(c, res), UNCHANGED <<clock, log, synced, faults>>,
         res = "ok" /\ cli[c].resolve => Succeeded(cli[c].tx),
         res = "failed" => Unsuccessful(cli[c].tx),
         res = "timeout" /\ Assured => Final(cli[c].tx) = {}
  PROVE  LogTimes' /\ \A d \in Clients : Honest(d)'
<1> DEFINE fields == [pc |-> "done", res |-> res, todo |-> <<>>, since |-> 0, slept |-> FALSE]
<1>1. DOMAIN fields \subseteq Fields /\ Set(c, fields)
  BY DEF Fields, End
<1>2. cli'[c].pc = "done" /\ cli'[c].res = res /\ cli'[c].tx = cli[c].tx /\ cli'[c].resolve = cli[c].resolve
  BY <1>1, SetFields DEF Fields, ReportInv
<1>3. Honest(c)'
  BY <1>2 DEF Honest, At, Succeeded, Unsuccessful, Final, Assured
<1> HIDE DEF fields
<1>4. QED
  BY <1>1, <1>3, OneReport

\* A command that goes on has reported nothing yet.
LEMMA GoOnReport ==
  ASSUME ReportInv, NEW c \in Clients, NEW fields, DOMAIN fields \subseteq Fields \ {"res"}, Set(c, fields),
         UNCHANGED <<clock, log, synced, faults>>, ~At(c, "done"),
         "pc" \in DOMAIN fields => fields.pc \in {"gas", "sign", "post", "poll"},
         "pc" \in DOMAIN fields \/ At(c, "gas")
  PROVE  LogTimes' /\ \A d \in Clients : Honest(d)'
<1>1. DOMAIN fields \subseteq Fields
  OBVIOUS
<1>2. \A f \in Fields : cli'[c][f] = IF f \in DOMAIN fields THEN fields[f] ELSE cli[c][f]
  BY <1>1, SetFields DEF ReportInv
<1>3. cli'[c].res = "none" /\ cli'[c].pc \in {"gas", "sign", "post", "poll"}
  BY <1>2 DEF Fields, ReportInv, Honest, At
<1>4. Honest(c)'
  BY <1>3 DEF Honest, At
<1>5. QED
  BY <1>1, <1>4, OneReport

LEMMA PrepareReport ==
  ASSUME ReportInv, NEW c \in Clients, Start(c) \/ Gas(c) \/ Account(c) \/ CreateTransaction(c)
  PROVE  LogTimes' /\ \A d \in Clients : Honest(d)'
<1>1. UNCHANGED <<clock, log, synced, faults>> /\ (At(c, "start") \/ At(c, "gas") \/ At(c, "sign"))
  BY DEF Start, Gas, Account, CreateTransaction
<1>2. ~At(c, "done")
  BY <1>1 DEF At
<1>3. CASE End(c, "error")
  BY <1>1, <1>3, EndReport
<1>4. CASE Start(c)
  <2>1. PICK max_gas \in BOOLEAN, gas_unit_price \in BOOLEAN, resolve \in BOOLEAN :
          Set(c, [pc |-> "gas", todo |-> confirm_or_modify_gas_parameters(max_gas, gas_unit_price),
                  resolve |-> resolve, url |-> active])
    BY <1>4 DEF Start
  <2>2. QED
    BY <1>1, <1>2, <2>1, GoOnReport DEF Fields
<1>5. CASE At(c, "gas") /\ Set(c, [todo |-> Tail(cli[c].todo)])
  BY <1>1, <1>2, <1>5, GoOnReport DEF Fields
<1>6. CASE Set(c, [pc |-> "sign", seq |-> SequenceNumber(synced[cli[c].url])])
  BY <1>1, <1>2, <1>6, GoOnReport DEF Fields
<1>7. CASE Set(c, [pc |-> "post", tx |-> Transaction(c, clock), since |-> clock])
  BY <1>1, <1>2, <1>7, GoOnReport DEF Fields
<1>8. QED
  BY <1>3, <1>4, <1>5, <1>6, <1>7 DEF Gas, Account, CreateTransaction

\* Only a command that does not wait goes from the post to the info.
LEMMA PostReport ==
  ASSUME ReportInv, NEW c \in Clients, PostTransaction(c)
  PROVE  LogTimes' /\ \A d \in Clients : Honest(d)'
<1>1. UNCHANGED <<clock, log, synced, faults>> /\ At(c, "post") /\ ~At(c, "done")
  BY DEF PostTransaction, At
<1>2. CASE End(c, "error")
  BY <1>1, <1>2, EndReport
<1>3. CASE Set(c, [pc |-> IF cli[c].resolve THEN "poll" ELSE "info", since |-> clock])
  <2> DEFINE fields == [pc |-> IF cli[c].resolve THEN "poll" ELSE "info", since |-> clock]
  <2>1. DOMAIN fields \subseteq Fields
    BY DEF Fields
  <2>2. /\ cli'[c].pc = IF cli[c].resolve THEN "poll" ELSE "info"
        /\ cli'[c].res = cli[c].res /\ cli'[c].resolve = cli[c].resolve
    BY <1>3, <2>1, SetFields DEF Fields, ReportInv
  <2>3. cli[c].res = "none"
    BY <1>1 DEF ReportInv, Honest
  <2>4. Honest(c)'
    BY <2>2, <2>3 DEF Honest, At
  <2> HIDE DEF fields
  <2>5. Set(c, fields)
    BY <1>3 DEF fields
  <2>6. QED
    BY <1>1, <2>1, <2>4, <2>5, OneReport
<1>4. QED
  BY <1>2, <1>3 DEF PostTransaction

\* A poll without an answer, later than skew and lag allow: the transaction is not
\* on the chain, or the node would have to know it.
LEMMA LateSilence ==
  ASSUME ReportInv, NEW n \in Nodes, NEW t \in Txs, \A i \in Final(t) : ~(i <= synced[n]), clock > t.exp + Skew + MaxLag
  PROVE  Final(t) = {}
<1> SUFFICES ASSUME NEW i \in Final(t) PROVE FALSE
  OBVIOUS
<1>1. i \in 1 .. Len(log) /\ log[i].tx = t /\ Len(log) \in Nat /\ synced[n] \in Nat /\ log[i] \in Entries /\ clock \in Nat
  BY DEF Final, ReportInv, IInv, TypeOK
<1>2. i \in synced[n] + 1 .. Len(log)
  BY <1>1
<1>3. clock <= log[i].at + MaxLag /\ log[i].at <= log[i].tx.exp + Skew
  BY <1>1, <1>2 DEF ReportInv, LogTimes
<1>4. log[i].at \in Nat /\ t.exp \in Nat
  BY <1>1 DEF Entries, Txs
<1>5. log[i].at <= t.exp + Skew
  BY <1>1, <1>3
<1>6. ASSUME NEW a \in Nat, NEW e \in Nat, clock \in Nat, clock <= a + MaxLag, a <= e + Skew
      PROVE  ~(clock > e + Skew + MaxLag)
  BY <1>6
<1>7. QED
  BY <1>1, <1>3, <1>4, <1>5, <1>6

LEMMA PollReport ==
  ASSUME ReportInv, NEW c \in Clients, Poll(c)
  PROVE  LogTimes' /\ \A d \in Clients : Honest(d)'
<1> DEFINE t == cli[c].tx
           known == {i \in Final(t) : i <= synced[cli[c].url]}
<1>1. /\ UNCHANGED <<clock, log, synced, faults>> /\ At(c, "poll") /\ clock \in Nat
      /\ t \in Txs /\ cli[c].url \in Nodes /\ cli[c].res = "none"
  BY DEF Poll, ReportInv, IInv, TypeOK, Timely, Honest, At
<1>2. \A i \in Final(t) : log[i].status \in {"Success", "Fail", "Invalid"}
  <2>1. \A i \in Final(t) : log[i] \in Entries
    BY DEF Final, ReportInv, IInv, TypeOK
  <2>2. QED
    BY <2>1 DEF Entries
<1>3. \A reply \in Replies(cli[c].url, t) :
        \/ known = {} /\ reply \in {"Pending", "absent"}
        \/ \E i \in Final(t) : log[i].status = reply
  BY DEF Replies
<1>4. ASSUME NEW reply \in Replies(cli[c].url, t), reply = "Success", Set(c, [pc |-> "info"])
      PROVE  LogTimes' /\ \A d \in Clients : Honest(d)'
  <2> DEFINE fields == [pc |-> "info"]
  <2>1. DOMAIN fields \subseteq Fields
    BY DEF Fields
  <2>2. cli'[c].pc = "info" /\ cli'[c].res = cli[c].res /\ cli'[c].tx = t
    BY <1>4, <2>1, SetFields DEF Fields, ReportInv
  <2>3. Succeeded(t)
    BY <1>3, <1>4 DEF Succeeded
  <2>4. Honest(c)'
    BY <1>1, <2>2, <2>3 DEF Honest, At, Succeeded, Final
  <2> HIDE DEF fields
  <2>5. Set(c, fields)
    BY <1>4 DEF fields
  <2>6. QED
    BY <1>1, <2>1, <2>4, <2>5, OneReport
<1>5. ASSUME NEW reply \in Replies(cli[c].url, t), reply \in {"Fail", "Invalid"}, End(c, "failed")
      PROVE  LogTimes' /\ \A d \in Clients : Honest(d)'
  <2>1. Unsuccessful(t)
    BY <1>3, <1>5 DEF Unsuccessful
  <2>2. QED
    BY <1>1, <1>5, <2>1, EndReport
<1>6. ASSUME NEW slept, Set(c, [pc |-> "check", slept |-> slept, since |-> clock]),
             "read" \in faults \/ known = {}
      PROVE  LogTimes' /\ \A d \in Clients : Honest(d)'
  <2> DEFINE fields == [pc |-> "check", slept |-> slept, since |-> clock]
  <2>1. DOMAIN fields \subseteq Fields
    BY DEF Fields
  <2>2. cli'[c].pc = "check" /\ cli'[c].res = cli[c].res /\ cli'[c].tx = t /\ cli'[c].since = clock
    BY <1>6, <2>1, SetFields DEF Fields, ReportInv
  <2>3. Assured /\ clock > t.exp + Skew + MaxLag => Final(t) = {}
    BY <1>1, <1>6, LateSilence DEF Assured
  <2>4. Honest(c)'
    <3>1. (\A u : Final(u)' = Final(u)) /\ Assured' = Assured /\ clock' = clock
      BY <1>1 DEF Final, Assured
    <3>2. clock <= clock /\ clock <= clock + Round
      BY <1>1
    <3>3. cli'[c].pc = "check" /\ cli'[c].res = "none"
      BY <1>1, <2>2
    <3>4. QED
      BY <2>2, <2>3, <3>1, <3>2, <3>3 DEF Honest, At
  <2> HIDE DEF fields
  <2>5. Set(c, fields)
    BY <1>6 DEF fields
  <2>6. QED
    BY <1>1, <2>1, <2>4, <2>5, OneReport
<1>7. CASE "read" \in faults /\ Set(c, [pc |-> "check", slept |-> FALSE, since |-> clock])
  BY <1>6, <1>7
<1>8. CASE \E reply \in Replies(cli[c].url, cli[c].tx) :
             CASE reply = "Success" -> Set(c, [pc |-> "info"])
               [] reply \in {"Fail", "Invalid"} -> End(c, "failed")
               [] OTHER -> Set(c, [pc |-> "check", slept |-> reply = "Pending", since |-> clock])
  <2>1. PICK reply \in Replies(cli[c].url, t) :
             CASE reply = "Success" -> Set(c, [pc |-> "info"])
               [] reply \in {"Fail", "Invalid"} -> End(c, "failed")
               [] OTHER -> Set(c, [pc |-> "check", slept |-> reply = "Pending", since |-> clock])
    BY <1>8
  <2>2. CASE reply = "Success"
    BY <1>4, <2>1, <2>2
  <2>3. CASE reply \in {"Fail", "Invalid"}
    BY <1>5, <2>1, <2>3
  <2>4. CASE reply \notin {"Success", "Fail", "Invalid"}
    <3>1. Set(c, [pc |-> "check", slept |-> reply = "Pending", since |-> clock])
      BY <2>1, <2>4
    <3>2. known = {}
      BY <1>2, <1>3, <2>4
    <3>3. QED
      BY <1>6, <3>1, <3>2
  <2>5. QED
    BY <2>2, <2>3, <2>4
<1>9. QED
  BY <1>7, <1>8 DEF Poll

\* The last poll was at most a round ago, so it was late enough, too.
LEMMA CheckReport ==
  ASSUME ReportInv, NEW c \in Clients, Check(c)
  PROVE  LogTimes' /\ \A d \in Clients : Honest(d)'
<1>1. /\ UNCHANGED <<clock, log, synced, faults>> /\ At(c, "check") /\ ~At(c, "done") /\ clock \in Nat
      /\ cli[c].tx \in Txs /\ cli[c].since \in Nat
  BY DEF Check, ReportInv, IInv, TypeOK, Timely, At
<1>2. CASE End(c, "timeout") /\ clock > cli[c].tx.exp + TX_FINALIZATION_MARGIN_SECS
  <2>1. ASSUME Assured PROVE Final(cli[c].tx) = {}
    <3>1. clock <= cli[c].since + Round /\ cli[c].tx.exp \in Nat
      BY <1>1 DEF ReportInv, Honest, Txs
    <3>2. Skew + MaxLag + Round <= TX_FINALIZATION_MARGIN_SECS
      BY <2>1 DEF Assured
    <3>3. cli[c].since > cli[c].tx.exp + Skew + MaxLag
      BY <1>1, <1>2, <3>1, <3>2
    <3>4. QED
      BY <1>1, <2>1, <3>3 DEF ReportInv, Honest
  <2>2. QED
    BY <1>1, <1>2, <2>1, EndReport
<1>3. CASE Set(c, [pc |-> "poll", since |-> clock])
  BY <1>1, <1>3, GoOnReport DEF Fields
<1>4. QED
  BY <1>2, <1>3 DEF Check

LEMMA InfoReport ==
  ASSUME ReportInv, NEW c \in Clients, Info(c)
  PROVE  LogTimes' /\ \A d \in Clients : Honest(d)'
<1>1. UNCHANGED <<clock, log, synced, faults>> /\ At(c, "info")
  BY DEF Info
<1>2. PICK res \in {"ok", "error"} : End(c, res)
  BY DEF Info
<1>3. cli[c].resolve => Succeeded(cli[c].tx)
  BY <1>1 DEF ReportInv, Honest
<1>4. QED
  BY <1>1, <1>2, <1>3, EndReport

\* A block takes a transaction while skew allows; from then on it is final, and
\* nobody has been told that it is not.
LEMMA FinalizeReport ==
  ASSUME ReportInv, NEW t \in pool, NEW status, Finalize(t, status)
  PROVE  LogTimes' /\ \A d \in Clients : Honest(d)'
<1>1. /\ log' = Append(log, [tx |-> t, status |-> status, at |-> clock]) /\ clock <= t.exp + Skew
      /\ UNCHANGED <<clock, synced, faults, cli>>
  BY DEF Finalize
<1>2. /\ Len(log) \in Nat /\ Len(log') = Len(log) + 1
      /\ \A i \in 1 .. Len(log) : log'[i] = log[i]
      /\ log'[Len(log) + 1] = [tx |-> t, status |-> status, at |-> clock]
  BY <1>1 DEF ReportInv, IInv, TypeOK
<1>3. t \in Txs /\ t.exp \in Nat /\ clock \in Nat /\ synced \in [Nodes -> Nat]
  BY DEF ReportInv, IInv, TypeOK, Txs
<1>4. LogTimes'
  <2>1. \A i \in 1 .. Len(log') : log'[i].at <= log'[i].tx.exp + Skew
    BY <1>1, <1>2 DEF ReportInv, LogTimes
  <2>2. ASSUME NEW n \in Nodes, NEW i \in synced[n] + 1 .. Len(log') PROVE clock <= log'[i].at + MaxLag
    <3>1. CASE i = Len(log) + 1
      BY <1>2, <1>3, <3>1
    <3>2. CASE i # Len(log) + 1
      <4>1. i \in synced[n] + 1 .. Len(log) /\ i \in 1 .. Len(log)
        BY <1>2, <1>3, <3>2
      <4>2. QED
        BY <1>2, <4>1 DEF ReportInv, LogTimes
    <3>3. QED
      BY <3>1, <3>2
  <2>3. QED
    BY <1>1, <2>1, <2>2, Zenon DEF LogTimes
<1>5. \A u : Final(u) \subseteq Final(u)' /\ (u # t => Final(u)' = Final(u)) /\ \A i \in Final(u) : log'[i] = log[i]
  BY <1>2 DEF Final
<1>6. \A u : (Succeeded(u) => Succeeded(u)') /\ (Unsuccessful(u) => Unsuccessful(u)')
  BY <1>5 DEF Succeeded, Unsuccessful
<1>7. ASSUME NEW d \in Clients PROVE Honest(d)'
  <2>1. Honest(d) /\ Timely(d) /\ cli'[d] = cli[d]
    BY <1>1 DEF ReportInv, IInv
  <2>2. ASSUME At(d, "check"), cli[d].since > cli[d].tx.exp + Skew + MaxLag PROVE cli[d].tx # t
    <3>1. cli[d].since <= clock /\ cli[d].since \in Nat
      BY <2>1, <2>2 DEF Honest, Timely
    <3>2. clock <= t.exp + Skew /\ t.exp \in Nat /\ clock \in Nat
      BY <1>1, <1>3
    <3>3. ~(cli[d].since > t.exp + Skew + MaxLag)
      BY <3>1, <3>2
    <3>4. QED
      BY <2>2, <3>3
  <2>3. ASSUME cli[d].res = "timeout" PROVE cli[d].tx # t
    <3>1. clock > cli[d].tx.exp + TX_FINALIZATION_MARGIN_SECS
      BY <2>1, <2>3 DEF Timely
    <3>2. clock <= t.exp + Skew /\ t.exp \in Nat /\ clock \in Nat
      BY <1>1, <1>3
    <3>3. ~(clock > t.exp + TX_FINALIZATION_MARGIN_SECS)
      BY <3>2
    <3>4. QED
      BY <3>1, <3>3
  <2>4. Assured' = Assured
    BY <1>1 DEF Assured
  <2>5. Assured /\ At(d, "check") /\ cli[d].since > cli[d].tx.exp + Skew + MaxLag => Final(cli[d].tx)' = {}
    BY <1>1, <1>5, <2>1, <2>2 DEF Honest
  <2>6. Assured /\ cli[d].res = "timeout" => Final(cli[d].tx)' = {}
    BY <1>1, <1>5, <2>1, <2>3 DEF Honest
  <2>7. QED
    BY <1>1, <1>6, <2>1, <2>4, <2>5, <2>6 DEF Honest, At
<1>8. QED
  BY <1>4, <1>7

\* Nodes catch up, the profile changes, and time passes within its bounds.
LEMMA OutsideReport ==
  ASSUME ReportInv, (\E n \in Nodes : Execute(n)) \/ ActivateProfile \/ Tick \/ UNCHANGED vars
  PROVE  LogTimes' /\ \A d \in Clients : Honest(d)'
<1>1. log' = log /\ cli' = cli /\ faults' = faults
  BY DEF Execute, ActivateProfile, Tick, vars
<1>2. clock \in Nat /\ synced \in [Nodes -> Nat] /\ log \in Seq(Entries)
  BY DEF ReportInv, IInv, TypeOK
<1>3. CASE clock' = clock /\ \A n \in Nodes : synced'[n] \in Nat /\ synced'[n] >= synced[n]
  <2>1. \A n \in Nodes : synced'[n] + 1 .. Len(log) \subseteq synced[n] + 1 .. Len(log)
    BY <1>2, <1>3
  <2>2. LogTimes'
    BY <1>1, <1>3, <2>1 DEF ReportInv, LogTimes
  <2>3. \A d \in Clients : Honest(d)'
    BY <1>1, <1>3 DEF ReportInv, Honest, At, Succeeded, Unsuccessful, Final, Assured
  <2>4. QED
    BY <2>2, <2>3
<1>4. CASE Tick
  <2>1. /\ clock' = clock + 1 /\ synced' = synced
        /\ \A n \in Nodes : \A i \in synced[n] + 1 .. Len(log) : clock < log[i].at + MaxLag
        /\ \A d \in Clients : At(d, "check") => clock < cli[d].since + Round
    BY <1>4 DEF Tick, At
  <2>2. ASSUME NEW n \in Nodes, NEW i \in synced[n] + 1 .. Len(log) PROVE clock' <= log[i].at + MaxLag
    <3>1. i \in 1 .. Len(log)
      BY <1>2
    <3>2. log[i] \in Entries
      BY <1>2, <3>1
    <3>3. log[i].at \in Nat
      BY <3>2 DEF Entries
    <3>4. clock < log[i].at + MaxLag /\ clock' = clock + 1 /\ clock \in Nat
      BY <1>2, <2>1
    <3>5. QED
      BY <3>3, <3>4
  <2>3. LogTimes'
    BY <1>1, <2>1, <2>2 DEF ReportInv, LogTimes
  <2>4. ASSUME NEW d \in Clients PROVE Honest(d)'
    <3>1. Honest(d) /\ cli[d].since \in Nat
      BY DEF ReportInv, IInv, Timely
    <3>2. At(d, "check") => cli[d].since <= clock /\ clock < cli[d].since + Round
      BY <2>1, <3>1 DEF Honest
    <3>3. At(d, "check") => cli[d].since <= clock' /\ clock' <= cli[d].since + Round
      <4>1. clock' = clock + 1 /\ clock \in Nat /\ cli[d].since \in Nat
        BY <1>2, <2>1, <3>1
      <4>2. QED
        BY <3>2, <4>1
    <3>4. QED
      BY <1>1, <3>1, <3>3 DEF Honest, At, Succeeded, Unsuccessful, Final, Assured
  <2>5. QED
    BY <2>3, <2>4
<1>5. ASSUME NEW n \in Nodes, Execute(n) PROVE clock' = clock /\ \A m \in Nodes : synced'[m] \in Nat /\ synced'[m] >= synced[m]
  BY <1>2, <1>5 DEF Execute
<1>6. CASE ActivateProfile \/ UNCHANGED vars
  BY <1>2, <1>3, <1>6 DEF ActivateProfile, vars
<1>7. QED
  BY <1>3, <1>4, <1>5, <1>6

LEMMA ReportStepHolds == ReportInv /\ [Next]_vars => ReportInv'
<1> SUFFICES ASSUME ReportInv, [Next]_vars PROVE ReportInv'
  OBVIOUS
<1>1. IInv'
  BY StepHolds DEF ReportInv
<1>2. ASSUME NEW c \in Clients, Step(c) PROVE LogTimes' /\ \A d \in Clients : Honest(d)'
  BY <1>2, PrepareReport, PostReport, PollReport, CheckReport, InfoReport DEF Step
<1>3. LogTimes' /\ \A d \in Clients : Honest(d)'
  BY <1>2, FinalizeReport, OutsideReport DEF Next
<1>4. QED
  BY <1>1, <1>3 DEF ReportInv

\* What a command reports is what the chain did with its transaction: success
\* and failure were read off the chain, and a timeout comes a round after a poll
\* that a node could only answer so if the transaction was not finalized.
THEOREM ReportAlwaysMatchesChain == Spec => []ReportMatchesChain
<1>1. Init => ReportInv
  BY InitHolds, ReportInitHolds DEF ReportInv
<1>2. ReportInv => ReportMatchesChain
  BY DEF ReportInv, Honest, ReportMatchesChain, Succeeded, Unsuccessful, Assured
<1>3. QED
  BY <1>1, <1>2, ReportStepHolds, PTL DEF Spec
============================================================================
