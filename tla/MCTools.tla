------------------------------ MODULE MCTools ------------------------------
(***************************************************************************)
(* Three tools of the CLI on small instances: the genesis ceremony, the    *)
(* configuration of the mainnet accounts and the export of the databases.  *)
(* They share no state; in a behaviour only `part` moves.                  *)
(***************************************************************************)
EXTENDS GenesisCeremony, DatabaseExport, TLC

CONSTANTS a1, a2, a3, p1

VARIABLES
  part,
  input, pc, next, todo, assigned_pools, pool_balances, assigned, counts, extended

accountsVars == <<input, pc, next, todo, assigned_pools, pool_balances, assigned, counts, extended>>
mcvars == <<vars, part, accountsVars, exportVars>>

\* The validators of the ceremony are interchangeable.
Symmetry == Permutations(Validators)

(***************************************************************************)
(* Files of the mainnet accounts: a committee of three, up to three entries*)
(* a file, amounts below and above one SUPRA, which is four quants.        *)
(***************************************************************************)
Balances(n, amounts) == UNION { [1 .. k -> [address : {a1, a2, a3}, amount : amounts]] : k \in 0 .. n }

Schedule(id, pools, accounts) == [id |-> id, pools_with_delegators |-> pools, accounts |-> accounts]

Config(pools, standalone, schedules, vesting) ==
  [size |-> 3, pools |-> pools, keys |-> 3, owners |-> 2, owner_balance |-> 0, stake |-> 4,
   standalone |-> standalone, default |-> "d", schedules |-> schedules, vesting |-> vesting]

\* One schedule with delegators, perhaps after one without a file; some
\* configurations lack owners, keys or the default schedule.
OneSchedule ==
  { Config(pools, <<>>, <<Schedule("d", n, file)>>, <<>>) :
      pools \in {<<1>>, <<2, 0, 1>>}, n \in 0 .. 2, file \in Balances(3, {1, 2, 5, 6}) }
  \cup { Config(<<1, 2>>, <<9>>, <<Schedule("e", n, None), Schedule("d", 1, file)>>, <<>>) :
           n \in 0 .. 1, file \in Balances(2, {1, 5}) }
  \cup { [Config(<<0, 1, 2>>, <<>>, <<Schedule("d", 0, None)>>, <<>>)
            EXCEPT !.owners = o, !.keys = k, !.default = d] : o \in {1, 2}, k \in {1, 2}, d \in {"d", "e"} }

\* Two schedules; the foundation operates the first pools, or the last two.
TwoSchedules ==
  { Config(<<0, 1, 2>>, <<>>, <<Schedule("d", 1, f), Schedule("e", 1, g)>>, <<>>) :
      f, g \in Balances(1, {1, 2}) }
  \cup { Config(pools, <<>>, <<Schedule("e", n, f), Schedule("d", 0, None)>>, <<>>) :
           pools \in {<<0, 1>>, <<1, 2>>}, n \in 1 .. 2, f \in Balances(2, {1, 2}) }

\* Vesting schedules beside a delegation file.
Vesting ==
  { Config(<<0, 1>>, <<>>, <<Schedule("d", 1, <<[address |-> a1, amount |-> 3]>>)>>,
           <<[id |-> "v", accounts |-> v, admin |-> admin], [id |-> "w", accounts |-> w, admin |-> TRUE]>>) :
      v \in Balances(3, {1, 2, 3}), w \in Balances(1, {1}), admin \in BOOLEAN }

\* Amounts that are no whole SUPRA, and stakes above the supply.
Fractions == { [Config(<<0>>, s, <<Schedule("d", 1, f)>>, <<>>) EXCEPT !.stake = stake] :
                 s \in UNION { [1 .. n -> {2, 3, 4}] : n \in 0 .. 4 }, f \in Balances(1, {1, 5, 13}), stake \in 4 .. 7 \cup {20} }

MCInputs == OneSchedule \cup TwoSchedules \cup Vesting \cup Fractions

Accounts == INSTANCE MainnetAccounts WITH
  Inputs <- MCInputs, BASE <- 4, MINTED <- 6, ERROR_MARGIN <- 3, MIN_PARTICIPANTS <- 2,
  POOLS_WITH_PBO_STAKE <- 2, MAX_DELEGATORS <- 1, MAX_SHAREHOLDERS <- 2

(***************************************************************************)
(* Two tables of the archive, three of the chain store, of which two are   *)
(* exported.  A database of an earlier version may lack a table.           *)
(***************************************************************************)
MCExports == [archive |-> <<"tx", "event_by_type">>, chain_store |-> <<"batch", "epoch_committee">>]

MCColumns == [archive |-> {{"tx", "event_by_type"}, {"tx"}},
              chain_store |-> {{"batch", "epoch_committee", "epoch_authorized_committee"}}]

\* The operators of a ceremony disagree on the parameters or take a transaction
\* as it is, or one of them generates its identity again.
SameSettings == \A v, w \in Validators : settings[v] = settings[w]

OwnTransactions == \A v \in Validators : blob[v] # None => blob[v].transaction # None

\* The parameters are interchangeable: somebody has p1.
SomeSettings == \E v \in Validators : settings[v] = p1

MCInit ==
  /\ part \in {"ceremony", "accounts", "export"}
  /\ Init /\ SomeSettings /\ (part # "ceremony" => SameSettings)
  /\ IF part = "accounts" THEN TRUE ELSE input = Config(<<0>>, <<>>, <<Schedule("d", 1, <<>>)>>, <<>>)
  /\ Accounts!Init
  /\ ExportInit /\ (part # "export" => "event_by_type" \in columns["archive"])

MCNext ==
  \/ part = "ceremony" /\ Next /\ (changes' > 0 => SameSettings /\ OwnTransactions') /\ UNCHANGED <<part, accountsVars, exportVars>>
  \/ part = "accounts" /\ Accounts!Next /\ UNCHANGED <<part, vars, exportVars>>
  \/ part = "export" /\ ExportNext /\ UNCHANGED <<part, vars, accountsVars>>

MCSpec == MCInit /\ [][MCNext]_mcvars

\* generate-mainnet-accounts: every delegation goes to exactly one pool, which
\* unlocks by its schedule; pools are balanced and filled within their limits;
\* what is minted is the supply, up to rounding.
AssignmentIsSound == Accounts!AssignmentIsSound
============================================================================
