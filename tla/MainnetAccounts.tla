-------------------------- MODULE MainnetAccounts --------------------------
(***************************************************************************)
(* generate-mainnet-accounts-config (genesis/generate_mainnet_accounts_    *)
(* config.rs): reads the balances of the delegators and of the vesting     *)
(* accounts, checks the supply, and assigns the delegators to the          *)
(* delegation pools that the foundation operates.                          *)
(*                                                                         *)
(* Amounts are in quants, BASE of them to a SUPRA: what to_quants makes of *)
(* the decimal number in a file.  A pool is named by the index, from 0, of *)
(* its validator in the committee.                                         *)
(***************************************************************************)
EXTENDS Integers, Sequences, SequencesExt, FiniteSets, FiniteSetsExt, Folds

CONSTANTS
  Inputs,                 \* the configuration files
  BASE,                   \* SUPRA_COINS_BASE_WITH_DECIMALS
  MINTED,                 \* SUPRA_MINTED_AT_GENESIS
  ERROR_MARGIN,
  MIN_PARTICIPANTS,
  POOLS_WITH_PBO_STAKE,   \* DELEGATION_POOLS_WITH_PBO_STAKE
  MAX_DELEGATORS,         \* MAXIMUM_DELEGATORS_PER_DELEGATION_POOL
  MAX_SHAREHOLDERS,       \* MAXIMUM_SHAREHOLDERS_PER_VESTING_POOL
  None

\* An input is a record of
\*   size        the size of the committee,
\*   pools       the pools whose keys the foundation has, in the order of their owners,
\*   keys        the number of consensus keys of the foundation,
\*   owners      the number of owners of the multisig accounts,
\*   owner_balance, stake   in SUPRA for an owner, in quants for a pool,
\*   standalone  the balances of the standalone multisig accounts,
\*   default     the id of the default schedule,
\*   schedules   the delegation schedules, [id, pools_with_delegators, accounts],
\*   vesting     the vesting schedules, [id, accounts, admin],
\* where accounts is None or a sequence of [address, amount].

VARIABLES
  input, pc,
  next,             \* the schedule to assign next
  todo,             \* delegators of the schedule still to assign
  assigned_pools,   \* pools of the schedule
  pool_balances,    \* balances of all pools assigned so far
  assigned,         \* the delegators assigned: [address, amount, pool, schedule]
  counts,           \* assignment_counts
  extended          \* history: schedules whose accounts were assigned

vars == <<input, pc, next, todo, assigned_pools, pool_balances, assigned, counts, extended>>

Init ==
  /\ input \in Inputs
  /\ pc = "load" /\ next = 1
  /\ todo = {} /\ assigned_pools = <<>> /\ pool_balances = <<>>
  /\ assigned = {} /\ counts = <<>> /\ extended = 0

(***************************************************************************)
(* Reading the files                                                       *)
(***************************************************************************)

SumOf(balances) == FoldLeft(LAMBDA total, b : total + b.amount, 0, balances)

\* AccountBalance: the order compares amounts, so to a BTreeSet two accounts
\* are the same when their amounts are.
Distinct(balances) == \A i, j \in DOMAIN balances : i # j => balances[i].amount # balances[j].amount

\* AccountBalances::from_file: the entries in the order of their amounts, so
\* the set of them; None stands for the error.
from_file(balances) == IF Distinct(balances) THEN Range(balances) ELSE None

\* The delegation accounts of all schedules that have a file.
DelegationFiles(c) == SelectSeq(c.schedules, LAMBDA s : s.accounts # None)
delegators(c) == FlattenSeq([i \in DOMAIN DelegationFiles(c) |-> DelegationFiles(c)[i].accounts])
vested(c) == FlattenSeq([i \in DOMAIN c.vesting |-> c.vesting[i].accounts])

\* The entries with lower amounts come first.
Rank(a, balances) == Cardinality({b \in balances : b.amount < a.amount})

\* VestingPoolUnlockSchedule::accounts: chunks of the sorted accounts, each a
\* pool with an id of its own.
VestingAccounts(s) ==
  LET balances == from_file(s.accounts)
  IN { [address |-> a.address, amount |-> a.amount,
        pool |-> <<s.id, Rank(a, balances) \div MAX_SHAREHOLDERS>>] : a \in balances }

\* The pools that generate_vesting_pools_config makes for the schedules.
vesting_pools(c) == UNION { {a.pool : a \in VestingAccounts(c.vesting[i])} : i \in DOMAIN c.vesting }

\* allocated_supra, of each kind of account and in total: whole SUPRA.
foundation_allocated(c) ==
  FoldLeft(LAMBDA total, b : total + b \div BASE, 0, c.standalone) + c.owner_balance * c.owners

foundation_delegated(c) == (c.stake \div BASE) * c.size
allocated_supra(c) ==
  foundation_delegated(c) + SumOf(delegators(c)) \div BASE + foundation_allocated(c) + SumOf(vested(c)) \div BASE

Addresses(balances) == {balances[i].address : i \in DOMAIN balances}

\* MainnetGenesisAccountsGenerator::verify
verify(c) ==
  /\ allocated_supra(c) <= MINTED
  /\ allocated_supra(c) >= MINTED - ERROR_MARGIN
  /\ Addresses(delegators(c)) \cap Addresses(vested(c)) = {}

\* try_from: every file is read and checked, then the whole is verified.
Valid(c) ==
  /\ c.owners >= MIN_PARTICIPANTS
  /\ c.keys >= POOLS_WITH_PBO_STAKE
  /\ \E i \in DOMAIN c.schedules : c.schedules[i].id = c.default
  /\ \A i \in DOMAIN DelegationFiles(c) : from_file(DelegationFiles(c)[i].accounts) # None
  /\ \A i \in DOMAIN c.vesting : from_file(c.vesting[i].accounts) # None
  /\ \A i, j \in DOMAIN c.vesting : i # j => Addresses(c.vesting[i].accounts) \cap Addresses(c.vesting[j].accounts) = {}
  /\ verify(c)

TryFrom ==
  /\ pc = "load"
  /\ pc' = IF Valid(input) THEN "schedule" ELSE "error"
  /\ UNCHANGED <<input, next, todo, assigned_pools, pool_balances, assigned, counts, extended>>

(***************************************************************************)
(* The delegation pools                                                    *)
(***************************************************************************)

\* schedules_expanded and ith_pool_schedule, i from 0.
schedules_expanded(c) ==
  FlattenSeq([k \in DOMAIN c.schedules |->
                [n \in 1 .. c.schedules[k].pools_with_delegators |-> c.schedules[k].id]])

ith_pool_schedule(c, i) ==
  IF i < Len(schedules_expanded(c)) THEN schedules_expanded(c)[i + 1] ELSE c.default

\* One turn of the outer loop of assign_delegators_to_delegation_pools: the
\* next pools, and the delegators of the schedule in the order of their amounts.
BeginSchedule ==
  /\ pc = "schedule" /\ next <= Len(input.schedules)
  /\ LET schedule == input.schedules[next]
         start == Len(pool_balances)
         enough == start + schedule.pools_with_delegators <= Len(input.pools)
         pools == SubSeq(input.pools, start + 1, start + schedule.pools_with_delegators)
     IN IF ~enough
        THEN /\ pc' = "error"
             /\ UNCHANGED <<next, todo, assigned_pools, pool_balances, extended>>
        ELSE IF schedule.accounts = None
        THEN /\ next' = next + 1
             /\ UNCHANGED <<pc, todo, assigned_pools, pool_balances, extended>>
        ELSE /\ pc' = "assign"
             /\ todo' = from_file(schedule.accounts)
             /\ assigned_pools' = pools
             /\ pool_balances' = pool_balances \o [n \in 1 .. schedule.pools_with_delegators |-> 0]
             /\ extended' = extended + 1
             /\ UNCHANGED next
  /\ UNCHANGED <<input, assigned, counts>>

\* Bug: the search stops at the first pool.
LowestPool_first(balances) == 1

\* The first of the pools with the lowest balance; 1 when there is none.
LowestPool(balances) ==
  IF balances = <<>> THEN 1
  ELSE CHOOSE i \in DOMAIN balances :
         /\ \A j \in DOMAIN balances : balances[i] <= balances[j]
         /\ \A j \in 1 .. i - 1 : balances[i] < balances[j]

\* and_modify(count + 1).or_default(): the first delegator of a pool counts 0.
Counted(cs, pool) == IF pool \in DOMAIN cs THEN [cs EXCEPT ![pool] = @ + 1] ELSE cs @@ (pool :> 0)

\* One turn of the inner loop, in the order of the amounts:
\* assigned_pools[pool_index] panics beyond its end.
AssignDelegator ==
  /\ pc = "assign"
  /\ \E d \in todo :
       /\ \A e \in todo : d.amount <= e.amount
       /\ LET k == LowestPool(pool_balances)
          IN IF k > Len(assigned_pools)
             THEN pc' = "panic" /\ UNCHANGED <<todo, pool_balances, assigned, counts>>
             ELSE /\ assigned' = assigned \cup {[address |-> d.address, amount |-> d.amount,
                                                 pool |-> assigned_pools[k], schedule |-> input.schedules[next].id]}
                  /\ pool_balances' = [pool_balances EXCEPT ![k] = @ + d.amount]
                  /\ counts' = Counted(counts, assigned_pools[k])
                  /\ todo' = todo \ {d}
                  /\ UNCHANGED pc
  /\ UNCHANGED <<input, next, assigned_pools, extended>>

EndSchedule ==
  /\ pc = "assign" /\ todo = {}
  /\ pc' = "schedule" /\ next' = next + 1
  /\ UNCHANGED <<input, todo, assigned_pools, pool_balances, assigned, counts, extended>>

\* The counts are checked, the vesting pools made, and the files written.
Finish ==
  /\ pc = "schedule" /\ next > Len(input.schedules)
  /\ pc' = IF /\ \A p \in DOMAIN counts : counts[p] <= MAX_DELEGATORS
              /\ \A i \in DOMAIN input.vesting : input.vesting[i].admin
           THEN "done" ELSE "error"
  /\ UNCHANGED <<input, next, todo, assigned_pools, pool_balances, assigned, counts, extended>>

Stopped == pc \in {"done", "error", "panic"} /\ UNCHANGED vars

Next == TryFrom \/ BeginSchedule \/ AssignDelegator \/ EndSchedule \/ Finish \/ Stopped

Spec == Init /\ [][Next]_vars

(***************************************************************************)
(* Properties                                                              *)
(***************************************************************************)

SumAmounts(S) == FoldSet(LAMBDA a, total : total + a.amount, 0, S)

\* assign_delegators_to_delegation_pools assigns "so that each pool ends up
\* with a roughly similar amount of stake": while one schedule is assigned, two
\* of its pools never differ by more than some single delegation.
PoolsAreBalanced ==
  extended = 1 => \A i, j \in DOMAIN pool_balances :
    pool_balances[i] > pool_balances[j] => \E a \in assigned : pool_balances[i] - pool_balances[j] <= a.amount

\* When the tool is done, every delegation of the files is with exactly one
\* pool, and the stake of the pools is what verify added up.
DelegationsAreConserved ==
  pc = "done" => /\ SumAmounts(assigned) = SumOf(delegators(input))
                 /\ FoldLeft(LAMBDA total, b : total + b, 0, pool_balances) = SumOf(delegators(input))

\* No vesting pool has more shareholders than the framework allows, and the
\* sorted accounts are cut so that only the last pool of a schedule may have fewer.
VestingPoolsAreFull ==
  pc = "done" =>
    \A i \in DOMAIN input.vesting :
      LET accounts == VestingAccounts(input.vesting[i])
          in(p) == Cardinality({a \in accounts : a.pool = p})
      IN \A p \in {a.pool : a \in accounts} :
           /\ in(p) <= MAX_SHAREHOLDERS
           /\ <<p[1], p[2] + 1>> \in vesting_pools(input) => in(p) = MAX_SHAREHOLDERS

\* A pool that the tool accepts has at most one delegator more than the limit.
CountsAreBounded ==
  pc = "done" => \A p \in Range(input.pools) : Cardinality({a \in assigned : a.pool = p}) <= MAX_DELEGATORS + 1

\* In a committee that begins with the pools of the foundation, where only
\* schedules with participants have pools, the participants of a schedule are
\* in pools that unlock by that schedule (ith_pool_schedule).
DelegatorsUnlockOnSchedule ==
  /\ pc = "done"
  /\ \A k \in DOMAIN input.pools : input.pools[k] = k - 1
  /\ \A k \in DOMAIN input.schedules :
       input.schedules[k].accounts = None => input.schedules[k].pools_with_delegators = 0
  => \A a \in assigned : ith_pool_schedule(input, a.pool) = a.schedule

\* verify rounds down to whole SUPRA: what is minted exceeds the supply by less
\* than one SUPRA for every amount that it rounds.
MintedNearSupply ==
  pc = "done" =>
    FoldLeft(LAMBDA total, b : total + b, 0, input.standalone) + input.owner_balance * input.owners * BASE
      + input.stake * input.size + SumOf(delegators(input)) + SumOf(vested(input))
      < (MINTED + Len(input.standalone) + input.size + 2) * BASE

\* What generate-mainnet-accounts writes: every delegation is in one pool, on its
\* schedule, in balanced pools within their limits, and the whole is the supply.
AssignmentIsSound ==
  /\ PoolsAreBalanced /\ DelegationsAreConserved /\ DelegatorsUnlockOnSchedule
  /\ VestingPoolsAreFull /\ CountsAreBounded /\ MintedNearSupply
============================================================================
