-------------------------- MODULE FaucetCallLimiter --------------------------
(***************************************************************************)
(* The faucet endpoint and its per-account limiter: wallet::faucet and     *)
(* FaucetCallLimiter.  A request registers with the limiter under its      *)
(* write lock, releases the lock, asks the faucet for a delegate (module   *)
(* Faucet; here it grants or not), and takes the lock again to count a     *)
(* grant.  Requests of different clients interleave at those three steps.  *)
(***************************************************************************)
EXTENDS Integers

CONSTANTS
  Clients,               \* concurrent callers of the endpoint
  Accounts,
  MAX_DAILY_REQUEST,
  COOLDOWN_PERIOD_SECS,
  SECONDS_IN_A_DAY,
  Start,                 \* the time at which the node starts
  MaxTime                \* bound on the clock

ASSUME FaucetTimeAssumption ==
  /\ MAX_DAILY_REQUEST \in Nat \ {0} /\ COOLDOWN_PERIOD_SECS \in Nat
  /\ SECONDS_IN_A_DAY \in Nat \ {0}
  /\ Start \in Nat /\ MaxTime \in Nat /\ COOLDOWN_PERIOD_SECS <= Start

VARIABLES
  now,              \* seconds since the epoch
  cache,            \* account -> count_of_usage and last_used_time
  last_reset_secs,
  pc, account,      \* where each client's request is, and whom it funds
  obtained          \* history: grants per client and account since the last reset

vars == <<now, cache, last_reset_secs, pc, account, obtained>>

\* An absent entry and the entry that or_default inserts are the same value.
FaucetLimiterValue == [count_of_usage |-> 0, last_used_time |-> 0]

Day(t) == t \div SECONDS_IN_A_DAY

\* The account is under its daily limit and past its cooldown period.
under_limit(item) ==
  /\ item.count_of_usage < MAX_DAILY_REQUEST
  /\ now >= item.last_used_time + COOLDOWN_PERIOD_SECS

Init ==
  /\ now = Start
  /\ cache = [a \in Accounts |-> FaucetLimiterValue]
  /\ last_reset_secs = Start
  /\ pc = [c \in Clients |-> "idle"]
  /\ account \in [Clients -> Accounts]
  /\ obtained = [c \in Clients |-> [a \in Accounts |-> 0]]

\* SystemTime advances.
Tick ==
  /\ now < MaxTime
  /\ now' = now + 1
  /\ UNCHANGED <<cache, last_reset_secs, pc, account, obtained>>

\* A caller sends a request for an account.
Arrive(c, a) ==
  /\ pc[c] = "idle"
  /\ pc' = [pc EXCEPT ![c] = "arrived"]
  /\ account' = [account EXCEPT ![c] = a]
  /\ UNCHANGED <<now, cache, last_reset_secs, obtained>>

\* The first registration of a new day clears the cache.
reset_cache_if_needed ==
  IF Day(now) > Day(last_reset_secs)
    THEN /\ cache' = [a \in Accounts |-> FaucetLimiterValue]
         /\ last_reset_secs' = now
         /\ obtained' = [c \in Clients |-> [a \in Accounts |-> 0]]
    ELSE UNCHANGED <<cache, last_reset_secs, obtained>>

\* register_account under the write lock: reset, then admit or refuse.
register_account(c) ==
  /\ pc[c] = "arrived"
  /\ reset_cache_if_needed
  /\ pc' = [pc EXCEPT ![c] = IF under_limit(cache'[account[c]]) THEN "registered" ELSE "refused"]
  /\ UNCHANGED <<now, account>>

\* The handler returned an error, and the caller may come back.
Refused(c) ==
  /\ pc[c] = "refused"
  /\ pc' = [pc EXCEPT ![c] = "idle"]
  /\ UNCHANGED <<now, cache, last_reset_secs, account, obtained>>

\* The faucet dispatched a funding transaction: FaucetStatus::Accepted.
Accepted(c) ==
  LET a == account[c] IN
    /\ pc[c] = "registered"
    /\ pc' = [pc EXCEPT ![c] = "accepted"]
    /\ obtained' = [obtained EXCEPT ![c][a] = @ + 1]
    /\ UNCHANGED <<now, cache, last_reset_secs, account>>

\* No delegate took the request: nothing is counted.
TryLater(c) ==
  /\ pc[c] = "registered"
  /\ pc' = [pc EXCEPT ![c] = "idle"]
  /\ UNCHANGED <<now, cache, last_reset_secs, account, obtained>>

increment_once_a_day(c) ==
  LET a == account[c] IN
    /\ pc[c] = "accepted"
    /\ pc' = [pc EXCEPT ![c] = "idle"]
    /\ cache' = [cache EXCEPT ![a].last_used_time = now,
                              ![a].count_of_usage = IF @ = 0 THEN 1 ELSE @]
    /\ UNCHANGED <<now, last_reset_secs, account, obtained>>

\* The second critical section: the grant is counted, unless the limit or the
\* cooldown forbids it by now.
increment_account_use_counter_if_under_limit(c) ==
  LET a == account[c] IN
    /\ pc[c] = "accepted"
    /\ pc' = [pc EXCEPT ![c] = "idle"]
    /\ cache' = IF under_limit(cache[a])
                  THEN [cache EXCEPT ![a] = [count_of_usage |-> @.count_of_usage + 1, last_used_time |-> now]]
                  ELSE cache
    /\ UNCHANGED <<now, last_reset_secs, account, obtained>>

faucet(c) ==
  \/ register_account(c)
  \/ Refused(c)
  \/ Accepted(c)
  \/ TryLater(c)
  \/ increment_account_use_counter_if_under_limit(c)

Next ==
  \/ Tick
  \/ \E c \in Clients : faucet(c) \/ \E a \in Accounts : Arrive(c, a)

Spec == Init /\ [][Next]_vars

(***************************************************************************)
(* Properties                                                              *)
(***************************************************************************)

Labels == {"idle", "arrived", "registered", "refused", "accepted"}

LimiterValue == [count_of_usage : 0 .. MAX_DAILY_REQUEST, last_used_time : Nat]

\* The counts the limiter keeps stay within the limit, and no time it keeps lies in
\* the future.
TypeOK ==
  /\ now \in Nat /\ last_reset_secs \in Nat /\ last_reset_secs <= now
  /\ cache \in [Accounts -> LimiterValue]
  /\ \A a \in Accounts : cache[a].last_used_time <= now
  /\ pc \in [Clients -> Labels]
  /\ account \in [Clients -> Accounts]
  /\ obtained \in [Clients -> [Accounts -> Nat]]

\* The request is past its registration and not yet counted.
Holds(c, a, label) == pc[c] = label /\ account[c] = a

\* The two critical sections together still bound every caller: between two
\* resets of the cache a caller is granted an account at most once for each use
\* the limiter has counted, and at most once more while that grant is uncounted.
GrantsAreCounted ==
  \A c \in Clients, a \in Accounts :
    obtained[c][a] <= cache[a].count_of_usage + (IF Holds(c, a, "accepted") THEN 1 ELSE 0)

\* Why it is inductive: a request that is admitted and finds the account over its
\* limit when it comes to count has been overtaken by a use counted meanwhile.
OvertakenIsCounted ==
  \A c \in Clients, a \in Accounts :
    ~ under_limit(cache[a]) =>
      /\ Holds(c, a, "registered") => obtained[c][a] < cache[a].count_of_usage
      /\ Holds(c, a, "accepted") => obtained[c][a] <= cache[a].count_of_usage

IInv == TypeOK /\ GrantsAreCounted /\ OvertakenIsCounted

\* One caller alone never exceeds the daily limit by more than the request that
\* is being granted.
CallerWithinLimit ==
  \A c \in Clients, a \in Accounts : obtained[c][a] <= MAX_DAILY_REQUEST + 1

=============================================================================
