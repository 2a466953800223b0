------------------------------- MODULE Faucet -------------------------------
(***************************************************************************)
(* The faucet's delegates: Faucet::try_fund, DelegateState, and the part   *)
(* of MinterAccount::try_fund and issue_tx that funds an account.          *)
(*                                                                         *)
(* A request walks over the delegates.  The first free one turns busy      *)
(* under its lock, a transaction with the minter's current sequence number *)
(* is dispatched outside the lock, and a spawned task gives the delegate   *)
(* back when the transaction is executed, its status cannot be read, or    *)
(* TX_MAX_WAIT has passed.  Timers count down in minutes.                  *)
(***************************************************************************)
EXTENDS FaucetTimes

CONSTANTS
  Requests,      \* requests that have passed the limiter
  NumDelegates   \* minters that could be prepared

ASSUME DelegatesAssumption == NumDelegates \in Nat

Delegates == 1 .. NumDelegates

VARIABLES
  installed,   \* set_faucet replaced the faucet that has no delegates
  state,       \* delegate -> "Free" or "Busy"
  progress, cursor,   \* where each request is, and the delegate it looks at
  task,        \* the spawned task of a delegate: "none", "waiting" or "over"
  budget,      \* what is left of the task's TX_MAX_WAIT
  tx,          \* the dispatched transaction: "none", "valid", "stale" or "settled"
  ttl,         \* minutes for which it can still be executed
  stray,       \* minutes for which an abandoned transaction can still be executed
  shutdown

fundVars == <<installed, state, progress, cursor, task, budget, tx, ttl, stray, shutdown>>

client == <<progress, cursor>>
chain == <<tx, ttl, stray>>
release == <<task, budget>>

Larger(a, b) == IF a >= b THEN a ELSE b

\* new_with_no_delegates: the endpoint answers before the minters are prepared.
FundInit ==
  /\ installed = FALSE
  /\ state = [d \in Delegates |-> "Free"]
  /\ progress = [c \in Requests |-> "idle"]
  /\ cursor = [c \in Requests |-> 1]
  /\ task = [d \in Delegates |-> "none"]
  /\ budget = [d \in Delegates |-> 0]
  /\ tx = [d \in Delegates |-> "none"]
  /\ ttl = [d \in Delegates |-> 0]
  /\ stray = [d \in Delegates |-> 0]
  /\ shutdown = FALSE

InTryFund == {c \in Requests : progress[c] \notin {"idle", "Accepted", "TryLater"}}

\* The write lock waits for the read guards that requests hold over try_fund.
set_faucet ==
  /\ ~ installed /\ InTryFund = {}
  /\ installed' = TRUE
  /\ UNCHANGED <<state, client, release, chain, shutdown>>

\* A request enters try_fund.  An empty list of delegates has no free one.
Enter(c) ==
  /\ progress[c] = "idle"
  /\ progress' = [progress EXCEPT ![c] = IF installed /\ NumDelegates > 0 THEN "assess" ELSE "TryLater"]
  /\ cursor' = [cursor EXCEPT ![c] = 1]
  /\ UNCHANGED <<installed, state, release, chain, shutdown>>

\* The answer has been sent, and the caller may come back.
Leave(c) ==
  /\ progress[c] \in {"Accepted", "TryLater"}
  /\ progress' = [progress EXCEPT ![c] = "idle"]
  /\ UNCHANGED <<installed, state, cursor, release, chain, shutdown>>

\* The next delegate, or the answer that no one can fund.
Advance(c, again) ==
  IF cursor[c] = NumDelegates
    THEN progress' = [progress EXCEPT ![c] = "TryLater"] /\ UNCHANGED cursor
    ELSE progress' = [progress EXCEPT ![c] = again] /\ cursor' = [cursor EXCEPT ![c] = @ + 1]

\* Counting the free delegates, each under its own lock.  The first one found
\* decides the comparison with zero.
assess(c) ==
  /\ progress[c] = "assess"
  /\ IF state[cursor[c]] = "Free"
       THEN progress' = [progress EXCEPT ![c] = "offer"] /\ cursor' = [cursor EXCEPT ![c] = 1]
       ELSE Advance(c, "assess")
  /\ UNCHANGED <<installed, state, release, chain, shutdown>>

offer_unlocked(c) ==
  LET d == cursor[c] IN
    /\ progress[c] = "offer"
    /\ state' = [state EXCEPT ![d] = "Busy"]
    /\ progress' = [progress EXCEPT ![c] = "sending"]
    /\ UNCHANGED <<installed, cursor, release, chain, shutdown>>

\* DelegateState::try_fund up to its await: a busy delegate is passed over, a
\* free one turns busy under the same lock.
offer(c) ==
  LET d == cursor[c] IN
    /\ progress[c] = "offer"
    /\ IF state[d] = "Busy"
         THEN Advance(c, "offer") /\ UNCHANGED state
         ELSE /\ state' = [state EXCEPT ![d] = "Busy"]
              /\ progress' = [progress EXCEPT ![c] = "sending"]
              /\ UNCHANGED cursor
    /\ UNCHANGED <<installed, release, chain, shutdown>>

\* issue_tx: the dispatcher acknowledged the transaction, and the task that waits
\* for it is spawned.  The transaction carries the sequence number read from the
\* store; a stray one that is still executable carries the same number.
Dispatched(c) ==
  LET d == cursor[c] IN
    /\ progress[c] = "sending"
    /\ progress' = [progress EXCEPT ![c] = "Accepted"]
    /\ task' = [task EXCEPT ![d] = "waiting"]
    /\ budget' = [budget EXCEPT ![d] = TX_MAX_WAIT]
    /\ tx' = [tx EXCEPT ![d] = "valid"]
    /\ ttl' = [ttl EXCEPT ![d] = FAUCET_TRANSACTION_EXPIRY]
    /\ UNCHANGED <<installed, state, cursor, stray, shutdown>>

\* The dispatcher returned an error: the delegate is free again and the request
\* goes on to the next one.  The error of the remote consumer does not tell
\* whether the validator received the transaction.
DispatchFailed(c, delivered) ==
  LET d == cursor[c] IN
    /\ progress[c] = "sending"
    /\ state' = [state EXCEPT ![d] = "Free"]
    /\ stray' = [stray EXCEPT ![d] = IF delivered THEN FAUCET_TRANSACTION_EXPIRY ELSE @]
    /\ Advance(c, "offer")
    /\ UNCHANGED <<installed, release, tx, ttl, shutdown>>

\* The validators execute the delegate's transaction, or a stray one with the
\* same sequence number, after which the other can only be invalid.
Execute(d) ==
  \/ /\ tx[d] = "valid" /\ ttl[d] > 0
     /\ tx' = [tx EXCEPT ![d] = "settled"]
     /\ stray' = [stray EXCEPT ![d] = 0]
     /\ UNCHANGED <<installed, state, client, release, ttl, shutdown>>
  \/ /\ stray[d] > 0
     /\ tx' = [tx EXCEPT ![d] = IF @ = "valid" THEN "stale" ELSE @]
     /\ stray' = [stray EXCEPT ![d] = 0]
     /\ UNCHANGED <<installed, state, client, release, ttl, shutdown>>
  \/ /\ tx[d] = "stale" /\ ttl[d] > 0
     /\ tx' = [tx EXCEPT ![d] = "settled"]
     /\ UNCHANGED <<installed, state, client, release, ttl, stray, shutdown>>

\* The archive shows a status other than pending: success, failure or invalid.
Notified(d) ==
  /\ task[d] = "waiting" /\ tx[d] = "settled"
  /\ task' = [task EXCEPT ![d] = "over"]
  /\ tx' = [tx EXCEPT ![d] = "none"]
  /\ UNCHANGED <<installed, state, client, budget, ttl, stray, shutdown>>

\* What is left of a transaction nobody waits for any more.
Abandon(d) ==
  /\ tx' = [tx EXCEPT ![d] = "none"]
  /\ ttl' = [ttl EXCEPT ![d] = 0]
  /\ stray' = [stray EXCEPT ![d] = IF tx[d] = "valid" THEN Larger(@, ttl[d]) ELSE @]

\* The archive cannot be read: the task ends with the transaction outstanding.
ArchiveError(d) ==
  /\ task[d] = "waiting"
  /\ task' = [task EXCEPT ![d] = "over"]
  /\ Abandon(d)
  /\ UNCHANGED <<installed, state, client, budget, shutdown>>

TimedOut_if_settled(d) ==
  /\ task[d] = "waiting" /\ budget[d] = 0 /\ tx[d] = "settled"
  /\ task' = [task EXCEPT ![d] = "over"]
  /\ Abandon(d)
  /\ UNCHANGED <<installed, state, client, budget, shutdown>>

\* WaitBudgetExhausted.
TimedOut(d) ==
  /\ task[d] = "waiting" /\ budget[d] = 0
  /\ task' = [task EXCEPT ![d] = "over"]
  /\ Abandon(d)
  /\ UNCHANGED <<installed, state, client, budget, shutdown>>

\* The spawned task gives the delegate back.
GetFree(d) ==
  /\ task[d] = "over"
  /\ task' = [task EXCEPT ![d] = "none"]
  /\ state' = [state EXCEPT ![d] = "Free"]
  /\ UNCHANGED <<installed, client, budget, chain, shutdown>>

\* The shutdown token wins the select: the task returns and the delegate stays
\* busy.
Stop(d) ==
  /\ shutdown /\ task[d] = "waiting"
  /\ task' = [task EXCEPT ![d] = "none"]
  /\ UNCHANGED <<installed, state, client, budget, chain, shutdown>>

Shutdown ==
  /\ ~ shutdown
  /\ shutdown' = TRUE
  /\ UNCHANGED <<installed, state, client, release, chain>>

\* A minute passes.  The sleep of the wait task fires on time: a task does not
\* stay for another minute on an exhausted budget.
FundTick ==
  LET down(f) == [d \in Delegates |-> IF f[d] > 0 THEN f[d] - 1 ELSE 0]
  IN /\ \A d \in Delegates : task[d] = "waiting" => budget[d] > 0
     /\ budget' = down(budget) /\ ttl' = down(ttl) /\ stray' = down(stray)
     /\ UNCHANGED <<installed, state, client, task, tx, shutdown>>

try_fund(c) ==
  assess(c) \/ offer(c) \/ Dispatched(c) \/ \E delivered \in BOOLEAN : DispatchFailed(c, delivered)

Wait(d) == Notified(d) \/ TimedOut(d) \/ GetFree(d)

FundNext ==
  \/ set_faucet \/ Shutdown \/ FundTick
  \/ \E c \in Requests : Enter(c) \/ try_fund(c) \/ Leave(c)
  \/ \E d \in Delegates : Wait(d) \/ ArchiveError(d) \/ Stop(d) \/ Execute(d)

FundSpec == FundInit /\ [][FundNext]_fundVars

(***************************************************************************)
(* Properties                                                              *)
(***************************************************************************)

\* The requests that have taken delegate d and are dispatching its transaction.
Takers(d) == {c \in Requests : progress[c] = "sending" /\ cursor[c] = d}

\* A delegate is never taken twice: at most one request dispatches for it, never
\* while its task is running, and it is busy all that time.  It is what the
\* assertion "Delegate with {minter} must be Busy" of the task rests on.
TakenOnce ==
  \A d \in Delegates :
    /\ \A c1, c2 \in Takers(d) : c1 = c2
    /\ Takers(d) # {} => task[d] = "none" /\ state[d] = "Busy"
    /\ task[d] # "none" => state[d] = "Busy"

\* Before shutdown a busy delegate has someone who will give it back.
BusyHasOwner ==
  ~ shutdown => \A d \in Delegates : state[d] = "Busy" => task[d] # "none" \/ Takers(d) # {}

\* A delegate is busy for exactly one owner: a request that dispatches or its task.
OneOwner == TakenOnce /\ BusyHasOwner

\* A delegate whose wait ran out of budget leaves no transaction behind that can
\* still be executed, so the next one does not reuse its sequence number: the
\* transaction expires before the wait does.
ExpiresBeforeBudget == [][\A d \in Delegates : TimedOut(d) => stray'[d] = stray[d]]_fundVars

\* A busy delegate becomes free again unless the node shuts down.
DelegateReturns ==
  \A d \in Delegates : state[d] = "Busy" ~> (state[d] = "Free" \/ shutdown)

\* Every request is answered, whatever the delegates do.
RequestAnswered ==
  \A c \in Requests : progress[c] = "assess" ~> progress[c] \in {"Accepted", "TryLater"}
=============================================================================
