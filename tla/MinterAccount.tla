---------------------------- MODULE MinterAccount ----------------------------
(***************************************************************************)
(* Preparing the faucet's minters: Faucet::prepare, MinterAccount::generate*)
(* and ensure_tx.  One task prepares the minters one after the other; each *)
(* takes three transactions in order, and each transaction is reissued     *)
(* until it succeeds or the TX_MAX_WAIT of its stage has passed.  The first*)
(* two are sent by the root account, whose sequence number all minters     *)
(* share; the third by the new account.  Timers count down in minutes.     *)
(***************************************************************************)
EXTENDS FaucetTimes

CONSTANT NumMinters

ASSUME MintersAssumption == NumMinters \in Nat

\* The stages of generate: what their transactions do on chain.
Stages == <<"funded", "delegated", "claimed">>

Minters == 1 .. NumMinters

VARIABLES
  minter, stage,     \* the loop of prepare and the stage of generate
  step,              \* "issue", "waiting", "ensured", "failed" or "prepared"
  timeout,           \* what is left of the timeout around ensure_tx
  issued, lifetime,  \* the transaction being waited for, and how long it is valid
  strays,            \* abandoned transactions that can still be executed
  effects,           \* what the chain did: how often, per minter and stage
  addresses          \* the minters returned so far

prepareVars == <<minter, stage, step, timeout, issued, lifetime, strays, effects, addresses>>

Kind == {Stages[s] : s \in 1 .. 3}

PrepareInit ==
  /\ minter = 1 /\ stage = 1
  /\ step = IF NumMinters = 0 THEN "prepared" ELSE "issue"
  /\ timeout = TX_MAX_WAIT
  /\ issued = "none" /\ lifetime = 0
  /\ strays = {}
  /\ effects = [m \in Minters |-> [k \in Kind |-> 0]]
  /\ addresses = {}

\* Who sends the transaction of stage s for minter m: the root account (0) or m.
Sender(m, s) == IF s = 3 THEN m ELSE 0

\* issue_tx: the store has the sender's account; the dispatcher takes it.
issue_tx ==
  /\ step = "issue" /\ timeout > 0
  /\ step' = "waiting"
  /\ issued' = "valid"
  /\ lifetime' = FAUCET_TRANSACTION_EXPIRY
  /\ UNCHANGED <<minter, stage, timeout, strays, effects, addresses>>

\* The dispatcher or the archive returned an error: ensure_tx forwards it.  A
\* transaction that is outstanding stays so.
Forward ==
  /\ step \in {"issue", "waiting"}
  /\ step' = "failed"
  /\ strays' = IF issued = "valid" /\ lifetime > 0
                 THEN strays \union {[minter |-> minter, stage |-> stage, ttl |-> lifetime]}
                 ELSE strays
  /\ issued' = "none" /\ lifetime' = 0
  /\ UNCHANGED <<minter, stage, timeout, effects, addresses>>

\* The timeout around ensure_tx fires: WaitBudgetExhausted.
GenerateTimedOut ==
  /\ timeout = 0
  /\ Forward

\* The stage's effect happens on chain; one stage needs the one before it, and
\* claiming needs the capability to have been delegated.
Effective(m, s) == IF s = 1 THEN TRUE ELSE effects[m][Stages[s - 1]] > 0

\* A transaction of an account is executed: the others of that account that
\* carry the same sequence number become invalid.
Invalidated(sender) == {y \in strays : Sender(y.minter, y.stage) = sender}

\* The awaited transaction is executed with success or failure, which uses up the
\* sequence number, or is put in a block as invalid, which does not.
ExecuteIssued ==
  /\ issued = "valid" /\ lifetime > 0
  /\ \/ /\ Effective(minter, stage)
        /\ issued' = "success"
        /\ effects' = [effects EXCEPT ![minter][Stages[stage]] = @ + 1]
        /\ strays' = strays \ Invalidated(Sender(minter, stage))
     \/ /\ issued' = "bad"
        /\ strays' \in {strays, strays \ Invalidated(Sender(minter, stage))}
        /\ UNCHANGED effects
  /\ UNCHANGED <<minter, stage, step, timeout, lifetime, addresses>>

\* An abandoned transaction is executed after all.
ExecuteStray(y) ==
  /\ y \in strays
  /\ strays' = strays \ Invalidated(Sender(y.minter, y.stage))
  /\ issued' = IF issued = "valid" /\ Sender(minter, stage) = Sender(y.minter, y.stage) THEN "stale" ELSE issued
  /\ effects' = IF Effective(y.minter, y.stage)
                  THEN [effects EXCEPT ![y.minter][Stages[y.stage]] = @ + 1] ELSE effects
  /\ UNCHANGED <<minter, stage, step, timeout, lifetime, addresses>>

\* A transaction whose sequence number is used up is put in a block as invalid.
Reject ==
  /\ issued = "stale" /\ lifetime > 0
  /\ issued' = "bad"
  /\ UNCHANGED <<minter, stage, step, timeout, lifetime, strays, effects, addresses>>

\* The wait ends with success: ensure_tx returns the hash.
Ensured ==
  /\ step = "waiting" /\ issued = "success"
  /\ step' = "ensured"
  /\ issued' = "none" /\ lifetime' = 0
  /\ UNCHANGED <<minter, stage, timeout, strays, effects, addresses>>

Retry_while_pending ==
  /\ step = "waiting" /\ issued \in {"bad", "valid"}
  /\ step' = "issue"
  /\ strays' = strays \union {[minter |-> minter, stage |-> stage, ttl |-> 1]}
  /\ issued' = "none" /\ lifetime' = 0
  /\ UNCHANGED <<minter, stage, timeout, effects, addresses>>

\* BadTransaction: the loop issues it again with the actual sequence number.
Retry ==
  /\ step = "waiting" /\ issued = "bad"
  /\ step' = "issue"
  /\ issued' = "none" /\ lifetime' = 0
  /\ UNCHANGED <<minter, stage, timeout, strays, effects, addresses>>

\* generate goes on to its next stage, or prepare takes the finished minter.
NextStage ==
  /\ step = "ensured"
  /\ timeout' = TX_MAX_WAIT
  /\ IF stage < 3
       THEN /\ stage' = stage + 1 /\ step' = "issue"
            /\ UNCHANGED <<minter, addresses>>
       ELSE /\ addresses' = addresses \union {minter}
            /\ stage' = 1
            /\ IF minter = NumMinters THEN step' = "prepared" /\ UNCHANGED minter
                                      ELSE step' = "issue" /\ minter' = minter + 1
  /\ UNCHANGED <<issued, lifetime, strays, effects>>

\* A minter that cannot be generated is skipped.
Skip ==
  /\ step = "failed"
  /\ timeout' = TX_MAX_WAIT /\ stage' = 1
  /\ IF minter = NumMinters THEN step' = "prepared" /\ UNCHANGED minter
                            ELSE step' = "issue" /\ minter' = minter + 1
  /\ UNCHANGED <<issued, lifetime, strays, effects, addresses>>

\* A minute passes; the timeout fires on time.
PrepareTick ==
  /\ step \in {"issue", "waiting"} => timeout > 0
  /\ timeout' = IF timeout > 0 THEN timeout - 1 ELSE 0
  /\ lifetime' = IF lifetime > 0 THEN lifetime - 1 ELSE 0
  /\ strays' = {[y EXCEPT !.ttl = @ - 1] : y \in {z \in strays : z.ttl > 1}}
  /\ UNCHANGED <<minter, stage, step, issued, effects, addresses>>

prepare == issue_tx \/ Ensured \/ Retry \/ NextStage \/ Skip \/ GenerateTimedOut

PrepareNext ==
  \/ prepare \/ Forward \/ PrepareTick
  \/ ExecuteIssued \/ Reject
  \/ \E y \in strays : ExecuteStray(y)

PrepareSpec == PrepareInit /\ [][PrepareNext]_prepareVars

(***************************************************************************)
(* Properties                                                              *)
(***************************************************************************)

\* Every minter that prepare returns can mint: its account was created and funded,
\* the capability delegated to it and claimed by it, whatever was reissued,
\* abandoned or executed late on the way.
PreparedCanMint == \A m \in addresses, k \in Kind : effects[m][k] > 0

\* Reissuing never repeats an effect: a minter is funded and given its capability
\* at most once.
NoEffectTwice == \A m \in Minters, k \in Kind : effects[m][k] <= 1

\* Every stage of preparing a minter takes effect exactly once.
EffectsExactlyOnce == PreparedCanMint /\ NoEffectTwice

=============================================================================
