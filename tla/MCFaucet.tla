------------------------------ MODULE MCFaucet ------------------------------
(***************************************************************************)
(* The faucet and the limiters of the REST server on small instances: the  *)
(* endpoint with its limiter, the delegates that fund an account, the      *)
(* preparation of the minters, and the limiter of transaction submissions. *)
(* They share no state; in a behaviour only `part` moves.                  *)
(***************************************************************************)
EXTENDS FaucetCallLimiter, Faucet, MinterAccount, RestCallLimiter

VARIABLE part

mcvars == <<vars, part, fundVars, prepareVars, callVars>>

MCInit ==
  /\ part \in {"limiter", "delegates", "minters", "submissions"}
  /\ Init /\ FundInit /\ PrepareInit /\ CallInit

OfDelegates(A) == part = "delegates" /\ A /\ UNCHANGED <<part, vars, prepareVars, callVars>>

MCNext ==
  \/ part = "limiter" /\ Next /\ UNCHANGED <<part, fundVars, prepareVars, callVars>>
  \/ OfDelegates(FundNext)
  \/ part = "minters" /\ PrepareNext /\ UNCHANGED <<part, vars, fundVars, callVars>>
  \/ part = "submissions" /\ CallNext /\ UNCHANGED <<part, vars, fundVars, prepareVars>>

\* Requests and tasks run on the threads of the runtime, dispatching returns, and
\* time passes.  Nothing makes a validator execute a transaction.
MCSpec ==
  /\ MCInit /\ [][MCNext]_mcvars
  /\ WF_mcvars(OfDelegates(FundTick))
  /\ \A c \in Requests : WF_mcvars(OfDelegates(try_fund(c)))
  /\ \A d \in Delegates : WF_mcvars(OfDelegates(Wait(d)))

(***************************************************************************)
(* What the delegates promise                                              *)
(***************************************************************************)

\* Faucet::try_fund answers every request, and a busy delegate becomes free again
\* unless the node shuts down.
FundingEnds == part = "delegates" => RequestAnswered /\ DelegateReturns
=============================================================================
