------------------------------ MODULE MCRpcNode ------------------------------
(***************************************************************************)
(* The services of the RPC node on small instances: the gas price monitor, *)
(* the limit on simulations, paging through Move lists, the start-up       *)
(* and the epoch middleware.  They share no state; in a behaviour only     *)
(* `part` moves.                                                           *)
(***************************************************************************)
EXTENDS GasPriceStatistics, SimulationLimiter, NodeStartup

CONSTANTS None, MaxCount, MaxEpoch

VARIABLES
  part,
  state_index, groups, query, page, cursor, returned, done, added,
  certified, requests, rx_committee_auth, tx_certifier_message, epoch, stopping,
  schedule, certifier, middleware

listVars == <<state_index, groups, query, page, cursor, returned, done, added>>
epochVars == <<certified, requests, rx_committee_auth, tx_certifier_message, epoch, stopping,
               schedule, certifier, middleware>>
mcvars == <<vars, limiterVars, part, listVars, startupVars, epochVars>>

(***************************************************************************)
(* The instances.  An account has two resource groups with a module and,   *)
(* once it is published, a resource between them.  A start may resume,     *)
(* prune and offer a faucet in every combination, also without the pruning *)
(* configuration it needs.                                                 *)
(***************************************************************************)
L == INSTANCE MoveListPagination WITH
       Kind <- <<"group", "code", "resource", "group">>, Items <- 1 .. 2, Present <- {1, 2, 4},
       index <- state_index, request <- page

MCConfigs ==
  {[resume |-> r, mainnet |-> m, faucet |-> TRUE, pruning |-> p, prune_config |-> TRUE] :
     r \in BOOLEAN, m \in BOOLEAN, p \in {{}, {"archive"}}}
  \union
  {[resume |-> r, mainnet |-> FALSE, faucet |-> FALSE, pruning |-> {"store", "archive"},
    prune_config |-> FALSE] : r \in BOOLEAN}

E == INSTANCE EpochMiddleware WITH Capacity <- 1, notified <- stopping

\* The part that moves starts anywhere it may, the others in one of their states.
AtRest ==
  /\ part # "lists" => query = "Modules" /\ \A k \in DOMAIN groups : groups[k] = {1}
  /\ part # "start" => config = [resume |-> TRUE, mainnet |-> TRUE, faucet |-> TRUE,
                                 pruning |-> {}, prune_config |-> TRUE]
  /\ part # "epochs" => certified = 0

MCInit ==
  /\ part \in {"gas", "simulations", "lists", "start", "epochs"}
  /\ Init /\ LimiterInit /\ L!Init /\ StartupInit /\ E!Init /\ AtRest

OfLists(Step) ==
  part = "lists" /\ Step /\ UNCHANGED <<part, vars, limiterVars, startupVars, epochVars>>
OfStart(Step) ==
  part = "start" /\ Step /\ UNCHANGED <<part, vars, limiterVars, listVars, epochVars>>
OfEpochs(Step) ==
  part = "epochs" /\ Step /\ UNCHANGED <<part, vars, limiterVars, listVars, startupVars>>

MCNext ==
  \/ /\ part = "gas" /\ Next
     /\ UNCHANGED <<part, limiterVars, listVars, startupVars, epochVars>>
  \/ /\ part = "simulations" /\ LimiterNext
     /\ UNCHANGED <<part, vars, listVars, startupVars, epochVars>>
  \/ OfLists(L!Next)
  \/ OfStart(StartupNext)
  \/ OfEpochs(E!Next)

(***************************************************************************)
(* The certifier asks again and again and not every request fails to be    *)
(* sent; one that is sent again and again is answered; the tasks run.      *)
(***************************************************************************)
MCSpec ==
  /\ MCInit /\ [][MCNext]_mcvars
  /\ SF_mcvars(OfEpochs(\E kind \in E!Kinds : E!Sync(kind) /\ requests' # requests))
  /\ \A e \in 1 .. MaxEpoch : SF_mcvars(OfEpochs(E!Provide(e)))
  /\ WF_mcvars(OfEpochs(E!handle_committee_authorization))
  /\ WF_mcvars(OfEpochs(E!Certify)) /\ WF_mcvars(OfEpochs(E!Notify))
  /\ WF_mcvars(OfEpochs(E!run_ends))

(***************************************************************************)
(* What the parts promise                                                  *)
(***************************************************************************)

\* build_move_list: the pages hold every entry that was there from the start, and
\* twice only those of a resource group that grew.
PagesAreExact == L!PagesAreExact

\* Every authorized epoch is reached unless the node shuts down.
EpochReached == part = "epochs" => E!EpochReached
=============================================================================
