---------------------------- MODULE MCRpcClient ----------------------------
(***************************************************************************)
(* The CLI and the RPC node it talks to: two commands of one account that  *)
(* send a transaction over a network on which everything can fail; a       *)
(* single command, with and without failed reads, while another invocation *)
(* changes the active profile; the queries of the CLI at the node's REST   *)
(* interface; and that interface under arbitrary requests.  The parts      *)
(* share no state; in a behaviour only `part` moves.                       *)
(***************************************************************************)
EXTENDS RpcClient

CONSTANTS c1, c2, n1, n2, None

VARIABLES
  part,   \* "pair", "single", "cli" or "rest"
  stage, faucet, request, service, caller, work, outcome, response, command, result

restVars == <<stage, faucet, request, service, caller, work, outcome, response, command, result>>
mcvars == <<vars, part, restVars>>

\* Two tokens, one bound to a host and one to a peer address, and headers of every kind.
KycTokens == {[hash |-> "t1", source |-> [kind |-> "Host", of |-> "h1"]],
              [hash |-> "t2", source |-> [kind |-> "IpAddr", of |-> "p1"]]}

Headers == {[kind |-> k, token |-> "none"] : k \in {"absent", "not_text", "other_scheme"}}
           \union {[kind |-> "Bearer", token |-> t] : t \in {"t1", "t2", "t3"}}

A == INSTANCE CliRequests WITH
       Hosts <- {{"h1", "port"}, {"h2"}}, Peers <- {"p1", "p2", "unknown"},
       Counts <- {0, 1, 3, 4, 7}, Heights <- {0, 1, 2, 3, 9},
       DEFAULT_SIZE_OF_PAGE <- 2, MAX_NUM_OF_TRANSACTIONS_TO_RETURN <- 3,
       DEFAULT_EVENTS_LIMIT <- 2, MAX_EVENTS_TO_RETURN <- 4,
       MAX_NUM_OF_BLOCK_EVENTS_TO_RETURN <- 2, U64_MAX <- 9

RestInit ==
  CASE part = "rest" -> A!Init /\ command = None /\ result = None
    [] part = "cli"  -> A!CliInit
    [] OTHER -> /\ stage = "new" /\ faucet = FALSE /\ request = None /\ service = None
                /\ caller = None /\ work = None /\ outcome = None /\ response = None
                /\ command = None /\ result = None

MCInit ==
  /\ part \in {"pair", "single", "cli", "rest"}
  /\ Init /\ active = n1 /\ "post" \in faults /\ (part # "single" => "read" \in faults)
  /\ RestInit

\* A node that no command asks keeps up with the chain.
MCNext ==
  \/ /\ part \in {"pair", "single"}
     /\ Next
     /\ IF part = "single"
          THEN cli'[c2] = cli[c2]
          ELSE active' = n1 /\ (synced[n2] < Len(log) => synced'[n2] > synced[n2])
     /\ UNCHANGED <<part, restVars>>
  \/ part = "rest" /\ A!Next /\ UNCHANGED <<part, vars, command, result>>
  \/ part = "cli" /\ A!CliNext /\ UNCHANGED <<part, vars>>

Alone(Action) == part = "single" /\ Action /\ UNCHANGED <<part, restVars>>

\* The single command's own requests end (the HTTP client has a timeout), and time
\* goes on; nothing is assumed of the chain, and the only thing assumed of a node
\* is that it keeps within its lag.
MCSpec ==
  /\ MCInit /\ [][MCNext]_mcvars
  /\ WF_mcvars(Alone(Tick))
  /\ \A n \in Nodes : WF_mcvars(Alone(Execute(n)))
  /\ WF_mcvars(Alone(Step(c1)))

(***************************************************************************)
(* What the parts promise                                                  *)
(***************************************************************************)

\* A command that posted its transaction ends, whatever the chain and the
\* network do.
SingleCommandEnds == part = "single" => CommandEnds

\* rest_root_route: a request reaches its most specific service, and v3 serves
\* whatever v1 and v2 serve.
RoutedRight == request # None => A!RoutedRight

\* AuthorizationMiddleware, the limits of the handlers and the status codes: a
\* consensus handler needs a token, work is bounded, what is absent is a 404.
AnswerIsRight == request # None => A!AnswerIsRight

\* endpoint_url and the router agree on every path, and map_response takes
\* nothing but an answered value for a result.
CommandIsServed == part = "cli" => A!CommandIsServed
=============================================================================
