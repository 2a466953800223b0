---------------------------- MODULE CliRequests ----------------------------
(***************************************************************************)
(* The CLI in front of the REST interface: a command turns an RpcAction    *)
(* into a URL (endpoint_url), the node routes and answers it (RestApi),    *)
(* and the command decodes the answer (execute_action and the code that    *)
(* uses its result).  The paths are written down twice in the repository,  *)
(* once in the client and once in the router.                              *)
(***************************************************************************)
EXTENDS RestApi

VARIABLES
  command,   \* the command of the CLI, [action, version, decode]
  result     \* None, "error", or what the command took the answer for

cliVars == <<vars, command, result>>

Request(version, scope, path, method) ==
  [version |-> version, scope |-> scope, path |-> path, method |-> method]

account_information_url(v) == Request(v, "accounts", <<"text">>, "GET")
chain_id_url(v) == Request(v, "transactions", <<"chain_id">>, "GET")
estimate_gas_price_url(v) == Request(v, "transactions", <<"estimate_gas_price">>, "GET")

transaction_info_url_nested(v) == Request(v, "transactions", <<"text", "transactions">>, "GET")

transaction_info_url(v) == Request(v, "transactions", <<"text">>, "GET")

\* "text" stands for an address, a hash or a name in the path.
endpoint_url(action, v) ==
  CASE action = "ChainID"             -> chain_id_url(v)
    [] action = "EstimatedGasPrice"   -> estimate_gas_price_url(v)
    [] action = "AccountInformation"  -> account_information_url(v)
    [] action = "SimulateTransaction" -> Request(v, "transactions", <<"simulate">>, "POST")
    [] action \in {"SendTransaction", "SendSignedTransaction"}
                                      -> Request(v, "transactions", <<"submit">>, "POST")
    [] action = "RunViewFunction"     -> Request(v, "view", <<>>, "POST")
    [] action = "ListModules"         -> Request(v, "accounts", <<"text", "modules">>, "GET")
    [] action = "ListResources"       -> Request(v, "accounts", <<"text", "resources">>, "GET")
    [] action = "TransactionInfo"     -> transaction_info_url(v)
    [] action = "AccountResource"     -> Request(v, "accounts", <<"text", "resources", "text">>, "GET")
    [] action = "AccountModule"       -> Request(v, "accounts", <<"text", "modules", "text">>, "GET")
    [] action = "FundWithFaucet"      -> Request(v, "wallet", <<"text">>, "GET")

\* Commands whose action is decoded by execute_action itself.
Typed == {"ChainID", "EstimatedGasPrice", "AccountInformation", "SimulateTransaction", "SendTransaction",
          "SendSignedTransaction", "TransactionInfo"}
List           == {[action |-> a, decode |-> "typed"] : a \in {"ListModules", "ListResources"}}
FundWithFaucet == [action |-> "FundWithFaucet", decode |-> "typed"]

\* The others hand the response on.  fetch_account_balance and the proposal
\* check look at its status; show, view, balance and fetch_resource_account
\* take any JSON body for the result.
fetch_account_balance    == [action |-> "AccountResource", decode |-> "checked"]
handle_view_api_response == [action |-> "RunViewFunction", decode |-> "checked"]
Show                     == {[action |-> a, decode |-> "any_json"] : a \in {"AccountModule", "AccountResource"}}
View                     == [action |-> "RunViewFunction", decode |-> "any_json"]
Balance                  == [action |-> "AccountResource", decode |-> "any_json"]
fetch_resource_account   == [action |-> "AccountResource", decode |-> "any_json"]

Commands == {[action |-> a, decode |-> "typed"] : a \in Typed} \union List \union Show
            \union {FundWithFaucet, fetch_account_balance, handle_view_api_response, View, Balance,
                    fetch_resource_account}

\* A body of null decodes as none of the types the client expects.
map_response(r) == IF r.code = 200 /\ r.body = "value" THEN "value" ELSE "error"

execute_action(decode, r) ==
  IF decode = "any_json"
  THEN IF r.body = "empty" THEN "error" ELSE r.body
  ELSE map_response(r)

\* Requests of the CLI carry no query, as opposed to those of RestApi's Init.
CliInit ==
  /\ command \in {c @@ [version |-> v] : c \in Commands, v \in {"v1", "v2", "v3"}}
  /\ stage = "new" /\ faucet \in BOOLEAN
  /\ request = endpoint_url(command.action, command.version)
  /\ service = None /\ caller = None /\ work = None /\ outcome = None /\ response = None
  /\ result = None

NodeStep ==
  /\ \/ Route
     \/ stage = "authorized" /\ service # None /\
        \E q \in {[count |-> None, start |-> None, end |-> None]}, o \in DOMAIN service.handler : Handle(q, o)
     \/ NoService
  /\ UNCHANGED <<command, result>>

\* The answer arrives.
Receive ==
  /\ stage = "answered" /\ result = None
  /\ result' = execute_action(command.decode, response)
  /\ UNCHANGED <<vars, command>>

\* The connection fails before or after the node answered.
ConnectionFails ==
  /\ result = None
  /\ result' = "error"
  /\ UNCHANGED <<vars, command>>

CliNext == NodeStep \/ Receive \/ ConnectionFails

CliSpec == CliInit /\ [][CliNext]_cliVars

(***************************************************************************)
(* Properties                                                              *)
(***************************************************************************)

\* The handlers that serve what an action asks for.
Serves(action) ==
  CASE action = "ChainID"             -> {chain_id}
    [] action = "EstimatedGasPrice"   -> {estimate_gas_price}
    [] action = "AccountInformation"  -> {get_account_v1, get_account_v2}
    [] action = "SimulateTransaction" -> {simulate_txn}
    [] action \in {"SendTransaction", "SendSignedTransaction"} -> {submit_txn}
    [] action = "RunViewFunction"     -> {view_function_v1, view_function_v2}
    [] action = "ListModules"         -> {get_account_modules_v1, get_account_modules_v2}
    [] action = "ListResources"       -> {get_account_resources_v1, get_account_resources_v2}
    [] action = "TransactionInfo"     -> {transaction_by_hash_internal, transient_transaction_by_hash,
                                          transaction_by_hash_v3}
    [] action = "AccountResource"     -> {get_account_resource_v1, get_account_resource_v2}
    [] action = "AccountModule"       -> {get_account_module_v1, get_account_module_v2}
    [] action = "FundWithFaucet"      -> {faucet_service}

\* The URL the client writes reaches, in every API version, the handler that
\* does what the action means.  The one command no node serves is funding
\* through v2, whose router has no faucet, and through a node without one.
CommandReachesItsHandler ==
  stage \in {"authorized", "answered"} =>
    IF service # None THEN service.handler \in Serves(command.action)
    ELSE command.action = "FundWithFaucet" /\ (command.version = "v2" \/ ~faucet)

\* A command that decodes its answer never takes an error, an absent value or
\* an unanswered request for a result.
DecodedIsAnswered ==
  (result = "value" /\ command.decode # "any_json") =>
    stage = "answered" /\ response.code = 200 /\ response.body = "value"

\* What a command prints as its result is the answer of the handler for what it
\* asked.
CommandIsServed == CommandReachesItsHandler /\ DecodedIsAnswered
=============================================================================
