------------------------------ MODULE RestApi ------------------------------
(***************************************************************************)
(* The REST interface of the RPC node (rest/router, rest/api,              *)
(* rest/controller, authorization.rs, error.rs): a request is matched      *)
(* against the registered services, passes the authorization of the        *)
(* consensus scopes, is validated and handled, and every result becomes a  *)
(* status code.  What the stores hold is a choice among the outcomes a     *)
(* handler tells apart; what it does with each is its table below.         *)
(***************************************************************************)
EXTENDS Integers, Sequences, SequencesExt, FiniteSets

CONSTANTS
  KycTokens,      \* configured tokens: [hash, source], a source is [kind, of]
  Headers,        \* Authorization headers a client may send
  Hosts,          \* host parts of the connection: sets of names
  Peers,          \* peer addresses
  Counts,         \* page sizes and limits a client may ask for
  Heights,        \* block heights a client may ask for
  DEFAULT_SIZE_OF_PAGE, MAX_NUM_OF_TRANSACTIONS_TO_RETURN,
  DEFAULT_EVENTS_LIMIT, MAX_EVENTS_TO_RETURN, MAX_NUM_OF_BLOCK_EVENTS_TO_RETURN,
  U64_MAX,
  None

VARIABLES
  stage,     \* "new", "routed", "authorized", "answered"
  faucet,    \* whether ApiServerState has a faucet state when routes are built
  request,   \* [version, scope, path, method]
  service,   \* the service the request was routed to, or None
  caller,    \* credentials of a request that met the authorization, or None
  work,      \* what the handler asked of the stores, or None
  outcome,   \* the outcome the handler met, or None
  response   \* None, or [code, body]

vars == <<stage, faucet, request, service, caller, work, outcome, response>>

(***************************************************************************)
(* Errors and their status codes                                           *)
(***************************************************************************)
Ok(body)  == [ok |-> TRUE, of |-> body]
Err(kind) == [ok |-> FALSE, of |-> kind, inner |-> None]
\* An ApiServerError, wrapped before it leaves the server.
PublicApiServerError(kind) == [ok |-> FALSE, of |-> "PublicApiServerError", inner |-> kind]

public_status_code(kind) ==
  CASE kind = "TooManyConcurrentSimulations" -> 429
    [] kind = "TransactionNotFound"          -> 404
    [] OTHER                                 -> 400

status_code(error) ==
  CASE error.of \in {"Store", "Archive", "TransactionAcceptStatus", "FaucetNotEnabled", "Other"} -> 500
    [] error.of \in {"BadTransactionRequest", "MoveConverterError", "MoveVmPartialError",
                     "InvalidInput", "CursorDecodeError"} -> 400
    [] error.of \in {"ExecutionRetrieval", "InformationNotAvailable"} -> 404
    [] error.of \in {"TooManyRequests", "FaucetLimiterError"} -> 429
    [] error.of = "PublicApiServerError" -> public_status_code(error.inner)

error_response(result) ==
  IF result.ok THEN [code |-> 200, body |-> result.of]
  ELSE [code |-> status_code(result),
        body |-> IF result.of = "PublicApiServerError" THEN "Internal server error" ELSE result.of]

Value   == Ok("value")
Null    == Ok("null")
\* Error::unwrap_or_404 and the ok_or of the controllers, on None.
NotAvailable == Err("InformationNotAvailable")

(***************************************************************************)
(* Handlers: the result of each outcome a handler can meet                 *)
(***************************************************************************)
get_account_v1 == [found |-> Value, absent |-> Null, unreadable |-> Err("Other")]
get_account_v2 == [found |-> Value, absent |-> NotAvailable, unreadable |-> Err("Other")]

get_move_resource ==
  [found |-> Value, absent |-> Null, fault |-> PublicApiServerError("Other"),
   unreadable |-> PublicApiServerError("Other")]
get_account_resource_v1 ==
  [malformed |-> Err("InvalidInput"), found |-> Value, absent |-> Null,
   fault |-> Err("Other"), unreadable |-> Null]
get_account_resource_v2 ==
  [malformed |-> Err("InvalidInput")] @@ [get_move_resource EXCEPT !.absent = NotAvailable]

get_module_byte_code_from_module_id ==
  [found |-> Value, absent |-> Null, fault |-> Err("Other"), unreadable |-> Err("MoveVmPartialError")]
get_account_module_v1 == [malformed |-> Err("InvalidInput")] @@ get_module_byte_code_from_module_id
get_account_module_v2 ==
  [malformed |-> Err("InvalidInput")] @@ [get_module_byte_code_from_module_id EXCEPT !.absent = NotAvailable]

\* The listings of published resources and modules: the list, then each item
\* of it.  A module that cannot be read is left out of the page.
get_move_list == [malformed |-> PublicApiServerError("MoveListError"), found |-> Value,
                  fault |-> PublicApiServerError("MoveListError")]
get_account_resources_v1 == get_move_list
get_account_resources_v2 == get_move_list @@ [removed |-> NotAvailable,
                                              unreadable |-> PublicApiServerError("Other")]
get_account_resources_v3 == get_account_resources_v2
get_account_modules_v1 == get_move_list
get_account_modules_v2 == get_move_list @@ [removed |-> Value, unreadable |-> Value]
get_account_modules_v3 == get_account_modules_v2

statement_controller ==
  [found |-> Value, removed |-> PublicApiServerError("MissingAccountTransaction"),
   fault |-> PublicApiServerError("ArchiveError")]
get_account_transactions_v1 == statement_controller
get_account_transactions_v2 == statement_controller
get_account_transactions_v3 == statement_controller
coin_transactions_controller_v2 == statement_controller
coin_transactions_v1 == coin_transactions_controller_v2
coin_transactions_v2 == coin_transactions_controller_v2
coin_transactions_controller_v3 == statement_controller
coin_transactions_v3 == coin_transactions_controller_v3
get_account_automated_transactions_v3 ==
  [malformed |-> Err("CursorDecodeError"), found |-> Value, fault |-> PublicApiServerError("ArchiveError"),
   removed |-> PublicApiServerError("MissingAccountAutomatedTransaction")]

latest_block_v1 == [found |-> Value, absent |-> Null, fault |-> Err("Archive")]
latest_block_v2 == [latest_block_v1 EXCEPT !.absent = NotAvailable]
latest_block_v3 == latest_block_v2 @@ [stats_fault |-> PublicApiServerError("ArchiveError")]
block_header_info_v1 == [found |-> Value, absent |-> Null, fault |-> Err("Archive")]
block_header_info_v2 == [block_header_info_v1 EXCEPT !.absent = NotAvailable]
block_info_by_hash_v3 == block_header_info_v2 @@ [stats_fault |-> PublicApiServerError("ArchiveError")]
block_by_height_v1 ==
  [found |-> Value, absent |-> Null, fault |-> PublicApiServerError("ArchiveError"),
   removed |-> PublicApiServerError("MissingBlockTransaction")]
block_by_height_v2 == [block_by_height_v1 EXCEPT !.absent = NotAvailable]
block_by_height_v3 == block_by_height_v2 @@ [stats_fault |-> PublicApiServerError("ArchiveError")]
get_block_height_by_hash == [found |-> Value, absent |-> NotAvailable, fault |-> Err("Archive")]
txs_by_block_v1 == get_block_height_by_hash
txs_by_block_v3 == get_block_height_by_hash

transaction_by_hash_internal ==
  [found |-> Value, absent |-> Null, fault |-> PublicApiServerError("ArchiveError")]
transient_transaction_by_hash ==
  [found |-> Value, absent |-> PublicApiServerError("TransactionNotFound"),
   fault |-> PublicApiServerError("ArchiveError")]
\* Without a type, a hash nobody knows ends in the block metadata, which is
\* None; with one, it is the TransactionNotFound of that type.
transaction_by_hash_v3 ==
  transient_transaction_by_hash @@ [absent_of_any_type |-> NotAvailable]
chain_id == [found |-> Value]
transaction_parameters == [found |-> Value]
estimate_gas_price == [found |-> Value]
submit_txn ==
  [found |-> Value, limited |-> Err("TooManyRequests"), invalid |-> Err("BadTransactionRequest"),
   task_failed |-> Err("Other"), fault |-> Err("TransactionAcceptStatus")]
simulate_txn ==
  [found |-> Value, smr |-> Err("BadTransactionRequest"),
   limited |-> PublicApiServerError("TooManyConcurrentSimulations"),
   invalid |-> PublicApiServerError("InvalidSimulationTransaction"), fault |-> PublicApiServerError("Other")]
faucet_service ==
  [found |-> Value, not_enabled |-> Err("FaucetNotEnabled"), limited |-> Err("FaucetLimiterError")]

view_function_v1 == [found |-> Value, malformed |-> Err("Other"), failed |-> Err("Other"), unreadable |-> Value]
view_function_v2 == [view_function_v1 EXCEPT !.unreadable = Err("Other")]
table_item_by_key_v1 ==
  [found |-> Value, absent |-> Null, malformed_type |-> Err("Other"),
   malformed_key |-> Err("MoveConverterError"), unreadable |-> PublicApiServerError("Other")]
table_item_by_key_v2 == [table_item_by_key_v1 EXCEPT !.absent = NotAvailable] @@
  [malformed_key_type |-> Err("InvalidInput")]

get_certified_block ==
  [found |-> Value, absent |-> Null, fault |-> PublicApiServerError("StoreError"),
   removed |-> PublicApiServerError("InconsistentStoreState")]
\* serializable_to_http_response answers 404 with an empty body.
consensus_block_v1 == get_certified_block
consensus_block_v2 == [get_certified_block EXCEPT !.absent = NotAvailable]
latest_consensus_block == consensus_block_v2
committee_authorization ==
  [found |-> Value, absent |-> NotAvailable, fault |-> PublicApiServerError("StoreError")]

events_by_type_v1 == [malformed |-> Err("InvalidInput"), found |-> Value,
                      fault |-> PublicApiServerError("ArchiveError"), unreadable |-> PublicApiServerError("Other")]
events_by_type_v3 == events_by_type_v1 @@ [malformed_cursor |-> Err("CursorDecodeError")]

(***************************************************************************)
(* Routes, in the order in which they are registered                       *)
(***************************************************************************)
Get(path, handler)  == [method |-> "GET", path |-> path, handler |-> handler]
Post(path, handler) == [method |-> "POST", path |-> path, handler |-> handler]

account_route_v1 == <<
  Get(<<"*">>, get_account_v1),
  Get(<<"*", "resources">>, get_account_resources_v1),
  Get(<<"*", "modules">>, get_account_modules_v1),
  Get(<<"*", "resources", "*">>, get_account_resource_v1),
  Get(<<"*", "modules", "*">>, get_account_module_v1),
  Get(<<"*", "transactions">>, get_account_transactions_v1),
  Get(<<"*", "coin_transactions">>, coin_transactions_v1) >>
account_route_v2 == <<
  Get(<<"*">>, get_account_v2),
  Get(<<"*", "resources", "*">>, get_account_resource_v2),
  Get(<<"*", "resources">>, get_account_resources_v2),
  Get(<<"*", "modules", "*">>, get_account_module_v2),
  Get(<<"*", "modules">>, get_account_modules_v2),
  Get(<<"*", "transactions">>, get_account_transactions_v2),
  Get(<<"*", "coin_transactions">>, coin_transactions_v2) >>
account_route_v3 == <<
  Get(<<"*", "transactions">>, get_account_transactions_v3),
  Get(<<"*", "automated_transactions">>, get_account_automated_transactions_v3),
  Get(<<"*", "coin_transactions">>, coin_transactions_v3),
  Get(<<"*", "resources">>, get_account_resources_v3),
  Get(<<"*", "modules">>, get_account_modules_v3),
  Get(<<"*">>, get_account_v2),
  Get(<<"*", "resources", "*">>, get_account_resource_v2),
  Get(<<"*", "modules", "*">>, get_account_module_v2) >>

block_route_v1 == <<
  Get(<<>>, latest_block_v1), Get(<<"*">>, block_header_info_v1),
  Get(<<"*", "transactions">>, txs_by_block_v1), Get(<<"height", "*">>, block_by_height_v1) >>
block_route_v2 == <<
  Get(<<>>, latest_block_v2), Get(<<"*">>, block_header_info_v2),
  Get(<<"height", "*">>, block_by_height_v2) >>
block_route_v3 == <<
  Get(<<"height", "*">>, block_by_height_v3), Get(<<"*", "transactions">>, txs_by_block_v3),
  Get(<<>>, latest_block_v3), Get(<<"*">>, block_info_by_hash_v3) >>

transaction_route_v1 == <<
  Get(<<"chain_id">>, chain_id), Get(<<"parameters">>, transaction_parameters),
  Get(<<"estimate_gas_price">>, estimate_gas_price), Post(<<"submit">>, submit_txn),
  Post(<<"simulate">>, simulate_txn), Get(<<"*">>, transaction_by_hash_internal) >>
transaction_route_v2 == <<
  Get(<<"estimate_gas_price">>, estimate_gas_price), Post(<<"simulate">>, simulate_txn),
  Get(<<"chain_id">>, chain_id), Post(<<"submit">>, submit_txn),
  Get(<<"*">>, transient_transaction_by_hash) >>
transaction_route_v3_dynamic_first == <<
  Get(<<"*">>, transaction_by_hash_v3),
  Get(<<"estimate_gas_price">>, estimate_gas_price), Post(<<"simulate">>, simulate_txn),
  Get(<<"chain_id">>, chain_id), Get(<<"parameters">>, transaction_parameters),
  Post(<<"submit">>, submit_txn) >>
transaction_route_v3 == <<
  Get(<<"estimate_gas_price">>, estimate_gas_price), Post(<<"simulate">>, simulate_txn),
  Get(<<"chain_id">>, chain_id), Get(<<"parameters">>, transaction_parameters),
  Post(<<"submit">>, submit_txn), Get(<<"*">>, transaction_by_hash_v3) >>

view_function_route_v1 == << Post(<<>>, view_function_v1) >>
view_function_route_v2 == << Post(<<>>, view_function_v2) >>
view_function_route_v3 == view_function_route_v2
tables_route_v1 == << Post(<<"*", "item">>, table_item_by_key_v1) >>
tables_route_v2 == << Post(<<"*", "item">>, table_item_by_key_v2) >>
tables_route_v3 == tables_route_v2
events_route_v1 == << Get(<<"*">>, events_by_type_v1) >>
events_route_v3 == << Get(<<"*">>, events_by_type_v3) >>
consensus_route_v1 == << Get(<<"block", "height", "*">>, consensus_block_v1) >>
consensus_route_v2 == <<
  Get(<<"block", "height", "*">>, consensus_block_v2), Get(<<"block">>, latest_consensus_block),
  Get(<<"committee_authorization", "*">>, committee_authorization) >>
consensus_route_v3 == consensus_route_v2
wallet_route_v1 == <<
  Get(<<"*">>, faucet_service), Get(<<"transactions", "*">>, transaction_by_hash_internal) >>
wallet_route_v2 == << Get(<<"transactions", "*">>, transient_transaction_by_hash) >>
wallet_route_v3 == <<
  Get(<<"transactions", "*">>, transient_transaction_by_hash), Get(<<"*">>, faucet_service) >>

Scope(version, scope, services) == [version |-> version, scope |-> scope, services |-> services]

rest_routes == <<
  Scope("v1", "accounts", account_route_v1), Scope("v1", "transactions", transaction_route_v1),
  Scope("v1", "block", block_route_v1), Scope("v1", "view", view_function_route_v1),
  Scope("v1", "events", events_route_v1), Scope("v1", "tables", tables_route_v1),
  Scope("v1", "consensus", consensus_route_v1),
  Scope("v2", "accounts", account_route_v2), Scope("v2", "transactions", transaction_route_v2),
  Scope("v2", "block", block_route_v2), Scope("v2", "view", view_function_route_v2),
  Scope("v2", "tables", tables_route_v2), Scope("v2", "consensus", consensus_route_v2),
  Scope("v3", "accounts", account_route_v3), Scope("v3", "block", block_route_v3),
  Scope("v3", "transactions", transaction_route_v3), Scope("v3", "events", events_route_v3),
  Scope("v3", "view", view_function_route_v3), Scope("v3", "tables", tables_route_v3),
  Scope("v3", "consensus", consensus_route_v3) >>

wallet_routes == <<
  Scope("v1", "wallet", wallet_route_v1), Scope("v2", "wallet", wallet_route_v2),
  Scope("v3", "wallet", wallet_route_v3) >>

rest_root_route(is_faucet_enabled) ==
  (IF is_faucet_enabled THEN wallet_routes ELSE <<>>) \o rest_routes

(***************************************************************************)
(* Matching a request: the scope, then its first service that fits         *)
(***************************************************************************)
Fits(pattern, path) ==
  /\ Len(pattern) = Len(path)
  /\ \A i \in 1 .. Len(path) : pattern[i] \in {"*", path[i]}

ScopeOf(req) ==
  SelectSeq(rest_root_route(faucet), LAMBDA s : s.version = req.version /\ s.scope = req.scope)

Services(req) ==
  IF ScopeOf(req) = <<>> THEN <<>>
  ELSE SelectSeq(Head(ScopeOf(req)).services,
                 LAMBDA s : s.method = req.method /\ Fits(s.path, req.path))

Words == {"text", "resources", "modules", "transactions", "coin_transactions", "automated_transactions",
          "height", "chain_id", "parameters", "estimate_gas_price", "submit", "simulate", "item",
          "block", "committee_authorization"}

Scopes == {"accounts", "transactions", "block", "view", "events", "tables", "consensus", "wallet"}

Paths == {<<>>} \union {<<w>> : w \in Words} \union {<<"text", w>> : w \in Words}
         \union {<<w, "text">> : w \in Words}
         \union {<<"text", w, "text">> : w \in {"resources", "modules"}}
         \union {<<"block", "height", "text">>}

Init ==
  /\ stage = "new"
  /\ faucet \in BOOLEAN
  /\ request \in [version : {"v1", "v2", "v3"}, scope : Scopes, path : Paths, method : {"GET", "POST"}]
  /\ service = None /\ caller = None /\ work = None /\ outcome = None /\ response = None

Answer(r) == stage' = "answered" /\ response' = r

NotFound == [code |-> 404, body |-> "empty"]

\* The request meets the middleware of its scope, if there is such a scope.
Route ==
  /\ stage = "new"
  /\ IF ScopeOf(request) = <<>>
     THEN Answer(NotFound) /\ UNCHANGED service
     ELSE /\ stage' = IF request.scope = "consensus" THEN "routed" ELSE "authorized"
          /\ service' = IF Services(request) = <<>> THEN None ELSE Head(Services(request))
          /\ UNCHANGED response
  /\ UNCHANGED <<faucet, request, caller, work, outcome>>

is_authorized_apart(c) ==
  /\ \E token \in KycTokens : token.hash = c.header.token
  /\ \E token \in KycTokens :
       IF token.source.kind = "Host" THEN token.source.of \in c.host ELSE token.source.of = c.peer

\* One configured token matches both what was sent and where it came from.
is_authorized(c) ==
  \E token \in KycTokens :
    /\ token.hash = c.header.token
    /\ IF token.source.kind = "Host" THEN token.source.of \in c.host ELSE token.source.of = c.peer

\* AuthorizationMiddleware::call.
Authorize(c) ==
  /\ stage = "routed"
  /\ caller' = c
  /\ CASE c.header.kind \in {"absent", "not_text"} -> Answer([code |-> 400, body |-> "text"])
       [] c.header.kind = "other_scheme"           -> Answer([code |-> 406, body |-> "text"])
       [] c.header.kind = "Bearer" /\ ~is_authorized(c) -> Answer([code |-> 401, body |-> "empty"])
       [] OTHER -> stage' = "authorized" /\ UNCHANGED response
  /\ UNCHANGED <<faucet, request, service, work, outcome>>

page_count(count) ==
  IF count = None THEN DEFAULT_SIZE_OF_PAGE
  ELSE IF count < MAX_NUM_OF_TRANSACTIONS_TO_RETURN THEN count ELSE MAX_NUM_OF_TRANSACTIONS_TO_RETURN

events_range_is_valid_v1(q) ==
  /\ q.start # None /\ q.end # None
  /\ q.end > q.start
  /\ q.end - q.start <= MAX_NUM_OF_BLOCK_EVENTS_TO_RETURN

events_range_is_valid_v3(q) == q.start = None \/ q.end = None \/ q.end > q.start

events_work_v3(q) ==
  LET limit == IF q.count = None THEN DEFAULT_EVENTS_LIMIT ELSE q.count
  IN  [from  |-> IF q.start = None THEN 0 ELSE q.start,
       to    |-> IF q.end = None THEN U64_MAX ELSE q.end,
       limit |-> IF limit < MAX_EVENTS_TO_RETURN THEN limit ELSE MAX_EVENTS_TO_RETURN]

IsList == request.scope = "accounts" /\ Len(request.path) = 2

Queries ==
  IF request.scope = "events" THEN [count : Counts \union {None}, start : Heights \union {None}, end : Heights \union {None}]
  ELSE IF IsList THEN [count : Counts \union {None}, start : {None}, end : {None}]
  ELSE {None}

IsValid(q) ==
  \/ request.scope # "events"
  \/ IF request.version = "v1" THEN events_range_is_valid_v1(q) ELSE events_range_is_valid_v3(q)

Work(q) ==
  CASE request.scope = "events" /\ request.version = "v1" -> [from |-> q.start, to |-> q.end, limit |-> None]
    [] request.scope = "events" /\ request.version = "v3" -> events_work_v3(q)
    [] IsList -> [from |-> None, to |-> None, limit |-> page_count(q.count)]
    [] OTHER -> None

\* The handler runs to one of its outcomes; the faucet's first check is that
\* there is a faucet.
Handle(q, o) ==
  /\ stage = "authorized" /\ service # None
  /\ o \in DOMAIN service.handler
  /\ ~IsValid(q) => o = "malformed"
  /\ o = "not_enabled" <=> (request.scope = "wallet" /\ service.handler = faucet_service /\ ~faucet)
  /\ outcome' = o
  /\ work' = IF o \in {"malformed", "malformed_cursor"} THEN None ELSE Work(q)
  /\ Answer(error_response(service.handler[o]))
  /\ UNCHANGED <<faucet, request, service, caller>>

NoService ==
  /\ stage = "authorized" /\ service = None
  /\ Answer(NotFound)
  /\ UNCHANGED <<faucet, request, service, caller, work, outcome>>

Callers == [header : Headers, host : Hosts, peer : Peers]

Next ==
  \/ Route
  \/ \E c \in Callers : Authorize(c)
  \/ stage = "authorized" /\ service # None /\
     \E q \in Queries, o \in DOMAIN service.handler : Handle(q, o)
  \/ NoService

Spec == Init /\ [][Next]_vars

(***************************************************************************)
(* Properties                                                              *)
(***************************************************************************)

Literals(pattern) == {i \in 1 .. Len(pattern) : pattern[i] # "*"}

\* A request reaches the most specific service registered for it: the route
\* tables never put a placeholder in front of a literal path it also fits
\* (`static apis should be registered first`, transactions.rs).
MostSpecific ==
  service # None =>
    \A i \in 1 .. Len(Services(request)) :
      ~(Literals(service.path) \subseteq Literals(Services(request)[i].path)
        /\ Literals(service.path) # Literals(Services(request)[i].path))

\* Whatever v1 or v2 serves, v3 serves under the same path and method: a client
\* can move to v3 without losing an operation.
V3Complete == service # None => Services([request EXCEPT !.version = "v3"]) # <<>>

\* The route tables send a request where it belongs, in every version.
RoutedRight == MostSpecific /\ V3Complete

\* A consensus handler runs only for a caller whose token, sent from the
\* source that token is bound to, is configured: one entry matches both.
ConsensusNeedsItsToken ==
  (request.scope = "consensus" /\ outcome # None) =>
    /\ caller # None /\ caller.header.kind = "Bearer"
    /\ \E token \in KycTokens :
         /\ token.hash = caller.header.token
         /\ token.source.kind = "Host" => token.source.of \in caller.host
         /\ token.source.kind = "IpAddr" => token.source.of = caller.peer

\* From v2 on, asking for what does not exist is answered 404, whichever of the
\* error types carried it there.
AbsentIs404 ==
  (request.version # "v1" /\ outcome \in {"absent", "absent_of_any_type"}) => response.code = 404

\* Whatever a client asks for, the work handed to the stores is bounded: pages
\* and event lists by their maxima, v1 event scans by their block range.
WorkBounded ==
  work # None =>
    /\ work.limit # None =>
         work.limit <= IF IsList THEN MAX_NUM_OF_TRANSACTIONS_TO_RETURN ELSE MAX_EVENTS_TO_RETURN
    /\ (request.scope = "events" /\ work.limit = None) =>
         work.to - work.from \in 1 .. MAX_NUM_OF_BLOCK_EVENTS_TO_RETURN
    /\ request.scope = "events" => work.from <= work.to

\* What a request may set off and how it ends: the consensus handlers only for
\* the holder of a token, bounded work at the stores, 404 for what is absent.
AnswerIsRight == ConsensusNeedsItsToken /\ WorkBounded /\ AbsentIs404
=============================================================================
