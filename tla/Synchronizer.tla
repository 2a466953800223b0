---------------------------- MODULE Synchronizer ----------------------------
(***************************************************************************)
(* rpc_node/src/consensus/synchronizer.rs: at most one outstanding sync    *)
(* request, posted again whenever the sync timer fires.                    *)
(***************************************************************************)
EXTENDS Integers

VARIABLES
  pending_sync_request,  \* the height asked for, or NoRequest
  sync_requests          \* heights of the requests the provider may answer

syncVars == <<pending_sync_request, sync_requests>>

\* Height 0 is genesis, which is never asked for.
NoRequest == 0

(***************************************************************************)
(* post_sync_request: the request reaches the provider, or sending it      *)
(* fails with an error that the run loop only logs.                        *)
(***************************************************************************)
post_sync_request(h) ==
  \E sent \in BOOLEAN :
    sync_requests' = IF sent THEN sync_requests \union {h} ELSE sync_requests

\* retry_without_post, a mutant: the timer does not send the request again.
retry_without_post ==
  /\ pending_sync_request # NoRequest
  /\ UNCHANGED syncVars

retry ==
  /\ pending_sync_request # NoRequest
  /\ post_sync_request(pending_sync_request)
  /\ UNCHANGED pending_sync_request

\* A request for another height is outstanding: reported as Fatal.
conflicts(request, h) == request \notin {NoRequest, h}

try_post_sync_request(request, h) ==
  IF request = NoRequest
    THEN pending_sync_request' = h /\ post_sync_request(h)
    ELSE pending_sync_request' = request /\ UNCHANGED sync_requests

\* clear_nothing, a mutant: an answered request stays pending.
clear_nothing(request, h) == request

clear(request, h) == IF request = h THEN NoRequest ELSE request
=============================================================================
