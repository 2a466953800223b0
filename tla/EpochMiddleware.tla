-------------------------- MODULE EpochMiddleware --------------------------
(***************************************************************************)
(* How an RPC node follows the epochs of the chain.  The certifier inside  *)
(* its epoch manager believes that it talks to a committee; the middleware *)
(* turns each of its proposals and votes into a request for the committee  *)
(* authorization of that epoch, and feeds the certificate of every         *)
(* authorization it receives back into the certifier's bounded channel.    *)
(* The certifier, the epoch manager and the client are external.           *)
(***************************************************************************)
EXTENDS Integers, Sequences

CONSTANTS
  MaxEpoch,   \* bound on the epochs of the chain
  Capacity    \* of the channels

VARIABLES
  certified,   \* the last epoch the chain has authorized
  requests,    \* authorizations asked of the consensus provider
  rx_committee_auth,
  tx_certifier_message,
  epoch,       \* of the local epoch manager
  notified,    \* the epoch each component was last told of
  schedule,    \* the components still to be told of this epoch
  certifier,   \* "running" or "closed"
  middleware   \* "running", "stopped" or "panicked"

chain == <<certified>>
channels == <<requests, rx_committee_auth, tx_certifier_message>>
manager == <<epoch, notified, schedule>>
tasks == <<certifier, middleware>>
vars == <<chain, channels, manager, tasks>>

Components == {"ChainStateAssembler", "Pruner"}

\* RpcEpochChangeNotificationSchedule::get_schedule.
get_schedule == <<"ChainStateAssembler", "Pruner">>

Init ==
  /\ certified \in 0 .. MaxEpoch
  /\ requests = {} /\ rx_committee_auth = <<>> /\ tx_certifier_message = <<>>
  /\ epoch = 0 /\ notified = [c \in Components |-> 0] /\ schedule = <<>>
  /\ certifier = "running" /\ middleware = "running"

\* The validators authorize the committee of the next epoch.
NewEpoch ==
  /\ certified < MaxEpoch
  /\ certified' = certified + 1
  /\ UNCHANGED <<channels, manager, tasks>>

Kinds == {"Proposal", "Vote", "Certificate", "other"}

Post(e) == requests' = requests \union {e}

\* NetworkSender::broadcast of the middleware.  Messages that are not of the
\* certifier, and its certificates, are dropped; a request that cannot be sent is
\* logged and forgotten.
broadcast(m) ==
  IF m.kind \in {"Proposal", "Vote"} THEN Post(m.epoch) \/ UNCHANGED requests ELSE UNCHANGED requests

\* The certifier's sync loop: a message for the epoch it is waiting for.
Sync(kind) ==
  /\ certifier = "running" /\ schedule = <<>>
  /\ epoch < MaxEpoch
  /\ broadcast([kind |-> kind, epoch |-> epoch + 1])
  /\ UNCHANGED <<chain, rx_committee_auth, tx_certifier_message, manager, tasks>>

\* The provider answers a request once the epoch is authorized, ...
Provide(e) ==
  /\ e \in requests /\ e <= certified
  /\ Len(rx_committee_auth) < Capacity
  /\ requests' = requests \ {e}
  /\ rx_committee_auth' = Append(rx_committee_auth, e)
  /\ UNCHANGED <<chain, tx_certifier_message, manager, tasks>>

\* ... or the request or the answer is lost.
Lose(e) ==
  /\ e \in requests
  /\ requests' = requests \ {e}
  /\ UNCHANGED <<chain, rx_committee_auth, tx_certifier_message, manager, tasks>>

try_send(e) ==
  /\ certifier = "running" /\ Len(tx_certifier_message) < Capacity
  /\ tx_certifier_message' = Append(tx_certifier_message, e)
  /\ UNCHANGED middleware

handle_full_ends_loop ==
  /\ middleware = "running" /\ rx_committee_auth # <<>>
  /\ rx_committee_auth' = Tail(rx_committee_auth)
  /\ \/ try_send(Head(rx_committee_auth))
     \/ /\ certifier = "closed" \/ Len(tx_certifier_message) = Capacity
        /\ middleware' = "stopped" /\ UNCHANGED tx_certifier_message
  /\ UNCHANGED <<chain, requests, manager, certifier>>

\* Passes the certificate on; a full channel drops it, a closed one is fatal.
handle_committee_authorization ==
  /\ middleware = "running" /\ rx_committee_auth # <<>>
  /\ rx_committee_auth' = Tail(rx_committee_auth)
  /\ \/ try_send(Head(rx_committee_auth))
     \/ /\ certifier = "closed"
        /\ middleware' = "panicked" /\ UNCHANGED tx_certifier_message
     \/ /\ certifier = "running" /\ Len(tx_certifier_message) = Capacity
        /\ UNCHANGED <<tx_certifier_message, middleware>>
  /\ UNCHANGED <<chain, requests, manager, certifier>>

\* The certifier takes a certificate; if it is for the next epoch the epoch manager
\* enters it and broadcasts the certificate through the middleware.
Certify ==
  /\ certifier = "running" /\ schedule = <<>> /\ tx_certifier_message # <<>>
  /\ tx_certifier_message' = Tail(tx_certifier_message)
  /\ LET e == Head(tx_certifier_message) IN
     \/ /\ e = epoch + 1
        /\ epoch' = e /\ schedule' = get_schedule
        /\ broadcast([kind |-> "Certificate", epoch |-> e])
     \/ e # epoch + 1 /\ UNCHANGED <<epoch, schedule, requests>>
  /\ UNCHANGED <<chain, rx_committee_auth, notified, tasks>>

\* The next component of the schedule learns of the epoch.
Notify ==
  /\ schedule # <<>>
  /\ notified' = [notified EXCEPT ![Head(schedule)] = epoch]
  /\ schedule' = Tail(schedule)
  /\ UNCHANGED <<chain, channels, epoch, tasks>>

\* After a shutdown the tasks leave their loops in any order.
Shutdown ==
  /\ certifier = "running"
  /\ certifier' = "closed"
  /\ UNCHANGED <<chain, channels, manager, middleware>>

\* The loop of the receiver ends at the shutdown notification.
run_ends ==
  /\ middleware = "running" /\ certifier = "closed"
  /\ middleware' = "stopped"
  /\ UNCHANGED <<chain, channels, manager, certifier>>

Next ==
  \/ NewEpoch
  \/ \E kind \in Kinds : Sync(kind)
  \/ \E e \in requests : Provide(e) \/ Lose(e)
  \/ handle_committee_authorization \/ Certify \/ Notify
  \/ Shutdown \/ run_ends

Spec == Init /\ [][Next]_vars

(***************************************************************************)
(* Properties                                                              *)
(***************************************************************************)

\* "The system can recover if the channel is eventually drained because of the sync
\* loop": every epoch the chain authorizes is reached, though requests and answers
\* are lost and certificates dropped, unless the node shuts down.
EpochReached ==
  \A e \in 1 .. MaxEpoch :
    certified >= e ~> (notified["Pruner"] >= e \/ certifier = "closed")
=============================================================================
