-------------------------- MODULE MCApiServerState --------------------------
(***************************************************************************)
(* Three clients of the storage, one per behaviour: one that submits a     *)
(* transaction and waits for it, one that looks it up, and one that lists  *)
(* blocks with transactions of every kind.                                 *)
(***************************************************************************)
EXTENDS ApiServerState

VARIABLE client

MCInit == ApiInit /\ client \in {"waiter", "user", "explorer"}

Waiter == Next /\ DOMAIN block' \intersect Metadata = {} /\ UNCHANGED <<q, api>>

User == ApiNext /\ height' <= 2 /\ DOMAIN block' \subseteq Txs

Explorer == ApiNext /\ height' <= 1 /\ pcs' = pcs

MCNext ==
  /\ UNCHANGED client
  /\ \/ client = "waiter" /\ Waiter
     \/ client = "user" /\ User
     \/ client = "explorer" /\ Explorer

mcvars == <<apivars, client>>

\* Inserting a block is not interrupted, and the waiter goes on polling.
MCSpec ==
  /\ MCInit /\ [][MCNext]_mcvars
  /\ WF_mcvars(client = "waiter" /\ insert_executed_block /\ UNCHANGED <<q, api, client>>)
  /\ \A t \in Txs : WF_mcvars(client = "waiter" /\ wait(t) /\ UNCHANGED <<q, api, client>>)

\* wait reports every transaction that succeeded or failed to the client that
\* waits for it.
WaiterIsTold == client = "waiter" => ExecutedIsReported
=============================================================================
