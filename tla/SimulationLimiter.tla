-------------------------- MODULE SimulationLimiter --------------------------
(***************************************************************************)
(* Back pressure on transaction simulations:                               *)
(* ApiServerState::run_move_transaction_simulation and the static counter  *)
(* CURRENT_NUM_OF_CONCURRENT_SIMULATION.  Requests run on the worker       *)
(* threads of the HTTP server; a worker serves other requests while one    *)
(* awaits its blocking task, and is held from the load of the counter to   *)
(* its increment, where there is no await.                                 *)
(***************************************************************************)
EXTENDS Integers, FiniteSets

CONSTANTS
  Requests,        \* the simulation requests clients send, over and over
  Workers,         \* worker threads of the HTTP server
  MAX_CONCURRENCY,
  U16Size          \* the counter is an AtomicU16

ASSUME RequestAssumption == IsFiniteSet(Requests)
ASSUME LimitAssumption ==
  /\ Workers \in Nat \ {0} /\ MAX_CONCURRENCY \in Nat \ {0}
  /\ U16Size \in Nat /\ MAX_CONCURRENCY + Workers <= U16Size

VARIABLES
  counter,   \* CURRENT_NUM_OF_CONCURRENT_SIMULATION
  pc,        \* where each request is
  leaked     \* history: increments whose request ended without a decrement

limiterVars == <<counter, pc, leaked>>

At(label) == {r \in Requests : pc[r] = label}

\* A request that was counted and has not ended.
InFlight == At("counted") \union At("simulated")

LimiterInit ==
  /\ counter = 0
  /\ pc = [r \in Requests |-> "idle"]
  /\ leaked = 0

\* The load finds the limit reached: TooManyConcurrentSimulations.
Refuse(r) ==
  /\ pc[r] = "idle"
  /\ counter >= MAX_CONCURRENCY
  /\ pc' = [pc EXCEPT ![r] = "refused"]
  /\ UNCHANGED <<counter, leaked>>

Load_at_limit(r) ==
  /\ pc[r] = "idle"
  /\ counter <= MAX_CONCURRENCY
  /\ Cardinality(At("loaded")) < Workers
  /\ pc' = [pc EXCEPT ![r] = "loaded"]
  /\ UNCHANGED <<counter, leaked>>

\* The load finds room; the worker goes on to the increment.
Load(r) ==
  /\ pc[r] = "idle"
  /\ counter < MAX_CONCURRENCY
  /\ Cardinality(At("loaded")) < Workers
  /\ pc' = [pc EXCEPT ![r] = "loaded"]
  /\ UNCHANGED <<counter, leaked>>

\* fetch_add, and the blocking task is spawned.
Increment(r) ==
  /\ pc[r] = "loaded"
  /\ counter' = (counter + 1) % U16Size
  /\ pc' = [pc EXCEPT ![r] = "counted"]
  /\ UNCHANGED leaked

\* The blocking task returns a simulation output that converts.
Simulate(r) ==
  /\ pc[r] = "counted"
  /\ pc' = [pc EXCEPT ![r] = "simulated"]
  /\ UNCHANGED <<counter, leaked>>

\* The signature is valid, the output does not convert, or the task panics: the
\* question marks return from the function before the decrement.
Fail(r) ==
  /\ pc[r] = "counted"
  /\ pc' = [pc EXCEPT ![r] = "idle"]
  /\ leaked' = leaked + 1
  /\ UNCHANGED counter

\* fetch_sub, and the transaction info is returned.
Decrement(r) ==
  /\ pc[r] = "simulated"
  /\ counter' = (counter - 1) % U16Size
  /\ pc' = [pc EXCEPT ![r] = "idle"]
  /\ UNCHANGED leaked

\* The client of a refused request tries again.
Retry(r) ==
  /\ pc[r] = "refused"
  /\ pc' = [pc EXCEPT ![r] = "idle"]
  /\ UNCHANGED <<counter, leaked>>

LimiterNext ==
  \E r \in Requests :
    Refuse(r) \/ Load(r) \/ Increment(r) \/ Simulate(r) \/ Fail(r) \/ Decrement(r) \/ Retry(r)

LimiterSpec == LimiterInit /\ [][LimiterNext]_limiterVars

(***************************************************************************)
(* Properties                                                              *)
(***************************************************************************)

\* The counter is the number of simulations in flight plus those that failed
\* since the node started: it never wraps and never loses one that is running.
CounterIsExact == counter = Cardinality(InFlight) + leaked

\* The load and the increment are two operations, so the limit can be passed,
\* but only by the requests that other workers hold between the two.
OvershootBounded == Cardinality(InFlight) <= MAX_CONCURRENCY + Workers - 1

\* A simulation is refused only while MAX_CONCURRENCY of them are running: what
\* "if too many concurrent simulations are running" promises.
RefusedOnlyUnderLoad ==
  [][\A r \in Requests :
       pc[r] # "refused" /\ pc'[r] = "refused" => Cardinality(InFlight) >= MAX_CONCURRENCY]_limiterVars
=============================================================================
