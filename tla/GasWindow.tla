------------------------------ MODULE GasWindow ------------------------------
(***************************************************************************)
(* What the gas price monitor promises: it remembers the prices of the     *)
(* last Capacity transactions, in order, and whatever it publishes         *)
(* summarises the prices it remembers at that moment.                      *)
(***************************************************************************)
EXTENDS Integers, Sequences, FiniteSets, Functions

CONSTANTS Capacity, Prices, MaxBatch

VARIABLES window, published

Batches == UNION {[1 .. n -> Prices] : n \in 1 .. MaxBatch}

LastOf(s) == SubSeq(s, Len(s) - Capacity + 1, Len(s))

(***************************************************************************)
(* The maximum is the largest price, the mean is the nearest integer to    *)
(* the exact one, and the median splits the prices in half.                *)
(***************************************************************************)
IsSummary(stats, w) ==
  LET positions == 1 .. Len(w)
      distance  == Len(w) * stats.mean - SumFunction(w)
  IN  /\ stats.max \in Range(w) /\ \A i \in positions : w[i] <= stats.max
      /\ 2 * distance <= Len(w) /\ -2 * distance <= Len(w)
      /\ 2 * Cardinality({i \in positions : w[i] < stats.median}) <= Len(w)
      /\ 2 * Cardinality({i \in positions : w[i] <= stats.median}) >= Len(w)

Init == IsSummary(published, window)

Slide == \E batch \in Batches : window' = LastOf(window \o batch)

Publish == IsSummary(published', window')

Next ==
  \/ Slide /\ UNCHANGED published
  \/ Slide /\ Publish
  \/ UNCHANGED window /\ Publish

Spec == Init /\ [][Next]_<<window, published>>
=============================================================================
