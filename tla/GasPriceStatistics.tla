------------------------- MODULE GasPriceStatistics -------------------------
(***************************************************************************)
(* The gas price monitor: MaxCircularBuffer (gas/circular_buf.rs), the     *)
(* OnlineMean over it (gas/online_mean.rs) and the watch channel between   *)
(* the executor's AggregatedGasPriceWriter and the REST readers            *)
(* (gas/mod.rs).  A push is a loop over its batch, so it is modelled by a  *)
(* starting step, one step per inserted value and a finishing step; the    *)
(* writer owns the buffer, so only the channel is visible meanwhile.       *)
(***************************************************************************)
EXTENDS Integers, Sequences, FiniteSets, Functions

CONSTANTS
  Capacity,   \* MAX_GAS_HISTORY
  Prices,     \* the gas unit prices of executed transactions
  StartPrice, \* MVM_MIN_GAS_UNIT_PRICE
  U64Max,     \* the largest value of a sum
  MaxBatch    \* bound: the longest batch of prices an executed block brings

ASSUME CapacityAssumption == Capacity \in Nat \ {0}
ASSUME PriceAssumption == Prices \subseteq 0 .. U64Max /\ StartPrice \in Prices
ASSUME WidthAssumption == U64Max \in Nat /\ MaxBatch \in Nat

\* The sum of a full window and one more price fits: the chain's gas schedule
\* bounds a price far below U64Max \div MAX_GAS_HISTORY.
ASSUME SumFitsAssumption == \A p \in Prices : (Capacity + 1) * p <= U64Max

VARIABLES
  inner, index, max_index, curr_sum, median, \* MaxCircularBuffer
  cur_mean,                                  \* OnlineMean
  pushing, values, updating_max,             \* the push in progress
  published                                  \* the watch channel's value

buffer == <<inner, index, max_index, curr_sum, median>>
vars == <<buffer, cur_mean, pushing, values, updating_max, published>>

Slots == 0 .. Capacity - 1
Batches == UNION {[1 .. n -> Prices] : n \in 0 .. MaxBatch}
Statistics == [mean : 0 .. U64Max, max : Prices, median : Prices]

saturating_add(a, b) == IF a + b > U64Max THEN U64Max ELSE a + b
saturating_sub(a, b) == IF a < b THEN 0 ELSE a - b

\* sorted[len / 2]: at most half of the slots lie below it, the rest reach it.
median_of(buf) ==
  CHOOSE m \in Range(buf) :
    /\ Cardinality({i \in Slots : buf[i] < m}) <= Capacity \div 2
    /\ Cardinality({i \in Slots : buf[i] <= m}) > Capacity \div 2

\* max_by_key returns the last of the maximal elements.
max_index_of(buf) ==
  CHOOSE i \in Slots :
    \A j \in Slots : buf[j] < buf[i] \/ (buf[j] = buf[i] /\ j <= i)

\* Rounded to the nearest integer.
mean_of(sum) == saturating_add(sum, Capacity \div 2) \div Capacity

update_current_sum(buf) ==
  FoldFunction(LAMBDA price, sum : saturating_add(sum, price), 0, buf)

max == inner[max_index]

publish ==
  /\ cur_mean' = mean_of(curr_sum')
  /\ published' = [mean |-> cur_mean', max |-> inner'[max_index'], median |-> median']

\* gas_monitor: a window full of the start price.
Init ==
  /\ inner = [i \in Slots |-> StartPrice]
  /\ index = 0
  /\ max_index = Capacity - 1
  /\ curr_sum = Capacity * StartPrice
  /\ median = StartPrice
  /\ cur_mean = mean_of(curr_sum)
  /\ pushing = FALSE
  /\ values = <<>>
  /\ updating_max = FALSE
  /\ published = [mean |-> StartPrice, max |-> StartPrice, median |-> StartPrice]

overwrites_max_no_wrap(len) == index <= max_index /\ max_index < index + len

\* Does a batch of this length overwrite the slot of the current maximum?
overwrites_max(len) ==
  \/ index <= max_index /\ max_index < index + len
  \/ max_index < index /\ max_index < (index + len) % Capacity

\* An empty batch leaves the buffer alone; the statistics are sent again.
PushNothing ==
  /\ ~pushing
  /\ UNCHANGED <<buffer, pushing, values, updating_max>>
  /\ publish

PushBatch(batch) ==
  /\ ~pushing
  /\ batch # <<>> /\ Len(batch) < Capacity
  /\ pushing' = TRUE
  /\ values' = batch
  /\ updating_max' = overwrites_max(Len(batch))
  /\ UNCHANGED <<buffer, cur_mean, published>>

\* Only the last Capacity prices of a longer batch are kept.
PushWindow(batch) ==
  /\ ~pushing
  /\ Len(batch) >= Capacity
  /\ inner' = [i \in Slots |-> batch[Len(batch) - Capacity + i + 1]]
  /\ index' = 0
  /\ curr_sum' = update_current_sum(inner')
  /\ max_index' = max_index_of(inner')
  /\ median' = median_of(inner')
  /\ UNCHANGED <<pushing, values, updating_max>>
  /\ publish

insert(val) ==
  /\ curr_sum' = saturating_sub(saturating_add(curr_sum, val), inner[index])
  /\ max_index' = IF val >= max THEN index ELSE max_index
  /\ inner' = [inner EXCEPT ![index] = val]
  /\ index' = (index + 1) % Capacity

\* One turn of push's loop over the batch.
InsertNext ==
  /\ pushing /\ values # <<>>
  /\ insert(Head(values))
  /\ values' = Tail(values)
  /\ UNCHANGED <<median, cur_mean, pushing, updating_max, published>>

\* What push, OnlineMean::push and push_gas_price do after the loop.
FinishPush ==
  /\ pushing /\ values = <<>>
  /\ pushing' = FALSE
  /\ max_index' = IF updating_max THEN max_index_of(inner) ELSE max_index
  /\ median' = median_of(inner)
  /\ UNCHANGED <<inner, index, curr_sum, values, updating_max>>
  /\ publish

Next ==
  \/ PushNothing
  \/ \E batch \in Batches : PushBatch(batch) \/ PushWindow(batch)
  \/ InsertNext \/ FinishPush

Spec == Init /\ [][Next]_vars

(***************************************************************************)
(* Properties                                                              *)
(***************************************************************************)

\* Every index stays inside the buffer and every value in its width.
TypeOK ==
  /\ inner \in [Slots -> Prices]
  /\ index \in Slots /\ max_index \in Slots
  /\ curr_sum \in 0 .. U64Max /\ median \in Prices /\ cur_mean \in 0 .. U64Max
  /\ pushing \in BOOLEAN /\ values \in Seq(Prices) /\ updating_max \in BOOLEAN
  /\ published \in Statistics

\* The slot max_index names holds the largest price of the buffer whenever no
\* push is in progress: a batch that overwrites the maximum, wrapping round or
\* not, makes push look for it again, and insert notices a new one.
MaxIsMaximal == ~pushing => \A i \in Slots : inner[i] <= max

\* The window is the buffer, read from the oldest slot.
Window == INSTANCE GasWindow WITH
  window <- [k \in 1 .. Capacity |-> inner[(index + k - 1) % Capacity]],
  published <- published

\* The pushes of the buffer slide a window over the executed prices in order, and
\* the channel only ever holds summaries of it.
ImplementsGasWindow == Window!Spec
=============================================================================
