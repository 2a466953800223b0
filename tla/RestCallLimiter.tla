--------------------------- MODULE RestCallLimiter ---------------------------
(***************************************************************************)
(* The rate limiter of transaction submissions: RestCallLimiter::register. *)
(* Instances are remembered in an LRU cache of bounded size with the time  *)
(* they were last allowed; the strategy admits an instance that is not in  *)
(* the cache, or whose last admission is an interval ago.                  *)
(***************************************************************************)
EXTENDS Integers, Sequences, FiniteSets

CONSTANTS
  Instances,
  CACHE_SIZE,
  Interval,    \* of IntervalStrategy
  MaxInstant   \* bound on the clock

ASSUME CacheAssumption == CACHE_SIZE \in Nat \ {0} /\ Interval \in Nat /\ MaxInstant \in Nat

VARIABLES
  instant,   \* the clock
  recent,    \* the LruCache: [key, at], most recently used first
  allowed,   \* history: when each instance was last allowed; never: -1
  since,     \* history: the other instances registered since its last registration
  early      \* history: the instance just admitted before its interval was over

callVars == <<instant, recent, allowed, since, early>>

CallInit ==
  /\ instant = 0
  /\ recent = <<>>
  /\ allowed = [i \in Instances |-> -1]
  /\ since = [i \in Instances |-> {}]
  /\ early = {}

CallTick ==
  /\ instant < MaxInstant
  /\ instant' = instant + 1
  /\ early' = {}
  /\ UNCHANGED <<recent, allowed, since>>

Cached(i) == \E n \in 1 .. Len(recent) : recent[n].key = i

Position(i) == CHOOSE n \in 1 .. Len(recent) : recent[n].key = i

last_seen(i) == recent[Position(i)].at

\* IntervalStrategy::should_allow.
should_allow(i) == Cached(i) => instant >= last_seen(i) + Interval

\* The cache with the entry of a cached instance moved to the front.
ToFront(i) ==
  [n \in 1 .. Len(recent) |->
     IF n = 1 THEN recent[Position(i)] ELSE IF n <= Position(i) THEN recent[n - 1] ELSE recent[n]]

\* LruCache::get: to the front, unchanged.
get_peek(i) == recent

get(i) == ToFront(i)

\* LruCache::put: to the front with the new value, or a new entry there, for which
\* the least recently used one goes when the cache is full.
put(i) ==
  LET new == [key |-> i, at |-> instant] IN
  IF Cached(i)
  THEN [ToFront(i) EXCEPT ![1] = new]
  ELSE [n \in 1 .. (IF Len(recent) < CACHE_SIZE THEN Len(recent) + 1 ELSE CACHE_SIZE) |->
          IF n = 1 THEN new ELSE recent[n - 1]]

\* A first occurrence is cached before the strategy is asked; a later one is
\* cached again only if it is allowed.
register(i) ==
  /\ recent' = IF should_allow(i) THEN put(i) ELSE get(i)
  /\ allowed' = IF should_allow(i) THEN [allowed EXCEPT ![i] = instant] ELSE allowed

Register(i) ==
  /\ register(i)
  /\ early' = IF should_allow(i) /\ allowed[i] # -1 /\ instant < allowed[i] + Interval THEN {i} ELSE {}
  /\ since' = [j \in Instances |-> IF j = i THEN {} ELSE since[j] \union {i}]
  /\ UNCHANGED instant

CallNext == CallTick \/ \E i \in Instances : Register(i)

CallSpec == CallInit /\ [][CallNext]_callVars

(***************************************************************************)
(* Properties                                                              *)
(***************************************************************************)

\* RestCallLimiter::register: an instance is allowed again before its interval is
\* over only if CACHE_SIZE other instances were registered since it was last
\* registered: refusals keep an instance in the cache, too.
EarlyOnlyAfterEviction == [][\A i \in early' : Cardinality(since[i]) >= CACHE_SIZE]_callVars
=============================================================================
