---------------------------- MODULE FaucetProofs ----------------------------
(***************************************************************************)
(* The limiters and the faucet of the REST server.  The limiter of         *)
(* submissions keeps its cache in the order of use (InOrderOfUse).         *)
(*                                                                         *)
(* The faucet for any number of callers, accounts, requests, delegates and *)
(* minters, any limits and any time.  The limiter is consulted and updated *)
(* in two critical sections; OvertakenIsCounted says what a request that   *)
(* was overtaken between them can rely on.  A delegate is handed from the  *)
(* request to its task and back; ExpiresFirst compares its two timers.  A  *)
(* minter is prepared by transactions of which StraysAreLast says that the *)
(* abandoned ones cannot meet a reissued one.                              *)
(***************************************************************************)
EXTENDS FaucetCallLimiter, Faucet, MinterAccount, RestCallLimiter, FiniteSetTheorems,
        TLAPS

(***************************************************************************)
(* The limiter of submissions: EarlyOnlyAfterEviction for any instances,   *)
(* cache size, interval and times.  The cache is in the order of use, so   *)
(* what stands before an entry is what was registered since.               *)
(***************************************************************************)

Key(n) == recent[n].key

\* The instances used after the n-th of the cache.
Before(n) == {Key(m) : m \in 1 .. n - 1}

CallTypeOK ==
  /\ instant \in Nat /\ allowed \in [Instances -> Int]
  /\ since = [i \in Instances |-> since[i]] /\ \A i \in Instances : IsFiniteSet(since[i])
  /\ recent = [n \in 1 .. Len(recent) |-> recent[n]] /\ Len(recent) \in Nat /\ Len(recent) <= CACHE_SIZE
  /\ \A n \in 1 .. Len(recent) : Key(n) \in Instances

\* An entry has the time its instance was last allowed, and stands behind those
\* that were registered since.
InOrderOfUse ==
  \A n \in 1 .. Len(recent) :
    recent[n].at = allowed[Key(n)] /\ since[Key(n)] = Before(n) /\ Key(n) \notin Before(n)

\* An instance that is no longer cached was displaced by a cache-full of others.
DisplacedByOthers ==
  \A i \in Instances : allowed[i] # -1 /\ ~Cached(i) => Cardinality(since[i]) >= CACHE_SIZE

CallInv == CallTypeOK /\ InOrderOfUse /\ DisplacedByOthers

LEMMA CallInitHolds == CallInit => CallInv
<1> SUFFICES ASSUME CallInit PROVE CallInv
  OBVIOUS
<1>1. recent = <<>> /\ Len(recent) = 0 /\ 1 .. Len(recent) = {}
  BY DEF CallInit
<1>2. recent = [n \in 1 .. Len(recent) |-> recent[n]]
  BY <1>1
<1>3. CallTypeOK
  BY <1>1, <1>2, CacheAssumption, FS_EmptySet DEF CallInit, CallTypeOK
<1> QED BY <1>1, <1>3 DEF CallInit, CallInv, InOrderOfUse, DisplacedByOthers

\* The keys of the cache are distinct.
LEMMA KeysDiffer ==
  ASSUME CallInv, NEW m \in 1 .. Len(recent), NEW n \in 1 .. Len(recent), m < n
  PROVE  Key(m) \in Before(n) /\ Key(m) # Key(n)
<1>1. Len(recent) \in Nat /\ m \in 1 .. n - 1
  BY DEF CallInv, CallTypeOK
<1>2. Key(m) \in Before(n)
  BY <1>1 DEF Before
<1> QED BY <1>2 DEF CallInv, InOrderOfUse

\* As many instances stand before an entry as its position says.
LEMMA BeforeIsCounted ==
  ASSUME CallInv, NEW n \in 1 .. Len(recent)
  PROVE  IsFiniteSet(Before(n)) /\ Cardinality(Before(n)) = n - 1
<1> DEFINE f == [m \in 1 .. n - 1 |-> Key(m)]
<1>1. Len(recent) \in Nat /\ n \in Nat /\ n >= 1
  BY DEF CallInv, CallTypeOK
<1>2. IsFiniteSet(1 .. n - 1) /\ Cardinality(1 .. n - 1) = n - 1
  <2>1. 1 \in Int /\ n - 1 \in Int /\ (1 > n - 1 => n - 1 = 0)
    BY <1>1
  <2>2. IsFiniteSet(1 .. n - 1) /\ Cardinality(1 .. n - 1) = IF 1 > n - 1 THEN 0 ELSE (n - 1) - 1 + 1
    BY <2>1, FS_Interval
  <2> QED BY <2>1, <2>2
<1>3. f \in Surjection(1 .. n - 1, Before(n))
  BY DEF Surjection, Before
<1>4. \A a, b \in 1 .. n - 1 : f[a] = f[b] => a = b
  <2> SUFFICES ASSUME NEW a \in 1 .. n - 1, NEW b \in 1 .. n - 1, a < b PROVE Key(a) # Key(b)
    BY <1>1
  <2>1. a \in 1 .. Len(recent) /\ b \in 1 .. Len(recent)
    BY <1>1
  <2> QED BY <2>1, KeysDiffer
<1>5. f \in Injection(1 .. n - 1, Before(n))
  BY <1>3, <1>4 DEF Injection, IsInjective, Surjection
<1>6. ExistsBijection(1 .. n - 1, Before(n))
  BY <1>3, <1>5 DEF ExistsBijection, Bijection
<1> QED BY <1>2, <1>6, FS_Bijection

LEMMA MoreOthers ==
  ASSUME NEW S, IsFiniteSet(S), NEW i, Cardinality(S) >= CACHE_SIZE
  PROVE  Cardinality(S \union {i}) >= CACHE_SIZE
BY FS_AddElement, FS_CardinalityType, CacheAssumption

LEMMA PositionOfCached ==
  ASSUME CallInv, NEW i \in Instances, Cached(i)
  PROVE  Position(i) \in 1 .. Len(recent) /\ Key(Position(i)) = i
BY DEF Cached, Position, Key

\* The instance goes to the front of the cache, and those before it move back by
\* one place.
LEMMA Moved ==
  ASSUME CallInv, NEW i \in Instances, NEW p \in 1 .. Len(recent), Key(p) = i,
         Len(recent') = Len(recent), recent' = [n \in 1 .. Len(recent') |-> recent'[n]],
         Key(1)' = i, recent'[1].at = allowed'[i],
         \A n \in 2 .. p : recent'[n] = recent[n - 1],
         \A n \in p + 1 .. Len(recent) : recent'[n] = recent[n],
         \A j \in Instances : j # i => allowed'[j] = allowed[j],
         allowed' \in [Instances -> Int], instant' \in Nat,
         since' = [j \in Instances |-> IF j = i THEN {} ELSE since[j] \union {i}]
  PROVE  CallInv'
<1>1. Len(recent) \in Nat /\ p \in Nat /\ p >= 1 /\ p <= Len(recent)
  BY DEF CallInv, CallTypeOK
<1>2. \A n \in 2 .. p : n - 1 \in 1 .. Len(recent) /\ Key(n)' = Key(n - 1) /\ Key(n - 1) # i
  <2> SUFFICES ASSUME NEW n \in 2 .. p
               PROVE  n - 1 \in 1 .. Len(recent) /\ Key(n)' = Key(n - 1) /\ Key(n - 1) # i
    OBVIOUS
  <2>1. n - 1 \in 1 .. Len(recent) /\ n - 1 < p
    BY <1>1
  <2>2. Key(n)' = Key(n - 1)
    BY DEF Key
  <2> QED BY <2>1, <2>2, KeysDiffer
<1>3. \A n \in p + 1 .. Len(recent) : n \in 1 .. Len(recent) /\ Key(n)' = Key(n) /\ Key(n) # i /\ i \in Before(n)
  <2> SUFFICES ASSUME NEW n \in p + 1 .. Len(recent)
               PROVE  n \in 1 .. Len(recent) /\ Key(n)' = Key(n) /\ Key(n) # i /\ i \in Before(n)
    OBVIOUS
  <2>1. n \in 1 .. Len(recent) /\ p < n
    BY <1>1
  <2>2. Key(n)' = Key(n)
    BY DEF Key
  <2> QED BY <2>1, <2>2, KeysDiffer
<1>4. \A n \in 2 .. p : Before(n)' = Before(n - 1) \union {i}
  <2> SUFFICES ASSUME NEW n \in 2 .. p PROVE Before(n)' = Before(n - 1) \union {i}
    OBVIOUS
  <2>1. Before(n)' = {Key(m)' : m \in 1 .. n - 1}
    BY DEF Before
  <2>2. 1 \in 1 .. n - 1 /\ \A m \in 1 .. n - 1 : m = 1 \/ (m \in 2 .. p /\ m - 1 \in 1 .. (n - 1) - 1)
    BY <1>1
  <2>3. \A m \in 1 .. (n - 1) - 1 : m + 1 \in 2 .. p /\ m + 1 \in 1 .. n - 1 /\ (m + 1) - 1 = m
    BY <1>1
  <2>4. Before(n)' \subseteq Before(n - 1) \union {i}
    BY <1>2, <2>1, <2>2 DEF Before
  <2>5. Before(n - 1) \subseteq Before(n)'
    BY <1>2, <2>1, <2>3 DEF Before
  <2>6. i \in Before(n)'
    BY <2>1, <2>2
  <2> QED BY <2>4, <2>5, <2>6
<1>5. \A n \in p + 1 .. Len(recent) : Before(n)' = Before(n)
  <2> SUFFICES ASSUME NEW n \in p + 1 .. Len(recent) PROVE Before(n)' = Before(n)
    OBVIOUS
  <2>1. Before(n)' = {Key(m)' : m \in 1 .. n - 1}
    BY DEF Before
  <2>2. 1 \in 1 .. n - 1 /\ p \in 1 .. n - 1
    BY <1>1
  <2>3. \A m \in 1 .. n - 1 : Key(m)' \in Before(n)
    <3> SUFFICES ASSUME NEW m \in 1 .. n - 1 PROVE Key(m)' \in Before(n)
      OBVIOUS
    <3>1. CASE m = 1
      BY <2>2, <3>1 DEF Before
    <3>2. CASE m \in 2 .. p
      <4>1. m - 1 \in 1 .. n - 1
        BY <1>1, <3>2
      <4> QED BY <1>2, <3>2, <4>1 DEF Before
    <3>3. CASE m \in p + 1 .. Len(recent)
      BY <1>3, <3>3 DEF Before
    <3> QED BY <1>1, <3>1, <3>2, <3>3
  <2>4. \A m \in 1 .. n - 1 : Key(m) \in Before(n)'
    <3> SUFFICES ASSUME NEW m \in 1 .. n - 1 PROVE Key(m) \in Before(n)'
      OBVIOUS
    <3>1. CASE m = p
      BY <2>1, <2>2, <3>1
    <3>2. CASE m < p
      <4>1. m + 1 \in 1 .. n - 1 /\ m + 1 \in 2 .. p /\ (m + 1) - 1 = m
        BY <1>1, <3>2
      <4>2. Key(m + 1)' = Key(m)
        BY <1>2, <4>1
      <4> QED BY <2>1, <4>1, <4>2
    <3>3. CASE m \in p + 1 .. Len(recent)
      BY <1>3, <2>1, <3>3
    <3> QED BY <1>1, <3>1, <3>2, <3>3
  <2> QED BY <2>1, <2>3, <2>4 DEF Before
<1>6. \A n \in 1 .. Len(recent) : n = 1 \/ n \in 2 .. p \/ n \in p + 1 .. Len(recent)
  BY <1>1
<1>7. 1 \in 1 .. Len(recent) /\ Before(1)' = {}
  <2>1. 1 .. 1 - 1 = {}
    OBVIOUS
  <2> QED BY <1>1, <2>1 DEF Before
<1>8. \A n \in 1 .. Len(recent) : Key(n)' \in Instances
  <2> SUFFICES ASSUME NEW n \in 1 .. Len(recent) PROVE Key(n)' \in Instances
    OBVIOUS
  <2>1. \A m \in 1 .. Len(recent) : Key(m) \in Instances
    BY DEF CallInv, CallTypeOK
  <2>2. CASE n = 1
    BY <2>2
  <2>3. CASE n \in 2 .. p
    BY <1>2, <2>1, <2>3
  <2>4. CASE n \in p + 1 .. Len(recent)
    BY <1>3, <2>1, <2>4
  <2> QED BY <1>6, <2>2, <2>3, <2>4
<1>9. CallTypeOK'
  <2>1. \A j \in Instances : IsFiniteSet(since'[j])
    BY FS_EmptySet, FS_AddElement DEF CallInv, CallTypeOK
  <2> QED BY <1>8, <2>1 DEF CallInv, CallTypeOK
<1>10. InOrderOfUse'
  <2> SUFFICES ASSUME NEW n \in 1 .. Len(recent)
               PROVE  recent'[n].at = allowed'[Key(n)'] /\ since'[Key(n)'] = Before(n)' /\ Key(n)' \notin Before(n)'
    BY DEF InOrderOfUse
  <2>1. CASE n = 1
    BY <1>7, <2>1
  <2>2. CASE n \in 2 .. p
    <3>1. /\ n - 1 \in 1 .. Len(recent) /\ Key(n - 1) \in Instances /\ Key(n - 1) # i /\ Key(n)' = Key(n - 1)
          /\ recent[n - 1].at = allowed[Key(n - 1)] /\ since[Key(n - 1)] = Before(n - 1)
          /\ Key(n - 1) \notin Before(n - 1)
      BY <1>2, <2>2 DEF CallInv, CallTypeOK, InOrderOfUse
    <3> QED BY <1>4, <2>2, <3>1
  <2>3. CASE n \in p + 1 .. Len(recent)
    <3>1. /\ Key(n) \in Instances /\ Key(n) # i /\ Key(n)' = Key(n) /\ i \in Before(n)
          /\ recent[n].at = allowed[Key(n)] /\ since[Key(n)] = Before(n) /\ Key(n) \notin Before(n)
      BY <1>3, <2>3 DEF CallInv, CallTypeOK, InOrderOfUse
    <3> QED BY <1>5, <2>3, <3>1
  <2> QED BY <1>6, <2>1, <2>2, <2>3
<1>11. DisplacedByOthers'
  <2> SUFFICES ASSUME NEW j \in Instances, allowed'[j] # -1, ~Cached(j)' PROVE Cardinality(since'[j]) >= CACHE_SIZE
    BY DEF DisplacedByOthers
  <2>1. j # i
    BY <1>7 DEF Cached, Key
  <2>2. ~Cached(j)
    <3> SUFFICES ASSUME NEW n \in 1 .. Len(recent), Key(n) = j PROVE FALSE
      BY DEF Cached, Key
    <3>1. n # p
      BY <2>1
    <3>2. CASE n < p
      <4>1. n + 1 \in 2 .. p /\ (n + 1) - 1 = n /\ n + 1 \in 1 .. Len(recent)
        BY <1>1, <3>2
      <4>2. Key(n + 1)' = j
        BY <1>2, <4>1
      <4> QED BY <4>1, <4>2 DEF Cached, Key
    <3>3. CASE n \in p + 1 .. Len(recent)
      BY <1>3, <3>3 DEF Cached, Key
    <3> QED BY <1>1, <3>1, <3>2, <3>3
  <2>3. Cardinality(since[j]) >= CACHE_SIZE /\ IsFiniteSet(since[j]) /\ since'[j] = since[j] \union {i}
    BY <2>1, <2>2 DEF CallInv, CallTypeOK, DisplacedByOthers
  <2> QED BY <2>3, MoreOthers
<1> QED BY <1>9, <1>10, <1>11 DEF CallInv

\* A new instance goes to the front; all others move back, the last one out of a
\* full cache.
LEMMA NewAtFront ==
  ASSUME CallInv, NEW i \in Instances, ~Cached(i), recent' = put(i),
         allowed' = [allowed EXCEPT ![i] = instant], instant' = instant,
         since' = [j \in Instances |-> IF j = i THEN {} ELSE since[j] \union {i}]
  PROVE  CallInv'
<1> DEFINE N == IF Len(recent) < CACHE_SIZE THEN Len(recent) + 1 ELSE CACHE_SIZE
<1>1. /\ Len(recent) \in Nat /\ Len(recent) <= CACHE_SIZE /\ CACHE_SIZE \in Nat /\ CACHE_SIZE >= 1
      /\ N \in Nat /\ N >= 1 /\ N <= CACHE_SIZE /\ N <= Len(recent) + 1 /\ Len(recent) <= N
  BY CacheAssumption DEF CallInv, CallTypeOK
<1>2. recent' = [n \in 1 .. N |-> IF n = 1 THEN [key |-> i, at |-> instant] ELSE recent[n - 1]]
  BY DEF put
<1>3. Len(recent') = N /\ recent' = [n \in 1 .. Len(recent') |-> recent'[n]]
  BY <1>1, <1>2
<1>4. 1 \in 1 .. N /\ Key(1)' = i /\ recent'[1].at = instant /\ Before(1)' = {}
  <2>1. 1 .. 1 - 1 = {}
    OBVIOUS
  <2>2. Before(1)' = {}
    BY <2>1 DEF Before
  <2> QED BY <1>1, <1>2, <2>2 DEF Key
<1>5. \A n \in 2 .. N : /\ n - 1 \in 1 .. Len(recent) /\ recent'[n] = recent[n - 1]
                        /\ Key(n)' = Key(n - 1) /\ Key(n - 1) # i /\ Key(n - 1) \in Instances
  <2> SUFFICES ASSUME NEW n \in 2 .. N
               PROVE  /\ n - 1 \in 1 .. Len(recent) /\ recent'[n] = recent[n - 1]
                      /\ Key(n)' = Key(n - 1) /\ Key(n - 1) # i /\ Key(n - 1) \in Instances
    OBVIOUS
  <2>1. n - 1 \in 1 .. Len(recent) /\ n \in 1 .. N /\ n # 1
    BY <1>1
  <2>2. recent'[n] = recent[n - 1]
    BY <1>2, <2>1
  <2>3. Key(n)' = Key(n - 1)
    BY <2>2 DEF Key
  <2> QED BY <2>1, <2>2, <2>3 DEF Cached, Key, CallInv, CallTypeOK
<1>6. \A n \in 2 .. N : Before(n)' = Before(n - 1) \union {i}
  <2> SUFFICES ASSUME NEW n \in 2 .. N PROVE Before(n)' = Before(n - 1) \union {i}
    OBVIOUS
  <2>1. Before(n)' = {Key(m)' : m \in 1 .. n - 1}
    BY DEF Before
  <2>2. 1 \in 1 .. n - 1 /\ \A m \in 1 .. n - 1 : m = 1 \/ (m \in 2 .. N /\ m - 1 \in 1 .. (n - 1) - 1)
    BY <1>1
  <2>3. \A m \in 1 .. (n - 1) - 1 : m + 1 \in 2 .. N /\ m + 1 \in 1 .. n - 1 /\ (m + 1) - 1 = m
    BY <1>1
  <2>4. Before(n)' \subseteq Before(n - 1) \union {i}
    BY <1>4, <1>5, <2>1, <2>2 DEF Before
  <2>5. Before(n - 1) \subseteq Before(n)'
    BY <1>5, <2>1, <2>3 DEF Before
  <2>6. i \in Before(n)'
    BY <1>4, <2>1, <2>2
  <2> QED BY <2>4, <2>5, <2>6
<1>7. \A n \in 1 .. N : n = 1 \/ n \in 2 .. N
  BY <1>1
<1>8. CallTypeOK'
  <2>1. \A j \in Instances : IsFiniteSet(since'[j])
    BY FS_EmptySet, FS_AddElement DEF CallInv, CallTypeOK
  <2>2. \A n \in 1 .. N : Key(n)' \in Instances
    BY <1>4, <1>5, <1>7
  <2>3. allowed' \in [Instances -> Int] /\ instant' \in Nat
    BY DEF CallInv, CallTypeOK
  <2>4. since' = [j \in Instances |-> since'[j]]
    OBVIOUS
  <2> HIDE DEF N
  <2> QED BY <1>1, <1>3, <2>1, <2>2, <2>3, <2>4 DEF CallTypeOK
<1>9. InOrderOfUse'
  <2> SUFFICES ASSUME NEW n \in 1 .. N
               PROVE  recent'[n].at = allowed'[Key(n)'] /\ since'[Key(n)'] = Before(n)' /\ Key(n)' \notin Before(n)'
    BY <1>3 DEF InOrderOfUse
  <2>1. CASE n = 1
    BY <1>4, <2>1 DEF CallInv, CallTypeOK
  <2>2. CASE n \in 2 .. N
    <3>1. /\ Key(n - 1) \in Instances /\ Key(n - 1) # i /\ Key(n)' = Key(n - 1) /\ recent'[n] = recent[n - 1]
          /\ recent[n - 1].at = allowed[Key(n - 1)] /\ since[Key(n - 1)] = Before(n - 1)
          /\ Key(n - 1) \notin Before(n - 1)
      BY <1>5, <2>2 DEF CallInv, InOrderOfUse
    <3> QED BY <1>6, <2>2, <3>1 DEF CallInv, CallTypeOK
  <2> QED BY <1>7, <2>1, <2>2
<1>10. DisplacedByOthers'
  <2> SUFFICES ASSUME NEW j \in Instances, allowed'[j] # -1, ~Cached(j)' PROVE Cardinality(since'[j]) >= CACHE_SIZE
    BY DEF DisplacedByOthers
  <2>1. j # i
    BY <1>3, <1>4 DEF Cached, Key
  <2>2. allowed[j] # -1 /\ since'[j] = since[j] \union {i} /\ IsFiniteSet(since[j])
    BY <2>1 DEF CallInv, CallTypeOK
  <2>3. CASE ~Cached(j)
    BY <2>2, <2>3, MoreOthers DEF CallInv, DisplacedByOthers
  <2>4. CASE Cached(j)
    <3>1. PICK n \in 1 .. Len(recent) : Key(n) = j
      BY <2>4 DEF Cached, Key
    <3>2. n = CACHE_SIZE
      <4> SUFFICES ASSUME n # CACHE_SIZE PROVE FALSE
        OBVIOUS
      <4>1. n + 1 \in 2 .. N /\ n + 1 \in 1 .. N /\ (n + 1) - 1 = n
        BY <1>1
      <4>2. Key(n + 1)' = j
        BY <1>5, <3>1, <4>1
      <4> QED BY <1>3, <4>1, <4>2 DEF Cached, Key
    <3>3. since[j] = Before(n) /\ Cardinality(Before(n)) = n - 1
      BY <3>1, BeforeIsCounted DEF CallInv, InOrderOfUse
    <3>4. i \notin Before(n)
      <4>1. \A m \in 1 .. n - 1 : m \in 1 .. Len(recent)
        BY <1>1
      <4> QED BY <4>1 DEF Before, Cached, Key
    <3>5. Cardinality(since'[j]) = (n - 1) + 1
      BY <2>2, <3>3, <3>4, FS_AddElement
    <3> QED BY <1>1, <3>2, <3>5
  <2> QED BY <2>3, <2>4
<1> QED BY <1>8, <1>9, <1>10 DEF CallInv

LEMMA SameCache ==
  ASSUME CallInv, instant' \in Nat, recent' = recent, allowed' = allowed, since' = since
  PROVE  CallInv'
<1>1. \A n : Key(n)' = Key(n) /\ Before(n)' = Before(n)
  BY DEF Key, Before
<1>2. CallTypeOK'
  BY <1>1 DEF CallInv, CallTypeOK
<1>3. InOrderOfUse'
  BY <1>1 DEF CallInv, InOrderOfUse
<1>4. DisplacedByOthers'
  BY DEF CallInv, DisplacedByOthers, Cached
<1> QED BY <1>2, <1>3, <1>4 DEF CallInv

LEMMA CallStepHolds == CallInv /\ [CallNext]_callVars => CallInv'
<1> SUFFICES ASSUME CallInv, [CallNext]_callVars PROVE CallInv'
  OBVIOUS
<1>1. CASE CallTick
  <2>1. /\ instant' \in Nat /\ recent' = recent /\ allowed' = allowed /\ since' = since
    BY <1>1 DEF CallTick, CallInv, CallTypeOK
  <2> QED BY <2>1, SameCache
<1>2. ASSUME NEW i \in Instances, Register(i) PROVE CallInv'
  <2>1. /\ recent' = IF should_allow(i) THEN put(i) ELSE get(i)
        /\ allowed' = IF should_allow(i) THEN [allowed EXCEPT ![i] = instant] ELSE allowed
        /\ since' = [j \in Instances |-> IF j = i THEN {} ELSE since[j] \union {i}] /\ instant' = instant
    BY <1>2 DEF Register, register
  <2>2. CASE ~Cached(i)
    <3>1. should_allow(i)
      BY <2>2 DEF should_allow
    <3> QED BY <2>1, <2>2, <3>1, NewAtFront
  <2>3. CASE Cached(i)
    <3> DEFINE p == Position(i)
    <3>1. p \in 1 .. Len(recent) /\ Key(p) = i /\ Len(recent) \in Nat
      BY <2>3, PositionOfCached DEF CallInv, CallTypeOK
    <3>2. allowed' \in [Instances -> Int] /\ (\A j \in Instances : j # i => allowed'[j] = allowed[j]) /\ instant' \in Nat
      BY <2>1 DEF CallInv, CallTypeOK
    <3>3. recent[p].at = allowed[i]
      BY <3>1 DEF CallInv, InOrderOfUse
    <3> HIDE DEF p
    <3>4. ToFront(i) = [n \in 1 .. Len(recent) |-> IF n = 1 THEN recent[p] ELSE IF n <= p THEN recent[n - 1] ELSE recent[n]]
      BY DEF ToFront, p
    <3>5. \/ should_allow(i) /\ recent' = [ToFront(i) EXCEPT ![1] = [key |-> i, at |-> instant]] /\ allowed'[i] = instant
          \/ ~should_allow(i) /\ recent' = ToFront(i) /\ allowed'[i] = allowed[i]
      BY <2>1, <2>3 DEF put, get, CallInv, CallTypeOK
    <3>6. /\ recent' = [n \in 1 .. Len(recent) |-> recent'[n]] /\ recent'[1].key = i /\ recent'[1].at = allowed'[i]
          /\ \A n \in 1 .. Len(recent) : n # 1 => recent'[n] = IF n <= p THEN recent[n - 1] ELSE recent[n]
      <4>1. 1 \in 1 .. Len(recent)
        BY <3>1
      <4>2. CASE recent' = [ToFront(i) EXCEPT ![1] = [key |-> i, at |-> instant]] /\ allowed'[i] = instant
        BY <3>4, <4>1, <4>2
      <4>3. CASE recent' = ToFront(i) /\ allowed'[i] = allowed[i]
        BY <3>1, <3>3, <3>4, <4>1, <4>3 DEF Key
      <4> QED BY <3>5, <4>2, <4>3
    <3>7. Len(recent') = Len(recent)
      BY <3>1, <3>6
    <3>8. (\A n \in 2 .. p : recent'[n] = recent[n - 1]) /\ (\A n \in p + 1 .. Len(recent) : recent'[n] = recent[n])
      BY <3>1, <3>6
    <3>9. recent' = [n \in 1 .. Len(recent') |-> recent'[n]] /\ Key(1)' = i
      BY <3>6, <3>7 DEF Key
    <3> QED BY <2>1, <3>1, <3>2, <3>6, <3>7, <3>8, <3>9, Moved
  <2> QED BY <2>2, <2>3
<1>3. CASE UNCHANGED callVars
  BY <1>3, SameCache DEF callVars, CallInv, CallTypeOK
<1> QED BY <1>1, <1>2, <1>3 DEF CallNext

\* RestCallLimiter::register, for any instances, cache size and interval: an
\* instance passes before its interval is over only if at least a cache-full of
\* other instances was registered since its last attempt, allowed or not.
THEOREM EarlyIsAfterEviction == CallSpec => EarlyOnlyAfterEviction
<1>1. CallInv /\ [CallNext]_callVars => [\A i \in early' : Cardinality(since[i]) >= CACHE_SIZE]_callVars
  <2> SUFFICES ASSUME CallInv, CallNext, NEW i \in early' PROVE Cardinality(since[i]) >= CACHE_SIZE
    BY DEF callVars
  <2>1. PICK j \in Instances : Register(j)
    BY DEF CallNext, CallTick
  <2>2. i = j /\ should_allow(i) /\ allowed[i] # -1 /\ instant < allowed[i] + Interval
    BY <2>1 DEF Register
  <2>3. ~Cached(i)
    <3> SUFFICES ASSUME Cached(i) PROVE FALSE
      OBVIOUS
    <3>1. last_seen(i) = allowed[i]
      BY <2>2, PositionOfCached DEF last_seen, CallInv, InOrderOfUse
    <3>2. instant >= allowed[i] + Interval
      BY <2>2, <3>1 DEF should_allow
    <3>3. instant \in Int /\ allowed[i] \in Int /\ Interval \in Int
      BY <2>2, CacheAssumption DEF CallInv, CallTypeOK
    <3> QED BY <2>2, <3>2, <3>3
  <2> QED BY <2>2, <2>3 DEF CallInv, DisplacedByOthers
<1> QED BY <1>1, CallInitHolds, CallStepHolds, PTL DEF CallSpec, EarlyOnlyAfterEviction

(***************************************************************************)
(* The limiter of the faucet                                               *)
(***************************************************************************)

\* The clock does not go back, so no account is in its cooldown after a reset.
Inv == IInv /\ Start <= now

\* An account of the empty cache may be used at once.
LEMMA FreshIsUnderLimit ==
  ASSUME now \in Nat, Start <= now PROVE under_limit(FaucetLimiterValue)
BY FaucetTimeAssumption DEF under_limit, FaucetLimiterValue

LEMMA InitHolds == Init => Inv
<1> SUFFICES ASSUME Init PROVE Inv OBVIOUS
<1>1. TypeOK BY FaucetTimeAssumption DEF Init, TypeOK, LimiterValue, FaucetLimiterValue, Labels
<1>2. GrantsAreCounted BY DEF Init, GrantsAreCounted, Holds, FaucetLimiterValue
<1>3. OvertakenIsCounted BY DEF Init, OvertakenIsCounted, Holds
<1> QED BY <1>1, <1>2, <1>3, FaucetTimeAssumption DEF Inv, IInv, Init

LEMMA TickHolds == Inv /\ Tick => Inv'
<1> SUFFICES ASSUME Inv, Tick PROVE Inv' OBVIOUS
<1> USE DEF Tick
<1>1. TypeOK' BY DEF Inv, IInv, TypeOK, LimiterValue
<1>2. GrantsAreCounted' BY DEF Inv, IInv, GrantsAreCounted, Holds
<1>3. ASSUME NEW a \in Accounts, under_limit(cache[a]) PROVE under_limit(cache[a])'
  BY <1>3, FaucetTimeAssumption DEF Inv, IInv, TypeOK, LimiterValue, under_limit
<1>4. OvertakenIsCounted' BY <1>3 DEF Inv, IInv, OvertakenIsCounted, Holds
<1> QED BY <1>1, <1>2, <1>4, FaucetTimeAssumption DEF Inv, IInv, TypeOK

\* Steps that leave the clock, the cache and what was obtained alone, and admit
\* nobody.
LEMMA OutsideHolds ==
  ASSUME Inv, NEW c \in Clients, NEW a \in Accounts,
         Arrive(c, a) \/ Refused(c) \/ TryLater(c)
  PROVE  Inv'
<1>1. UNCHANGED <<now, cache, last_reset_secs, obtained>>
  BY DEF Arrive, Refused, TryLater
<1>2. TypeOK'
  <2>1. pc' \in [Clients -> Labels] /\ account' \in [Clients -> Accounts]
    <3>1. pc \in [Clients -> Labels] /\ account \in [Clients -> Accounts] BY DEF Inv, IInv, TypeOK
    <3>2. CASE Arrive(c, a) BY <3>1, <3>2 DEF Arrive, Labels
    <3>3. CASE Refused(c) BY <3>1, <3>3 DEF Refused, Labels
    <3>4. CASE TryLater(c) BY <3>1, <3>4 DEF TryLater, Labels
    <3> QED BY <3>2, <3>3, <3>4
  <2> QED BY <1>1, <2>1 DEF Inv, IInv, TypeOK
<1>3. /\ pc'[c] \in {"idle", "arrived"} /\ pc[c] # "accepted"
      /\ \A d \in Clients \ {c} : pc'[d] = pc[d] /\ account'[d] = account[d]
  BY DEF Arrive, Refused, TryLater, Inv, IInv, TypeOK
<1>4. \A d \in Clients, b \in Accounts :
        /\ Holds(d, b, "accepted")' <=> Holds(d, b, "accepted")
        /\ Holds(d, b, "registered")' => Holds(d, b, "registered")
  BY <1>3 DEF Holds
<1>5. GrantsAreCounted' BY <1>1, <1>4 DEF Inv, IInv, GrantsAreCounted
<1>6. OvertakenIsCounted' BY <1>1, <1>4 DEF Inv, IInv, OvertakenIsCounted, under_limit
<1> QED BY <1>1, <1>2, <1>5, <1>6 DEF Inv, IInv

LEMMA RegisterHolds ==
  ASSUME Inv, NEW c \in Clients, register_account(c) PROVE Inv'
<1>1. /\ pc[c] = "arrived" /\ UNCHANGED <<now, account>>
      /\ pc' = [pc EXCEPT ![c] = IF under_limit(cache'[account[c]]) THEN "registered" ELSE "refused"]
  BY DEF register_account
<1>2. CASE Day(now) > Day(last_reset_secs)
  <2>1. /\ cache' = [a \in Accounts |-> FaucetLimiterValue]
        /\ last_reset_secs' = now
        /\ obtained' = [d \in Clients |-> [a \in Accounts |-> 0]]
    BY <1>2 DEF register_account, reset_cache_if_needed
  <2>2. TypeOK' BY <1>1, <2>1, FaucetTimeAssumption DEF Inv, IInv, TypeOK, Labels, LimiterValue, FaucetLimiterValue
  <2>3. GrantsAreCounted' BY <2>1 DEF GrantsAreCounted, FaucetLimiterValue, Holds
  <2>4. \A a \in Accounts : under_limit(cache[a])'
    BY <1>1, <2>1, FreshIsUnderLimit DEF under_limit, Inv, IInv, TypeOK
  <2>5. OvertakenIsCounted' BY <2>4 DEF OvertakenIsCounted
  <2> QED BY <1>1, <2>2, <2>3, <2>5 DEF Inv, IInv
<1>3. CASE ~(Day(now) > Day(last_reset_secs))
  <2>1. UNCHANGED <<cache, last_reset_secs, obtained>>
    BY <1>3 DEF register_account, reset_cache_if_needed
  <2>2. TypeOK' BY <1>1, <2>1 DEF Inv, IInv, TypeOK, Labels
  <2>3. \A d \in Clients, b \in Accounts :
          /\ Holds(d, b, "accepted")' <=> Holds(d, b, "accepted")
          /\ Holds(d, b, "registered")' => Holds(d, b, "registered") \/ under_limit(cache[b])
    BY <1>1, <2>1 DEF Inv, IInv, TypeOK, Holds
  <2>4. GrantsAreCounted' BY <2>1, <2>3 DEF Inv, IInv, GrantsAreCounted
  <2>5. OvertakenIsCounted' BY <1>1, <2>1, <2>3 DEF Inv, IInv, OvertakenIsCounted, under_limit
  <2> QED BY <1>1, <2>1, <2>2, <2>4, <2>5 DEF Inv, IInv
<1> QED BY <1>2, <1>3

LEMMA AcceptedHolds ==
  ASSUME Inv, NEW c \in Clients, Accepted(c) PROVE Inv'
<1>2. PICK a \in Accounts : a = account[c] BY DEF Inv, IInv, TypeOK
<1>1. /\ pc[c] = "registered" /\ pc' = [pc EXCEPT ![c] = "accepted"]
      /\ obtained' = [obtained EXCEPT ![c][a] = @ + 1]
      /\ UNCHANGED <<now, cache, last_reset_secs, account>>
  BY <1>2 DEF Accepted
<1>3. obtained' \in [Clients -> [Accounts -> Nat]]
  BY <1>1, <1>2 DEF Inv, IInv, TypeOK
<1>4. TypeOK' BY <1>1, <1>3 DEF Inv, IInv, TypeOK, Labels
<1>5. /\ obtained'[c][a] = obtained[c][a] + 1
      /\ \A d \in Clients, b \in Accounts : d # c \/ b # a =>
           /\ obtained'[d][b] = obtained[d][b]
           /\ Holds(d, b, "accepted")' <=> Holds(d, b, "accepted")
           /\ Holds(d, b, "registered")' => Holds(d, b, "registered")
  BY <1>1, <1>2 DEF Inv, IInv, TypeOK, Holds
<1>6. Holds(c, a, "accepted")' /\ ~Holds(c, a, "registered")' /\ Holds(c, a, "registered") /\ ~Holds(c, a, "accepted")
  BY <1>1, <1>2 DEF Inv, IInv, TypeOK, Holds
<1>7. obtained[c][a] \in Nat /\ cache[a].count_of_usage \in Nat
  BY <1>2 DEF Inv, IInv, TypeOK, LimiterValue
<1>8. GrantsAreCounted'
  <2> SUFFICES ASSUME NEW d \in Clients, NEW b \in Accounts
               PROVE  (obtained[d][b] <= cache[b].count_of_usage + (IF Holds(d, b, "accepted") THEN 1 ELSE 0))'
    BY DEF GrantsAreCounted
  <2>1. CASE d # c \/ b # a BY <1>1, <1>5, <2>1 DEF Inv, IInv, GrantsAreCounted
  <2>2. CASE d = c /\ b = a BY <1>1, <1>2, <1>5, <1>6, <1>7, <2>2 DEF Inv, IInv, GrantsAreCounted
  <2> QED BY <2>1, <2>2
<1>9. OvertakenIsCounted'
  <2> SUFFICES ASSUME NEW d \in Clients, NEW b \in Accounts, ~under_limit(cache[b])
               PROVE  /\ Holds(d, b, "registered")' => obtained'[d][b] < cache[b].count_of_usage
                      /\ Holds(d, b, "accepted")' => obtained'[d][b] <= cache[b].count_of_usage
    BY <1>1 DEF OvertakenIsCounted, under_limit
  <2>1. CASE d # c \/ b # a BY <1>5, <2>1 DEF Inv, IInv, OvertakenIsCounted
  <2>2. CASE d = c /\ b = a BY <1>2, <1>5, <1>6, <1>7, <2>2 DEF Inv, IInv, OvertakenIsCounted
  <2> QED BY <2>1, <2>2
<1> QED BY <1>1, <1>4, <1>8, <1>9 DEF Inv, IInv

LEMMA CountHolds ==
  ASSUME Inv, NEW c \in Clients, increment_account_use_counter_if_under_limit(c) PROVE Inv'
<1>2. PICK a \in Accounts : a = account[c] BY DEF Inv, IInv, TypeOK
<1>1. /\ pc[c] = "accepted" /\ pc' = [pc EXCEPT ![c] = "idle"]
      /\ UNCHANGED <<now, last_reset_secs, account, obtained>>
  BY DEF increment_account_use_counter_if_under_limit
<1>3. /\ \A d \in Clients, b \in Accounts : d # c \/ b # a =>
           /\ Holds(d, b, "accepted")' <=> Holds(d, b, "accepted")
           /\ Holds(d, b, "registered")' => Holds(d, b, "registered")
      /\ ~Holds(c, a, "accepted")' /\ ~Holds(c, a, "registered")' /\ Holds(c, a, "accepted")
  BY <1>1, <1>2 DEF Inv, IInv, TypeOK, Holds
<1>4. \A b \in Accounts, d \in Clients : cache[b].count_of_usage \in 0..MAX_DAILY_REQUEST /\ obtained[d][b] \in Nat
  BY DEF Inv, IInv, TypeOK, LimiterValue
<1>5. CASE under_limit(cache[a])
  <2>1. cache' = [cache EXCEPT ![a] = [count_of_usage |-> @.count_of_usage + 1, last_used_time |-> now]]
    BY <1>2, <1>5 DEF increment_account_use_counter_if_under_limit
  <2>2. cache[a].count_of_usage + 1 \in 0..MAX_DAILY_REQUEST
    BY <1>2, <1>4, <1>5, FaucetTimeAssumption DEF under_limit
  <2>3. /\ cache'[a].count_of_usage = cache[a].count_of_usage + 1 /\ cache'[a].last_used_time = now
        /\ \A b \in Accounts \ {a} : cache'[b] = cache[b]
    BY <1>2, <2>1 DEF Inv, IInv, TypeOK
  <2>4. cache' \in [Accounts -> LimiterValue]
    BY <1>2, <2>1, <2>2 DEF Inv, IInv, TypeOK, LimiterValue
  <2>5. TypeOK'
    <3>1. \A b \in Accounts : cache'[b].last_used_time <= now'
      BY <1>1, <2>3 DEF Inv, IInv, TypeOK
    <3>2. pc' \in [Clients -> Labels] BY <1>1 DEF Inv, IInv, TypeOK, Labels
    <3> QED BY <1>1, <2>4, <3>1, <3>2 DEF Inv, IInv, TypeOK
  <2>6. GrantsAreCounted'
    <3> SUFFICES ASSUME NEW d \in Clients, NEW b \in Accounts
                 PROVE  (obtained[d][b] <= cache[b].count_of_usage + (IF Holds(d, b, "accepted") THEN 1 ELSE 0))'
      BY DEF GrantsAreCounted
    <3>1. CASE b # a BY <1>1, <1>3, <2>3, <3>1 DEF Inv, IInv, GrantsAreCounted
    <3>2. CASE b = a
      <4>1. obtained[d][a] <= cache[a].count_of_usage + 1 /\ (d # c => obtained[d][a] <= cache[a].count_of_usage + (IF Holds(d, a, "accepted") THEN 1 ELSE 0))
        BY <1>2, <1>4 DEF Inv, IInv, GrantsAreCounted
      <4> QED BY <1>1, <1>2, <1>3, <1>4, <2>3, <3>2, <4>1
    <3> QED BY <3>1, <3>2
  <2>7. OvertakenIsCounted'
    <3> SUFFICES ASSUME NEW d \in Clients, NEW b \in Accounts, ~under_limit(cache[b])'
                 PROVE  /\ Holds(d, b, "registered")' => obtained[d][b] < cache'[b].count_of_usage
                        /\ Holds(d, b, "accepted")' => obtained[d][b] <= cache'[b].count_of_usage
      BY <1>1 DEF OvertakenIsCounted
    <3>1. CASE b # a
      <4>1. ~under_limit(cache[b]) BY <1>1, <2>3, <3>1 DEF under_limit
      <4> QED BY <1>3, <2>3, <3>1, <4>1 DEF Inv, IInv, OvertakenIsCounted
    <3>2. CASE b = a
      <4>1. obtained[d][a] <= cache[a].count_of_usage + (IF Holds(d, a, "accepted") THEN 1 ELSE 0)
        BY <1>2 DEF Inv, IInv, GrantsAreCounted
      <4>2. Holds(d, a, "registered") => ~Holds(d, a, "accepted") BY DEF Holds
      <4>3. CASE d = c BY <1>3, <3>2, <4>3
      <4>4. CASE d # c
        <5>1. /\ Holds(d, a, "registered")' => Holds(d, a, "registered")
              /\ Holds(d, a, "accepted")' <=> Holds(d, a, "accepted")
          BY <1>2, <1>3, <4>4
        <5>2. obtained[d][a] \in Nat /\ cache[a].count_of_usage \in Nat BY <1>2, <1>4
        <5> QED BY <2>3, <3>2, <4>1, <4>2, <5>1, <5>2
      <4> QED BY <4>3, <4>4
    <3> QED BY <3>1, <3>2
  <2> QED BY <1>1, <2>5, <2>6, <2>7 DEF Inv, IInv
<1>6. CASE ~under_limit(cache[a])
  <2>1. cache' = cache BY <1>2, <1>6 DEF increment_account_use_counter_if_under_limit
  <2>2. TypeOK' BY <1>1, <2>1 DEF Inv, IInv, TypeOK, Labels
  <2>3. obtained[c][a] <= cache[a].count_of_usage BY <1>2, <1>3, <1>6 DEF Inv, IInv, OvertakenIsCounted
  <2>4. GrantsAreCounted'
    <3> SUFFICES ASSUME NEW d \in Clients, NEW b \in Accounts
                 PROVE  (obtained[d][b] <= cache[b].count_of_usage + (IF Holds(d, b, "accepted") THEN 1 ELSE 0))'
      BY DEF GrantsAreCounted
    <3>1. CASE d # c \/ b # a BY <1>1, <1>3, <2>1, <3>1 DEF Inv, IInv, GrantsAreCounted
    <3>2. CASE d = c /\ b = a BY <1>1, <1>3, <1>4, <2>1, <2>3, <3>2
    <3> QED BY <3>1, <3>2
  <2>5. OvertakenIsCounted'
    <3> SUFFICES ASSUME NEW d \in Clients, NEW b \in Accounts, ~under_limit(cache[b])
                 PROVE  /\ Holds(d, b, "registered")' => obtained[d][b] < cache[b].count_of_usage
                        /\ Holds(d, b, "accepted")' => obtained[d][b] <= cache[b].count_of_usage
      BY <1>1, <2>1 DEF OvertakenIsCounted, under_limit
    <3>1. CASE d # c \/ b # a BY <1>3, <3>1 DEF Inv, IInv, OvertakenIsCounted
    <3>2. CASE d = c /\ b = a BY <1>3, <3>2
    <3> QED BY <3>1, <3>2
  <2> QED BY <1>1, <2>2, <2>4, <2>5 DEF Inv, IInv
<1> QED BY <1>5, <1>6

LEMMA StepHolds == Inv /\ [Next]_vars => Inv'
<1> SUFFICES ASSUME Inv, [Next]_vars PROVE Inv' OBVIOUS
<1>1. CASE Tick BY <1>1, TickHolds
<1>2. ASSUME NEW c \in Clients, faucet(c) PROVE Inv'
  <2>1. account[c] \in Accounts BY DEF Inv, IInv, TypeOK
  <2> QED BY <1>2, <2>1, RegisterHolds, OutsideHolds, AcceptedHolds, CountHolds DEF faucet
<1>3. ASSUME NEW c \in Clients, NEW a \in Accounts, Arrive(c, a) PROVE Inv' BY <1>3, OutsideHolds
<1>4. CASE UNCHANGED vars
  BY <1>4 DEF vars, Inv, IInv, TypeOK, GrantsAreCounted, OvertakenIsCounted, Holds, under_limit
<1> QED BY <1>1, <1>2, <1>3, <1>4 DEF Next

\* Between two resets of the cache a caller is granted an account at most once
\* for each use that was counted, and once more while that grant is uncounted.
THEOREM GrantsAreAlwaysCounted == Spec => []GrantsAreCounted
<1>1. Inv => GrantsAreCounted BY DEF Inv, IInv
<1> QED BY <1>1, InitHolds, StepHolds, PTL DEF Spec

\* What makes it inductive holds in every reachable state: a request that was
\* overtaken between its two critical sections finds its grant already counted.
THEOREM OvertakenIsAlwaysCounted == Spec => []OvertakenIsCounted
<1>1. Inv => OvertakenIsCounted BY DEF Inv, IInv
<1> QED BY <1>1, InitHolds, StepHolds, PTL DEF Spec

\* No caller alone obtains an account more than MAX_DAILY_REQUEST + 1 times
\* between two resets.
THEOREM CallerAlwaysWithinLimit == Spec => []CallerWithinLimit
<1>1. Inv => CallerWithinLimit
  BY FaucetTimeAssumption DEF Inv, IInv, TypeOK, LimiterValue, GrantsAreCounted, CallerWithinLimit
<1> QED BY <1>1, InitHolds, StepHolds, PTL DEF Spec

(***************************************************************************)
(* The delegates                                                           *)
(***************************************************************************)

Walking == {"assess", "offer", "sending"}
Progresses == Walking \union {"idle", "Accepted", "TryLater"}

FundType ==
  /\ state \in [Delegates -> {"Free", "Busy"}]
  /\ progress \in [Requests -> Progresses] /\ cursor \in [Requests -> Nat]
  /\ \A c \in Requests : progress[c] \in Walking => cursor[c] \in Delegates
  /\ task \in [Delegates -> {"none", "waiting", "over"}]
  /\ budget \in [Delegates -> Nat] /\ ttl \in [Delegates -> Nat] /\ stray \in [Delegates -> Nat]
  /\ shutdown \in BOOLEAN

\* A transaction expires a minute before the task that waits for it gives up.
ExpiresFirst == \A d \in Delegates : task[d] = "waiting" => ttl[d] = 0 \/ ttl[d] < budget[d]

FundInv == FundType /\ ExpiresFirst /\ TakenOnce /\ BusyHasOwner

LEMMA FundInitHolds == FundInit => FundInv
<1> SUFFICES ASSUME FundInit PROVE FundInv
  OBVIOUS
<1>1. FundType
  BY ZenonT(30) DEF FundInit, FundType, Progresses, Walking
<1>2. ExpiresFirst
  BY DEF FundInit, ExpiresFirst
<1>3. TakenOnce /\ BusyHasOwner
  BY DEF FundInit, TakenOnce, BusyHasOwner, Takers
<1>4. QED
  BY <1>1, <1>2, <1>3 DEF FundInv

\* What the delegates owe depends on who takes them and on their tasks.
Delegation == <<state, task, shutdown>>

LEMMA SameOwners ==
  ASSUME FundInv, UNCHANGED Delegation, \A d \in Delegates : Takers(d)' = Takers(d)
  PROVE  TakenOnce' /\ BusyHasOwner'
BY DEF FundInv, Delegation, TakenOnce, BusyHasOwner

LEMMA SameExpiry ==
  ASSUME FundInv, UNCHANGED <<task, budget, ttl>>
  PROVE  ExpiresFirst'
BY DEF FundInv, ExpiresFirst

\* A request that dispatches nothing, before and after its step.
LEMMA WalkHolds ==
  ASSUME FundInv, NEW c \in Requests, NEW p \in Progresses \ {"sending"}, NEW k \in Nat,
         progress[c] # "sending", progress' = [progress EXCEPT ![c] = p], cursor' = [cursor EXCEPT ![c] = k],
         p \in Walking => k \in Delegates,
         UNCHANGED <<state, task, budget, ttl, stray, shutdown>>
  PROVE  FundInv'
<1>1. /\ progress \in [Requests -> Progresses] /\ cursor \in [Requests -> Nat]
      /\ progress'[c] = p /\ cursor'[c] = k
      /\ \A e \in Requests \ {c} : progress'[e] = progress[e] /\ cursor'[e] = cursor[e]
  BY DEF FundInv, FundType
<1>2. FundType'
  BY <1>1 DEF FundInv, FundType
<1>3. ASSUME NEW d \in Delegates PROVE Takers(d)' = Takers(d)
  BY <1>1 DEF Takers
<1>4. TakenOnce' /\ BusyHasOwner'
  BY <1>3, SameOwners DEF Delegation
<1>5. QED
  BY <1>2, <1>4, SameExpiry DEF FundInv

\* The next delegate, or an answer, for a request that does not hold one.
LEMMA AdvanceHolds ==
  ASSUME FundInv, NEW c \in Requests, NEW again \in {"assess", "offer"}, progress[c] \in {"assess", "offer"},
         Advance(c, again), UNCHANGED <<state, task, budget, ttl, stray, shutdown>>
  PROVE  FundInv'
<1>1. cursor \in [Requests -> Nat] /\ cursor[c] \in 1 .. NumDelegates
  BY DelegatesAssumption DEF FundInv, FundType, Walking, Delegates
<1>2. CASE cursor[c] = NumDelegates
  <2>1. progress' = [progress EXCEPT ![c] = "TryLater"] /\ cursor' = [cursor EXCEPT ![c] = cursor[c]]
    BY <1>1, <1>2 DEF Advance
  <2>2. QED
    BY <1>1, <2>1, WalkHolds, ZenonT(30) DEF Progresses, Walking
<1>3. CASE cursor[c] # NumDelegates
  <2>1. progress' = [progress EXCEPT ![c] = again] /\ cursor' = [cursor EXCEPT ![c] = cursor[c] + 1]
    BY <1>1, <1>3 DEF Advance
  <2>2. cursor[c] + 1 \in Nat /\ cursor[c] + 1 \in Delegates
    BY <1>1, <1>3, DelegatesAssumption DEF Delegates
  <2>3. QED
    BY <2>1, <2>2, WalkHolds, ZenonT(30) DEF Progresses, Walking
<1>4. QED
  BY <1>2, <1>3

\* A request takes a free delegate, under its lock.
LEMMA TakeHolds ==
  ASSUME FundInv, NEW c \in Requests, offer(c), state[cursor[c]] # "Busy"
  PROVE  FundInv'
<1> DEFINE d == cursor[c]
<1>1. /\ d \in Delegates /\ state[d] = "Free" /\ progress[c] = "offer"
      /\ state' = [state EXCEPT ![d] = "Busy"] /\ progress' = [progress EXCEPT ![c] = "sending"]
      /\ UNCHANGED <<cursor, task, budget, ttl, stray, shutdown>>
  BY DEF offer, FundInv, FundType, Walking, release, chain
<1>2. /\ progress \in [Requests -> Progresses] /\ progress'[c] = "sending" /\ state'[d] = "Busy"
      /\ \A e \in Requests \ {c} : progress'[e] = progress[e]
      /\ \A e \in Delegates \ {d} : state'[e] = state[e]
  BY <1>1 DEF FundInv, FundType
<1>3. FundType'
  <2>1. progress' \in [Requests -> Progresses] /\ state' \in [Delegates -> {"Free", "Busy"}]
    BY <1>1 DEF FundInv, FundType, Progresses, Walking
  <2>2. \A e \in Requests : progress'[e] \in Walking => cursor[e] \in Delegates
    BY <1>1, <1>2 DEF FundInv, FundType
  <2>3. QED
    BY <1>1, <2>1, <2>2 DEF FundInv, FundType
<1>4. Takers(d) = {} /\ task[d] = "none"
  BY <1>1 DEF FundInv, TakenOnce
<1>5. Takers(d)' = {c}
  <2>1. \A e \in Requests : ~(progress[e] = "sending" /\ cursor[e] = d)
    BY <1>4 DEF Takers
  <2>2. {e \in Requests : progress'[e] = "sending" /\ cursor'[e] = cursor'[c]} = {c}
    BY <1>1, <1>2, <2>1
  <2>3. QED
    BY <2>2 DEF Takers
<1>6. ASSUME NEW e \in Delegates \ {d} PROVE Takers(e)' = Takers(e)
  BY <1>1, <1>2 DEF Takers
<1>7. cursor' = cursor /\ task' = task /\ shutdown' = shutdown
  BY <1>1
<1> HIDE DEF d
<1>8. TakenOnce'
  BY <1>2, <1>4, <1>5, <1>6, <1>7 DEF FundInv, TakenOnce, d
<1>9. BusyHasOwner'
  BY <1>2, <1>5, <1>6, <1>7 DEF FundInv, BusyHasOwner, d
<1>10. QED
  BY <1>1, <1>3, <1>8, <1>9, SameExpiry DEF FundInv
\* A request that dispatches is the only one for its delegate, and lets go of it.
LEMMA LetGo ==
  ASSUME FundInv, NEW c \in Requests, progress[c] = "sending", NEW p \in Progresses \ {"sending"},
         progress' = [progress EXCEPT ![c] = p], \A e \in Requests \ {c} : cursor'[e] = cursor[e]
  PROVE  /\ cursor[c] \in Delegates /\ task[cursor[c]] = "none" /\ state[cursor[c]] = "Busy"
         /\ \A e \in Requests : ~(progress'[e] = "sending" /\ cursor'[e] = cursor[c])
         /\ \A d \in Delegates \ {cursor[c]} : Takers(d)' = Takers(d)
<1>1. cursor[c] \in Delegates /\ c \in Takers(cursor[c])
  BY DEF FundInv, FundType, Walking, Takers
<1>2. task[cursor[c]] = "none" /\ state[cursor[c]] = "Busy" /\ \A e \in Takers(cursor[c]) : e = c
  BY <1>1 DEF FundInv, TakenOnce
<1>3. progress'[c] = p /\ \A e \in Requests \ {c} : progress'[e] = progress[e]
  BY DEF FundInv, FundType
<1>4. \A e \in Requests : ~(progress'[e] = "sending" /\ cursor'[e] = cursor[c])
  BY <1>2, <1>3 DEF Takers
<1>5. \A d \in Delegates \ {cursor[c]} : Takers(d)' = Takers(d)
  BY <1>3 DEF Takers
<1>6. QED
  BY <1>1, <1>2, <1>4, <1>5

LEMMA DispatchedHolds ==
  ASSUME FundInv, NEW c \in Requests, Dispatched(c)
  PROVE  FundInv'
<1>1. PICK d \in Delegates : d = cursor[c]
  BY DEF FundInv, FundType, Walking, Dispatched
<1>2. /\ progress[c] = "sending" /\ progress' = [progress EXCEPT ![c] = "Accepted"]
      /\ task' = [task EXCEPT ![d] = "waiting"] /\ budget' = [budget EXCEPT ![d] = 2] /\ ttl' = [ttl EXCEPT ![d] = 1]
      /\ UNCHANGED <<state, cursor, stray, shutdown>>
  BY <1>1 DEF Dispatched, TX_MAX_WAIT, FAUCET_TRANSACTION_EXPIRY
<1>3. /\ task[d] = "none" /\ state[d] = "Busy"
      /\ \A e \in Requests : ~(progress'[e] = "sending" /\ cursor'[e] = d)
      /\ \A e \in Delegates \ {d} : Takers(e)' = Takers(e)
  BY <1>1, <1>2, LetGo, ZenonT(30) DEF Progresses, Walking
<1>4. Takers(d)' = {}
  BY <1>3 DEF Takers
<1>5. /\ task'[d] = "waiting" /\ budget'[d] = 2 /\ ttl'[d] = 1
      /\ \A e \in Delegates \ {d} : task'[e] = task[e] /\ budget'[e] = budget[e] /\ ttl'[e] = ttl[e]
  BY <1>2 DEF FundInv, FundType
<1>6. FundType'
  <2>1. /\ progress' \in [Requests -> Progresses] /\ task' \in [Delegates -> {"none", "waiting", "over"}]
        /\ budget' \in [Delegates -> Nat] /\ ttl' \in [Delegates -> Nat]
    BY <1>2 DEF FundInv, FundType, Progresses, Walking
  <2>2. \A e \in Requests : progress'[e] \in Walking => cursor[e] \in Delegates
    BY <1>2 DEF FundInv, FundType, Walking
  <2>3. QED
    BY <1>2, <2>1, <2>2 DEF FundInv, FundType
<1>7. ExpiresFirst'
  BY <1>5 DEF FundInv, ExpiresFirst
<1>8. TakenOnce' /\ BusyHasOwner'
  BY <1>2, <1>3, <1>4, <1>5 DEF FundInv, TakenOnce, BusyHasOwner
<1>9. QED
  BY <1>6, <1>7, <1>8 DEF FundInv

LEMMA DispatchFailedHolds ==
  ASSUME FundInv, NEW c \in Requests, NEW delivered \in BOOLEAN, DispatchFailed(c, delivered)
  PROVE  FundInv'
<1>1. PICK d \in Delegates : d = cursor[c]
  BY DEF FundInv, FundType, Walking, DispatchFailed
<1>2. /\ progress[c] = "sending" /\ state' = [state EXCEPT ![d] = "Free"]
      /\ stray' = [stray EXCEPT ![d] = IF delivered THEN 1 ELSE stray[d]]
      /\ Advance(c, "offer") /\ UNCHANGED <<task, budget, ttl, shutdown>>
  BY <1>1 DEF DispatchFailed, FAUCET_TRANSACTION_EXPIRY, release
<1>3. /\ cursor' \in [Requests -> Nat] /\ \A e \in Requests \ {c} : cursor'[e] = cursor[e]
      /\ \E p \in {"offer", "TryLater"} : /\ progress' = [progress EXCEPT ![c] = p]
                                          /\ p = "offer" => cursor'[c] \in Delegates
  <2>1. cursor \in [Requests -> Nat] /\ cursor[c] \in 1 .. NumDelegates
    BY <1>1, DelegatesAssumption DEF FundInv, FundType, Delegates
  <2>2. CASE cursor[c] = NumDelegates
    BY <1>2, <2>1, <2>2 DEF Advance
  <2>3. CASE cursor[c] # NumDelegates
    <3>1. progress' = [progress EXCEPT ![c] = "offer"] /\ cursor' = [cursor EXCEPT ![c] = cursor[c] + 1]
      BY <1>2, <2>3 DEF Advance
    <3>2. cursor[c] + 1 \in Nat /\ cursor[c] + 1 \in Delegates
      BY <2>1, <2>3, DelegatesAssumption DEF Delegates
    <3>3. QED
      BY <2>1, <3>1, <3>2
  <2>4. QED
    BY <2>2, <2>3
<1>4. PICK p \in {"offer", "TryLater"} : progress' = [progress EXCEPT ![c] = p] /\ (p = "offer" => cursor'[c] \in Delegates)
  BY <1>3, ZenonT(30)
<1>5. /\ task[d] = "none"
      /\ \A e \in Requests : ~(progress'[e] = "sending" /\ cursor'[e] = d)
      /\ \A e \in Delegates \ {d} : Takers(e)' = Takers(e)
  BY <1>1, <1>2, <1>3, <1>4, LetGo, ZenonT(30) DEF Progresses, Walking
<1>6. Takers(d)' = {}
  BY <1>5 DEF Takers
<1>7. state'[d] = "Free" /\ \A e \in Delegates \ {d} : state'[e] = state[e]
  BY <1>2 DEF FundInv, FundType
<1>8. FundType'
  <2>1. progress' \in [Requests -> Progresses] /\ state' \in [Delegates -> {"Free", "Busy"}] /\ stray' \in [Delegates -> Nat]
    BY <1>2, <1>4 DEF FundInv, FundType, Progresses, Walking
  <2>2. \A e \in Requests : progress'[e] \in Walking => cursor'[e] \in Delegates
    <3>1. progress'[c] = p /\ \A e \in Requests \ {c} : progress'[e] = progress[e]
      BY <1>4 DEF FundInv, FundType
    <3>2. QED
      BY <1>3, <1>4, <3>1 DEF FundInv, FundType, Walking
  <2>3. QED
    BY <1>2, <1>3, <2>1, <2>2 DEF FundInv, FundType
<1>9. TakenOnce' /\ BusyHasOwner'
  <2>1. task' = task /\ shutdown' = shutdown
    BY <1>2
  <2>2. TakenOnce'
    BY <1>5, <1>6, <1>7, <2>1 DEF FundInv, TakenOnce
  <2>3. BusyHasOwner'
    BY <1>5, <1>6, <1>7, <2>1 DEF FundInv, BusyHasOwner
  <2>4. QED
    BY <2>2, <2>3
<1>10. QED
  BY <1>2, <1>8, <1>9, SameExpiry DEF FundInv

\* The task of a delegate ends its wait, gives the delegate back or is stopped.
LEMMA TaskHolds ==
  ASSUME FundInv, NEW d \in Delegates, Wait(d) \/ ArchiveError(d) \/ Stop(d)
  PROVE  FundInv'
<1>1. /\ UNCHANGED <<progress, cursor, budget, shutdown>> /\ task[d] # "none"
      /\ \E k \in {"none", "over"} :
           /\ task' = [task EXCEPT ![d] = k]
           /\ k = "over" => state' = state
           /\ k = "none" => state' = [state EXCEPT ![d] = "Free"] \/ (shutdown /\ state' = state)
  BY DEF Wait, Notified, TimedOut, GetFree, ArchiveError, Stop, client
<1>2. PICK k \in {"none", "over"} :
           /\ task' = [task EXCEPT ![d] = k]
           /\ k = "over" => state' = state
           /\ k = "none" => state' = [state EXCEPT ![d] = "Free"] \/ (shutdown /\ state' = state)
  BY <1>1, ZenonT(30)
<1>3. /\ ttl' \in [Delegates -> Nat] /\ stray' \in [Delegates -> Nat]
      /\ \A e \in Delegates \ {d} : ttl'[e] = ttl[e]
  BY DEF Wait, Notified, TimedOut, GetFree, ArchiveError, Stop, Abandon, Larger, chain, FundInv, FundType
<1>4. task'[d] = k /\ \A e \in Delegates \ {d} : task'[e] = task[e] /\ state'[e] = state[e]
  BY <1>2 DEF FundInv, FundType
<1>5. FundType'
  <2>1. task' \in [Delegates -> {"none", "waiting", "over"}] /\ state' \in [Delegates -> {"Free", "Busy"}]
    BY <1>2 DEF FundInv, FundType
  <2>2. QED
    BY <1>1, <1>3, <2>1 DEF FundInv, FundType
<1>6. ExpiresFirst'
  BY <1>1, <1>3, <1>4 DEF FundInv, ExpiresFirst
<1>7. Takers(d) = {} /\ state[d] = "Busy" /\ \A e \in Delegates : Takers(e)' = Takers(e)
  BY <1>1 DEF FundInv, TakenOnce, Takers
<1>8. /\ k = "over" => state'[d] = "Busy"
      /\ k = "none" => state'[d] = "Free" \/ shutdown
  BY <1>2, <1>7 DEF FundInv, FundType
<1>9. TakenOnce'
  BY <1>4, <1>7, <1>8 DEF FundInv, TakenOnce
<1>10. BusyHasOwner'
  BY <1>1, <1>4, <1>7, <1>8 DEF FundInv, BusyHasOwner
<1>11. QED
  BY <1>5, <1>6, <1>9, <1>10 DEF FundInv

\* A minute passes: what a task waits for expires no later than its budget.
LEMMA FundTickHolds == FundInv /\ FundTick => FundInv'
<1> SUFFICES ASSUME FundInv, FundTick PROVE FundInv'
  OBVIOUS
<1>1. /\ UNCHANGED <<state, progress, cursor, task, shutdown>>
      /\ \A d \in Delegates : task[d] = "waiting" => budget[d] > 0
      /\ budget' = [d \in Delegates |-> IF budget[d] > 0 THEN budget[d] - 1 ELSE 0]
      /\ ttl' = [d \in Delegates |-> IF ttl[d] > 0 THEN ttl[d] - 1 ELSE 0]
      /\ stray' = [d \in Delegates |-> IF stray[d] > 0 THEN stray[d] - 1 ELSE 0]
  BY DEF FundTick, client
<1>2. FundType'
  BY <1>1 DEF FundInv, FundType
<1>3. ExpiresFirst'
  BY <1>1 DEF FundInv, FundType, ExpiresFirst
<1>4. TakenOnce' /\ BusyHasOwner'
  BY <1>1, SameOwners DEF Takers, Delegation
<1>5. QED
  BY <1>2, <1>3, <1>4 DEF FundInv

LEMMA FundStepHolds == FundInv /\ [FundNext]_fundVars => FundInv'
<1> SUFFICES ASSUME FundInv, [FundNext]_fundVars PROVE FundInv'
  OBVIOUS
<1>1. CASE FundTick
  BY <1>1, FundTickHolds
<1>2. ASSUME UNCHANGED <<state, progress, cursor, task, budget, ttl>>, stray' \in [Delegates -> Nat],
             shutdown' \in BOOLEAN, shutdown => shutdown'
      PROVE  FundInv'
  <2>1. FundType' /\ ExpiresFirst'
    BY <1>2, SameExpiry DEF FundInv, FundType
  <2>2. TakenOnce' /\ BusyHasOwner'
    BY <1>2 DEF FundInv, TakenOnce, BusyHasOwner, Takers
  <2>3. QED
    BY <2>1, <2>2 DEF FundInv
<1>3. CASE set_faucet \/ Shutdown \/ UNCHANGED fundVars
  BY <1>2, <1>3, ZenonT(30) DEF set_faucet, Shutdown, fundVars, client, release, chain, FundInv, FundType
<1>4. ASSUME NEW d \in Delegates, Execute(d) PROVE FundInv'
  BY <1>2, <1>4 DEF Execute, client, release, FundInv, FundType
<1>5. ASSUME NEW d \in Delegates, Wait(d) \/ ArchiveError(d) \/ Stop(d) PROVE FundInv'
  BY <1>5, TaskHolds
<1>6. ASSUME NEW c \in Requests, Enter(c) \/ Leave(c) \/ assess(c) PROVE FundInv'
  <2>1. UNCHANGED <<state, task, budget, ttl, stray, shutdown>> /\ cursor \in [Requests -> Nat]
    BY <1>6 DEF Enter, Leave, assess, release, chain, FundInv, FundType
  <2>2. CASE Enter(c)
    <3>1. PICK p \in {"assess", "TryLater"} : progress' = [progress EXCEPT ![c] = p] /\ (p = "assess" => NumDelegates > 0)
      BY <2>2, ZenonT(30) DEF Enter
    <3>2. p = "assess" => 1 \in Delegates
      BY <3>1, DelegatesAssumption DEF Delegates
    <3>3. QED
      BY <2>1, <2>2, <3>1, <3>2, WalkHolds, ZenonT(30) DEF Enter, Progresses, Walking
  <2>3. CASE Leave(c)
    <3>1. cursor' = [cursor EXCEPT ![c] = cursor[c]] /\ cursor[c] \in Nat
      BY <2>1, <2>3 DEF Leave
    <3>2. QED
      BY <2>1, <2>3, <3>1, WalkHolds, ZenonT(30) DEF Leave, Progresses, Walking
  <2>4. CASE assess(c) /\ state[cursor[c]] = "Free"
    <3>1. 1 \in Delegates
      BY <2>4, DelegatesAssumption DEF assess, FundInv, FundType, Walking, Delegates
    <3>2. QED
      BY <2>1, <2>4, <3>1, WalkHolds DEF assess, Progresses, Walking
  <2>5. CASE assess(c) /\ state[cursor[c]] # "Free"
    BY <2>1, <2>5, AdvanceHolds DEF assess
  <2>6. QED
    BY <1>6, <2>2, <2>3, <2>4, <2>5
<1>7. ASSUME NEW c \in Requests, offer(c) PROVE FundInv'
  <2>1. CASE state[cursor[c]] = "Busy"
    BY <1>7, <2>1, AdvanceHolds DEF offer, release, chain
  <2>2. QED
    BY <1>7, <2>1, TakeHolds
<1>8. QED
  BY <1>1, <1>3, <1>4, <1>5, <1>6, <1>7, DispatchedHolds, DispatchFailedHolds DEF FundNext, try_fund

\* However requests, tasks and the shutdown interleave, a delegate is taken by one
\* request or its task at a time, and before the shutdown a busy one has an owner.
THEOREM DelegatesAlwaysHaveOneOwner == FundSpec => []OneOwner
<1>1. FundInv => OneOwner
  BY DEF FundInv, OneOwner
<1>2. QED
  BY <1>1, FundInitHolds, FundStepHolds, PTL DEF FundSpec

\* A task that runs out of its budget leaves nothing behind that could still be
\* executed: the sequence number is free for the next transaction.
THEOREM TransactionExpiresBeforeBudget == FundSpec => ExpiresBeforeBudget
<1>1. ASSUME FundInv, NEW d \in Delegates, TimedOut(d) PROVE stray'[d] = stray[d]
  <2>1. ttl[d] = 0 /\ stray[d] \in Nat /\ stray \in [Delegates -> Nat]
    BY <1>1 DEF TimedOut, FundInv, ExpiresFirst, FundType
  <2>2. Larger(stray[d], ttl[d]) = stray[d]
    BY <2>1 DEF Larger
  <2>3. QED
    BY <1>1, <2>1, <2>2 DEF TimedOut, Abandon
<1>2. FundInv /\ [FundNext]_fundVars => [\A d \in Delegates : TimedOut(d) => stray'[d] = stray[d]]_fundVars
  BY <1>1
<1>3. QED
  BY <1>2, FundInitHolds, FundStepHolds, PTL DEF FundSpec, ExpiresBeforeBudget

(***************************************************************************)
(* The minters                                                             *)
(***************************************************************************)

Effect(m, s) == effects[m][Stages[s]]

PrepareType ==
  /\ minter \in Nat /\ stage \in 1 .. 3
  /\ step # "prepared" => minter \in Minters
  /\ step \in {"issue", "waiting", "ensured", "failed", "prepared"}
  /\ issued \in {"none", "valid", "stale", "bad", "success"}
  /\ issued # "none" => step = "waiting"
  /\ lifetime \in Nat
  /\ strays \subseteq [minter : Minters, stage : 1 .. 3, ttl : Nat]
  /\ effects \in [Minters -> [Kind -> 0 .. 1]]
  /\ addresses \subseteq Minters

\* A minter that was passed: the loop does not come back to it.
Passed(m) == m < minter \/ step \in {"failed", "prepared"}

\* The minter at hand has the effects of the stages behind it and, once its
\* transaction succeeded, of the one it is at.
Succeeding == issued = "success" \/ step = "ensured"
AtHand ==
  step \in {"issue", "waiting", "ensured"} =>
    \A s \in 1 .. 3 : Effect(minter, s) = IF s < stage \/ (s = stage /\ Succeeding) THEN 1 ELSE 0

\* Nothing has happened to the minters ahead.
Ahead == \A m \in Minters, s \in 1 .. 3 : m > minter => Effect(m, s) = 0

\* An abandoned transaction is the last one of a minter that was passed over, and
\* neither its effect nor a later one has happened.
StraysAreLast ==
  \A y \in strays :
    /\ Passed(y.minter) /\ y.minter <= minter /\ y.minter \notin addresses
    /\ \A s \in y.stage .. 3 : Effect(y.minter, s) = 0
    /\ \A z \in strays : z.minter = y.minter => z = y

Returned ==
  \A m \in addresses : (m < minter \/ step = "prepared") /\ \A s \in 1 .. 3 : Effect(m, s) = 1

PrepareInv == PrepareType /\ AtHand /\ Ahead /\ StraysAreLast /\ Returned

LEMMA StageNames ==
  /\ Kind = {"funded", "delegated", "claimed"}
  /\ Stages[1] = "funded" /\ Stages[2] = "delegated" /\ Stages[3] = "claimed"
  /\ \A s \in 1 .. 3 : Stages[s] \in Kind
  /\ \A r, s \in 1 .. 3 : Stages[r] = Stages[s] => r = s
  /\ \A k \in Kind : \E s \in 1 .. 3 : k = Stages[s]
<1>1. Stages[1] = "funded" /\ Stages[2] = "delegated" /\ Stages[3] = "claimed"
  BY DEF Stages
<1>2. 1 .. 3 = {1, 2, 3}
  OBVIOUS
<1>3. Kind = {"funded", "delegated", "claimed"}
  BY <1>1, <1>2 DEF Kind
<1>4. QED
  BY <1>1, <1>2, <1>3

\* One effect happens, for the first time.
LEMMA OneEffect ==
  ASSUME effects \in [Minters -> [Kind -> 0 .. 1]], NEW m \in Minters, NEW s \in 1 .. 3,
         effects' = [effects EXCEPT ![m][Stages[s]] = @ + 1], Effect(m, s) = 0
  PROVE  /\ effects' \in [Minters -> [Kind -> 0 .. 1]] /\ Effect(m, s)' = 1
         /\ \A n \in Minters, r \in 1 .. 3 : n # m \/ r # s => Effect(n, r)' = Effect(n, r)
<1>1. PICK k \in Kind : k = Stages[s]
  BY StageNames
<1>2. effects' = [effects EXCEPT ![m] = [effects[m] EXCEPT ![k] = 1]]
  BY <1>1 DEF Effect
<1>3. effects[m] \in [Kind -> 0 .. 1]
  OBVIOUS
<1>4. effects' \in [Minters -> [Kind -> 0 .. 1]] /\ effects'[m][k] = 1
  <2>1. [effects[m] EXCEPT ![k] = 1] \in [Kind -> 0 .. 1] /\ [effects[m] EXCEPT ![k] = 1][k] = 1
    BY <1>3
  <2>2. effects'[m] = [effects[m] EXCEPT ![k] = 1]
    BY <1>2, ZenonT(30)
  <2>3. \A n \in Minters : effects'[n] \in [Kind -> 0 .. 1]
    BY <1>2, <2>1, ZenonT(30)
  <2>4. effects' \in [Minters -> [Kind -> 0 .. 1]]
    BY <1>2, <2>3
  <2>5. QED
    BY <2>1, <2>2, <2>4
<1>5. ASSUME NEW n \in Minters, NEW r \in 1 .. 3, n # m \/ r # s PROVE Effect(n, r)' = Effect(n, r)
  <2>1. Stages[r] \in Kind /\ (r # s => Stages[r] # k)
    BY <1>1, StageNames
  <2>2. QED
    BY <1>2, <1>3, <1>5, <2>1 DEF Effect
<1>6. QED
  BY <1>1, <1>4, <1>5 DEF Effect

LEMMA PrepareInitHolds == PrepareInit => PrepareInv
<1> SUFFICES ASSUME PrepareInit PROVE PrepareInv
  OBVIOUS
<1>1. PrepareType
  <2>1. NumMinters # 0 => 1 \in Minters
    BY MintersAssumption DEF Minters
  <2>2. effects \in [Minters -> [Kind -> 0 .. 1]]
    BY DEF PrepareInit
  <2>3. QED
    BY <2>1, <2>2 DEF PrepareInit, PrepareType
<1>2. \A m \in Minters, s \in 1 .. 3 : Effect(m, s) = 0
  BY StageNames DEF PrepareInit, Effect
<1>3. AtHand
  BY <1>1, <1>2 DEF AtHand, PrepareType, PrepareInit, Succeeding
<1>4. QED
  BY <1>1, <1>2, <1>3 DEF PrepareInit, PrepareInv, Ahead, StraysAreLast, Returned

\* Steps of the task and of time that leave the effects and what was abandoned
\* alone, or abandon less.
LEMMA IssueHolds ==
  ASSUME PrepareInv, issue_tx \/ Ensured \/ Retry \/ Reject
  PROVE  PrepareInv'
<1>1. /\ UNCHANGED <<minter, stage, strays, effects, addresses>> /\ Succeeding' = Succeeding
      /\ step \in {"issue", "waiting"} /\ step' \in {"issue", "waiting", "ensured"}
  BY DEF issue_tx, Ensured, Retry, Reject, Succeeding, PrepareInv, PrepareType
<1>2. PrepareType'
  BY DEF issue_tx, Ensured, Retry, Reject, PrepareInv, PrepareType, FAUCET_TRANSACTION_EXPIRY
<1>3. AtHand'
  BY <1>1 DEF PrepareInv, AtHand, Effect
<1>4. Ahead'
  BY <1>1 DEF PrepareInv, Ahead, Effect
<1>5. StraysAreLast'
  BY <1>1 DEF PrepareInv, StraysAreLast, Passed, Effect
<1>6. Returned'
  BY <1>1 DEF PrepareInv, Returned, Effect
<1>7. QED
  BY <1>2, <1>3, <1>4, <1>5, <1>6 DEF PrepareInv

LEMMA PrepareTickHolds ==
  ASSUME PrepareInv, PrepareTick
  PROVE  PrepareInv'
<1>1. UNCHANGED <<minter, stage, step, issued, effects, addresses>>
  BY DEF PrepareTick
<1>2. strays' = {[y EXCEPT !.ttl = @ - 1] : y \in {z \in strays : z.ttl > 1}}
  BY DEF PrepareTick
<1>3. \A y \in strays : y.ttl > 1 => /\ [y EXCEPT !.ttl = @ - 1] \in [minter : Minters, stage : 1 .. 3, ttl : Nat]
                                     /\ [y EXCEPT !.ttl = @ - 1].minter = y.minter
                                     /\ [y EXCEPT !.ttl = @ - 1].stage = y.stage
  BY DEF PrepareInv, PrepareType
<1>4. \A x \in strays' : /\ x \in [minter : Minters, stage : 1 .. 3, ttl : Nat]
                         /\ \E y \in strays : x = [y EXCEPT !.ttl = @ - 1] /\ x.minter = y.minter /\ x.stage = y.stage
  BY <1>2, <1>3
<1>5. PrepareType'
  <2>1. lifetime' \in Nat
    BY DEF PrepareTick, PrepareInv, PrepareType
  <2>2. strays' \subseteq [minter : Minters, stage : 1 .. 3, ttl : Nat]
    BY <1>4
  <2>3. QED
    BY <1>1, <2>1, <2>2 DEF PrepareInv, PrepareType
<1>6. StraysAreLast'
  <2>1. ASSUME NEW x \in strays'
        PROVE  /\ Passed(x.minter) /\ x.minter <= minter /\ x.minter \notin addresses
               /\ \A s \in x.stage .. 3 : Effect(x.minter, s) = 0
    BY <1>4 DEF PrepareInv, StraysAreLast
  <2>2. ASSUME NEW x \in strays', NEW z \in strays', z.minter = x.minter PROVE z = x
    <3>1. PICK y \in strays : x = [y EXCEPT !.ttl = @ - 1] /\ x.minter = y.minter
      BY <1>4
    <3>2. PICK w \in strays : z = [w EXCEPT !.ttl = @ - 1] /\ z.minter = w.minter
      BY <1>4
    <3>3. w = y
      BY <2>2, <3>1, <3>2 DEF PrepareInv, StraysAreLast
    <3>4. QED
      BY <3>1, <3>2, <3>3
  <2>3. QED
    BY <1>1, <2>1, <2>2 DEF StraysAreLast, Passed, Effect
<1>7. AtHand' /\ Ahead' /\ Returned'
  BY <1>1 DEF PrepareInv, AtHand, Ahead, Returned, Effect, Succeeding
<1>8. QED
  BY <1>5, <1>6, <1>7 DEF PrepareInv

\* ensure_tx gives up on the minter: its transaction is the last one.
LEMMA ForwardHolds ==
  ASSUME PrepareInv, Forward
  PROVE  PrepareInv'
<1> DEFINE y == [minter |-> minter, stage |-> stage, ttl |-> lifetime]
<1>1. /\ UNCHANGED <<minter, stage, effects, addresses>> /\ step \in {"issue", "waiting"}
      /\ step' = "failed" /\ issued' = "none" /\ lifetime' = 0
      /\ strays' = strays \/ (issued = "valid" /\ strays' = strays \union {y})
  BY DEF Forward
<1>2. /\ minter \in Minters /\ stage \in 1 .. 3 /\ minter \in Nat /\ lifetime \in Nat
      /\ y \in [minter : Minters, stage : 1 .. 3, ttl : Nat] /\ y.minter = minter /\ y.stage = stage
  BY <1>1 DEF PrepareInv, PrepareType
<1>3. PrepareType'
  BY <1>1, <1>2 DEF PrepareInv, PrepareType
<1>4. \A z \in strays : z.minter < minter
  BY <1>1 DEF PrepareInv, StraysAreLast, Passed
<1>5. minter \notin addresses
  BY <1>1, <1>2 DEF PrepareInv, Returned
<1>6. issued = "valid" => \A s \in stage .. 3 : Effect(minter, s) = 0
  BY <1>1, <1>2 DEF PrepareInv, AtHand, Succeeding, PrepareType
<1>7. StraysAreLast'
  <2> HIDE DEF y
  <2>1. ASSUME NEW z \in strays
        PROVE  /\ z.minter <= minter /\ z.minter \notin addresses
               /\ \A s \in z.stage .. 3 : Effect(z.minter, s) = 0
               /\ \A x \in strays : x.minter = z.minter => x = z
    BY DEF PrepareInv, StraysAreLast
  <2>2. CASE strays' = strays
    BY <1>1, <2>1, <2>2 DEF StraysAreLast, Passed, Effect
  <2>3. CASE issued = "valid" /\ strays' = strays \union {y}
    <3>1. /\ y.minter <= minter /\ y.minter \notin addresses
          /\ \A s \in y.stage .. 3 : Effect(y.minter, s) = 0
          /\ \A x \in strays : x.minter # y.minter
      BY <1>2, <1>4, <1>5, <1>6, <2>3
    <3>2. QED
      BY <1>1, <2>1, <2>3, <3>1 DEF StraysAreLast, Passed, Effect
  <2>4. QED
    BY <1>1, <2>2, <2>3
<1>8. AtHand' /\ Ahead'
  BY <1>1 DEF PrepareInv, AtHand, Ahead, Effect
<1>9. Returned'
  BY <1>1 DEF PrepareInv, Returned, Effect
<1>10. QED
  BY <1>3, <1>7, <1>8, <1>9 DEF PrepareInv

\* The transaction of the minter at hand is executed: its effect happens once.
LEMMA ExecuteIssuedHolds ==
  ASSUME PrepareInv, ExecuteIssued
  PROVE  PrepareInv'
<1>1. /\ UNCHANGED <<minter, stage, step, lifetime, addresses>> /\ issued = "valid" /\ step = "waiting"
      /\ minter \in Minters /\ minter \in Nat /\ stage \in 1 .. 3
      /\ issued' \in {"success", "bad"} /\ strays' \subseteq strays
  BY DEF ExecuteIssued, PrepareInv, PrepareType
<1>2. Effect(minter, stage) = 0 /\ effects \in [Minters -> [Kind -> 0 .. 1]]
  BY <1>1 DEF PrepareInv, AtHand, Succeeding, PrepareType
<1>3. /\ effects' \in [Minters -> [Kind -> 0 .. 1]]
      /\ Effect(minter, stage)' = IF issued' = "success" THEN 1 ELSE 0
      /\ \A n \in Minters, r \in 1 .. 3 : n # minter \/ r # stage => Effect(n, r)' = Effect(n, r)
  <2>1. CASE effects' = effects /\ issued' = "bad"
    BY <1>1, <1>2, <2>1 DEF Effect
  <2>2. CASE issued' = "success" /\ effects' = [effects EXCEPT ![minter][Stages[stage]] = @ + 1]
    <3>1. PICK m \in Minters, s \in 1 .. 3 : m = minter /\ s = stage
      BY <1>1
    <3>2. /\ effects' \in [Minters -> [Kind -> 0 .. 1]] /\ Effect(m, s)' = 1
          /\ \A n \in Minters, r \in 1 .. 3 : n # m \/ r # s => Effect(n, r)' = Effect(n, r)
      BY <1>2, <2>2, <3>1, OneEffect, ZenonT(30)
    <3>3. Effect(minter, stage)' = Effect(m, s)'
      BY <1>1, <3>1 DEF Effect
    <3>4. QED
      BY <2>2, <3>1, <3>2, <3>3
  <2>3. QED
    BY <2>1, <2>2 DEF ExecuteIssued
<1>4. PrepareType'
  BY <1>1, <1>3 DEF PrepareInv, PrepareType
<1>5. AtHand'
  <2>1. ASSUME NEW s \in 1 .. 3
        PROVE  Effect(minter, s)' = IF s < stage \/ (s = stage /\ issued' = "success") THEN 1 ELSE 0
    <3>1. CASE s = stage
      <4>1. Effect(minter, s)' = Effect(minter, stage)'
        BY <1>1, <3>1 DEF Effect
      <4>2. QED
        BY <1>1, <1>3, <3>1, <4>1
    <3>2. CASE s # stage
      <4>1. PICK m \in Minters : m = minter
        BY <1>1
      <4>2. Effect(m, s)' = Effect(m, s) /\ Effect(minter, s)' = Effect(m, s)'
        BY <1>1, <1>3, <3>2, <4>1 DEF Effect
      <4>3. Effect(minter, s) = IF s < stage THEN 1 ELSE 0
        BY <1>1, <3>2 DEF PrepareInv, AtHand
      <4>4. QED
        BY <3>2, <4>1, <4>2, <4>3
    <3>3. QED
      BY <3>1, <3>2
  <2>2. QED
    BY <1>1, <2>1 DEF AtHand, Succeeding
<1>6. Ahead'
  BY <1>1, <1>3 DEF PrepareInv, Ahead
<1>7. StraysAreLast'
  <2>1. \A y \in strays : /\ y.minter # minter /\ y.minter \in Minters /\ y.stage \in 1 .. 3
                          /\ \A s \in y.stage .. 3 : s \in 1 .. 3
    BY <1>1 DEF PrepareInv, StraysAreLast, Passed, PrepareType
  <2>2. \A y \in strays : \A s \in y.stage .. 3 : Effect(y.minter, s)' = 0
    BY <1>3, <2>1 DEF PrepareInv, StraysAreLast
  <2>3. QED
    BY <1>1, <2>2 DEF PrepareInv, StraysAreLast, Passed
<1>8. Returned'
  BY <1>1, <1>3 DEF PrepareInv, Returned, PrepareType
<1>9. QED
  BY <1>4, <1>5, <1>6, <1>7, <1>8 DEF PrepareInv

\* An abandoned transaction is executed after all: for a minter that was passed
\* over, and before any other of its effects can follow.
LEMMA ExecuteStrayHolds ==
  ASSUME PrepareInv, NEW y \in strays, ExecuteStray(y)
  PROVE  PrepareInv'
<1>1. /\ UNCHANGED <<minter, stage, step, lifetime, addresses>>
      /\ issued' \in {issued, "stale"} /\ (issued' # issued => issued = "valid")
      /\ strays' \subseteq strays /\ y \notin strays'
  BY DEF ExecuteStray, Invalidated
<1>2. /\ y.minter \in Minters /\ y.stage \in 1 .. 3 /\ minter \in Nat /\ y.minter <= minter
      /\ y.minter \notin addresses /\ Effect(y.minter, y.stage) = 0
      /\ effects \in [Minters -> [Kind -> 0 .. 1]]
      /\ step \in {"issue", "waiting", "ensured"} => y.minter # minter
      /\ \A z \in strays' : z.minter # y.minter
  BY <1>1 DEF PrepareInv, PrepareType, StraysAreLast, Passed
<1>3. /\ effects' \in [Minters -> [Kind -> 0 .. 1]]
      /\ \A n \in Minters, r \in 1 .. 3 : n # y.minter => Effect(n, r)' = Effect(n, r)
  <2>1. CASE effects' = effects
    BY <1>2, <2>1 DEF Effect
  <2>2. CASE effects' = [effects EXCEPT ![y.minter][Stages[y.stage]] = @ + 1]
    <3>1. PICK m \in Minters, s \in 1 .. 3 : m = y.minter /\ s = y.stage
      BY <1>2
    <3>2. /\ effects' \in [Minters -> [Kind -> 0 .. 1]]
          /\ \A n \in Minters, r \in 1 .. 3 : n # m \/ r # s => Effect(n, r)' = Effect(n, r)
      BY <1>2, <2>2, <3>1, OneEffect, ZenonT(30)
    <3>3. QED
      BY <3>1, <3>2
  <2>3. QED
    BY <2>1, <2>2 DEF ExecuteStray
<1>4. PrepareType'
  BY <1>1, <1>3 DEF PrepareInv, PrepareType
<1>5. AtHand'
  <2>1. step \in {"issue", "waiting", "ensured"} => minter \in Minters /\ minter # y.minter
    BY <1>2 DEF PrepareInv, PrepareType
  <2>2. step \in {"issue", "waiting", "ensured"} => \A s \in 1 .. 3 : Effect(minter, s)' = Effect(minter, s)
    <3> SUFFICES ASSUME step \in {"issue", "waiting", "ensured"}, NEW s \in 1 .. 3
                 PROVE  Effect(minter, s)' = Effect(minter, s)
      OBVIOUS
    <3>1. PICK m \in Minters : m = minter
      BY <2>1
    <3>2. Effect(m, s)' = Effect(m, s)
      BY <1>3, <2>1, <3>1
    <3>3. QED
      BY <1>1, <3>1, <3>2 DEF Effect
  <2>3. Succeeding' = Succeeding
    BY <1>1 DEF Succeeding
  <2>4. QED
    BY <1>1, <2>2, <2>3 DEF PrepareInv, AtHand
<1>6. Ahead'
  <2>1. \A m \in Minters : m > minter => m # y.minter
    BY <1>2, MintersAssumption DEF Minters
  <2>2. QED
    BY <1>1, <1>3, <2>1 DEF PrepareInv, Ahead
<1>7. StraysAreLast'
  <2>1. \A z \in strays : /\ z.minter \in Minters /\ z.stage \in 1 .. 3
                          /\ \A s \in z.stage .. 3 : s \in 1 .. 3
    BY DEF PrepareInv, PrepareType
  <2>2. \A z \in strays' : \A s \in z.stage .. 3 : Effect(z.minter, s)' = 0
    BY <1>1, <1>2, <1>3, <2>1 DEF PrepareInv, StraysAreLast
  <2>3. QED
    BY <1>1, <2>2 DEF PrepareInv, StraysAreLast, Passed
<1>8. Returned'
  BY <1>1, <1>2, <1>3 DEF PrepareInv, Returned, PrepareType
<1>9. QED
  BY <1>4, <1>5, <1>6, <1>7, <1>8 DEF PrepareInv

\* prepare goes on to its next minter, which nothing has happened to yet, or ends.
Advances ==
  /\ minter \in Minters /\ issued = "none" /\ stage' = 1 /\ UNCHANGED <<issued, strays, effects>>
  /\ \/ minter = NumMinters /\ step' = "prepared" /\ minter' = minter
     \/ minter # NumMinters /\ step' = "issue" /\ minter' = minter + 1

LEMMA NextMinterIsFresh ==
  ASSUME PrepareInv, Advances
  PROVE  AtHand' /\ Ahead'
<1>1. \A m \in Minters, s \in 1 .. 3 : m > minter => Effect(m, s)' = 0
  BY DEF PrepareInv, Ahead, Effect, Advances
<1>2. CASE minter = NumMinters /\ step' = "prepared" /\ minter' = minter
  BY <1>1, <1>2 DEF AtHand, Ahead
<1>3. CASE minter # NumMinters /\ step' = "issue" /\ minter' = minter + 1
  <2>1. PICK n \in Minters : n = minter + 1 /\ n > minter
    BY <1>3, MintersAssumption DEF Minters, Advances
  <2>2. Ahead'
    BY <1>1, <1>3, <2>1, MintersAssumption DEF Ahead, Minters, Advances
  <2>3. \A s \in 1 .. 3 : Effect(n, s)' = 0
    BY <1>1, <2>1
  <2>4. \A s \in 1 .. 3 : Effect(minter, s)' = 0
    BY <1>3, <2>1, <2>3 DEF Effect
  <2>5. AtHand'
    BY <1>3, <2>4 DEF AtHand, Succeeding, Advances
  <2>6. QED
    BY <2>2, <2>5
<1>4. QED
  BY <1>2, <1>3 DEF Advances

LEMMA StraysArePassed ==
  ASSUME PrepareInv, Advances, \A y \in strays : y.minter \notin addresses'
  PROVE  StraysAreLast'
<1>1. \A y \in strays : y.minter \in Minters /\ y.minter <= minter
  BY DEF PrepareInv, PrepareType, StraysAreLast
<1>2. \A y \in strays : Passed(y.minter)' /\ y.minter <= minter'
  BY <1>1, MintersAssumption DEF Advances, Passed, Minters
<1>3. \A y \in strays : \A s \in y.stage .. 3 : Effect(y.minter, s)' = 0
  BY DEF PrepareInv, StraysAreLast, Effect, Advances
<1>4. QED
  BY <1>2, <1>3 DEF PrepareInv, StraysAreLast, Advances

\* generate goes on to the next stage, or prepare to the next minter.
LEMMA NextStageHolds ==
  ASSUME PrepareInv, NextStage
  PROVE  PrepareInv'
<1>1. /\ step = "ensured" /\ minter \in Minters /\ minter \in Nat /\ stage \in 1 .. 3 /\ issued = "none"
      /\ UNCHANGED <<issued, lifetime, strays, effects>>
  BY DEF NextStage, PrepareInv, PrepareType
<1>2. \A s \in 1 .. 3 : Effect(minter, s) = IF s <= stage THEN 1 ELSE 0
  BY <1>1 DEF PrepareInv, AtHand, Succeeding
<1>3. \A y \in strays : y.minter < minter
  BY <1>1 DEF PrepareInv, StraysAreLast, Passed
<1>4. CASE stage < 3
  <2>1. stage' = stage + 1 /\ step' = "issue" /\ minter' = minter /\ addresses' = addresses
    BY <1>4 DEF NextStage
  <2>2. PrepareType'
    BY <1>1, <1>4, <2>1 DEF PrepareInv, PrepareType
  <2>3. AtHand'
    BY <1>1, <1>2, <2>1 DEF AtHand, Succeeding, Effect
  <2>4. Ahead' /\ StraysAreLast' /\ Returned'
    BY <1>1, <1>3, <2>1 DEF PrepareInv, Ahead, StraysAreLast, Passed, Returned, Effect
  <2>5. QED
    BY <2>2, <2>3, <2>4 DEF PrepareInv
<1>5. CASE stage = 3
  <2>1. /\ addresses' = addresses \union {minter} /\ stage' = 1
        /\ \/ minter = NumMinters /\ step' = "prepared" /\ minter' = minter
           \/ minter # NumMinters /\ step' = "issue" /\ minter' = minter + 1
    BY <1>5 DEF NextStage
  <2>2. minter # NumMinters => minter + 1 \in Minters
    BY <1>1, MintersAssumption DEF Minters
  <2>3. PrepareType'
    BY <1>1, <2>1, <2>2 DEF PrepareInv, PrepareType
  <2>4. AtHand' /\ Ahead'
    BY <1>1, <2>1, NextMinterIsFresh DEF Advances
  <2>5. StraysAreLast'
    <3>1. \A y \in strays : y.minter # minter /\ y.minter \notin addresses'
      BY <1>1, <1>3, <2>1, MintersAssumption DEF PrepareInv, StraysAreLast, PrepareType, Minters
    <3>2. QED
      BY <1>1, <2>1, <3>1, StraysArePassed DEF Advances
  <2>6. Returned'
    <3>1. \A m \in addresses : m \in Minters /\ m < minter
      BY <1>1 DEF PrepareInv, PrepareType, Returned
    <3>2. QED
      BY <1>1, <1>2, <1>5, <2>1, <3>1, MintersAssumption DEF PrepareInv, Returned, Effect, Minters
  <2>7. QED
    BY <2>3, <2>4, <2>5, <2>6 DEF PrepareInv
<1>6. QED
  BY <1>1, <1>4, <1>5

\* A minter that cannot be generated is passed over.
LEMMA SkipHolds ==
  ASSUME PrepareInv, Skip
  PROVE  PrepareInv'
<1>1. /\ step = "failed" /\ minter \in Minters /\ minter \in Nat /\ issued = "none" /\ stage' = 1
      /\ UNCHANGED <<issued, lifetime, strays, effects, addresses>>
      /\ \/ minter = NumMinters /\ step' = "prepared" /\ minter' = minter
         \/ minter # NumMinters /\ step' = "issue" /\ minter' = minter + 1
  BY DEF Skip, PrepareInv, PrepareType
<1>2. minter # NumMinters => minter + 1 \in Minters
  BY <1>1, MintersAssumption DEF Minters
<1>3. PrepareType'
  BY <1>1, <1>2 DEF PrepareInv, PrepareType
<1>4. AtHand' /\ Ahead'
  BY <1>1, NextMinterIsFresh DEF Advances
<1>5. StraysAreLast'
  <2>1. \A y \in strays : y.minter \notin addresses'
    BY <1>1 DEF PrepareInv, StraysAreLast
  <2>2. QED
    BY <1>1, <2>1, StraysArePassed DEF Advances
<1>6. Returned'
  <2>1. \A m \in addresses : m \in Minters /\ m < minter
    BY <1>1 DEF PrepareInv, PrepareType, Returned
  <2>2. QED
    BY <1>1, <2>1, MintersAssumption DEF PrepareInv, Returned, Effect, Minters
<1>7. QED
  BY <1>3, <1>4, <1>5, <1>6 DEF PrepareInv

LEMMA PrepareStepHolds == PrepareInv /\ [PrepareNext]_prepareVars => PrepareInv'
<1> SUFFICES ASSUME PrepareInv, [PrepareNext]_prepareVars PROVE PrepareInv'
  OBVIOUS
<1>1. CASE UNCHANGED prepareVars
  BY <1>1 DEF prepareVars, PrepareInv, PrepareType, AtHand, Ahead, StraysAreLast, Returned, Passed, Effect, Succeeding
<1>2. CASE PrepareNext
  BY <1>2, IssueHolds, PrepareTickHolds, ForwardHolds, ExecuteIssuedHolds, ExecuteStrayHolds, NextStageHolds, SkipHolds
  DEF PrepareNext, prepare, GenerateTimedOut
<1>3. QED
  BY <1>1, <1>2

\* Every minter that prepare returns was funded, delegated to and has claimed, and
\* no transaction that was reissued, abandoned or late did so twice.
THEOREM EffectsAlwaysExactlyOnce == PrepareSpec => []EffectsExactlyOnce
<1>1. PrepareInv => EffectsExactlyOnce
  <2> SUFFICES ASSUME PrepareInv PROVE EffectsExactlyOnce
    OBVIOUS
  <2>1. NoEffectTwice
    BY DEF PrepareInv, PrepareType, NoEffectTwice
  <2>2. ASSUME NEW m \in addresses, NEW k \in Kind PROVE effects[m][k] > 0
    <3>1. PICK s \in 1 .. 3 : k = Stages[s]
      BY StageNames
    <3>2. Effect(m, s) = 1
      BY DEF PrepareInv, Returned
    <3>3. QED
      BY <3>1, <3>2 DEF Effect
  <2>3. QED
    BY <2>1, <2>2 DEF EffectsExactlyOnce, PreparedCanMint
<1>2. QED
  BY <1>1, PrepareInitHolds, PrepareStepHolds, PTL DEF PrepareSpec
=============================================================================
