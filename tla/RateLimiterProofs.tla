------------------------- MODULE RateLimiterProofs -------------------------
(***************************************************************************)
(* What RateLimiter promises, proved for every number of clients, request  *)
(* slots, capacity, rate, ceiling and table size.                          *)
(***************************************************************************)
EXTENDS RateLimiter, TLAPS, FiniteSetTheorems

(* The bucket a check works on is well formed, whether found or made. *)
LEMMA FullIsNat == Full \in Nat /\ Full >= TokenTicks
<1>1. Full \in Nat
  BY LimiterAssumption DEF Full
<1>2. Full = (Capacity - 1) * TokenTicks + TokenTicks
  BY LimiterAssumption DEF Full
<1>3. (Capacity - 1) * TokenTicks \in Nat
  BY LimiterAssumption
<1> QED BY <1>1, <1>2, <1>3, LimiterAssumption

LEMMA RefilledFacts ==
    ASSUME TypeOK, NEW c \in Clients
    PROVE  /\ Refilled(c) \in Bucket
           /\ Refilled(c).seen = now
           /\ Level(c) \in 0..Full
           /\ c \in Tracked =>
                /\ Refilled(c).born = buckets[c].born
                /\ Refilled(c).spent = buckets[c].spent
                /\ Level(c) = Least(Full, buckets[c].tokens
                                            + Most(0, now - buckets[c].seen))
           /\ c \notin Tracked => Refilled(c) = NewBucket
<1>1. CASE c \in Tracked
  <2>1. buckets[c] \in Bucket
    BY <1>1 DEF TypeOK
  <2>2. Least(Full, buckets[c].tokens + Most(0, now - buckets[c].seen)) \in 0..Full
    BY <2>1, FullIsNat DEF Bucket, Least, Most, TypeOK
  <2> QED
    BY <1>1, <2>1, <2>2 DEF Refilled, Level, Bucket, TypeOK
<1>2. CASE c \notin Tracked
  BY <1>2, FullIsNat DEF Refilled, Level, NewBucket, Bucket, TypeOK
<1> QED BY <1>1, <1>2

(* Touch changes c's bucket, may drop others and changes no other. *)
LEMMA TouchFacts ==
    ASSUME NEW c, NEW taken, Touch(c, taken)
    PROVE  /\ c \in Tracked'
           /\ buckets'[c] = Spend(Refilled(c), taken)
           /\ \A k \in Tracked' \ {c} : k \in Tracked /\ buckets'[k] = buckets[k]
BY DEF Touch, Tracked

LEMMA SpendFacts ==
    ASSUME NEW b \in Bucket, NEW taken \in 0..b.tokens
    PROVE  /\ Spend(b, taken) \in Bucket
           /\ Spend(b, taken).tokens = b.tokens - taken
           /\ Spend(b, taken).spent = b.spent + taken
           /\ Spend(b, taken).seen = b.seen
           /\ Spend(b, taken).born = b.born
<1> DEFINE left == b.tokens - taken
           used == b.spent + taken
<1>1. left \in 0..Full /\ used \in Int
  BY FullIsNat DEF Bucket
<1>2. Spend(b, taken) = [b EXCEPT !.tokens = left, !.spent = used]
  BY DEF Spend
<1> HIDE DEF left, used
<1>3. /\ Spend(b, taken) \in Bucket
      /\ Spend(b, taken).tokens = left
      /\ Spend(b, taken).spent = used
      /\ Spend(b, taken).seen = b.seen
      /\ Spend(b, taken).born = b.born
  BY <1>1, <1>2 DEF Bucket
<1> QED BY <1>3 DEF left, used

LEMMA RefundedFacts ==
    ASSUME NEW b \in Bucket
    PROVE  /\ Refunded(b) \in Bucket
           /\ Refunded(b).tokens = Least(Full, b.tokens + TokenTicks)
           /\ Refunded(b).spent = b.spent - TokenTicks
           /\ Refunded(b).seen = b.seen
           /\ Refunded(b).born = b.born
<1> DEFINE left == Least(Full, b.tokens + TokenTicks)
           used == b.spent - TokenTicks
<1>1. left \in 0..Full /\ used \in Int
  BY FullIsNat, LimiterAssumption DEF Bucket, Least
<1>2. Refunded(b) = [b EXCEPT !.tokens = left, !.spent = used]
  BY DEF Refunded
<1> HIDE DEF left, used
<1>3. /\ Refunded(b) \in Bucket
      /\ Refunded(b).tokens = left
      /\ Refunded(b).spent = used
      /\ Refunded(b).seen = b.seen
      /\ Refunded(b).born = b.born
  BY <1>1, <1>2 DEF Bucket
<1> QED BY <1>3 DEF left, used

-----------------------------------------------------------------------------
(* Every value keeps its type: the daily counter and the token counts      *)
(* never go negative, no bucket exceeds a full burst.                      *)
THEOREM TypeCorrect == Spec => []TypeOK
<1>1. Init => TypeOK
  BY LimiterAssumption DEF Init, TypeOK, Tracked, Unpromised
<1>2. TypeOK /\ [Next]_vars => TypeOK'
  <2> SUFFICES ASSUME TypeOK, [Next]_vars PROVE TypeOK'
    OBVIOUS
  <2> DEFINE BucketsOK == Tracked \subseteq Clients /\ \A k \in Tracked : buckets[k] \in Bucket
  <2>0. ASSUME NEW charge \in 0..1, RollDay(charge)
        PROVE  day' \in Nat /\ served' \in Nat /\ routed' \in Int /\ late' \in Nat
    BY <2>0 DEF RollDay, RolledServed, TypeOK
  <2>t. ASSUME NEW c \in Clients, NEW taken \in 0..Level(c), Touch(c, taken)
        PROVE  BucketsOK'
    <3>1. /\ c \in Tracked'
          /\ buckets'[c] = Spend(Refilled(c), taken)
          /\ \A k \in Tracked' \ {c} : k \in Tracked /\ buckets'[k] = buckets[k]
      BY <2>t, TouchFacts
    <3>2. Spend(Refilled(c), taken) \in Bucket
      BY RefilledFacts, SpendFacts DEF Level
    <3> QED BY <3>1, <3>2 DEF TypeOK
  <2>1. CASE RefuseAtCeiling
    BY <2>1, <2>0 DEF RefuseAtCeiling, TypeOK, Tracked
  <2>2. ASSUME NEW r \in Requests, NEW c \in Clients, AllowRoute(r, c)
        PROVE  TypeOK'
    <3>1. TokenTicks \in 0..Level(c)
      BY <2>2, RefilledFacts, LimiterAssumption DEF AllowRoute
    <3>2. BucketsOK'
      BY <2>2, <2>t, <3>1 DEF AllowRoute
    <3> QED BY <2>2, <2>0, <3>2 DEF AllowRoute, TypeOK
  <2>3. ASSUME NEW c \in Clients, AllowUncounted(c)
        PROVE  TypeOK'
    <3>1. TokenTicks \in 0..Level(c)
      BY <2>3, RefilledFacts, LimiterAssumption DEF AllowUncounted
    <3>2. BucketsOK'
      BY <2>3, <2>t, <3>1 DEF AllowUncounted
    <3> QED BY <2>3, <2>0, <3>2 DEF AllowUncounted, TypeOK
  <2>4. ASSUME NEW c \in Clients, NEW counts \in BOOLEAN, RefuseClient(c, counts)
        PROVE  TypeOK'
    <3>1. 0 \in 0..Level(c)
      BY RefilledFacts, FullIsNat
    <3>2. BucketsOK'
      BY <2>4, <2>t, <3>1 DEF RefuseClient
    <3>3. now + RetryAfter(c) \in Nat
      BY <2>4, RefilledFacts, FullIsNat, LimiterAssumption
         DEF RetryAfter, RefuseClient, TypeOK
    <3> QED BY <2>4, <2>0, <3>2, <3>3 DEF RefuseClient, TypeOK
  <2>5. ASSUME NEW r \in Requests, CacheHit(r)
        PROVE  TypeOK'
    <3>1. Refund(pending[r].client) => BucketsOK' /\ served' \in Nat
      BY RefundedFacts DEF Refund, TypeOK, Tracked, Most
    <3>2. routed' \in Int /\ late' \in Nat
      BY <2>5 DEF CacheHit, TypeOK
    <3> QED BY <2>5, <3>1, <3>2 DEF CacheHit, TypeOK
  <2>6. ASSUME NEW r \in Requests, CacheMiss(r)
        PROVE  TypeOK'
    BY <2>6 DEF CacheMiss, TypeOK, Tracked, counters
  <2>7. CASE ServedToday
    BY <2>7, <2>0 DEF ServedToday, TypeOK, Tracked
  <2>8. CASE Tick
    BY <2>8 DEF Tick, TypeOK, Tracked, counters
  <2>9. CASE Midnight
    BY <2>9 DEF Midnight, TypeOK, Tracked, counters
  <2>10. CASE UNCHANGED vars
    BY <2>10 DEF vars, TypeOK, Tracked
  <2> QED
    BY <2>1, <2>2, <2>3, <2>4, <2>5, <2>6, <2>7, <2>8, <2>9, <2>10 DEF Next
<1> QED BY <1>1, <1>2, PTL DEF Spec

-----------------------------------------------------------------------------
(* The daily counter.  served may be below the truth only by the refunds   *)
(* that arrived from an earlier day, which is what makes the bound hold.   *)
CeilingInv ==
    /\ served <= DailyCeiling
    /\ routed <= served + late

(* A day's non-cached requests exceed the ceiling by at most the refunds   *)
(* that crossed midnight: check(), refund() and _roll_day_locked together. *)
THEOREM CeilingUpToLateRefunds == Spec => []CeilingHeldUpToLateRefunds
<1>1. Init => CeilingInv
  BY LimiterAssumption DEF Init, CeilingInv
<1>2. TypeOK /\ CeilingInv /\ [Next]_vars => CeilingInv'
  <2> SUFFICES ASSUME TypeOK, CeilingInv, [Next]_vars PROVE CeilingInv'
    OBVIOUS
  <2> USE LimiterAssumption DEF CeilingInv, TypeOK
  <2>1. RollDay(0) => CeilingInv'
    BY DEF RollDay, RolledServed
  <2>2. RollDay(1) /\ RolledServed < DailyCeiling => CeilingInv'
    BY DEF RollDay, RolledServed
  <2>3. ASSUME NEW r \in Requests, CacheHit(r) PROVE CeilingInv'
    <3>1. CASE pending[r].client \in Tracked
      BY <2>3, <3>1 DEF CacheHit, Refund, Most
    <3>2. CASE pending[r].client \notin Tracked
      BY <2>3, <3>2 DEF CacheHit, Refund
    <3> QED BY <3>1, <3>2
  <2>4. UNCHANGED counters => CeilingInv'
    BY DEF counters
  <2> QED
    BY <2>1, <2>2, <2>3, <2>4
       DEF Next, RefuseAtCeiling, AllowRoute, AllowUncounted, RefuseClient,
           CacheMiss, ServedToday, Tick, Midnight, vars, counters
<1>3. TypeOK /\ CeilingInv => CeilingHeldUpToLateRefunds
  BY LimiterAssumption DEF CeilingInv, CeilingHeldUpToLateRefunds, TypeOK
<1> QED BY <1>1, <1>2, <1>3, TypeCorrect, PTL DEF Spec

-----------------------------------------------------------------------------
(* A bucket's ledger balances, and a client with a promise has its token,  *)
(* or will have it by the promised tick.                                   *)
Ledger(b) ==
    /\ b.born <= b.seen /\ b.seen <= now
    /\ b.spent + b.tokens <= Full + (b.seen - b.born)
OnTime(c) ==
    promised[c] # Unpromised =>
        \/ buckets[c].tokens >= TokenTicks
        \/ buckets[c].tokens + (promised[c] - buckets[c].seen) >= TokenTicks
BucketInv == \A c \in Tracked : Ledger(buckets[c]) /\ OnTime(c)

(* Refilling keeps the ledger and the promise. *)
LEMMA RefilledLedger ==
    ASSUME TypeOK, BucketInv, NEW c \in Clients
    PROVE  /\ Ledger(Refilled(c))
           /\ promised[c] # Unpromised =>
                 \/ Level(c) >= TokenTicks
                 \/ Level(c) + (promised[c] - now) >= TokenTicks
<1>1. CASE c \in Tracked
  <2>1. /\ buckets[c] \in Bucket /\ Ledger(buckets[c]) /\ OnTime(c)
        /\ now \in Nat /\ promised[c] \in Nat \cup {Unpromised}
    BY <1>1 DEF TypeOK, BucketInv
  <2>2. /\ Refilled(c) \in Bucket
        /\ Refilled(c).seen = now
        /\ Refilled(c).born = buckets[c].born
        /\ Refilled(c).spent = buckets[c].spent
        /\ Refilled(c).tokens = Level(c)
        /\ Level(c) = Least(Full, buckets[c].tokens + (now - buckets[c].seen))
    BY <1>1, <2>1, RefilledFacts DEF Level, Most, Ledger, Bucket
  <2>3. Level(c) <= buckets[c].tokens + (now - buckets[c].seen)
    BY <2>1, <2>2, FullIsNat DEF Least, Bucket, Ledger
  <2>4. Ledger(Refilled(c))
    BY <2>1, <2>2, <2>3, FullIsNat DEF Ledger, Bucket
  <2>5. promised[c] # Unpromised =>
          \/ Level(c) >= TokenTicks
          \/ Level(c) + (promised[c] - now) >= TokenTicks
    BY <2>1, <2>2, FullIsNat, LimiterAssumption
       DEF OnTime, Least, Bucket, Ledger, Unpromised
  <2> QED BY <2>4, <2>5
<1>2. CASE c \notin Tracked
  BY <1>2, RefilledFacts, FullIsNat DEF Ledger, NewBucket, Level, TypeOK
<1> QED BY <1>1, <1>2

LEMMA BucketsStayBalanced == TypeOK /\ BucketInv /\ [Next]_vars => BucketInv'
<1> SUFFICES ASSUME TypeOK, BucketInv, [Next]_vars PROVE BucketInv'
  OBVIOUS
<1>a. \A c \in Tracked :
        /\ c \in Clients /\ buckets[c] \in Bucket
        /\ Ledger(buckets[c]) /\ OnTime(c)
  BY DEF TypeOK, BucketInv
<1>t. ASSUME NEW c \in Clients, NEW taken \in 0..Level(c), Touch(c, taken),
             now' = now,
             \A k \in Clients \ {c} : promised'[k] = promised[k],
             \/ promised'[c] = Unpromised
             \/ taken = 0 /\ promised'[c] = now + RetryAfter(c)
      PROVE  BucketInv'
  <2>1. /\ c \in Tracked'
        /\ buckets'[c] = Spend(Refilled(c), taken)
        /\ \A k \in Tracked' \ {c} : k \in Tracked /\ buckets'[k] = buckets[k]
    BY <1>t, TouchFacts
  <2>2. /\ Refilled(c) \in Bucket /\ Refilled(c).tokens = Level(c)
        /\ Refilled(c).seen = now /\ Ledger(Refilled(c))
    BY RefilledFacts, RefilledLedger DEF Level
  <2>3. /\ buckets'[c].tokens = Level(c) - taken
        /\ buckets'[c].spent = Refilled(c).spent + taken
        /\ buckets'[c].seen = now
        /\ buckets'[c].born = Refilled(c).born
    BY <2>1, <2>2, SpendFacts
  <2>4. Ledger(buckets[c])'
    BY <1>t, <2>2, <2>3, FullIsNat DEF Ledger, Bucket, TypeOK
  <2>5. OnTime(c)'
    BY <1>t, <2>2, <2>3, FullIsNat, LimiterAssumption
       DEF OnTime, RetryAfter, Bucket, TypeOK
  <2>6. ASSUME NEW k \in Tracked' \ {c}
        PROVE  (Ledger(buckets[k]) /\ OnTime(k))'
    BY <1>t, <1>a, <2>1, <2>6 DEF Ledger, OnTime
  <2> QED BY <2>4, <2>5, <2>6 DEF BucketInv
<1>1. ASSUME NEW r \in Requests, NEW c \in Clients, AllowRoute(r, c)
      PROVE  BucketInv'
  <2>1. TokenTicks \in 0..Level(c)
    BY <1>1, RefilledFacts, LimiterAssumption DEF AllowRoute
  <2> QED BY <1>1, <1>t, <2>1 DEF AllowRoute, TypeOK
<1>2. ASSUME NEW c \in Clients, AllowUncounted(c)
      PROVE  BucketInv'
  <2>1. TokenTicks \in 0..Level(c)
    BY <1>2, RefilledFacts, LimiterAssumption DEF AllowUncounted
  <2> QED BY <1>2, <1>t, <2>1 DEF AllowUncounted, TypeOK
<1>3. ASSUME NEW c \in Clients, NEW counts \in BOOLEAN, RefuseClient(c, counts)
      PROVE  BucketInv'
  <2>1. 0 \in 0..Level(c)
    BY RefilledFacts, FullIsNat
  <2> QED BY <1>3, <1>t, <2>1 DEF RefuseClient, TypeOK
<1>r. ASSUME NEW c, Refund(c), now' = now, promised' = promised
      PROVE  BucketInv'
  <2>1. CASE c \in Tracked
    <3>1. /\ Tracked' = Tracked
          /\ buckets'[c] = Refunded(buckets[c])
          /\ \A k \in Tracked \ {c} : buckets'[k] = buckets[k]
      BY <1>r, <2>1 DEF Refund, Tracked
    <3>2. buckets[c] \in Bucket /\ Ledger(buckets[c])
      BY <1>a, <2>1
    <3>3. /\ buckets'[c].tokens = Least(Full, buckets[c].tokens + TokenTicks)
          /\ buckets'[c].spent = buckets[c].spent - TokenTicks
          /\ buckets'[c].seen = buckets[c].seen
          /\ buckets'[c].born = buckets[c].born
      BY <3>1, <3>2, RefundedFacts
    <3>4. Ledger(buckets[c])'
      BY <1>r, <3>2, <3>3, FullIsNat, LimiterAssumption
         DEF Ledger, Bucket, Least, TypeOK
    <3>5. buckets'[c].tokens >= TokenTicks
      BY <3>2, <3>3, FullIsNat, LimiterAssumption DEF Least, Bucket
    <3>6. OnTime(c)'
      BY <3>5 DEF OnTime
    <3>7. ASSUME NEW k \in Tracked \ {c}
          PROVE  (Ledger(buckets[k]) /\ OnTime(k))'
      BY <1>r, <3>1, <1>a, <3>7 DEF Ledger, OnTime
    <3> QED BY <3>1, <3>4, <3>6, <3>7 DEF BucketInv
  <2>2. CASE c \notin Tracked
    BY <1>r, <2>2 DEF Refund, BucketInv, Ledger, OnTime, Tracked
  <2> QED BY <2>1, <2>2
<1>4. ASSUME NEW r \in Requests, CacheHit(r)
      PROVE  BucketInv'
  BY <1>4, <1>r DEF CacheHit
<1>5. CASE Tick
  <2>1. ASSUME NEW k \in Tracked
        PROVE  (Ledger(buckets[k]) /\ OnTime(k))'
    BY <1>5, <1>a, <2>1 DEF Tick, Ledger, OnTime, Bucket, TypeOK
  <2> QED BY <1>5, <2>1 DEF Tick, BucketInv, Tracked
<1>6. UNCHANGED <<now, buckets, promised>> => BucketInv'
  BY DEF BucketInv, Ledger, OnTime, Tracked
<1> QED
  BY <1>1, <1>2, <1>3, <1>4, <1>5, <1>6
     DEF Next, RefuseAtCeiling, CacheMiss, ServedToday, Midnight, vars

LEMMA BucketsBalanced == Spec => []BucketInv
<1>1. Init => BucketInv
  BY DEF Init, BucketInv, Tracked
<1> QED BY <1>1, BucketsStayBalanced, TypeCorrect, PTL DEF Spec

(* A client never nets more than one full bucket plus the time since its   *)
(* bucket was made: check() and refund() cannot mint tokens.               *)
THEOREM Conformance == Spec => []BucketConformance
<1>1. TypeOK /\ BucketInv => BucketConformance
  BY FullIsNat DEF TypeOK, BucketInv, BucketConformance, Ledger, Bucket
<1> QED BY <1>1, BucketsBalanced, TypeCorrect, PTL

(* The wait that check() puts in Retry-After is long enough. *)
THEOREM RetryAfterHonest == Spec => []RetryAfterIsHonest
<1>1. TypeOK /\ BucketInv => RetryAfterIsHonest
  <2> SUFFICES ASSUME TypeOK, BucketInv, NEW c \in Clients,
                      promised[c] # Unpromised, now >= promised[c]
               PROVE  Level(c) >= TokenTicks
    BY DEF RetryAfterIsHonest
  <2> QED
    BY RefilledLedger, RefilledFacts, FullIsNat, LimiterAssumption
       DEF TypeOK, Unpromised
<1> QED BY <1>1, BucketsBalanced, TypeCorrect, PTL

-----------------------------------------------------------------------------
(* A sweep of a table at its limit leaves room for one more bucket. *)
LEMMA EvictionMakesRoom ==
    ASSUME IsFiniteSet(Tracked), TableBounded, NEW D \in Evictions
    PROVE  Cardinality(Tracked \ D) <= MaxBuckets - 1
<1>0. Cardinality(Tracked) \in Nat
  BY FS_CardinalityType
<1>1. CASE Cardinality(Tracked) < MaxBuckets
  <2>1. Tracked \ D = Tracked
    BY <1>1 DEF Evictions
  <2> QED BY <1>0, <1>1, <2>1, LimiterAssumption
<1>2. CASE ~(Cardinality(Tracked) < MaxBuckets)
  <2>0. IsFiniteSet(Active) /\ Cardinality(Active) \in Nat
        /\ Cardinality(Active) <= Cardinality(Tracked)
    <3>1. Active \in SUBSET Tracked
      BY DEF Active
    <3> QED BY <3>1, FS_Subset, FS_CardinalityType
  <2>1. CASE Cardinality(Active) < MaxBuckets
    <3>1. Tracked \ D = Active
      BY <1>2, <2>1 DEF Evictions, Active
    <3> QED BY <2>0, <2>1, <3>1, LimiterAssumption
  <2>2. CASE ~(Cardinality(Active) < MaxBuckets)
    <3>1. PICK H \in OldestHalves : D = Stale \cup H
      BY <1>2, <2>2 DEF Evictions
    <3>2. H \in SUBSET Active /\ Cardinality(H) = Cardinality(Active) \div 2
      BY DEF OldestHalves
    <3>3. Tracked \ D = Active \ H /\ Active \cap H = H
      BY <3>1, <3>2 DEF Active
    <3>4. Cardinality(Active \ H) = Cardinality(Active) - Cardinality(H)
      BY <2>0, <3>3, FS_Difference
    <3>5. Cardinality(Active) = MaxBuckets
      BY <1>0, <2>0, <2>2, LimiterAssumption DEF TableBounded
    <3> QED BY <3>2, <3>3, <3>4, <3>5, LimiterAssumption
  <2> QED BY <2>1, <2>2
<1> QED BY <1>1, <1>2

(* _evict_locked runs before every insertion, so the table of buckets      *)
(* never exceeds _MAX_BUCKETS.                                             *)
THEOREM TableStaysBounded == Spec => []TableBounded
<1>1. Init => TableBounded
  BY FS_EmptySet, LimiterAssumption DEF Init, TableBounded, Tracked
<1>2. TypeOK /\ TableBounded /\ [Next]_vars => TableBounded'
  <2> SUFFICES ASSUME TypeOK, TableBounded, [Next]_vars PROVE TableBounded'
    OBVIOUS
  <2>0. IsFiniteSet(Tracked)
    <3>1. Tracked \in SUBSET Clients
      BY DEF TypeOK
    <3> QED BY <3>1, FS_Subset, LimiterAssumption
  <2>1. ASSUME NEW c, NEW taken, Touch(c, taken)
        PROVE  TableBounded'
    <3>1. CASE c \in Tracked
      <4>1. Tracked' = Tracked
        BY <2>1, <3>1 DEF Touch, Tracked
      <4> QED BY <4>1 DEF TableBounded
    <3>2. CASE c \notin Tracked
      <4>1. PICK D \in Evictions : Tracked' = (Tracked \ D) \cup {c}
        BY <2>1, <3>2 DEF Touch, Tracked
      <4>2. Cardinality(Tracked \ D) <= MaxBuckets - 1
        BY <2>0, EvictionMakesRoom
      <4>3. IsFiniteSet(Tracked \ D) /\ Cardinality(Tracked \ D) \in Nat
        BY <2>0, FS_Difference, FS_CardinalityType
      <4>4. Cardinality(Tracked') = Cardinality(Tracked \ D) + 1
        <5>1. Cardinality((Tracked \ D) \cup {c}) = Cardinality(Tracked \ D) + 1
          BY <3>2, <4>3, FS_AddElement
        <5> QED BY <4>1, <5>1
      <4>5. Cardinality(Tracked') \in Nat
        BY <4>1, <4>3, FS_AddElement, FS_CardinalityType
      <4> QED BY <4>2, <4>3, <4>4, <4>5, LimiterAssumption DEF TableBounded
    <3> QED BY <3>1, <3>2
  <2>2. ASSUME NEW r \in Requests, CacheHit(r)
        PROVE  Tracked' = Tracked
    BY <2>2 DEF CacheHit, Refund, Tracked
  <2>3. Tracked' = Tracked => TableBounded'
    BY DEF TableBounded
  <2>4. UNCHANGED buckets => Tracked' = Tracked
    BY DEF Tracked
  <2> QED
    BY <2>1, <2>2, <2>3, <2>4
       DEF Next, RefuseAtCeiling, AllowRoute, AllowUncounted, RefuseClient,
           CacheMiss, ServedToday, Tick, Midnight, vars
<1> QED BY <1>1, <1>2, TypeCorrect, PTL DEF Spec

=============================================================================
