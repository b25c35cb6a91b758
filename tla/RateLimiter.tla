---------------------------- MODULE RateLimiter ----------------------------
(***************************************************************************)
(* backend/ratelimit.py: one token bucket per client and one daily ceiling *)
(* shared by all, as POST /api/routes uses them.  A route request takes a  *)
(* token and a daily slot in check() before the cache is read; while it    *)
(* awaits the cache lookup other requests run, midnight may pass and the   *)
(* buckets may be evicted; a cache hit then calls refund().                *)
(*                                                                         *)
(* Units.  A tick refills one quantum and TokenTicks quanta are one token, *)
(* so the rate is one token per TokenTicks ticks and everything stays an   *)
(* integer.  last_refill and last_seen are always written together in the  *)
(* code and are one field, seen, here.  Every handler runs on the event    *)
(* loop, so check() and refund() are atomic and time never runs backwards. *)
(***************************************************************************)
EXTENDS Integers, FiniteSets

CONSTANTS Clients,       \* digests of the addresses that may call
          Requests,      \* slots for route requests awaiting the cache
          Capacity,      \* tokens a full bucket holds
          TokenTicks,    \* ticks that refill one token
          DailyCeiling,  \* route requests allowed per UTC day
          MaxBuckets,    \* _MAX_BUCKETS
          IdleTicks,     \* _IDLE_EVICTION_S
          MaxNow,        \* bound on the monotonic clock
          MaxDay         \* bound on the calendar

ASSUME LimiterAssumption ==
    /\ IsFiniteSet(Clients)
    /\ Capacity \in Nat \ {0}
    /\ TokenTicks \in Nat \ {0}
    /\ DailyCeiling \in Nat
    /\ MaxBuckets \in Nat \ {0, 1}
    /\ IdleTicks \in Nat
    /\ MaxNow \in Nat
    /\ MaxDay \in Nat

VARIABLES now,       \* time.monotonic(), in ticks
          today,     \* the UTC date
          buckets,   \* _buckets: a function on the clients that have one;
                     \*   born and spent are history: when the bucket was
                     \*   made, the quanta taken from it and not refunded
          day,       \* _day
          served,    \* _served_today
          pending,   \* per request: the check it passed and has not settled
          \* History, read by the properties only:
          routed,    \* requests charged to `day` and not found to be cache hits
          late,      \* refunds taken from `day` for a charge to an earlier one
          promised   \* per client: when its last refusal said to come back

counters == <<day, served, routed, late>>
vars == <<now, today, buckets, day, served, pending, routed, late, promised>>

Full == Capacity * TokenTicks
Bucket == [tokens : 0..Full, seen : Nat, born : Nat, spent : Int]
NewBucket == [tokens |-> Full, seen |-> now, born |-> now, spent |-> 0]
Unpromised == -1
Settled == [client |-> "none", day |-> -1]
Tracked == DOMAIN buckets

Least(a, b) == IF a <= b THEN a ELSE b
Most(a, b) == IF a <= b THEN b ELSE a

Init ==
    /\ now = 0 /\ today = 0
    /\ buckets = [c \in {} |-> NewBucket]
    /\ day = 0 /\ served = 0
    /\ pending = [r \in Requests |-> Settled]
    /\ routed = 0 /\ late = 0
    /\ promised = [c \in Clients |-> Unpromised]

-----------------------------------------------------------------------------
\* Slips: last_refill is not moved on, so the same minute refills twice; a
\* refusal moves last_refill on and forgets what it refilled.
RefillTwice(c) ==
    IF c \in Tracked
    THEN [buckets[c] EXCEPT
            !.tokens = Least(Full, @ + Most(0, now - buckets[c].seen))]
    ELSE NewBucket
SpendForgetsRefill(b, taken) ==
    [b EXCEPT !.tokens = IF taken = 0 THEN 0 ELSE @ - taken, !.spent = @ + taken]

(* The bucket check() finds, refilled since it was last seen, or makes. *)
Refilled(c) ==
    IF c \in Tracked
    THEN [buckets[c] EXCEPT
            !.tokens = Least(Full, @ + Most(0, now - buckets[c].seen)),
            !.seen = now]
    ELSE NewBucket
Level(c) == Refilled(c).tokens
Spend(b, taken) == [b EXCEPT !.tokens = @ - taken, !.spent = @ + taken]

(* _evict_locked: nothing below the limit; otherwise the idle buckets, and *)
(* the least recently seen half too when the table is still full.  Ties    *)
(* are broken by insertion order in the code and by any order here.        *)
Stale == {c \in Tracked : now - buckets[c].seen > IdleTicks}
Active == Tracked \ Stale

OldestHalves ==
    {D \in SUBSET Active :
        /\ Cardinality(D) = Cardinality(Active) \div 2
        /\ \A d \in D, k \in Active \ D : buckets[d].seen <= buckets[k].seen}

\* A slip: the second half of the sweep missing.
EvictOnlyStale ==
    IF Cardinality(Tracked) < MaxBuckets THEN {{}} ELSE {Stale}

Evictions ==
    IF Cardinality(Tracked) < MaxBuckets THEN {{}}
    ELSE IF Cardinality(Active) < MaxBuckets THEN {Stale}
    ELSE {Stale \cup D : D \in OldestHalves}

(* The bucket half of check(): find or make c's bucket, evicting first if  *)
(* it must be made, refill it and take `taken` quanta from it.             *)
Touch(c, taken) ==
    \E D \in IF c \in Tracked THEN {{}} ELSE Evictions :
        buckets' = [k \in (Tracked \ D) \cup {c} |->
                      IF k = c THEN Spend(Refilled(c), taken) ELSE buckets[k]]

(* _roll_day_locked, then `charge` more requests counted on the day. *)
RolledServed == IF today = day THEN served ELSE 0
RollDay(charge) ==
    /\ day' = today
    /\ served' = RolledServed + charge
    /\ routed' = charge + (IF today = day THEN routed ELSE 0)
    /\ late' = IF today = day THEN late ELSE 0

-----------------------------------------------------------------------------
(* check() on the route path: the ceiling first, then the client's bucket. *)
RefuseAtCeiling ==
    /\ RolledServed >= DailyCeiling
    /\ RollDay(0)
    /\ UNCHANGED <<now, today, buckets, pending, promised>>

AllowRoute(r, c) ==
    /\ pending[r] = Settled
    /\ RolledServed < DailyCeiling
    /\ Level(c) >= TokenTicks
    /\ RollDay(1)
    /\ Touch(c, TokenTicks)
    /\ pending' = [pending EXCEPT ![r] = [client |-> c, day |-> today]]
    /\ promised' = [promised EXCEPT ![c] = Unpromised]
    /\ UNCHANGED <<now, today>>

(* check(counts_against_ceiling=False): photos and barrier reports. *)
AllowUncounted(c) ==
    /\ Level(c) >= TokenTicks
    /\ RollDay(0)
    /\ Touch(c, TokenTicks)
    /\ promised' = [promised EXCEPT ![c] = Unpromised]
    /\ UNCHANGED <<now, today, pending>>

(* An empty bucket refuses either kind of call, refills nothing extra and  *)
(* says when to come back.                                                 *)
RetryAfter(c) == TokenTicks - Level(c) + 1
RefuseClient(c, counts) ==
    /\ counts => RolledServed < DailyCeiling
    /\ Level(c) < TokenTicks
    /\ RollDay(0)
    /\ Touch(c, 0)
    /\ promised' = [promised EXCEPT ![c] = now + RetryAfter(c)]
    /\ UNCHANGED <<now, today, pending>>

\* A slip: the token is not capped, so a bucket can hold more than a burst.
RefundedUncapped(b) ==
    [b EXCEPT !.tokens = @ + TokenTicks, !.spent = @ - TokenTicks]

Refunded(b) ==
    [b EXCEPT !.tokens = Least(Full, @ + TokenTicks), !.spent = @ - TokenTicks]

\* A slip, and refund() as it was: the slot comes back without the bucket.
RefundOutsideGuard(c) ==
    /\ buckets' = [k \in Tracked |->
                     IF k = c THEN Refunded(buckets[k]) ELSE buckets[k]]
    /\ served' = Most(0, served - 1)

(* refund(): a token and a daily slot back, unless the bucket is gone.  It *)
(* does not roll the day and does not know which day the charge was on.    *)
Refund(c) ==
    IF c \in Tracked
    THEN /\ buckets' = [buckets EXCEPT ![c] = Refunded(@)]
         /\ served' = Most(0, served - 1)
    ELSE UNCHANGED <<buckets, served>>

(* The awaited lookup returns: a hit refunds, a miss keeps the charge. *)
CacheHit(r) ==
    LET p == pending[r] IN
    /\ p # Settled
    /\ pending' = [pending EXCEPT ![r] = Settled]
    /\ Refund(p.client)
    /\ routed' = IF p.day = day THEN routed - 1 ELSE routed
    /\ late' = IF p.day # day /\ p.client \in Tracked THEN late + 1 ELSE late
    /\ UNCHANGED <<now, today, day, promised>>

CacheMiss(r) ==
    /\ pending[r] # Settled
    /\ pending' = [pending EXCEPT ![r] = Settled]
    /\ UNCHANGED <<now, today, buckets, counters, promised>>

(* GET /api/health reads served_today(), which rolls the day as well. *)
ServedToday ==
    /\ RollDay(0)
    /\ UNCHANGED <<now, today, buckets, pending, promised>>

Tick ==
    /\ now < MaxNow
    /\ now' = now + 1
    /\ UNCHANGED <<today, buckets, pending, counters, promised>>

Midnight ==
    /\ today < MaxDay
    /\ today' = today + 1
    /\ UNCHANGED <<now, buckets, pending, counters, promised>>

Next ==
    \/ RefuseAtCeiling
    \/ \E r \in Requests, c \in Clients : AllowRoute(r, c)
    \/ \E c \in Clients : AllowUncounted(c)
    \/ \E c \in Clients, counts \in BOOLEAN : RefuseClient(c, counts)
    \/ \E r \in Requests : CacheHit(r)
    \/ \E r \in Requests : CacheMiss(r)
    \/ ServedToday
    \/ Tick
    \/ Midnight

Spec == Init /\ [][Next]_vars

-----------------------------------------------------------------------------
TypeOK ==
    /\ now \in Nat /\ today \in Nat
    /\ Tracked \subseteq Clients
    /\ \A c \in Tracked : buckets[c] \in Bucket
    /\ day \in Nat /\ served \in Nat
    /\ pending \in [Requests -> [client : Clients, day : Nat] \cup {Settled}]
    /\ routed \in Int /\ late \in Nat
    /\ promised \in [Clients -> Nat \cup {Unpromised}]

(* The ceiling is a promise to the routing provider: the requests charged  *)
(* to a day that were not cache hits never exceed it by more than the      *)
(* refunds that reached the day from an earlier one, whatever the order of *)
(* checks, lookups, evictions and midnights.                               *)
CeilingHeldUpToLateRefunds == routed <= DailyCeiling + late

(* What refund()'s docstring claims: the counter no longer drifts below    *)
(* the truth over a day roll, so the ceiling itself is never exceeded.     *)
CeilingHeld == routed <= DailyCeiling

(* A client's traffic conforms to its bucket: since the bucket was made,   *)
(* the quanta it spent and was not refunded are at most one full bucket    *)
(* plus the time that has passed.  Refunds and refills cannot mint more.   *)
BucketConformance ==
    \A c \in Tracked : buckets[c].spent <= Full + (now - buckets[c].born)

(* The Retry-After a refusal sends is honest: a client refused for its own *)
(* bucket that waits that long and has not been let through since would be *)
(* let through, also after more refusals, refunds and evictions.           *)
RetryAfterIsHonest ==
    \A c \in Clients :
        promised[c] # Unpromised /\ now >= promised[c] => Level(c) >= TokenTicks

(* The table never outgrows _MAX_BUCKETS, however many addresses call. *)
TableBounded == Cardinality(Tracked) <= MaxBuckets

=============================================================================
