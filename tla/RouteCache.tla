----------------------------- MODULE RouteCache -----------------------------
(***************************************************************************)
(* backend/cache.py: the rows of route_cache and its twin geocode_cache,   *)
(* as the worker threads of the server read, write and sweep them.         *)
(*                                                                         *)
(* Every SQL statement is a transaction of its own and so is atomic; what  *)
(* happens between two statements of one method is any number of other     *)
(* threads' statements.  A row is the time it was stamped with: created_at *)
(* is that time and expires_at is Ttl later, except that a file written by *)
(* an older build may hold rows whose expiry cannot be read.  Payloads are *)
(* not modelled: a corrupt one is a miss that changes nothing.             *)
(***************************************************************************)
EXTENDS Integers, FiniteSets

CONSTANTS Workers,      \* anyio worker threads
          Keys,         \* cache keys and query keys
          MaxRows,      \* ROUTE_CACHE_MAX_ROWS and GEOCODE_CACHE_MAX_ROWS
          SweepEvery,   \* SWEEP_EVERY_N_WRITES
          VacuumAfter,  \* VACUUM_AFTER_ROWS_REMOVED
          Ttl,          \* ttl_s, in ticks
          MaxNow        \* bound on the clock

ASSUME CacheAssumption ==
    /\ IsFiniteSet(Workers) /\ IsFiniteSet(Keys)
    /\ MaxRows \in Nat /\ Ttl \in Nat \ {0} /\ MaxNow \in Nat
    /\ SweepEvery \in Nat \ {0} /\ VacuumAfter \in Nat \ {0}

VARIABLES now,      \* the wall clock
          rows,     \* per table: a function on the keys stored
          writes,   \* _writes_since_sweep
          removed,  \* _removed_since_reclaim
          at,       \* what each worker does next
          job,      \* the locals of the method it is in
          \* History, read by the properties only:
          missed,   \* a sweep raised and none has begun since
          dead      \* rows that finished sweeps removed since the last reclaim

vars == <<now, rows, writes, removed, at, job, missed, dead>>

Tables == {"routes", "geocodes"}
Unreadable == -1
Expired(row) == row = Unreadable \/ row + Ttl <= now
NoJob == [table |-> "routes", key |-> "none", stamp |-> 0, over |-> 0, gone |-> 0]

Stored(t) == DOMAIN rows[t]
Without(t, K) == [rows EXCEPT ![t] = [k \in Stored(t) \ K |-> rows[t][k]]]

(* The file the process opens: lifespan purges the routes, nobody the      *)
(* geocodes.                                                               *)
Init ==
    /\ now = 0
    /\ rows \in [Tables -> UNION {[K -> {0, Unreadable}] :
                                    K \in {L \in SUBSET Keys : Cardinality(L) <= MaxRows}}]
    /\ \A k \in Stored("routes") : ~Expired(rows["routes"][k])
    /\ writes = 0 /\ removed = 0
    /\ at = [w \in Workers |-> "idle"]
    /\ job = [w \in Workers |-> NoJob]
    /\ missed = FALSE /\ dead = 0

-----------------------------------------------------------------------------
Goto(w, place) == at' = [at EXCEPT ![w] = place]
Finish(w) == Goto(w, "idle") /\ job' = [job EXCEPT ![w] = NoJob]

(* get_route and get_geocode.  A hit and a plain miss change nothing; a    *)
(* row found stale is deleted by its key in a second statement, whatever   *)
(* is under the key by then.                                               *)
FindStale(w, t, k) ==
    /\ at[w] = "idle"
    /\ k \in Stored(t) /\ Expired(rows[t][k])
    /\ Goto(w, "dropping")
    /\ job' = [job EXCEPT ![w] = [NoJob EXCEPT !.table = t, !.key = k]]
    /\ UNCHANGED <<now, rows, writes, removed, missed, dead>>

Drop(w) ==
    /\ at[w] = "dropping"
    /\ rows' = Without(job[w].table, {job[w].key})
    /\ Finish(w)
    /\ UNCHANGED <<now, writes, removed, missed, dead>>

(* put_route and put_geocode: stamped, then written when the database is   *)
(* free, then counted under _writes_lock.                                  *)
Put(w, t, k) ==
    /\ at[w] = "idle"
    /\ Goto(w, "writing")
    /\ job' = [job EXCEPT ![w] = [NoJob EXCEPT !.table = t, !.key = k, !.stamp = now]]
    /\ UNCHANGED <<now, rows, writes, removed, missed, dead>>

Write(w) ==
    /\ at[w] = "writing"
    /\ LET t == job[w].table IN
       rows' = [rows EXCEPT ![t] =
                  [k \in Stored(t) \cup {job[w].key} |->
                     IF k = job[w].key THEN job[w].stamp ELSE rows[t][k]]]
    /\ Goto(w, "counting")
    /\ UNCHANGED <<now, writes, removed, job, missed, dead>>

(* _maybe_sweep: every SweepEvery-th write of either table sweeps both. *)
Count(w) ==
    /\ at[w] = "counting"
    /\ IF writes + 1 < SweepEvery
       THEN writes' = writes + 1 /\ Finish(w) /\ UNCHANGED missed
       ELSE /\ writes' = 0
            /\ missed' = FALSE
            /\ Goto(w, "purging")
            /\ job' = [job EXCEPT ![w] = NoJob]
    /\ UNCHANGED <<now, rows, removed, dead>>

-----------------------------------------------------------------------------
(* sweep(): purge and evict the routes, purge and evict the geocodes. *)

\* A slip: the row is taken for expired a tick early.
PurgeEarly(w) ==
    /\ at[w] = "purging"
    /\ LET t == job[w].table
           K == {k \in Stored(t) : rows[t][k] + Ttl <= now + 1} IN
       /\ rows' = Without(t, K)
       /\ job' = [job EXCEPT ![w].gone = @ + Cardinality(K)]
    /\ Goto(w, "sizing")
    /\ UNCHANGED <<now, writes, removed, missed, dead>>

Purge(w) ==
    /\ at[w] = "purging"
    /\ LET t == job[w].table
           K == {k \in Stored(t) : Expired(rows[t][k])} IN
       /\ rows' = Without(t, K)
       /\ job' = [job EXCEPT ![w].gone = @ + Cardinality(K)]
    /\ Goto(w, "sizing")
    /\ UNCHANGED <<now, writes, removed, missed, dead>>

(* After the routes come the geocodes, and then the sums. *)
NextTable(w, gone) ==
    IF job[w].table = "routes"
    THEN /\ Goto(w, "purging")
         /\ job' = [job EXCEPT ![w] = [NoJob EXCEPT !.table = "geocodes", !.gone = gone]]
    ELSE /\ Goto(w, "reckoning")
         /\ job' = [job EXCEPT ![w] = [NoJob EXCEPT !.gone = gone]]

\* A slip: off by one, the last row over the ceiling is let stay.
SizeLenient(w) ==
    /\ at[w] = "sizing"
    /\ LET over == Cardinality(Stored(job[w].table)) - MaxRows - 1 IN
       IF over <= 0
       THEN NextTable(w, job[w].gone)
       ELSE Goto(w, "evicting") /\ job' = [job EXCEPT ![w].over = over]
    /\ UNCHANGED <<now, rows, writes, removed, missed, dead>>

(* The eviction's SELECT: how many rows are over the ceiling now. *)
Size(w) ==
    /\ at[w] = "sizing"
    /\ LET over == Cardinality(Stored(job[w].table)) - MaxRows IN
       IF over <= 0
       THEN NextTable(w, job[w].gone)
       ELSE Goto(w, "evicting") /\ job' = [job EXCEPT ![w].over = over]
    /\ UNCHANGED <<now, rows, writes, removed, missed, dead>>

(* Its DELETE: that many of the oldest rows there are by then.  The        *)
(* malformed rows are those of the oldest builds.                          *)
Oldest(t, n) ==
    {K \in SUBSET Stored(t) :
        /\ Cardinality(K) = IF n <= Cardinality(Stored(t)) THEN n ELSE Cardinality(Stored(t))
        /\ \A k \in K, l \in Stored(t) \ K : rows[t][k] <= rows[t][l]}

Evict(w) ==
    /\ at[w] = "evicting"
    /\ \E K \in Oldest(job[w].table, job[w].over) :
          /\ rows' = Without(job[w].table, K)
          /\ NextTable(w, job[w].gone + Cardinality(K))
    /\ UNCHANGED <<now, writes, removed, missed, dead>>

\* A slip, and sweep() as it was: one sweep's yield against the threshold.
ReckonAlone(w) ==
    /\ at[w] = "reckoning"
    /\ LET due == job[w].gone >= VacuumAfter IN
       /\ removed' = IF due THEN 0 ELSE removed
       /\ dead' = dead + job[w].gone
       /\ IF due THEN Goto(w, "reclaiming") /\ UNCHANGED job ELSE Finish(w)
    /\ UNCHANGED <<now, rows, writes, missed>>

(* The rows removed, summed over sweeps under _writes_lock. *)
Reckon(w) ==
    /\ at[w] = "reckoning"
    /\ LET sum == removed + job[w].gone
           due == job[w].gone > 0 /\ sum >= VacuumAfter IN
       /\ removed' = IF due THEN 0 ELSE sum
       /\ dead' = dead + job[w].gone
       /\ IF due THEN Goto(w, "reclaiming") /\ UNCHANGED job ELSE Finish(w)
    /\ UNCHANGED <<now, rows, writes, missed>>

(* _reclaim: checkpoint, VACUUM, checkpoint; a busy database is left be. *)
Reclaim(w) ==
    /\ at[w] = "reclaiming"
    /\ dead' = 0
    /\ Finish(w)
    /\ UNCHANGED <<now, rows, writes, removed, missed>>

(* sqlite3.OperationalError (locked, full) or CacheClosed out of any       *)
(* statement: the method ends there, what it did before stays done.        *)
Sweeping == {"purging", "sizing", "evicting"}
Raise(w) ==
    /\ at[w] \in {"dropping", "writing"} \cup Sweeping
    /\ missed' = (missed \/ at[w] \in Sweeping)
    /\ Finish(w)
    /\ UNCHANGED <<now, rows, writes, removed, dead>>

Tick ==
    /\ now < MaxNow
    /\ now' = now + 1
    /\ UNCHANGED <<rows, writes, removed, at, job, missed, dead>>

Next ==
    \/ \E w \in Workers :
          \/ \E t \in Tables, k \in Keys : FindStale(w, t, k) \/ Put(w, t, k)
          \/ Drop(w) \/ Write(w) \/ Count(w)
          \/ Purge(w) \/ Size(w) \/ Evict(w) \/ Reckon(w) \/ Reclaim(w)
          \/ Raise(w)
    \/ Tick

Spec == Init /\ [][Next]_vars

-----------------------------------------------------------------------------
Places == {"idle", "dropping", "writing", "counting", "reckoning", "reclaiming"}
              \cup Sweeping

TypeOK ==
    /\ now \in 0..MaxNow
    /\ DOMAIN rows = Tables
    /\ \A t \in Tables : /\ Stored(t) \subseteq Keys
                         /\ \A k \in Stored(t) : rows[t][k] \in Nat \cup {Unreadable}
    /\ writes \in 0..SweepEvery - 1
    /\ removed \in 0..VacuumAfter - 1
    /\ at \in [Workers -> Places]
    /\ job \in [Workers -> [table : Tables, key : Keys \cup {"none"}, stamp : Nat,
                            over : Nat, gone : Nat]]
    /\ missed \in BOOLEAN /\ dead \in Nat

(* Between sweeps neither table holds more than the ceiling plus the       *)
(* writes since the last sweep began, however the sweeps of several        *)
(* threads overlapped; only a sweep that raised suspends it.  With         *)
(* SweepEvery writes at most this is what test_cache.py asserts of one     *)
(* thread.                                                                 *)
CeilingBetweenSweeps ==
    /\ TypeOK
    /\ (\A w \in Workers : at[w] \notin Sweeping) /\ ~missed =>
          \A t \in Tables :
              Cardinality(Stored(t)) <=
                  MaxRows + writes + Cardinality({w \in Workers : at[w] = "counting"})

(* An answer that has not expired is lost in two ways only: to a reader    *)
(* that had found an older answer under its key stale, or to an eviction   *)
(* that keeps nothing older.                                               *)
FreshRowsStay ==
    [][\A t \in Tables : \A k \in Stored(t) \ DOMAIN rows'[t] :
          \/ Expired(rows[t][k])
          \/ \E w \in Workers :
                at[w] = "dropping" /\ job[w].table = t /\ job[w].key = k
          \/ \E w \in Workers : at[w] = "evicting" /\ job[w].table = t
             /\ \A l \in DOMAIN rows'[t] : rows[t][k] <= rows[t][l]]_vars

(* The space comes back: as soon as the sweeps that finished have removed  *)
(* VacuumAfter rows between them, one of them reclaims.                    *)
SpaceComesBack ==
    (\A w \in Workers : at[w] # "reclaiming") => dead < VacuumAfter

(* _evict_over_ceiling: oldest-first eviction down to the ceiling, and not *)
(* below it.                                                               *)
EvictsDownToCeiling ==
    [][\A w \in Workers, t \in Tables :
          at[w] = "evicting" /\ rows'[t] # rows[t] =>
              Cardinality(DOMAIN rows'[t]) >= MaxRows]_vars

=============================================================================
