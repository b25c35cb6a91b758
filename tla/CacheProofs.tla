----------------------------- MODULE CacheProofs -----------------------------
(***************************************************************************)
(* Theorems about Cache, for any number of threads, keys and rows, and any *)
(* thresholds.                                                             *)
(*                                                                         *)
(* The ceiling.  While no sweep has raised, whatever a table holds above   *)
(* its ceiling and the writes since the last sweep began is owed by a      *)
(* sweep under way: one that has not counted the table yet, or one that    *)
(* has, and is about to delete at least the excess.                        *)
(*                                                                         *)
(* The connections.  What close() finds open it can reach, and each call   *)
(* past the check when it began leaves at most one behind.                 *)
(***************************************************************************)
EXTENDS Cache, FiniteSetTheorems, TLAPS

(* The cache's rows and its connections go their own ways.                 *)
LEMMA EitherPartSteps ==
    [CacheNext]_<<vars, connectionVars>> => /\ [Next]_vars
                                            /\ [Connections!Next]_connectionVars
BY DEF CacheNext, RowsStep, ConnectionsStep

-----------------------------------------------------------------------------
(* A thread that writes or drops a row has a key for it.                   *)
KeysAtHand == \A w \in Workers : at[w] = "writing" => job[w].key \in Keys

(* Between the sweep that takes the count over and the one that reclaims,  *)
(* no row is lost from the count.                                          *)
CountKept == (\A w \in Workers : at[w] # "reclaiming") => dead <= removed

Counting == {w \in Workers : at[w] = "counting"}
Allowed == MaxRows + writes + Cardinality(Counting)

(* A sweep that has yet to count the table.                                *)
YetToCount(w, t) ==
    \/ at[w] \in {"purging", "sizing"} /\ (job[w].table = t \/ t = "geocodes")
    \/ at[w] = "evicting" /\ job[w].table = "routes" /\ t = "geocodes"

(* A sweep that has, and is about to delete the excess there was.          *)
AboutToEvict(w, t) ==
    /\ at[w] = "evicting" /\ job[w].table = t
    /\ Cardinality(Stored(t)) <= Allowed + job[w].over

Owed(t) ==
    \/ Cardinality(Stored(t)) <= Allowed
    \/ \E w \in Workers : YetToCount(w, t) \/ AboutToEvict(w, t)

RowsInv == TypeOK /\ KeysAtHand /\ CountKept /\ (~missed => \A t \in Tables : Owed(t))

-----------------------------------------------------------------------------
(* What close() did not take, and who may still open one.                  *)
Extra == open \ doomed
Opening == {t \in Threads : step[t] \in {"checked", "opening"}}
Registering == {t \in Threads : step[t] = "registering"}

Reachable ==
    closer \in {"before", "marked"} => open \subseteq all \cup {mine[t] : t \in Registering}

(* Nobody passes the check once the flag is up.                            *)
NoLatecomers == closer # "before" => closed /\ Opening \cup Registering \subseteq racers

(* Each racer has opened its connection, or may yet.                       *)
OneEach ==
    closer \in {"closing", "done"} =>
        Cardinality(Extra) + Cardinality(Opening) <= Cardinality(racers)

ConnectionsInv ==
    /\ Connections!TypeOK
    /\ Reachable /\ NoLatecomers /\ OneEach
    /\ closer = "done" => doomed = {}

-----------------------------------------------------------------------------
(* The rows.  Sets of keys and of threads are finite.                      *)
Jobs == [table : Tables, key : Keys \cup {"none"}, stamp : Nat, over : Nat, gone : Nat]

LEMMA CountingFinite == IsFiniteSet(Counting) /\ Cardinality(Counting) \in Nat
<1>1. Counting \subseteq Workers BY DEF Counting
<1> QED BY <1>1, CacheAssumption, FS_Subset, FS_CardinalityType

LEMMA StoredFinite ==
    ASSUME TypeOK, NEW t \in Tables
    PROVE  \A K \in SUBSET Stored(t) : IsFiniteSet(K) /\ Cardinality(K) \in Nat
<1>1. Stored(t) \subseteq Keys BY DEF TypeOK
<1>2. \A K \in SUBSET Keys : IsFiniteSet(K) BY CacheAssumption, FS_Subset
<1> QED BY <1>1, <1>2, FS_CardinalityType

(* Taking rows out of a table.                                             *)
RowsOK ==
    /\ DOMAIN rows = Tables
    /\ \A t \in Tables : /\ Stored(t) \subseteq Keys
                         /\ \A k \in Stored(t) : rows[t][k] \in Nat \cup {Unreadable}

LEMMA RowsTakenOut ==
    ASSUME TypeOK, NEW t \in Tables, NEW K, rows' = Without(t, K)
    PROVE  /\ RowsOK'
           /\ \A u \in Tables : Stored(u)' \subseteq Stored(u)
           /\ \A u \in Tables : Cardinality(Stored(u)') <= Cardinality(Stored(u))
           /\ Stored(t)' = Stored(t) \ K
           /\ \A u \in Tables : u # t => Stored(u)' = Stored(u)
           /\ K \subseteq Stored(t) =>
                 Cardinality(Stored(t)') = Cardinality(Stored(t)) - Cardinality(K)
<1>1. DOMAIN rows' = Tables /\ rows'[t] = [k \in Stored(t) \ K |-> rows[t][k]]
  BY DEF TypeOK, Without
<1>2. \A u \in Tables : u # t => rows'[u] = rows[u] BY DEF TypeOK, Without
<1>3. Stored(t)' = Stored(t) \ K BY <1>1 DEF Stored
<1>4. \A u \in Tables : u # t => Stored(u)' = Stored(u) BY <1>2 DEF Stored
<1>5. \A u \in Tables : Stored(u)' \subseteq Stored(u) BY <1>3, <1>4
<1>6. \A u \in Tables : Cardinality(Stored(u)') <= Cardinality(Stored(u))
  <2> TAKE u \in Tables
  <2>1. IsFiniteSet(Stored(u)) BY StoredFinite
  <2> QED BY <1>5, <2>1, FS_Subset
<1>7. K \subseteq Stored(t) =>
         Cardinality(Stored(t)') = Cardinality(Stored(t)) - Cardinality(K)
  <2> HAVE K \subseteq Stored(t)
  <2>1. IsFiniteSet(Stored(t)) BY StoredFinite
  <2>2. Stored(t) \cap K = K OBVIOUS
  <2> QED BY <1>3, <2>1, <2>2, FS_Difference
<1>8. RowsOK'
  <2>1. ASSUME NEW u \in Tables
        PROVE  /\ Stored(u)' \subseteq Keys
               /\ \A k \in Stored(u)' : rows'[u][k] \in Nat \cup {Unreadable}
    <3>1. Stored(u) \subseteq Keys /\ \A k \in Stored(u) : rows[u][k] \in Nat \cup {Unreadable}
      BY DEF TypeOK
    <3>2. \A k \in Stored(u)' : rows'[u][k] = rows[u][k] BY <1>1, <1>2, <1>3
    <3> QED BY <1>5, <3>1, <3>2
  <2> QED BY <1>1, <2>1 DEF RowsOK
<1> QED BY <1>3, <1>4, <1>5, <1>6, <1>7, <1>8

(* The threads that are counting are the same if the one that moved was    *)
(* not and is not.                                                         *)
LEMMA SameCounting ==
    ASSUME TypeOK, NEW w \in Workers, NEW place, Goto(w, place),
           at[w] # "counting", place # "counting"
    PROVE  Counting' = Counting
BY DEF TypeOK, Counting, Goto

(* A debt stays owed while its table grows no faster than what is allowed  *)
(* and the thread that moves does not walk away from it.                   *)
LEMMA StaysOwed ==
    ASSUME TypeOK, NEW t \in Tables, NEW w \in Workers,
           \A x \in Workers : x # w => at'[x] = at[x] /\ job'[x] = job[x],
           writes \in Nat, writes' \in Nat, Cardinality(Counting') \in Nat,
           Cardinality(Stored(t)') \in Nat,
           Cardinality(Stored(t)') + Allowed <= Cardinality(Stored(t)) + Allowed',
           Owed(t), YetToCount(w, t) \/ AboutToEvict(w, t) => Owed(t)'
    PROVE  Owed(t)'
<1>1. Cardinality(Stored(t)) \in Nat BY StoredFinite
<1>2. Allowed \in Nat /\ Allowed' \in Nat BY CountingFinite, CacheAssumption DEF Allowed
<1>3. CASE Cardinality(Stored(t)) <= Allowed BY <1>1, <1>2, <1>3 DEF Owed
<1>4. ASSUME NEW x \in Workers, x # w, YetToCount(x, t) PROVE Owed(t)'
  BY <1>4 DEF Owed, YetToCount
<1>5. ASSUME NEW x \in Workers, x # w, AboutToEvict(x, t) PROVE Owed(t)'
  <2>1. job[x].over \in Nat BY DEF TypeOK
  <2>2. AboutToEvict(x, t)' BY <1>1, <1>2, <1>5, <2>1 DEF AboutToEvict
  <2> QED BY <2>2 DEF Owed
<1> QED BY <1>3, <1>4, <1>5 DEF Owed

-----------------------------------------------------------------------------
(* What each action of a thread leaves of the types, the keys at hand and  *)
(* the count of removed rows.                                              *)
Moves(w) ==
    \/ \E t \in Tables, k \in Keys : FindStale(w, t, k) \/ Put(w, t, k)
    \/ Drop(w) \/ Write(w) \/ Count(w)
    \/ Purge(w) \/ Size(w) \/ Evict(w) \/ Reckon(w) \/ Reclaim(w)
    \/ Raise(w)

LEMMA NoJobIsAJob == NoJob \in Jobs
BY DEF NoJob, Jobs, Tables

(* A thread's next place and its locals.                                   *)
LEMMA PlaceAndJob ==
    ASSUME TypeOK, KeysAtHand, NEW w \in Workers, Moves(w)
    PROVE  /\ \E place \in Places : Goto(w, place)
           /\ \E work \in Jobs : job' \in {job, [job EXCEPT ![w] = work]}
           /\ at'[w] = "writing" => job'[w].key \in Keys
<1> DEFINE Fits == /\ \E place \in Places : Goto(w, place)
                   /\ \E work \in Jobs : job' \in {job, [job EXCEPT ![w] = work]}
                   /\ at'[w] = "writing" => job'[w].key \in Keys
<1>0. /\ job \in [Workers -> Jobs] /\ at \in [Workers -> Places] /\ job[w] \in Jobs
      /\ now \in Nat
  BY CacheAssumption DEF TypeOK, Jobs
<1> USE DEF Places, Sweeping
<1>1. ASSUME NEW t \in Tables, NEW k \in Keys, FindStale(w, t, k) PROVE Fits
  <2>1. [NoJob EXCEPT !.table = t, !.key = k] \in Jobs BY DEF NoJob, Jobs
  <2> QED BY <1>0, <1>1, <2>1 DEF FindStale, Goto
<1>2. ASSUME NEW t \in Tables, NEW k \in Keys, Put(w, t, k) PROVE Fits
  <2> DEFINE work == [NoJob EXCEPT !.table = t, !.key = k, !.stamp = now]
  <2>1. work \in Jobs /\ work.key = k BY <1>0 DEF NoJob, Jobs
  <2>2. Goto(w, "writing") /\ job' = [job EXCEPT ![w] = work] BY <1>2 DEF Put
  <2> HIDE DEF work
  <2> QED BY <1>0, <2>1, <2>2 DEF Goto
<1>3. CASE Drop(w) BY <1>0, <1>3, NoJobIsAJob DEF Drop, Finish, Goto
<1>4. CASE Write(w) BY <1>0, <1>4, NoJobIsAJob DEF Write, Goto
<1>5. CASE Count(w) BY <1>0, <1>5, NoJobIsAJob DEF Count, Finish, Goto
<1>6. CASE Purge(w)
  <2> DEFINE K == {k \in Stored(job[w].table) : Expired(rows[job[w].table][k])}
  <2>1. job[w].table \in Tables BY <1>0 DEF Jobs
  <2>2. Cardinality(K) \in Nat BY <2>1, StoredFinite
  <2>3. job' = [job EXCEPT ![w].gone = @ + Cardinality(K)] /\ Goto(w, "sizing")
    BY <1>6 DEF Purge
  <2> HIDE DEF K
  <2>4. [job[w] EXCEPT !.gone = job[w].gone + Cardinality(K)] \in Jobs
    BY <1>0, <2>2 DEF Jobs
  <2>5. job' = [job EXCEPT ![w] = [job[w] EXCEPT !.gone = job[w].gone + Cardinality(K)]]
    BY <1>0, <2>3
  <2> QED BY <1>0, <2>3, <2>4, <2>5 DEF Goto
<1>7. ASSUME NEW gone \in Nat, NextTable(w, gone) PROVE Fits
  <2>1. /\ [NoJob EXCEPT !.table = "geocodes", !.gone = gone] \in Jobs
        /\ [NoJob EXCEPT !.gone = gone] \in Jobs
    BY DEF NoJob, Jobs, Tables
  <2> QED BY <1>0, <1>7, <2>1 DEF NextTable, Goto
<1>8. CASE Size(w)
  <2> DEFINE over == Cardinality(Stored(job[w].table)) - MaxRows
  <2>1. job[w].table \in Tables /\ job[w].gone \in Nat BY <1>0 DEF Jobs
  <2>2. Cardinality(Stored(job[w].table)) \in Nat BY <2>1, StoredFinite
  <2>3. IF over <= 0 THEN NextTable(w, job[w].gone)
        ELSE Goto(w, "evicting") /\ job' = [job EXCEPT ![w].over = over]
    BY <1>8 DEF Size
  <2>4. over \in Int BY <2>2, CacheAssumption
  <2> HIDE DEF over
  <2>5. CASE over <= 0 BY <1>7, <2>1, <2>3, <2>5
  <2>6. CASE ~(over <= 0)
    <3>1. [job[w] EXCEPT !.over = over] \in Jobs BY <1>0, <2>4, <2>6 DEF Jobs
    <3>2. job' = [job EXCEPT ![w] = [job[w] EXCEPT !.over = over]] BY <1>0, <2>3, <2>6
    <3> QED BY <1>0, <2>3, <2>6, <3>1, <3>2 DEF Goto
  <2> QED BY <2>5, <2>6
<1>9. CASE Evict(w)
  <2>1. job[w].table \in Tables /\ job[w].gone \in Nat BY <1>0 DEF Jobs
  <2>2. PICK K \in Oldest(job[w].table, job[w].over) : NextTable(w, job[w].gone + Cardinality(K))
    BY <1>9 DEF Evict
  <2>3. Cardinality(K) \in Nat BY <2>1, StoredFinite DEF Oldest
  <2> QED BY <1>7, <2>1, <2>2, <2>3
<1>10. CASE Reckon(w) BY <1>0, <1>10, NoJobIsAJob DEF Reckon, Finish, Goto
<1>11. CASE Reclaim(w) BY <1>0, <1>11, NoJobIsAJob DEF Reclaim, Finish, Goto
<1>12. CASE Raise(w) BY <1>0, <1>12, NoJobIsAJob DEF Raise, Finish, Goto
<1> QED
  BY <1>1, <1>2, <1>3, <1>4, <1>5, <1>6, <1>8, <1>9, <1>10, <1>11, <1>12 DEF Moves

(* What it leaves of the tables.                                           *)
LEMMA RowsAfter ==
    ASSUME TypeOK, KeysAtHand, NEW w \in Workers, Moves(w)
    PROVE  RowsOK'
<1>0. job[w].table \in Tables /\ job[w].stamp \in Nat BY DEF TypeOK
<1>1. rows' = rows => RowsOK' BY DEF TypeOK, RowsOK, Stored
<1>2. \A K : rows' = Without(job[w].table, K) => RowsOK' BY <1>0, RowsTakenOut
<1>3. CASE Write(w)
  <2> DEFINE t == job[w].table
  <2>1. job[w].key \in Keys BY <1>3 DEF Write, KeysAtHand
  <2>2. /\ DOMAIN rows' = Tables
        /\ \A u \in Tables : u # t => rows'[u] = rows[u]
        /\ rows'[t] = [k \in Stored(t) \cup {job[w].key} |->
                         IF k = job[w].key THEN job[w].stamp ELSE rows[t][k]]
    BY <1>0, <1>3 DEF Write, TypeOK
  <2>3. Stored(t) \subseteq Keys /\ \A k \in Stored(t) : rows[t][k] \in Nat \cup {Unreadable}
    BY <1>0 DEF TypeOK
  <2> HIDE DEF t
  <2>4. /\ DOMAIN rows'[t] \subseteq Keys
        /\ \A k \in DOMAIN rows'[t] : rows'[t][k] \in Nat \cup {Unreadable}
    BY <1>0, <2>1, <2>2, <2>3
  <2>5. \A u \in Tables : u # t =>
           /\ DOMAIN rows'[u] \subseteq Keys
           /\ \A k \in DOMAIN rows'[u] : rows'[u][k] \in Nat \cup {Unreadable}
    BY <2>2 DEF TypeOK, Stored
  <2> QED BY <2>2, <2>4, <2>5 DEF RowsOK, Stored
<1>4. CASE Purge(w) BY <1>2, <1>4 DEF Purge
<1>5. CASE Evict(w) BY <1>2, <1>5 DEF Evict
<1>6. CASE Drop(w) BY <1>2, <1>6 DEF Drop
<1> QED
  BY <1>1, <1>3, <1>4, <1>5, <1>6
     DEF Moves, FindStale, Put, Count, Size, Reckon, Reclaim, Raise

(* The count of removed rows, and of writes.                               *)
LEMMA Counts ==
    ASSUME TypeOK, CountKept, NEW w \in Workers, Moves(w)
    PROVE  /\ writes' \in 0..SweepEvery - 1 /\ removed' \in 0..VacuumAfter - 1
           /\ missed' \in BOOLEAN /\ dead' \in Nat /\ CountKept'
<1>0. /\ writes \in 0..SweepEvery - 1 /\ removed \in 0..VacuumAfter - 1 /\ missed \in BOOLEAN
      /\ dead \in Nat /\ job[w].gone \in Nat
      /\ SweepEvery \in Nat \ {0} /\ VacuumAfter \in Nat \ {0}
      /\ at \in [Workers -> Places]
  BY CacheAssumption DEF TypeOK
<1>2. CASE Count(w)
  <2>0. \/ writes + 1 < SweepEvery /\ writes' = writes + 1 /\ missed' = missed
        \/ writes' = 0 /\ missed' = FALSE
    BY <1>2 DEF Count
  <2>1. writes' \in 0..SweepEvery - 1 BY <1>0, <2>0
  <2>3. missed' \in BOOLEAN BY <1>0, <2>0, Zenon
  <2>2. CountKept' BY <1>0, <1>2 DEF Count, Finish, Goto, CountKept
  <2> QED BY <1>0, <1>2, <2>1, <2>2, <2>3 DEF Count
<1>3. CASE Reckon(w)
  <2> DEFINE sum == removed + job[w].gone
             due == job[w].gone > 0 /\ sum >= VacuumAfter
  <2>1. /\ removed' = IF due THEN 0 ELSE sum
        /\ dead' = dead + job[w].gone
        /\ IF due THEN Goto(w, "reclaiming") ELSE Goto(w, "idle")
        /\ UNCHANGED <<writes, missed>> /\ at[w] = "reckoning"
    BY <1>3 DEF Reckon, Finish
  <2>2. removed' \in 0..VacuumAfter - 1 /\ dead' \in Nat BY <1>0, <2>1
  <2>3. CASE due
    <3>1. at'[w] = "reclaiming" BY <1>0, <2>1, <2>3 DEF Goto
    <3> QED BY <1>0, <2>1, <2>2, <3>1 DEF CountKept
  <2>4. CASE ~due
    <3>1. (\A x \in Workers : at'[x] # "reclaiming") => \A x \in Workers : at[x] # "reclaiming"
      BY <1>0, <2>1, <2>4 DEF Goto
    <3> QED BY <1>0, <2>1, <2>2, <2>4, <3>1 DEF CountKept
  <2> QED BY <2>3, <2>4
<1>4. CASE Reclaim(w) BY <1>0, <1>4 DEF Reclaim, CountKept
<1>5. CASE Raise(w) BY <1>0, <1>5 DEF Raise, Finish, Goto, CountKept, Sweeping
<1>6. CASE /\ ~Count(w) /\ ~Reckon(w) /\ ~Reclaim(w) /\ ~Raise(w)
  <2>1. at[w] # "reclaiming" /\ UNCHANGED <<writes, removed, missed, dead>>
    BY <1>6 DEF Moves, FindStale, Put, Drop, Write, Purge, Size, Evict
  <2>2. \E place : Goto(w, place)
    BY <1>6 DEF Moves, FindStale, Put, Drop, Write, Purge, Size, Evict, NextTable, Finish
  <2>3. CountKept' BY <1>0, <2>1, <2>2 DEF CountKept, Goto
  <2> QED BY <1>0, <2>1, <2>3
<1> QED BY <1>2, <1>3, <1>4, <1>5, <1>6

(* What is over the ceiling stays owed.                                    *)
LEMMA OwedAfter ==
    ASSUME RowsInv, RowsInv => TypeOK', NEW w \in Workers, Moves(w), ~missed', NEW t \in Tables
    PROVE  Owed(t)'
<1>0. /\ writes \in Nat /\ writes' \in Nat
      /\ job \in [Workers -> Jobs] /\ at \in [Workers -> Places]
      /\ job[w].table \in Tables /\ job[w].over \in Nat /\ TypeOK /\ MaxRows \in Nat
      /\ KeysAtHand
  BY CacheAssumption DEF RowsInv, TypeOK, Jobs
<1>1. /\ Cardinality(Counting) \in Nat /\ Cardinality(Counting') \in Nat
      /\ Cardinality(Stored(t)) \in Nat /\ IsFiniteSet(Stored(t))
  <2>1. IsFiniteSet(Counting) BY CountingFinite
  <2>2. Counting' \subseteq Workers BY DEF Counting
  <2> QED BY <1>0, <2>1, <2>2, CacheAssumption, StoredFinite, FS_CardinalityType, FS_Subset
<1>2. Cardinality(Stored(t)') \in Nat
  <2>1. Stored(t)' \subseteq Keys BY DEF RowsInv, TypeOK
  <2> QED BY <2>1, CacheAssumption, FS_CardinalityType, FS_Subset
<1>3. \A x \in Workers : x # w => at'[x] = at[x] /\ job'[x] = job[x]
  <2>1. PICK place, work : Goto(w, place) /\ job' \in {job, [job EXCEPT ![w] = work]}
    BY <1>0, PlaceAndJob
  <2> QED BY <1>0, <2>1 DEF Goto
<1>4. at'[w] \in Places /\ \E place \in Places : Goto(w, place) /\ at'[w] = place
  BY <1>0, PlaceAndJob DEF Goto
<1>5. ASSUME ~missed PROVE Owed(t) BY <1>5 DEF RowsInv
<1>6. at[w] # "counting" /\ at'[w] # "counting" => Counting' = Counting
  BY <1>0, <1>4, SameCounting
<1>7. Allowed \in Nat /\ Allowed' \in Nat BY <1>0, <1>1 DEF Allowed
<1>8. ASSUME ~missed,
             Cardinality(Stored(t)') + Allowed <= Cardinality(Stored(t)) + Allowed',
             YetToCount(w, t) \/ AboutToEvict(w, t) => Owed(t)'
      PROVE  Owed(t)'
  BY <1>0, <1>1, <1>2, <1>3, <1>5, <1>8, StaysOwed
<1>9. CASE Write(w)
  <2>1. Counting' = Counting \cup {w} /\ w \notin Counting /\ at[w] = "writing"
    BY <1>0, <1>9 DEF Write, Goto, Counting
  <2>2. Allowed' = Allowed + 1
    <3>1. Cardinality(Counting') = Cardinality(Counting) + 1
      BY <2>1, CountingFinite, FS_AddElement
    <3>2. writes' = writes BY <1>9 DEF Write
    <3> QED BY <1>0, <1>1, <3>1, <3>2 DEF Allowed
  <2>3. Stored(t)' \in {Stored(t), Stored(t) \cup {job[w].key}}
    BY <1>0, <1>9 DEF Write, Stored, TypeOK
  <2>4. Cardinality(Stored(t)') <= Cardinality(Stored(t)) + 1
    BY <1>1, <2>3, FS_AddElement
  <2>5. ~YetToCount(w, t) /\ ~AboutToEvict(w, t) BY <2>1 DEF YetToCount, AboutToEvict
  <2>6. ~missed BY <1>9 DEF Write
  <2> QED BY <1>1, <1>2, <1>7, <1>8, <2>2, <2>4, <2>5, <2>6
<1>10. CASE Count(w)
  <2>1. CASE writes + 1 < SweepEvery
    <3>1. /\ writes' = writes + 1 /\ Goto(w, "idle") /\ missed' = missed
          /\ at[w] = "counting" /\ rows' = rows
      BY <1>10, <2>1 DEF Count, Finish
    <3>2. Counting' = Counting \ {w} /\ w \in Counting BY <1>0, <3>1 DEF Goto, Counting
    <3>3. Allowed' = Allowed
      <4>1. Cardinality(Counting') = Cardinality(Counting) - 1
        BY <3>2, CountingFinite, FS_RemoveElement
      <4> QED BY <1>0, <1>1, <3>1, <4>1 DEF Allowed
    <3>4. Stored(t)' = Stored(t) BY <3>1 DEF Stored
    <3>5. ~YetToCount(w, t) /\ ~AboutToEvict(w, t) BY <3>1 DEF YetToCount, AboutToEvict
    <3> QED BY <1>1, <1>7, <1>8, <3>1, <3>3, <3>4, <3>5
  <2>2. CASE ~(writes + 1 < SweepEvery)
    <3>1. at'[w] = "purging" /\ job'[w].table = "routes"
      BY <1>0, <1>10, <2>2 DEF Count, Goto, NoJob
    <3> QED BY <3>1 DEF Owed, YetToCount, Tables
  <2> QED BY <2>1, <2>2
<1>11. ASSUME NEW gone, NextTable(w, gone), t # job[w].table, ~missed, at[w] \in Sweeping,
              Cardinality(Stored(t)') <= Cardinality(Stored(t)), writes' = writes
       PROVE  Owed(t)'
  <2>1. CASE job[w].table = "routes"
    <3>1. at'[w] = "purging" /\ job'[w].table = "geocodes"
      BY <1>0, <1>11, <2>1 DEF NextTable, Goto, NoJob
    <3>2. t = "geocodes" BY <1>11, <2>1 DEF Tables
    <3> QED BY <3>1, <3>2 DEF Owed, YetToCount
  <2>2. CASE job[w].table # "routes"
    <3>1. t = "routes" BY <1>0, <1>11, <2>2 DEF Tables
    <3>2. ~YetToCount(w, t) /\ ~AboutToEvict(w, t)
      BY <1>11, <2>2, <3>1 DEF YetToCount, AboutToEvict
    <3>3. at'[w] # "counting" /\ at[w] # "counting"
      BY <1>0, <1>11, <2>2 DEF NextTable, Goto, Sweeping
    <3>4. Allowed' = Allowed BY <1>6, <1>11, <3>3 DEF Allowed
    <3> QED BY <1>1, <1>2, <1>7, <1>8, <1>11, <3>2, <3>4
  <2> QED BY <2>1, <2>2
<1>12. CASE Size(w)
  <2> DEFINE over == Cardinality(Stored(job[w].table)) - MaxRows
  <2>1. /\ at[w] = "sizing" /\ UNCHANGED <<rows, writes, missed>>
        /\ IF over <= 0 THEN NextTable(w, job[w].gone)
           ELSE Goto(w, "evicting") /\ job' = [job EXCEPT ![w].over = over]
    BY <1>12 DEF Size
  <2>2. Stored(t)' = Stored(t) BY <2>1 DEF Stored
  <2>3. at'[w] # "counting"
    BY <1>0, <2>1 DEF NextTable, Goto
  <2>4. Allowed' = Allowed BY <1>6, <2>1, <2>3 DEF Allowed
  <2>5. CASE t = job[w].table /\ over <= 0
    <3>1. Cardinality(Stored(t)') <= Allowed' BY <1>0, <1>1, <2>2, <2>4, <2>5 DEF Allowed
    <3> QED BY <3>1 DEF Owed
  <2>6. CASE t = job[w].table /\ ~(over <= 0)
    <3>1. at'[w] = "evicting" /\ job'[w].over = over /\ job'[w].table = t
      BY <1>0, <2>1, <2>6 DEF Goto, Jobs
    <3>2. Cardinality(Stored(t)') <= Allowed' + over BY <1>0, <1>1, <2>2, <2>4, <2>6 DEF Allowed
    <3> QED BY <3>1, <3>2 DEF Owed, AboutToEvict
  <2>7. CASE t # job[w].table /\ over <= 0
    BY <1>1, <1>11, <2>1, <2>2, <2>7 DEF Sweeping
  <2>8. CASE t # job[w].table /\ ~(over <= 0)
    <3>1. at'[w] = "evicting" /\ job'[w].table = job[w].table
      BY <1>0, <2>1, <2>8 DEF Goto, Jobs
    <3>2. YetToCount(w, t) => YetToCount(w, t)'
      BY <1>0, <2>1, <2>8, <3>1 DEF YetToCount, Tables
    <3>3. ~AboutToEvict(w, t) BY <2>1 DEF AboutToEvict
    <3>4. YetToCount(w, t) => Owed(t)' BY <3>2 DEF Owed
    <3> QED BY <1>1, <1>7, <1>8, <2>1, <2>2, <2>4, <3>3, <3>4
  <2> QED BY <2>5, <2>6, <2>7, <2>8
<1>13. CASE Evict(w)
  <2>1. PICK K \in Oldest(job[w].table, job[w].over) :
           rows' = Without(job[w].table, K) /\ NextTable(w, job[w].gone + Cardinality(K))
    BY <1>13 DEF Evict
  <2>2. at[w] = "evicting" /\ UNCHANGED <<writes, missed>> BY <1>13 DEF Evict
  <2>3. Cardinality(Stored(t)') <= Cardinality(Stored(t))
    BY <1>0, <2>1, RowsTakenOut
  <2>4. CASE t # job[w].table BY <1>11, <2>1, <2>2, <2>3, <2>4 DEF Sweeping
  <2>5. CASE t = job[w].table
    <3>1. at'[w] # "counting" BY <1>0, <2>1 DEF NextTable, Goto
    <3>2. Allowed' = Allowed BY <1>6, <2>2, <3>1 DEF Allowed
    <3>3. Cardinality(Stored(t)') = Cardinality(Stored(t)) - Cardinality(K)
      BY <1>0, <2>1, <2>5, RowsTakenOut DEF Oldest
    <3>4. Cardinality(K) = IF job[w].over <= Cardinality(Stored(t)) THEN job[w].over
                           ELSE Cardinality(Stored(t))
      BY <2>1, <2>5 DEF Oldest
    <3>5. AboutToEvict(w, t) => Cardinality(Stored(t)') <= Allowed'
      BY <1>0, <1>1, <1>7, <3>2, <3>3, <3>4 DEF AboutToEvict
    <3>6. ~YetToCount(w, t) BY <2>2, <2>5 DEF YetToCount
    <3>7. AboutToEvict(w, t) => Owed(t)' BY <3>5 DEF Owed
    <3> QED BY <1>1, <1>2, <1>7, <1>8, <2>2, <2>3, <3>2, <3>6, <3>7
  <2> QED BY <2>4, <2>5
<1>14. CASE Purge(w)
  <2>1. /\ at[w] = "purging" /\ Goto(w, "sizing") /\ job'[w].table = job[w].table
        /\ UNCHANGED <<writes, missed>>
    BY <1>0, <1>14 DEF Purge, Jobs
  <2>2. Cardinality(Stored(t)') <= Cardinality(Stored(t))
    BY <1>0, <1>14, RowsTakenOut DEF Purge
  <2>3. at'[w] = "sizing" BY <1>0, <2>1 DEF Goto
  <2>4. Allowed' = Allowed BY <1>6, <2>1, <2>3 DEF Allowed
  <2>5. YetToCount(w, t) => YetToCount(w, t)' BY <2>1, <2>3 DEF YetToCount
  <2>6. ~AboutToEvict(w, t) BY <2>1 DEF AboutToEvict
  <2>7. YetToCount(w, t) => Owed(t)' BY <2>5 DEF Owed
  <2> QED BY <1>1, <1>2, <1>7, <1>8, <2>1, <2>2, <2>4, <2>6, <2>7
<1>15. CASE \/ \E u \in Tables, k \in Keys : FindStale(w, u, k) \/ Put(w, u, k)
            \/ Drop(w) \/ Reckon(w) \/ Reclaim(w) \/ Raise(w)
  <2>1. at[w] \notin Sweeping /\ at[w] # "counting" /\ writes' = writes /\ ~missed
    <3>1. CASE Raise(w)
      <4>1. missed' = (missed \/ at[w] \in Sweeping) BY <3>1 DEF Raise
      <4>2. ~missed /\ at[w] \notin Sweeping BY <4>1, Zenon
      <4> QED BY <3>1, <4>2 DEF Raise, Sweeping
    <3>2. CASE ~Raise(w)
      <4>1. at[w] \in {"idle", "dropping", "reckoning", "reclaiming"} /\ writes' = writes
        BY <1>15, <3>2 DEF FindStale, Put, Drop, Reckon, Reclaim
      <4>2. missed' = missed
        BY <1>15, <3>2 DEF FindStale, Put, Drop, Reckon, Reclaim
      <4>3. ~missed BY <4>2
      <4> QED BY <4>1, <4>3 DEF Sweeping
    <3> QED BY <3>1, <3>2
  <2>2. at'[w] # "counting"
    BY <1>0, <1>15 DEF FindStale, Put, Drop, Reckon, Reclaim, Raise, Finish, Goto
  <2>3. Allowed' = Allowed BY <1>6, <2>1, <2>2 DEF Allowed
  <2>4. Cardinality(Stored(t)') <= Cardinality(Stored(t))
    <3>1. CASE Drop(w) BY <1>0, <3>1, RowsTakenOut DEF Drop
    <3>2. CASE rows' = rows BY <1>1, <3>2 DEF Stored
    <3> QED BY <1>15, <3>1, <3>2 DEF FindStale, Put, Reckon, Reclaim, Raise
  <2>5. ~YetToCount(w, t) /\ ~AboutToEvict(w, t)
    BY <2>1 DEF YetToCount, AboutToEvict, Sweeping
  <2> QED BY <1>1, <1>2, <1>7, <1>8, <2>1, <2>3, <2>4, <2>5
<1> QED BY <1>9, <1>10, <1>12, <1>13, <1>14, <1>15 DEF Moves

(* The invariant of the rows.                                              *)
LEMMA RowsBegin == Init => RowsInv
<1> SUFFICES ASSUME Init PROVE RowsInv OBVIOUS
<1>1. /\ DOMAIN rows = Tables
      /\ \A t \in Tables : /\ Stored(t) \subseteq Keys /\ Cardinality(Stored(t)) <= MaxRows
                           /\ \A k \in Stored(t) : rows[t][k] \in {0, Unreadable}
  BY DEF Init, Stored
<1>2. TypeOK
  <2>1. job \in [Workers -> Jobs] BY NoJobIsAJob DEF Init
  <2>2. RowsOK BY <1>1 DEF RowsOK
  <2>3. now \in 0..MaxNow /\ writes \in 0..SweepEvery - 1 /\ removed \in 0..VacuumAfter - 1
    BY CacheAssumption DEF Init
  <2>4. at \in [Workers -> Places] /\ missed \in BOOLEAN /\ dead \in Nat BY DEF Init, Places
  <2> QED BY <2>1, <2>2, <2>3, <2>4 DEF TypeOK, RowsOK, Jobs
<1>3. Counting = {} BY DEF Init, Counting
<1>4. Allowed = MaxRows BY <1>3, FS_EmptySet, CacheAssumption DEF Init, Allowed
<1>5. \A t \in Tables : Owed(t) BY <1>1, <1>4 DEF Owed
<1> QED BY <1>2, <1>5 DEF Init, RowsInv, KeysAtHand, CountKept

LEMMA RowsInvariant == CacheSpec => []RowsInv
<1>1. RowsInv /\ [Next]_vars => RowsInv'
  <2> SUFFICES ASSUME RowsInv, [Next]_vars PROVE RowsInv' OBVIOUS
  <2>0. TypeOK /\ KeysAtHand /\ CountKept BY DEF RowsInv
  <2>1. ASSUME NEW w \in Workers, Moves(w) PROVE RowsInv'
    <3>1. now' = now
      BY <2>1 DEF Moves, FindStale, Put, Drop, Write, Count, Purge, Size, Evict, Reckon, Reclaim,
                  Raise
    <3>2. PICK place \in Places, work \in Jobs :
             Goto(w, place) /\ job' \in {job, [job EXCEPT ![w] = work]}
      BY <2>0, <2>1, PlaceAndJob
    <3>3. at' \in [Workers -> Places] /\ job' \in [Workers -> Jobs]
      BY <2>0, <3>2 DEF Goto, TypeOK, Jobs
    <3>4. TypeOK'
      <4>1. RowsOK' BY <2>0, <2>1, RowsAfter
      <4>2. /\ writes' \in 0..SweepEvery - 1 /\ removed' \in 0..VacuumAfter - 1
            /\ missed' \in BOOLEAN /\ dead' \in Nat
        BY <2>0, <2>1, Counts
      <4> QED BY <2>0, <3>1, <3>3, <4>1, <4>2 DEF TypeOK, RowsOK, Jobs
    <3>5. KeysAtHand'
      <4>1. at'[w] = "writing" => job'[w].key \in Keys BY <2>0, <2>1, PlaceAndJob
      <4>2. \A x \in Workers : x # w => at'[x] = at[x] /\ job'[x] = job[x]
        BY <2>0, <3>2 DEF Goto, TypeOK
      <4> QED BY <2>0, <4>1, <4>2 DEF KeysAtHand
    <3>6. CountKept' BY <2>0, <2>1, Counts
    <3>7. ~missed' => \A t \in Tables : Owed(t)' BY <2>1, <3>4, OwedAfter
    <3> QED BY <3>4, <3>5, <3>6, <3>7 DEF RowsInv
  <2>2. CASE Tick \/ UNCHANGED vars
    <3>1. now' \in 0..MaxNow /\ UNCHANGED <<rows, writes, removed, at, job, missed, dead>>
      BY <2>0, <2>2, CacheAssumption DEF Tick, vars, TypeOK
    <3>2. TypeOK' BY <2>0, <3>1 DEF TypeOK, Stored
    <3>3. (KeysAtHand /\ CountKept)' BY <2>0, <3>1 DEF KeysAtHand, CountKept
    <3>4. \A t \in Tables : Owed(t) => Owed(t)'
      BY <3>1 DEF Owed, Allowed, Counting, YetToCount, AboutToEvict, Stored
    <3> QED BY <3>1, <3>2, <3>3, <3>4 DEF RowsInv
  <2> QED BY <2>1, <2>2 DEF Next, Moves
<1> QED BY <1>1, RowsBegin, EitherPartSteps, PTL DEF CacheSpec, CacheInit

-----------------------------------------------------------------------------
(* _maybe_sweep and sweep: between sweeps neither table holds more than    *)
(* the ceiling plus the writes since the last sweep began, however the     *)
(* sweeps of several threads overlapped, unless one of them raised.        *)
THEOREM CacheHoldsItsCeiling == CacheSpec => []CeilingBetweenSweeps
<1>1. RowsInv => CeilingBetweenSweeps
  <2> SUFFICES ASSUME RowsInv, \A w \in Workers : at[w] \notin Sweeping, ~missed, NEW t \in Tables
               PROVE  Cardinality(Stored(t)) <= Allowed
    BY DEF RowsInv, CeilingBetweenSweeps, Allowed, Counting
  <2>1. \A w \in Workers : ~YetToCount(w, t) /\ ~AboutToEvict(w, t)
    BY DEF YetToCount, AboutToEvict, Sweeping
  <2> QED BY <2>1 DEF RowsInv, Owed
<1> QED BY <1>1, RowsInvariant, PTL

(* sweep(): the rows removed are summed over sweeps, and as soon as they   *)
(* are VacuumAfter one of the sweeps reclaims their space.                 *)
THEOREM CacheGivesSpaceBack == CacheSpec => []SpaceComesBack
<1>1. RowsInv => SpaceComesBack
  BY CacheAssumption DEF RowsInv, TypeOK, CountKept, SpaceComesBack
<1> QED BY <1>1, RowsInvariant, PTL

(* Cache: an answer that has not expired is lost only to a reader that had *)
(* found an older one under its key stale, or to an eviction that keeps    *)
(* nothing older.                                                          *)
THEOREM CacheKeepsFreshRows == CacheSpec => FreshRowsStay
<1> DEFINE LostFairly ==
      \A t \in Tables : \A k \in Stored(t) \ DOMAIN rows'[t] :
          \/ Expired(rows[t][k])
          \/ \E w \in Workers :
                at[w] = "dropping" /\ job[w].table = t /\ job[w].key = k
          \/ \E w \in Workers : at[w] = "evicting" /\ job[w].table = t
             /\ \A l \in DOMAIN rows'[t] : rows[t][k] <= rows[t][l]
<1>1. RowsInv /\ [Next]_vars => [LostFairly]_vars
  <2> SUFFICES ASSUME RowsInv, Next, NEW t \in Tables, NEW k \in Stored(t), k \notin Stored(t)'
               PROVE  \/ Expired(rows[t][k])
                      \/ \E w \in Workers :
                            at[w] = "dropping" /\ job[w].table = t /\ job[w].key = k
                      \/ \E w \in Workers : at[w] = "evicting" /\ job[w].table = t
                         /\ \A l \in DOMAIN rows'[t] : rows[t][k] <= rows[t][l]
    BY DEF Stored
  <2>0. TypeOK /\ \A w \in Workers : job[w].table \in Tables BY DEF RowsInv, TypeOK
  <2>1. \A w \in Workers : \A K : rows' = Without(job[w].table, K) =>
           /\ job[w].table = t /\ k \in K
           /\ Stored(t)' = Stored(t) \ K
    BY <2>0, RowsTakenOut
  <2>2. ASSUME NEW w \in Workers, Drop(w)
        PROVE  at[w] = "dropping" /\ job[w].table = t /\ job[w].key = k
    BY <2>1, <2>2 DEF Drop
  <2>3. ASSUME NEW w \in Workers, Purge(w) PROVE Expired(rows[t][k])
    BY <2>1, <2>3 DEF Purge
  <2>4. ASSUME NEW w \in Workers, Evict(w)
        PROVE  /\ at[w] = "evicting" /\ job[w].table = t
               /\ \A l \in DOMAIN rows'[t] : rows[t][k] <= rows[t][l]
    <3>1. PICK K \in Oldest(job[w].table, job[w].over) : rows' = Without(job[w].table, K)
      BY <2>4 DEF Evict
    <3>2. job[w].table = t /\ k \in K /\ DOMAIN rows'[t] = Stored(t) \ K
      BY <2>1, <3>1 DEF Stored
    <3> QED BY <2>4, <3>1, <3>2 DEF Evict, Oldest
  <2>5. ASSUME NEW w \in Workers, Write(w) PROVE FALSE
    BY <2>0, <2>5 DEF Write, Stored, TypeOK
  <2>6. \E w \in Workers : Drop(w) \/ Purge(w) \/ Evict(w) \/ Write(w)
    BY DEF Next, FindStale, Put, Count, Size, Reckon, Reclaim, Raise, Tick, Stored
  <2> QED BY <2>2, <2>3, <2>4, <2>5, <2>6
<1> QED BY <1>1, RowsInvariant, EitherPartSteps, PTL DEF CacheSpec, FreshRowsStay

-----------------------------------------------------------------------------
(* The connections.  Threads, and the connections there have been, are     *)
(* finite sets.                                                            *)
LEMMA ThreadSetsFinite ==
    \A T \in SUBSET Threads : IsFiniteSet(T) /\ Cardinality(T) \in Nat
BY ConnectionsAssumption, FS_Subset, FS_CardinalityType

LEMMA ExtraFinite ==
    ASSUME Connections!TypeOK
    PROVE  IsFiniteSet(Extra) /\ Cardinality(Extra) \in Nat
<1>1. opened \in Int /\ Extra \subseteq 1..opened
  BY ConnectionsAssumption DEF Connections!TypeOK, Extra
<1>2. IsFiniteSet(1..opened) BY <1>1, FS_Interval
<1> QED BY <1>1, <1>2, FS_Subset, FS_CardinalityType

(* The types.                                                              *)
LEMMA ConnectionsType ==
    ASSUME Connections!TypeOK, [Connections!Next]_connectionVars
    PROVE  Connections!TypeOK'
<1> USE DEF Connections!TypeOK, Connections!Goto, Connections!None, Connections!closing
<1>0. opened \in Nat BY ConnectionsAssumption
<1>1. ASSUME NEW w \in Threads, Connections!Check(w) PROVE Connections!TypeOK'
  BY <1>1 DEF Connections!Check
<1>2. ASSUME NEW w \in Threads, Connections!Look(w) PROVE Connections!TypeOK'
  BY <1>0, <1>2 DEF Connections!Look
<1>3. ASSUME NEW w \in Threads, Connections!Open(w) PROVE Connections!TypeOK'
  <2> USE <1>0, <1>3 DEF Connections!Open
  <2>1. opened' \in 0..MaxOpened /\ opened' \in 1..opened' /\ 1..opened \subseteq 1..opened'
    BY ConnectionsAssumption
  <2>2. (local \in [Threads -> 0..opened] /\ mine \in [Threads -> 0..opened])' BY <2>1
  <2>3. (\A x \in Threads : step[x] \in {"registering", "using"} <=> mine[x] # Connections!None)'
    BY <2>1
  <2> QED BY <2>1, <2>2, <2>3
<1>4. ASSUME NEW w \in Threads, Connections!Register(w) PROVE Connections!TypeOK'
  <2> USE <1>0, <1>4 DEF Connections!Register
  <2>0. mine[w] \in 0..opened /\ mine[w] # 0 BY Zenon
  <2>1. all' \subseteq 1..opened'
    <3>1. mine[w] \in 1..opened BY <1>0, <2>0
    <3>2. all \subseteq 1..opened /\ all' = all \cup {mine[w]} /\ opened' = opened BY Zenon
    <3> QED BY ONLY <3>1, <3>2
  <2>2. (\A x \in Threads : step[x] \in {"registering", "using"} <=> mine[x] # Connections!None)'
    OBVIOUS
  <2> QED BY <2>1, <2>2
<1>5. ASSUME NEW w \in Threads, Connections!Use(w) PROVE Connections!TypeOK'
  BY <1>0, <1>5 DEF Connections!Use
<1>6. ASSUME NEW w \in Threads, Connections!Retire(w) PROVE Connections!TypeOK'
  BY <1>0, <1>6 DEF Connections!Retire
<1>7. CASE Connections!Mark BY <1>7 DEF Connections!Mark, Connections!Past
<1>8. CASE Connections!Take BY <1>8 DEF Connections!Take
<1>9. CASE Connections!Shut BY <1>9 DEF Connections!Shut
<1>10. CASE Connections!Reset BY <1>0, <1>10 DEF Connections!Reset
<1>11. CASE UNCHANGED connectionVars BY <1>11 DEF connectionVars
<1> QED
  BY <1>1, <1>2, <1>3, <1>4, <1>5, <1>6, <1>7, <1>8, <1>9, <1>10, <1>11 DEF Connections!Next

(* When close() takes the list, what it misses is on its way to the list:  *)
(* at most one connection for each call about to register one.             *)
LEMMA TakenButForRacers ==
    ASSUME ConnectionsInv, Connections!Take
    PROVE  OneEach'
<1> DEFINE Late == {mine[t] : t \in Registering}
<1>0. Connections!TypeOK /\ Reachable /\ NoLatecomers BY DEF ConnectionsInv
<1>1. closer = "marked" /\ doomed' = all /\ UNCHANGED <<open, step, racers>>
  BY DEF Connections!Take
<1>2. Extra' \subseteq Late BY <1>0, <1>1 DEF Reachable, Extra
<1>3. /\ IsFiniteSet(Registering) /\ IsFiniteSet(Opening) /\ IsFiniteSet(racers)
      /\ Cardinality(Registering) \in Nat /\ Cardinality(Opening) \in Nat
      /\ Cardinality(racers) \in Nat
  <2>1. /\ Registering \subseteq Threads /\ Opening \subseteq Threads /\ racers \subseteq Threads
    BY <1>0 DEF Registering, Opening, Connections!TypeOK
  <2> QED BY <2>1, ThreadSetsFinite
<1>4. IsFiniteSet(Late) /\ Cardinality(Late) <= Cardinality(Registering)
  <2> DEFINE f == [t \in Registering |-> mine[t]]
  <2>1. f \in Surjection(Registering, Late) BY DEF Surjection
  <2> QED BY <1>3, <2>1, FS_Surjection
<1>5. Cardinality(Extra') <= Cardinality(Late) BY <1>2, <1>4, FS_Subset
<1>6. Cardinality(Opening) + Cardinality(Registering) <= Cardinality(racers)
  <2>1. Opening \cap Registering = {} BY DEF Opening, Registering
  <2>2. Cardinality(Opening \cup Registering) = Cardinality(Opening) + Cardinality(Registering)
    <3>1. Cardinality(Opening \cap Registering) = 0 BY <2>1, FS_EmptySet
    <3>2. Cardinality(Opening \cup Registering)
            = Cardinality(Opening) + Cardinality(Registering)
                - Cardinality(Opening \cap Registering)
      BY <1>3, FS_Union
    <3> QED BY <1>3, <3>1, <3>2
  <2>3. Opening \cup Registering \subseteq racers BY <1>0, <1>1 DEF NoLatecomers
  <2> QED BY <1>3, <2>2, <2>3, FS_Subset
<1>7. Opening' = Opening /\ racers' = racers BY <1>1 DEF Opening
<1>8. Cardinality(Extra') \in Nat /\ Cardinality(Late) \in Nat
  <2>1. IsFiniteSet(Extra') BY <1>2, <1>4, FS_Subset
  <2> QED BY <1>4, <2>1, FS_CardinalityType
<1> HIDE DEF Late
<1>9. Cardinality(Extra') + Cardinality(Opening') <= Cardinality(racers')
  BY <1>3, <1>4, <1>5, <1>6, <1>7, <1>8
<1> QED BY <1>9 DEF OneEach

(* A worker's step leaves the list, and whoever raced, as they should be.  *)
LEMMA WorkersKeep ==
    ASSUME ConnectionsInv, NEW w \in Threads,
           \/ Connections!Check(w) \/ Connections!Look(w) \/ Connections!Open(w)
           \/ Connections!Register(w) \/ Connections!Use(w) \/ Connections!Retire(w)
    PROVE  (Reachable /\ NoLatecomers /\ OneEach)' /\ UNCHANGED <<closer, doomed>>
<1>0. /\ Connections!TypeOK /\ Reachable /\ NoLatecomers /\ OneEach
      /\ step \in [Threads -> {"idle", "checked", "opening", "registering", "using"}]
      /\ mine \in [Threads -> 0..opened] /\ opened \in Nat
  BY ConnectionsAssumption DEF ConnectionsInv, Connections!TypeOK
<1>1. UNCHANGED <<closed, closer, doomed, racers>>
  BY DEF Connections!Check, Connections!Look, Connections!Open, Connections!Register,
         Connections!Use, Connections!Retire, Connections!closing
<1>2. /\ IsFiniteSet(Opening) /\ Cardinality(Opening) \in Nat
      /\ IsFiniteSet(Opening') /\ Cardinality(Opening') \in Nat
      /\ Cardinality(racers) \in Nat
  <2>1. Opening \subseteq Threads /\ Opening' \subseteq Threads /\ racers \subseteq Threads
    BY <1>0 DEF Opening, Connections!TypeOK
  <2> QED BY <2>1, ThreadSetsFinite
\* Nobody new is opening, and no connection is: the ledger is as it was.
<1>3. ASSUME open' = open, Opening' \subseteq Opening PROVE OneEach'
  <2>1. Cardinality(Opening') <= Cardinality(Opening) BY <1>2, <1>3, FS_Subset
  <2>2. Extra' = Extra BY <1>1, <1>3 DEF Extra
  <2> QED BY <1>0, <1>1, <1>2, <2>1, <2>2, ExtraFinite DEF OneEach
<1>4. CASE Connections!Check(w)
  <2> USE <1>4 DEF Connections!Check, Connections!Goto
  <2>1. closer = "before" BY <1>0 DEF NoLatecomers
  <2>2. Registering' = Registering BY <1>0 DEF Registering
  <2> QED BY <1>0, <1>1, <2>1, <2>2 DEF Reachable, NoLatecomers, OneEach
<1>5. CASE Connections!Look(w)
  <2> USE <1>5 DEF Connections!Look, Connections!Goto
  <2>1. Registering' = Registering /\ Opening' \subseteq Opening
    BY <1>0 DEF Registering, Opening
  <2>2. {mine[t] : t \in Registering}' = {mine[t] : t \in Registering}
    BY <1>0, <2>1 DEF Registering
  <2>3. OneEach' BY <1>3, <2>1
  <2> QED BY <1>0, <1>1, <2>1, <2>2, <2>3 DEF Reachable, NoLatecomers
<1>6. CASE Connections!Open(w)
  <2> USE <1>6 DEF Connections!Open, Connections!Goto
  <2>1. Registering' = Registering \cup {w} /\ w \in Opening /\ Opening' = Opening \ {w}
    BY <1>0 DEF Registering, Opening
  <2>2. mine'[w] = opened' /\ \A t \in Registering : mine'[t] = mine[t]
    BY <1>0 DEF Registering
  <2>3. Reachable' BY <1>0, <1>1, <2>1, <2>2 DEF Reachable
  <2>4. NoLatecomers' BY <1>0, <1>1, <2>1 DEF NoLatecomers
  <2>5. Cardinality(Opening') = Cardinality(Opening) - 1 BY <1>2, <2>1, FS_RemoveElement
  <2>6. Cardinality(Extra') <= Cardinality(Extra) + 1 /\ Cardinality(Extra') \in Nat
    <3>1. Extra' \subseteq Extra \cup {opened'} BY <1>1 DEF Extra
    <3>2. IsFiniteSet(Extra \cup {opened'})
          /\ Cardinality(Extra \cup {opened'}) <= Cardinality(Extra) + 1
      BY <1>0, ExtraFinite, FS_AddElement
    <3>3. IsFiniteSet(Extra') /\ Cardinality(Extra') <= Cardinality(Extra \cup {opened'})
      BY <3>1, <3>2, FS_Subset
    <3>4. Cardinality(Extra') \in Nat /\ Cardinality(Extra \cup {opened'}) \in Nat
      BY <3>2, <3>3, FS_CardinalityType
    <3> QED BY <1>0, <3>2, <3>3, <3>4, ExtraFinite
  <2>7. OneEach' BY <1>0, <1>1, <1>2, <2>5, <2>6, ExtraFinite DEF OneEach
  <2> QED BY <1>1, <2>3, <2>4, <2>7
<1>7. CASE Connections!Register(w)
  <2> USE <1>7 DEF Connections!Register, Connections!Goto
  <2>1. Registering' = Registering \ {w} /\ w \in Registering /\ Opening' = Opening
    BY <1>0 DEF Registering, Opening
  <2>2. Reachable' BY <1>0, <1>1, <2>1 DEF Reachable
  <2>3. OneEach' BY <1>3, <2>1
  <2> QED BY <1>0, <1>1, <2>1, <2>2, <2>3 DEF NoLatecomers
<1>8. CASE Connections!Use(w)
  <2> USE <1>8 DEF Connections!Use, Connections!Goto
  <2>1. Registering' = Registering /\ w \notin Registering /\ Opening' = Opening
    BY <1>0 DEF Registering, Opening
  <2>2. \A t \in Registering : mine'[t] = mine[t] BY <1>0, <2>1 DEF Registering
  <2>3. Reachable' BY <1>0, <1>1, <2>1, <2>2 DEF Reachable
  <2>4. OneEach' BY <1>3, <2>1
  <2> QED BY <1>0, <1>1, <2>1, <2>3, <2>4 DEF NoLatecomers
<1>9. CASE Connections!Retire(w)
  <2>1. UNCHANGED <<open, all, mine, step>> BY <1>9 DEF Connections!Retire
  <2> QED
    BY <1>0, <1>1, <2>1 DEF Reachable, NoLatecomers, OneEach, Registering, Opening, Extra
<1> QED BY <1>1, <1>4, <1>5, <1>6, <1>7, <1>8, <1>9

(* And so does close().                                                    *)
LEMMA CloserKeeps ==
    ASSUME ConnectionsInv,
           \/ Connections!Mark \/ Connections!Take \/ Connections!Shut \/ Connections!Reset
    PROVE  (Reachable /\ NoLatecomers /\ OneEach)' /\ (closer = "done" => doomed = {})'
<1>0. Connections!TypeOK /\ Reachable /\ NoLatecomers /\ OneEach BY DEF ConnectionsInv
<1>1. UNCHANGED <<step, mine>> /\ Registering' = Registering /\ Opening' = Opening
  BY DEF Connections!Mark, Connections!Take, Connections!Shut, Connections!Reset,
         Registering, Opening
<1>2. CASE Connections!Mark
  <2> USE <1>2 DEF Connections!Mark
  <2>1. Reachable' BY <1>0, <1>1 DEF Reachable
  <2>2. NoLatecomers' BY <1>1 DEF NoLatecomers, Connections!Past, Opening, Registering
  <2> QED BY <2>1, <2>2 DEF OneEach
<1>3. CASE Connections!Take
  <2>1. OneEach' BY <1>3, TakenButForRacers
  <2>2. closer = "marked" /\ closer' = "closing" /\ UNCHANGED <<closed, racers>>
    BY <1>3 DEF Connections!Take
  <2> QED BY <1>0, <1>1, <2>1, <2>2 DEF Reachable, NoLatecomers
<1>4. CASE Connections!Shut
  <2> USE <1>4 DEF Connections!Shut
  <2>1. Extra' = Extra BY DEF Extra
  <2> QED BY <1>0, <1>1, <2>1 DEF Reachable, NoLatecomers, OneEach
<1>5. CASE Connections!Reset
  <2> USE <1>5 DEF Connections!Reset
  <2>1. Extra' = Extra BY DEF Extra
  <2> QED BY <1>0, <1>1, <2>1 DEF Reachable, NoLatecomers, OneEach
<1> QED BY <1>2, <1>3, <1>4, <1>5

LEMMA ConnectionsInvariant == CacheSpec => []ConnectionsInv
<1>1. Connections!Init => ConnectionsInv
  <2> SUFFICES ASSUME Connections!Init PROVE ConnectionsInv OBVIOUS
  <2> USE ConnectionsAssumption DEF Connections!Init, Connections!None
  <2>1. Connections!TypeOK
    <3>1. opened \in 0..MaxOpened /\ 1..opened = {1} BY DEF Connections!TypeOK
    <3>2. local \in [Threads -> 0..opened] /\ mine \in [Threads -> 0..opened] OBVIOUS
    <3>3. /\ step \in [Threads -> {"idle", "checked", "opening", "registering", "using"}]
          /\ \A w \in Threads : step[w] \in {"registering", "using"} <=> mine[w] # 0
      OBVIOUS
    <3> QED BY <3>1, <3>2, <3>3 DEF Connections!TypeOK
  <2>2. Reachable /\ NoLatecomers /\ OneEach BY DEF Reachable, NoLatecomers, OneEach
  <2> QED BY <2>1, <2>2 DEF ConnectionsInv
<1>2. ConnectionsInv /\ [Connections!Next]_connectionVars => ConnectionsInv'
  <2> SUFFICES ASSUME ConnectionsInv, [Connections!Next]_connectionVars PROVE ConnectionsInv'
    OBVIOUS
  <2>1. Connections!TypeOK' BY ConnectionsType DEF ConnectionsInv
  <2>2. CASE UNCHANGED connectionVars
    BY <2>1, <2>2 DEF connectionVars, ConnectionsInv, Reachable, NoLatecomers, OneEach,
                      Extra, Opening, Registering
  <2>3. CASE Connections!Next
    <3>1. ASSUME NEW w \in Threads,
                 \/ Connections!Check(w) \/ Connections!Look(w) \/ Connections!Open(w)
                 \/ Connections!Register(w) \/ Connections!Use(w) \/ Connections!Retire(w)
          PROVE  ConnectionsInv'
      BY <2>1, <3>1, WorkersKeep DEF ConnectionsInv
    <3> QED BY <2>1, <2>3, <3>1, CloserKeeps DEF Connections!Next, ConnectionsInv
  <2> QED BY <2>2, <2>3
<1> QED BY <1>1, <1>2, EitherPartSteps, PTL DEF CacheSpec, CacheInit

(* close(): until it takes the list it can reach every open connection,    *)
(* and what it leaves open is at most one connection for each call already *)
(* past the check.                                                         *)
THEOREM CacheCloseReaches == CacheSpec => []CloseReachesAllButRacers
<1>1. ConnectionsInv => CloseReachesAllButRacers
  <2> SUFFICES ASSUME ConnectionsInv PROVE CloseReachesAllButRacers OBVIOUS
  <2>0. Connections!TypeOK /\ Reachable /\ OneEach /\ (closer = "done" => doomed = {})
    BY DEF ConnectionsInv
  <2>1. closer \in {"before", "marked"} =>
           \A c \in open :
              c \in all \/ \E w \in Threads : step[w] = "registering" /\ mine[w] = c
    BY <2>0 DEF Reachable, Registering
  <2>2. closer = "done" => Cardinality(open) <= Cardinality(racers)
    <3> SUFFICES ASSUME closer = "done" PROVE Cardinality(open) <= Cardinality(racers) OBVIOUS
    <3>1. Extra = open BY <2>0 DEF Extra
    <3>2. Opening \subseteq Threads /\ racers \subseteq Threads
      BY <2>0 DEF Opening, Connections!TypeOK
    <3>3. Cardinality(Opening) \in Nat /\ Cardinality(racers) \in Nat
      BY <3>2, ThreadSetsFinite
    <3> QED BY <2>0, <3>1, <3>3, ExtraFinite DEF OneEach
  <2>3. Connections!CloseReachesAllButRacers
    BY <2>1, <2>2
       DEF Connections!CloseReachesAllButRacers, Connections!Cardinality, Cardinality
  <2> QED BY <2>0, <2>3 DEF CloseReachesAllButRacers
<1> QED BY <1>1, ConnectionsInvariant, PTL

==============================================================================
