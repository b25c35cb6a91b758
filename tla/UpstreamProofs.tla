--------------------------- MODULE UpstreamProofs ---------------------------
(***************************************************************************)
(* Proofs about six parts of Upstream, each of which the others leave      *)
(* alone.                                                                  *)
(*                                                                         *)
(* The probes, for any number of callers, any verdicts and any time to     *)
(* live: what is served from memory is fresh.                              *)
(*                                                                         *)
(* The place search, for any number of requests, names and ticks: the      *)
(* searches put to Nominatim are paid for.  The bucket's tokens, the       *)
(* requests that hold one and the searches made never add up to more than  *)
(* the bucket had and was filled with; a token moves among the three, and  *)
(* comes back to the bucket only from a request that searched nothing.     *)
(*                                                                         *)
(* The budget of live calls, for one backend, any cap and any number of    *)
(* fetches, crashes and days: what the calls of a day cost is on disk      *)
(* before they are made, and memory is never behind the disk.              *)
(*                                                                         *)
(* The search for a route, for any durations and any scores: the card's    *)
(* word is kept whatever comes back, and one route that came back is       *)
(* enough.  A hosted router is asked in turn, and stops at a route that    *)
(* will do; a search of candidates has a best one, and the word is read    *)
(* off the two that were compared.  The models it is steered by and the    *)
(* tables it is scored by agree, worked out rule by rule.                  *)
(*                                                                         *)
(* The survey, for any answers of the sources: a second card says of       *)
(* nothing more than was measured, and takes nothing back.  For any finite *)
(* world, any routes and tags: one that says its barriers were checked     *)
(* lists every gate on the line, because a reply that may have been cut    *)
(* short is not used; one that passes without reserve rests on recorded    *)
(* ways, because the metres judged are among the metres recorded.          *)
(*                                                                         *)
(* The photographs, for any route, anchors, sources and sizes: the strip   *)
(* goes along the way, and a source that fails costs its own photographs.  *)
(* The order of the strip is total, so every rank in it is taken.          *)
(***************************************************************************)
EXTENDS Upstream, Sequences, FiniteSetTheorems, SequenceTheorems, WellFoundedInduction,
        TLAPS

(* A step of the backend is one of each part, or leaves the part alone.    *)
LEMMA OthersLeaveIt ==
    [UpstreamNext]_upstreamVars => /\ [Next]_vars
                                   /\ Place!Next \/ UNCHANGED placeVars
                                   /\ Calls!Next \/ UNCHANGED callsVars
                                   /\ Search!Next \/ UNCHANGED searchVars
                                   /\ Corridor!Next \/ UNCHANGED corridorVars
                                   /\ Strip!Next \/ UNCHANGED stripVars
BY DEF UpstreamNext, upstreamVars, ProbesStep, CallsStep, SearchStep, CorridorStep, StripStep,
       PlaceStep

-----------------------------------------------------------------------------
(* The probes.  A verdict's date is a lower bound of when it was told,     *)
(* first in the probe, which reads the clock before it is told, then in    *)
(* the memory, which keeps the probe's reading.                            *)
Past ==
    /\ cached.at <= now /\ served.at <= now
    /\ \A v \in Says : told[v] <= now
    /\ \A c \in Callers : probe[c].began <= now

ToldSinceItsDate ==
    /\ cached # Empty => told[cached.verdict] >= cached.at
    /\ \A c \in Callers : probe[c].step = "told" => told[probe[c].verdict] >= probe[c].began

ProbesInv == TypeOK /\ Past /\ ToldSinceItsDate /\ VerdictIsFresh

LEMMA ProbesInit == Init => ProbesInv
  BY ProbesAssumption, SMT
  DEF Init, ProbesInv, TypeOK, Past, ToldSinceItsDate, VerdictIsFresh, Empty, Idle, Nobody,
      Never, Times, Says

LEMMA ProbesAsk ==
  ASSUME ProbesInv, NEW c \in Callers, Ask(c)
  PROVE  ProbesInv'
<1> USE ProbesAssumption DEF Ask, ProbesInv, Times, Says, Never
<1>1. CASE SelfHosted /\ AskCached
  <2>1. told[cached.verdict] >= cached.at /\ cached.at \in Times /\ now - cached.at < Ttl
    BY <1>1 DEF AskCached, Young, ToldSinceItsDate, TypeOK
  <2>2. served' = [verdict |-> cached.verdict, at |-> now, from |-> "cache"]
    BY <1>1 DEF AskCached, Serve
  <2>3. UNCHANGED <<now, router, cached, told, probe>>
    BY <1>1 DEF AskCached
  <2> QED  BY <2>1, <2>2, <2>3 DEF TypeOK, Past, ToldSinceItsDate, VerdictIsFresh
<1>2. CASE SelfHosted /\ AskRouter(c)
  <2>1. /\ probe' = [probe EXCEPT ![c] = [step |-> "asking", began |-> now, verdict |-> Unknown]]
        /\ UNCHANGED <<now, router, cached, told, served>>
    BY <1>2 DEF AskRouter
  <2> QED  BY <2>1 DEF TypeOK, Past, ToldSinceItsDate, VerdictIsFresh
<1>3. CASE ~SelfHosted
  <2>1. /\ served' = [verdict |-> Unknown, at |-> now, from |-> "not_probed"]
        /\ UNCHANGED <<now, router, cached, told, probe>>
    BY <1>3 DEF Serve
  <2> QED  BY <2>1 DEF TypeOK, Past, ToldSinceItsDate, VerdictIsFresh
<1> QED  BY <1>1, <1>2, <1>3

LEMMA ProbesHear ==
  ASSUME ProbesInv, NEW c \in Callers, Hear(c)
  PROVE  ProbesInv'
<1> USE ProbesAssumption DEF ProbesInv, Times, Says, Never
<1>1. PICK verdict \in {router, Unknown} :
          /\ probe' = [probe EXCEPT ![c].step = "told", ![c].verdict = verdict]
          /\ told' = [told EXCEPT ![verdict] = now]
  BY DEF Hear
<1>2. probe[c].step = "asking" /\ UNCHANGED <<now, router, cached, served>>
  BY DEF Hear
<1>3. verdict \in Says
  BY DEF TypeOK
<1>4. \A v \in Says : told'[v] >= told[v] /\ told'[v] <= now /\ told'[v] \in Times \cup {Never}
  BY <1>1, <1>3 DEF TypeOK, Past
<1>5. TypeOK'
  BY <1>1, <1>2, <1>3 DEF TypeOK
<1>6. Past'
  BY <1>1, <1>2, <1>3, <1>4 DEF TypeOK, Past
<1>7. ToldSinceItsDate'
  <2>1. cached # Empty => told'[cached.verdict] >= cached.at
    BY <1>4, <1>2 DEF TypeOK, ToldSinceItsDate
  <2>2. ASSUME NEW d \in Callers, probe'[d].step = "told"
        PROVE  told'[probe'[d].verdict] >= probe'[d].began
    <3>1. CASE d = c
      BY <3>1, <1>1, <1>3 DEF TypeOK, Past
    <3>2. CASE d # c
      BY <2>2, <3>2, <1>1, <1>4 DEF TypeOK, ToldSinceItsDate
    <3> QED  BY <3>1, <3>2
  <2> QED  BY <2>1, <2>2, <1>2 DEF ToldSinceItsDate, Empty
<1>8. VerdictIsFresh'
  BY <1>2, <1>4 DEF TypeOK, VerdictIsFresh
<1> QED  BY <1>5, <1>6, <1>7, <1>8

LEMMA ProbesStore ==
  ASSUME ProbesInv, NEW c \in Callers, Store(c)
  PROVE  ProbesInv'
<1> USE ProbesAssumption DEF ProbesInv, Times, Says, Never
<1>1. /\ probe[c].step = "told"
      /\ cached' = [verdict |-> probe[c].verdict, at |-> probe[c].began]
      /\ served' = [verdict |-> probe[c].verdict, at |-> now, from |-> "router"]
      /\ probe' = [probe EXCEPT ![c] = Idle]
      /\ UNCHANGED <<now, router, told>>
  BY DEF Store, Kept, Serve
<1>2. TypeOK'
  BY <1>1 DEF TypeOK, Idle
<1>3. Past'
  BY <1>1 DEF TypeOK, Past, Idle
<1>4. ToldSinceItsDate'
  BY <1>1 DEF TypeOK, ToldSinceItsDate, Idle
<1>5. VerdictIsFresh'
  BY <1>1 DEF VerdictIsFresh
<1> QED  BY <1>2, <1>3, <1>4, <1>5

LEMMA ProbesRest ==
  ASSUME ProbesInv,
         \/ \E c \in Callers : Cancel(c)
         \/ \E v \in Says : Change(v)
         \/ Tick
         \/ UNCHANGED vars
  PROVE  ProbesInv'
<1> USE ProbesAssumption DEF ProbesInv, Times, Says, Never
<1>1. ASSUME NEW c \in Callers, Cancel(c)
      PROVE  ProbesInv'
  BY <1>1 DEF Cancel, TypeOK, Past, ToldSinceItsDate, VerdictIsFresh, Idle
<1>2. ASSUME NEW v \in Says, Change(v)
      PROVE  ProbesInv'
  BY <1>2 DEF Change, TypeOK, Past, ToldSinceItsDate, VerdictIsFresh, Empty
<1>3. CASE Tick
  BY <1>3 DEF Tick, TypeOK, Past, ToldSinceItsDate, VerdictIsFresh, Empty
<1>4. CASE UNCHANGED vars
  BY <1>4 DEF vars, TypeOK, Past, ToldSinceItsDate, VerdictIsFresh, Empty
<1> QED  BY <1>1, <1>2, <1>3, <1>4

LEMMA ProbesHolds == Spec => []ProbesInv
<1>1. ProbesInv /\ [Next]_vars => ProbesInv'
  BY ProbesAsk, ProbesHear, ProbesStore, ProbesRest DEF Next
<1> QED  BY ProbesInit, <1>1, PTL DEF Spec

(* The backend probes as Probes does, whatever else it does.               *)
LEMMA UpstreamProbes == UpstreamSpec => Spec
BY OthersLeaveIt, PTL DEF UpstreamSpec, UpstreamInit, Spec

(* Every variable of a cached probe keeps its type.                        *)
THEOREM ProbesTypeCorrect == UpstreamSpec => []TypeOK
<1>1. ProbesInv => TypeOK BY DEF ProbesInv
<1> QED BY <1>1, UpstreamProbes, ProbesHolds, PTL

(* check_routing and routable_extent: for any time to live and any number  *)
(* of overlapping, failing and cancelled probes, a verdict served from     *)
(* memory was told to a probe less than its time to live before.           *)
THEOREM ServedFromMemoryIsFresh == UpstreamSpec => []VerdictIsFresh
<1>1. ProbesInv => VerdictIsFresh BY DEF ProbesInv
<1> QED BY <1>1, UpstreamProbes, ProbesHolds, PTL

-----------------------------------------------------------------------------
(* The place search: the requests let through and not yet looked up.       *)
Looking == {c \in Clients : request[c].at = "looking"}

(* The bucket is a number of tokens, and what counts is a number.          *)
Counts ==
    /\ placeNow \in Nat /\ searches \in Nat
    /\ tokens \in 0..Capacity
    /\ request = [c \in Clients |-> request[c]]

Ledger == searches + tokens + Cardinality(Looking) <= Capacity + Rate * placeNow
PlacesInv == Counts /\ Ledger

-----------------------------------------------------------------------------
(* A bucket filled with what it cannot hold is full.                       *)
LEMMA FullerFits ==
    ASSUME Capacity \in Nat, NEW n \in Nat
    PROVE  Place!Fuller(n) \in 0..Capacity /\ Place!Fuller(n) <= n
BY DEF Place!Fuller

(* The requests with a token in hand are a finite set.                     *)
LEMMA LookingFinite ==
    ASSUME IsFiniteSet(Clients)
    PROVE  IsFiniteSet(Looking) /\ Cardinality(Looking) \in Nat
<1>1. Looking \subseteq Clients BY DEF Looking
<1> QED BY <1>1, FS_Subset, FS_CardinalityType

(* A request that is let through joins them.                               *)
LEMMA Enters ==
    ASSUME IsFiniteSet(Clients), NEW c \in Clients, NEW place, Counts,
           Place!Goto(c, place), request[c].at # "looking", place.at = "looking"
    PROVE  Cardinality(Looking') = Cardinality(Looking) + 1
<1>1. Looking' = Looking \cup {c} BY DEF Place!Goto, Looking, Counts
<1>2. c \notin Looking BY DEF Looking
<1> QED BY <1>1, <1>2, LookingFinite, FS_AddElement

(* One that is answered, or goes on to search, leaves them.                *)
LEMMA Leaves ==
    ASSUME IsFiniteSet(Clients), NEW c \in Clients, NEW place, Counts,
           Place!Goto(c, place), request[c].at = "looking", place.at # "looking"
    PROVE  Cardinality(Looking') = Cardinality(Looking) - 1
<1>1. Looking' = Looking \ {c} BY DEF Place!Goto, Looking, Counts
<1>2. c \in Looking BY DEF Looking
<1> QED BY <1>1, <1>2, LookingFinite, FS_RemoveElement

(* Any other move of a request leaves them as they are.                    *)
LEMMA Stays ==
    ASSUME NEW c \in Clients, NEW place, Counts,
           Place!Goto(c, place), request[c].at # "looking", place.at # "looking"
    PROVE  Looking' = Looking
BY DEF Place!Goto, Looking, Counts

LEMMA GotoCounts ==
    ASSUME NEW c \in Clients, NEW place, Counts, Place!Goto(c, place)
    PROVE  (request = [d \in Clients |-> request[d]])'
BY DEF Place!Goto, Counts

-----------------------------------------------------------------------------
(* Each step keeps the ledger.                                             *)
LEMMA PlacesInvariant ==
    ASSUME IsFiniteSet(Clients), Capacity \in Nat, Rate \in Nat
    PROVE  UpstreamSpec => []PlacesInv
<1>1. UpstreamInit => PlacesInv
  <2> SUFFICES ASSUME Place!Init PROVE PlacesInv BY DEF UpstreamInit
  <2>1. Counts BY DEF Place!Init, Counts
  <2>2. Looking = {} BY DEF Place!Init, Looking, Place!Idle
  <2>3. Cardinality(Looking) = 0 BY <2>2, FS_EmptySet
  <2>4. Ledger BY <2>3 DEF Place!Init, Ledger
  <2> QED BY <2>1, <2>4 DEF PlacesInv
<1>2. PlacesInv /\ [UpstreamNext]_upstreamVars => PlacesInv'
  <2> SUFFICES ASSUME PlacesInv, Place!Next \/ UNCHANGED placeVars PROVE PlacesInv'
    BY OthersLeaveIt
  <2>0. Counts /\ Ledger BY DEF PlacesInv
  <2>f. Cardinality(Looking) \in Nat BY LookingFinite
  <2>r. Rate * placeNow \in Nat BY <2>0 DEF Counts
  <2>1. ASSUME NEW c \in Clients, NEW n \in Names, Place!Ask(c, n) PROVE PlacesInv'
    <3>1. CASE tokens > 0 /\ tokens' = tokens - 1 /\ Place!Goto(c, [at |-> "looking", name |-> n])
      <4>1. Cardinality(Looking') = Cardinality(Looking) + 1
        BY <2>0, <2>1, <3>1, Enters DEF Place!Ask
      <4>2. Counts' BY <2>0, <2>1, <3>1, GotoCounts DEF Place!Ask, Counts
      <4>3. Ledger' BY <2>0, <2>f, <2>r, <2>1, <3>1, <4>1 DEF Place!Ask, Ledger, Counts
      <4> QED BY <4>2, <4>3 DEF PlacesInv
    <3>2. CASE tokens' = tokens /\ request' = request
      <4>1. Looking' = Looking BY <3>2 DEF Looking
      <4> QED BY <2>0, <2>1, <3>2, <4>1 DEF Place!Ask, PlacesInv, Counts, Ledger
    <3> QED BY <2>1, <3>1, <3>2 DEF Place!Ask
  <2>2. ASSUME NEW c \in Clients, Place!Hit(c) PROVE PlacesInv'
    <3>1. Cardinality(Looking') = Cardinality(Looking) - 1
      BY <2>0, <2>2, Leaves DEF Place!Hit, Place!Idle
    <3>2. tokens + 1 \in Nat BY <2>0 DEF Counts
    <3>3. tokens' \in 0..Capacity /\ tokens' <= tokens + 1
      BY <2>2, <3>2, FullerFits DEF Place!Hit
    <3>4. Counts' BY <2>0, <2>2, <3>3, GotoCounts DEF Place!Hit, Counts
    <3>5. Ledger' BY <2>0, <2>f, <2>r, <2>2, <3>1, <3>3 DEF Place!Hit, Ledger, Counts
    <3> QED BY <3>4, <3>5 DEF PlacesInv
  <2>3. ASSUME NEW c \in Clients, Place!Miss(c) PROVE PlacesInv'
    <3>1. PICK place :
             /\ Place!Goto(c, place)
             /\ place.at # "looking"
             /\ searches' \in {searches, searches + 1}
      <4>1. CASE /\ searches' = searches + 1
                 /\ Place!Goto(c, [at |-> "searching", name |-> request[c].name])
        BY <4>1
      <4>2. CASE searches' = searches /\ Place!Goto(c, Place!Idle)
        BY <4>2 DEF Place!Idle
      <4> QED BY <2>3, <4>1, <4>2 DEF Place!Miss
    <3>2. Cardinality(Looking') = Cardinality(Looking) - 1
      BY <2>0, <2>3, <3>1, Leaves DEF Place!Miss
    <3>3. Counts' BY <2>0, <2>3, <3>1, GotoCounts DEF Place!Miss, Counts
    <3>4. Ledger' BY <2>0, <2>f, <2>r, <2>3, <3>1, <3>2 DEF Place!Miss, Ledger, Counts
    <3> QED BY <3>3, <3>4 DEF PlacesInv
  <2>4. ASSUME NEW c \in Clients, Place!Failed(c) PROVE PlacesInv'
    <3>1. Looking' = Looking BY <2>0, <2>4, Stays DEF Place!Failed, Place!Idle
    <3>2. Counts' BY <2>0, <2>4, GotoCounts DEF Place!Failed, Counts
    <3> QED BY <2>0, <2>4, <3>1, <3>2 DEF Place!Failed, PlacesInv, Ledger
  <2>5. ASSUME NEW c \in Clients, Place!Found(c) PROVE PlacesInv'
    <3>1. PICK outcome \in Place!Outcomes :
             Place!Goto(c, [at |-> "keeping", name |-> request[c].name, outcome |-> outcome])
      BY <2>5 DEF Place!Found
    <3>2. Looking' = Looking BY <2>0, <2>5, <3>1, Stays DEF Place!Found
    <3>3. Counts' BY <2>0, <2>5, <3>1, GotoCounts DEF Place!Found, Counts
    <3> QED BY <2>0, <2>5, <3>2, <3>3 DEF Place!Found, PlacesInv, Ledger
  <2>6. ASSUME NEW c \in Clients, Place!Keep(c) PROVE PlacesInv'
    <3>1. Looking' = Looking BY <2>0, <2>6, Stays DEF Place!Keep, Place!Idle
    <3>2. Counts' BY <2>0, <2>6, GotoCounts DEF Place!Keep, Counts
    <3> QED BY <2>0, <2>6, <3>1, <3>2 DEF Place!Keep, PlacesInv, Ledger
  <2>7. CASE Place!Tick
    <3>1. Looking' = Looking BY <2>7 DEF Place!Tick, Looking
    <3>2. tokens + Rate \in Nat BY <2>0 DEF Counts
    <3>3. tokens' \in 0..Capacity /\ tokens' <= tokens + Rate
      BY <2>7, <3>2, FullerFits DEF Place!Tick
    <3>4. Counts' BY <2>0, <2>7, <3>3 DEF Place!Tick, Counts
    <3>5. placeNow' = placeNow + 1 /\ searches' = searches BY <2>7 DEF Place!Tick
    <3>6. Rate * (placeNow + 1) = Rate * placeNow + Rate BY <2>0 DEF Counts
    <3>7. Ledger' BY <2>0, <2>f, <2>r, <3>1, <3>3, <3>5, <3>6 DEF Ledger, Counts
    <3> QED BY <3>4, <3>7 DEF PlacesInv
  <2>8. CASE UNCHANGED placeVars
    BY <2>0, <2>8 DEF placeVars, PlacesInv, Counts, Ledger, Looking
  <2> QED BY <2>1, <2>2, <2>3, <2>4, <2>5, <2>6, <2>7, <2>8 DEF Place!Next
<1> QED BY <1>1, <1>2, PTL DEF UpstreamSpec

(* geocode() never puts a search to Nominatim that the client's bucket did *)
(* not pay for, however hits, misses, failures and refunds interleave.     *)
THEOREM SearchesArePaidFor ==
    ASSUME IsFiniteSet(Clients), Capacity \in Nat, Rate \in Nat
    PROVE  UpstreamSpec => []EverySearchIsPaidFor
<1>1. Place!Cardinality(Looking) = Cardinality(Looking)
  BY DEF Place!Cardinality, Cardinality
<1>2. PlacesInv => EverySearchIsPaidFor
  BY <1>1 DEF PlacesInv, Ledger, Looking, EverySearchIsPaidFor, Place!EverySearchIsPaidFor
<1> QED BY <1>2, PlacesInvariant, PTL

-----------------------------------------------------------------------------
(* The budget of live calls, for one backend.                              *)
Backend == CHOOSE p : Procs = {p}
CallsAssumption ==
    /\ \E p : Procs = {p}
    /\ Cap \in Nat /\ MaxDay \in Nat /\ MaxCrash \in Nat /\ Width \in Nat
    /\ Costs \subseteq Nat /\ Sigs # {}

(* Nobody reserves while a fetch is between its steps without an await.    *)
Held(t) == at[t] \in {"reserved", "saved", "writing"}
OneAtATime == \A t, u \in Calls!Tasks : Held(t) /\ Held(u) => t = u

(* No day after the file's has seen a call, and what the file's own day    *)
(* has seen, the file says; the backend's counter is never behind either.  *)
OnDisk ==
    /\ file.day <= today
    /\ \A d \in Calls!Days : d > file.day => granted[d] = 0
    /\ file.day \in Calls!Days => granted[file.day] <= file.count
InMemory ==
    Backend \in up =>
        /\ file.day <= day[Backend] /\ day[Backend] <= today
        /\ granted[day[Backend]] <= used[Backend]
Reserved ==
    \A t \in Calls!Tasks :
        /\ at[t] \in {"reserved", "saved"} => granted[day[Backend]] + cost[t] <= used[Backend]
        /\ at[t] = "saved" => tmp = [day |-> day[Backend], count |-> used[Backend]]

CallsInv == Calls!TypeOK /\ Calls!CapHolds /\ OneAtATime /\ OnDisk /\ InMemory /\ Reserved

LEMMA TheBackend ==
    ASSUME CallsAssumption
    PROVE  Procs = {Backend} /\ \A t \in Calls!Tasks : t[1] = Backend
<1>1. Procs = {Backend} BY DEF CallsAssumption, Backend
<1> QED BY <1>1 DEF Calls!Tasks

(* What memory holds once the day has rolled is not behind what was spent. *)
LEMMA Rolled ==
    ASSUME CallsAssumption, CallsInv, Backend \in up
    PROVE  /\ file.day <= today /\ granted[today] <= Calls!RolledUsed(Backend)
           /\ granted[today] \in Nat /\ Calls!RolledUsed(Backend) \in 0..Cap
<1>1. Procs = {Backend} /\ Cap \in Nat /\ MaxDay \in Nat BY TheBackend DEF CallsAssumption
<1>2. Calls!TypeOK /\ OnDisk /\ InMemory BY DEF CallsInv
<1>3. CASE day[Backend] = today
  BY <1>1, <1>2, <1>3 DEF Calls!RolledUsed, Calls!TypeOK, OnDisk, InMemory
<1>4. CASE day[Backend] # today
  <2>1. granted[today] = 0
    BY <1>1, <1>2, <1>4 DEF Calls!TypeOK, Calls!Days, Calls!Counts, OnDisk, InMemory
  <2> QED BY <1>1, <1>2, <1>4, <2>1 DEF Calls!RolledUsed, Calls!TypeOK, OnDisk
<1> QED BY <1>3, <1>4

(* Every step of the budget keeps what is said of it.                      *)
LEMMA CallsStepKeeps ==
    ASSUME CallsAssumption, CallsInv, Calls!Next
    PROVE  CallsInv'
<1>0. Procs = {Backend} /\ \A t \in Calls!Tasks : t[1] = Backend BY TheBackend
<1>a. Cap \in Nat /\ MaxDay \in Nat /\ MaxCrash \in Nat /\ Costs \subseteq Nat
  BY DEF CallsAssumption
<1> USE DEF CallsInv
<1>1. ASSUME NEW p \in Procs, Calls!Begin(p) PROVE CallsInv'
  <2>1. Calls!TypeOK'
    BY <1>0, <1>a, <1>1 DEF Calls!Begin, Calls!Loaded, Calls!budget, Calls!fetches,
       Calls!TypeOK, Calls!Days, Calls!Counts
  <2>2. Calls!CapHolds'
    BY <1>0, <1>a, <1>1 DEF Calls!Begin, Calls!Loaded, Calls!budget, Calls!fetches,
       Calls!TypeOK, Calls!Days, Calls!Counts, Calls!CapHolds
  <2>3. OneAtATime'
    BY <1>0, <1>a, <1>1 DEF Calls!Begin, Calls!Loaded, Calls!budget, Calls!fetches,
       Calls!TypeOK, Calls!Days, Calls!Counts, OneAtATime, Held
  <2>4. OnDisk'
    BY <1>0, <1>a, <1>1 DEF Calls!Begin, Calls!Loaded, Calls!budget, Calls!fetches,
       Calls!TypeOK, Calls!Days, Calls!Counts, OnDisk
  <2>5. InMemory'
    <3>1. day'[Backend] = today /\ used'[Backend] = Calls!Loaded(today)
      BY <1>0, <1>1 DEF Calls!Begin, Calls!TypeOK
    <3>2. granted[today] <= Calls!Loaded(today)
      <4>1. CASE file.day = today
        BY <4>1 DEF Calls!Loaded, OnDisk, Calls!TypeOK
      <4>2. CASE file.day # today
        <5>1. today \in Calls!Days /\ today > file.day
          BY <1>a, <4>2 DEF OnDisk, Calls!TypeOK, Calls!Days, Calls!Counts
        <5>2. granted[today] = 0 BY <5>1 DEF OnDisk
        <5> QED BY <4>2, <5>2 DEF Calls!Loaded
      <4> QED BY <4>1, <4>2
    <3> QED BY <1>1, <3>1, <3>2 DEF Calls!Begin, Calls!budget, OnDisk, InMemory,
       Calls!TypeOK, Calls!Days
  <2>6. Reserved'
    BY <1>0, <1>a, <1>1 DEF Calls!Begin, Calls!Loaded, Calls!budget, Calls!fetches,
       Calls!TypeOK, Calls!Days, Calls!Counts, Reserved, InMemory, Held, OneAtATime
  <2> QED BY <2>1, <2>2, <2>3, <2>4, <2>5, <2>6
<1>2. ASSUME NEW p \in Procs, Calls!Crash(p) PROVE CallsInv'
  <2>1. Calls!TypeOK'
    BY <1>0, <1>a, <1>2 DEF Calls!Crash, Calls!budget, Calls!fetches, Calls!TypeOK, Calls!Days,
       Calls!Counts
  <2>2. Calls!CapHolds'
    BY <1>0, <1>a, <1>2 DEF Calls!Crash, Calls!budget, Calls!fetches, Calls!TypeOK, Calls!Days,
       Calls!Counts, Calls!CapHolds
  <2>3. OneAtATime'
    BY <1>0, <1>a, <1>2 DEF Calls!Crash, Calls!budget, Calls!fetches, Calls!TypeOK, Calls!Days,
       Calls!Counts, OneAtATime, Held
  <2>4. OnDisk'
    BY <1>0, <1>a, <1>2 DEF Calls!Crash, Calls!budget, Calls!fetches, Calls!TypeOK, Calls!Days,
       Calls!Counts, OnDisk
  <2>5. InMemory'
    BY <1>0, <1>a, <1>2 DEF Calls!Crash, Calls!budget, Calls!fetches, Calls!TypeOK, Calls!Days,
       Calls!Counts, InMemory
  <2>6. Reserved'
    BY <1>0, <1>a, <1>2 DEF Calls!Crash, Calls!budget, Calls!fetches, Calls!TypeOK, Calls!Days,
       Calls!Counts, Reserved, InMemory, Held, OneAtATime
  <2> QED BY <2>1, <2>2, <2>3, <2>4, <2>5, <2>6
<1>3. ASSUME NEW t \in Calls!Tasks, NEW s \in Sigs, NEW c \in Costs, Calls!Reserve(t, s, c)
      PROVE  CallsInv'
  <2>a. Backend \in up /\ file' = file /\ granted' = granted /\ up' = up /\ today' = today
    BY <1>0, <1>3 DEF Calls!Reserve
  <2>b. /\ day'[Backend] = today' /\ file'.day <= day'[Backend] /\ today \in Nat
        /\ granted'[day'[Backend]] <= Calls!RolledUsed(Backend)
        /\ granted'[day'[Backend]] \in Nat /\ Calls!RolledUsed(Backend) \in Nat
    BY <1>0, <1>3, <2>a, Rolled DEF Calls!Reserve, Calls!TypeOK, Calls!Days
  <2>c. used'[Backend] = Calls!RolledUsed(Backend) + c /\ c \in Nat
    BY <1>0, <1>a, <1>3 DEF Calls!Reserve, Calls!TypeOK
  <2>1. Calls!TypeOK'
    BY <1>0, <1>a, <1>3 DEF Calls!Reserve, Calls!Free, Calls!Fits, Calls!RolledUsed,
       Calls!budget, Calls!fetches, Calls!TypeOK, Calls!Days, Calls!Counts
  <2>2. Calls!CapHolds'
    BY <1>0, <1>a, <1>3 DEF Calls!Reserve, Calls!Free, Calls!Fits, Calls!RolledUsed,
       Calls!budget, Calls!fetches, Calls!TypeOK, Calls!Days, Calls!Counts, Calls!CapHolds
  <2>3. OneAtATime'
    BY <1>0, <1>a, <1>3 DEF Calls!Reserve, Calls!Free, Calls!Fits, Calls!RolledUsed,
       Calls!budget, Calls!fetches, Calls!TypeOK, Calls!Days, Calls!Counts, OneAtATime, Held
  <2>4. OnDisk'
    BY <1>0, <1>a, <1>3 DEF Calls!Reserve, Calls!Free, Calls!Fits, Calls!RolledUsed,
       Calls!budget, Calls!fetches, Calls!TypeOK, Calls!Days, Calls!Counts, OnDisk
  <2>5. InMemory'
    BY <2>a, <2>b, <2>c DEF InMemory
  <2>6. Reserved'
    <3>1. granted'[day'[Backend]] + c <= used'[Backend] BY <2>a, <2>b, <2>c, <1>a DEF Calls!TypeOK
    <3>2. \A u \in Calls!Tasks : at'[u] \in {"reserved", "saved"} => u = t /\ at'[u] = "reserved"
      BY <1>0, <1>3 DEF Calls!Reserve, Calls!Free, Calls!TypeOK
    <3>3. cost'[t] = c BY <1>3 DEF Calls!Reserve, Calls!TypeOK
    <3> QED BY <3>1, <3>2, <3>3 DEF Reserved
  <2> QED BY <2>1, <2>2, <2>3, <2>4, <2>5, <2>6
<1>4. ASSUME NEW t \in Calls!Tasks, NEW s \in Sigs, NEW c \in Costs, Calls!Exhausted(t, s, c)
      PROVE  CallsInv'
  <2>a. Backend \in up /\ file' = file /\ granted' = granted /\ up' = up /\ today' = today
    BY <1>0, <1>4 DEF Calls!Exhausted
  <2>b. /\ day'[Backend] = today' /\ file'.day <= day'[Backend] /\ today \in Nat
        /\ granted'[day'[Backend]] <= used'[Backend]
    BY <1>0, <1>4, <2>a, Rolled DEF Calls!Exhausted, Calls!TypeOK, Calls!Days
  <2>1. Calls!TypeOK'
    BY <1>0, <1>a, <1>4 DEF Calls!Exhausted, Calls!Free, Calls!Fits, Calls!RolledUsed,
       Calls!budget, Calls!fetches, Calls!TypeOK, Calls!Days, Calls!Counts
  <2>2. Calls!CapHolds'
    BY <1>0, <1>a, <1>4 DEF Calls!Exhausted, Calls!Free, Calls!Fits, Calls!RolledUsed,
       Calls!budget, Calls!fetches, Calls!TypeOK, Calls!Days, Calls!Counts, Calls!CapHolds
  <2>3. OneAtATime'
    BY <1>0, <1>a, <1>4 DEF Calls!Exhausted, Calls!Free, Calls!Fits, Calls!RolledUsed,
       Calls!budget, Calls!fetches, Calls!TypeOK, Calls!Days, Calls!Counts, OneAtATime, Held
  <2>4. OnDisk'
    BY <1>0, <1>a, <1>4 DEF Calls!Exhausted, Calls!Free, Calls!Fits, Calls!RolledUsed,
       Calls!budget, Calls!fetches, Calls!TypeOK, Calls!Days, Calls!Counts, OnDisk
  <2>5. InMemory'
    BY <2>a, <2>b DEF InMemory
  <2>6. Reserved'
    BY <1>0, <1>a, <1>4 DEF Calls!Exhausted, Calls!Free, Calls!Fits, Calls!RolledUsed,
       Calls!budget, Calls!fetches, Calls!TypeOK, Calls!Days, Calls!Counts, Reserved, InMemory,
       Held, OneAtATime
  <2> QED BY <2>1, <2>2, <2>3, <2>4, <2>5, <2>6
<1>5. ASSUME NEW t \in Calls!Tasks, Calls!SaveTmp(t) PROVE CallsInv'
  <2>1. Calls!TypeOK'
    <3>1. [day |-> day[t[1]], count |-> used[t[1]]] \in Calls!Counts
      BY <1>0 DEF Calls!TypeOK, Calls!Counts
    <3>2. tmp' \in Calls!Counts BY <1>5, <3>1 DEF Calls!SaveTmp, Calls!TypeOK
    <3>3. at' \in [Calls!Tasks -> {"idle", "reserved", "saved", "calling", "writing"}]
      BY <1>5 DEF Calls!SaveTmp, Calls!TypeOK
    <3>4. \A u \in Calls!Tasks : at'[u] # "idle" => u[1] \in up'
      BY <1>5 DEF Calls!SaveTmp, Calls!TypeOK
    <3> QED BY <1>5, <3>2, <3>3, <3>4 DEF Calls!SaveTmp, Calls!fetches, Calls!TypeOK
  <2>2. Calls!CapHolds'
    BY <1>0, <1>a, <1>5 DEF Calls!SaveTmp, Calls!fetches, Calls!TypeOK, Calls!Days,
       Calls!Counts, Calls!CapHolds
  <2>3. OneAtATime'
    BY <1>0, <1>a, <1>5 DEF Calls!SaveTmp, Calls!fetches, Calls!TypeOK, Calls!Days,
       Calls!Counts, OneAtATime, Held
  <2>4. OnDisk'
    BY <1>0, <1>a, <1>5 DEF Calls!SaveTmp, Calls!fetches, Calls!TypeOK, Calls!Days,
       Calls!Counts, OnDisk
  <2>5. InMemory'
    BY <1>0, <1>a, <1>5 DEF Calls!SaveTmp, Calls!fetches, Calls!TypeOK, Calls!Days,
       Calls!Counts, InMemory
  <2>6. Reserved'
    BY <1>0, <1>a, <1>5 DEF Calls!SaveTmp, Calls!fetches, Calls!TypeOK, Calls!Days,
       Calls!Counts, Reserved, InMemory, Held, OneAtATime
  <2> QED BY <2>1, <2>2, <2>3, <2>4, <2>5, <2>6
<1>6. ASSUME NEW t \in Calls!Tasks, Calls!SaveRename(t) PROVE CallsInv'
  <2> DEFINE today0 == day[Backend]
             spent == granted[today0] + cost[t]
  <2>1. /\ t[1] = Backend /\ Backend \in up /\ today0 \in Calls!Days
        /\ spent \in Nat /\ spent <= used[Backend] /\ used[Backend] \in 0..Cap
        /\ tmp = [day |-> today0, count |-> used[Backend]]
        /\ file.day <= today0 /\ today0 <= today
    <3>1. at[t] = "saved" /\ t[1] = Backend /\ Backend \in Procs
      BY <1>0, <1>6 DEF Calls!SaveRename
    <3>2. Backend \in up /\ today0 \in Calls!Days /\ used[Backend] \in 0..Cap
      BY <3>1 DEF Calls!TypeOK
    <3>3. granted[today0] \in Nat /\ cost[t] \in Nat
      <4>1. granted[today0] \in Nat BY <3>2 DEF Calls!TypeOK
      <4>2. cost[t] \in Costs \cup {0} BY <1>6 DEF Calls!TypeOK
      <4>3. cost[t] \in Nat
        <5>1. CASE cost[t] \in Costs BY <1>a, <5>1
        <5>2. CASE cost[t] = 0 BY <5>2
        <5> QED BY <4>2, <5>1, <5>2
      <4> QED BY <4>1, <4>3
    <3>4. spent <= used[Backend] /\ tmp = [day |-> today0, count |-> used[Backend]]
      BY <3>1 DEF Reserved
    <3>5. file.day <= today0 /\ today0 <= today BY <3>2 DEF InMemory
    <3> QED BY <3>1, <3>2, <3>3, <3>4, <3>5
  <2>2. \A u \in Calls!Tasks : at'[u] \notin {"reserved", "saved"}
    BY <1>6 DEF Calls!SaveRename, OneAtATime, Held, Calls!TypeOK
  <2>3. at' \in [Calls!Tasks -> {"idle", "reserved", "saved", "calling", "writing"}]
    BY <1>6 DEF Calls!SaveRename, Calls!TypeOK
  <2>4. OneAtATime' BY <1>6 DEF Calls!SaveRename, OneAtATime, Held, Calls!TypeOK
  <2>5. Reserved' BY <2>2 DEF Reserved
  <2>6. \A u \in Calls!Tasks : at'[u] # "idle" => u[1] \in up'
    BY <1>6, <2>1 DEF Calls!SaveRename, Calls!TypeOK
  <2>7. UNCHANGED <<today, up, day, used, sig, cost, fixture, crashes>>
    BY <1>6 DEF Calls!SaveRename, Calls!fetches
  <2>8. CASE file' = tmp /\ tmp' = Calls!Absent /\ Calls!Allow(t)
    <3>1. granted' = [granted EXCEPT ![today0] = spent]
      BY <2>1, <2>8 DEF Calls!Allow
    <3>2. \A d \in Calls!Days : granted'[d] = IF d = today0 THEN spent ELSE granted[d]
      BY <3>1 DEF Calls!TypeOK
    <3>3. file' = [day |-> today0, count |-> used[Backend]] BY <2>1, <2>8
    <3>4. Calls!TypeOK'
      <4>1. file' \in Calls!Counts /\ tmp' \in Calls!Counts
        BY <1>a, <2>1, <2>8, <3>3 DEF Calls!Counts, Calls!Absent
      <4>2. granted' \in [Calls!Days -> Nat] BY <2>1, <3>1 DEF Calls!TypeOK
      <4> QED BY <2>3, <2>6, <2>7, <4>1, <4>2 DEF Calls!TypeOK
    <3>5. Calls!CapHolds' BY <1>a, <2>1, <3>2 DEF Calls!CapHolds
    <3>6. OnDisk'
      <4>1. file'.day = today0 /\ file'.count = used[Backend] BY <3>3
      <4>2. ASSUME NEW d \in Calls!Days, d > today0 PROVE granted'[d] = 0
        <5>1. d > file.day /\ d # today0
          BY <1>a, <2>1, <4>2 DEF Calls!TypeOK, Calls!Days, Calls!Counts
        <5> QED BY <3>2, <5>1 DEF OnDisk
      <4>3. granted'[today0] = spent BY <2>1, <3>2
      <4> QED BY <2>1, <2>7, <4>1, <4>2, <4>3 DEF OnDisk
    <3>7. InMemory'
      <4>1. file'.day = today0 /\ granted'[today0] = spent BY <2>1, <3>2, <3>3
      <4>2. today0 <= today0 BY <1>a, <2>1 DEF Calls!Days
      <4> QED BY <2>1, <2>7, <4>1, <4>2 DEF InMemory
    <3> QED BY <2>4, <2>5, <3>4, <3>5, <3>6, <3>7
  <2>9. CASE UNCHANGED <<file, tmp, granted>>
    BY <2>3, <2>4, <2>5, <2>6, <2>7, <2>9 DEF Calls!TypeOK, Calls!CapHolds, OnDisk, InMemory
  <2> QED BY <1>6, <2>8, <2>9 DEF Calls!SaveRename
<1>7. ASSUME NEW t \in Calls!Tasks, Calls!AnswerBad(t) PROVE CallsInv'
  <2>1. Calls!TypeOK'
    BY <1>0, <1>a, <1>7 DEF Calls!AnswerBad, Calls!Free, Calls!budget, Calls!fetches,
       Calls!TypeOK, Calls!Days, Calls!Counts
  <2>2. Calls!CapHolds'
    BY <1>0, <1>a, <1>7 DEF Calls!AnswerBad, Calls!Free, Calls!budget, Calls!fetches,
       Calls!TypeOK, Calls!Days, Calls!Counts, Calls!CapHolds
  <2>3. OneAtATime'
    BY <1>0, <1>a, <1>7 DEF Calls!AnswerBad, Calls!Free, Calls!budget, Calls!fetches,
       Calls!TypeOK, Calls!Days, Calls!Counts, OneAtATime, Held
  <2>4. OnDisk'
    BY <1>0, <1>a, <1>7 DEF Calls!AnswerBad, Calls!Free, Calls!budget, Calls!fetches,
       Calls!TypeOK, Calls!Days, Calls!Counts, OnDisk
  <2>5. InMemory'
    BY <1>0, <1>a, <1>7 DEF Calls!AnswerBad, Calls!Free, Calls!budget, Calls!fetches,
       Calls!TypeOK, Calls!Days, Calls!Counts, InMemory
  <2>6. Reserved'
    BY <1>0, <1>a, <1>7 DEF Calls!AnswerBad, Calls!Free, Calls!budget, Calls!fetches,
       Calls!TypeOK, Calls!Days, Calls!Counts, Reserved, InMemory, Held, OneAtATime
  <2> QED BY <2>1, <2>2, <2>3, <2>4, <2>5, <2>6
<1>8. ASSUME NEW t \in Calls!Tasks, Calls!AnswerGood(t) PROVE CallsInv'
  <2>1. Calls!TypeOK'
    BY <1>0, <1>a, <1>8 DEF Calls!AnswerGood, Calls!Free, Calls!budget, Calls!fetches,
       Calls!TypeOK, Calls!Days, Calls!Counts
  <2>2. Calls!CapHolds'
    BY <1>0, <1>a, <1>8 DEF Calls!AnswerGood, Calls!Free, Calls!budget, Calls!fetches,
       Calls!TypeOK, Calls!Days, Calls!Counts, Calls!CapHolds
  <2>3. OneAtATime'
    BY <1>0, <1>a, <1>8 DEF Calls!AnswerGood, Calls!Free, Calls!budget, Calls!fetches,
       Calls!TypeOK, Calls!Days, Calls!Counts, OneAtATime, Held
  <2>4. OnDisk'
    BY <1>0, <1>a, <1>8 DEF Calls!AnswerGood, Calls!Free, Calls!budget, Calls!fetches,
       Calls!TypeOK, Calls!Days, Calls!Counts, OnDisk
  <2>5. InMemory'
    BY <1>0, <1>a, <1>8 DEF Calls!AnswerGood, Calls!Free, Calls!budget, Calls!fetches,
       Calls!TypeOK, Calls!Days, Calls!Counts, InMemory
  <2>6. Reserved'
    BY <1>0, <1>a, <1>8 DEF Calls!AnswerGood, Calls!Free, Calls!budget, Calls!fetches,
       Calls!TypeOK, Calls!Days, Calls!Counts, Reserved, InMemory, Held, OneAtATime
  <2> QED BY <2>1, <2>2, <2>3, <2>4, <2>5, <2>6
<1>9. ASSUME NEW t \in Calls!Tasks, Calls!Written(t) PROVE CallsInv'
  <2>1. Calls!TypeOK'
    BY <1>0, <1>a, <1>9 DEF Calls!Written, Calls!Free, Calls!budget, Calls!fetches,
       Calls!TypeOK, Calls!Days, Calls!Counts
  <2>2. Calls!CapHolds'
    BY <1>0, <1>a, <1>9 DEF Calls!Written, Calls!Free, Calls!budget, Calls!fetches,
       Calls!TypeOK, Calls!Days, Calls!Counts, Calls!CapHolds
  <2>3. OneAtATime'
    BY <1>0, <1>a, <1>9 DEF Calls!Written, Calls!Free, Calls!budget, Calls!fetches,
       Calls!TypeOK, Calls!Days, Calls!Counts, OneAtATime, Held
  <2>4. OnDisk'
    BY <1>0, <1>a, <1>9 DEF Calls!Written, Calls!Free, Calls!budget, Calls!fetches,
       Calls!TypeOK, Calls!Days, Calls!Counts, OnDisk
  <2>5. InMemory'
    BY <1>0, <1>a, <1>9 DEF Calls!Written, Calls!Free, Calls!budget, Calls!fetches,
       Calls!TypeOK, Calls!Days, Calls!Counts, InMemory
  <2>6. Reserved'
    BY <1>0, <1>a, <1>9 DEF Calls!Written, Calls!Free, Calls!budget, Calls!fetches,
       Calls!TypeOK, Calls!Days, Calls!Counts, Reserved, InMemory, Held, OneAtATime
  <2> QED BY <2>1, <2>2, <2>3, <2>4, <2>5, <2>6
<1>10. CASE Calls!Midnight
  <2>1. Calls!TypeOK'
    BY <1>0, <1>a, <1>10 DEF Calls!Midnight, Calls!budget, Calls!fetches, Calls!TypeOK,
       Calls!Days, Calls!Counts
  <2>2. Calls!CapHolds'
    BY <1>0, <1>a, <1>10 DEF Calls!Midnight, Calls!budget, Calls!fetches, Calls!TypeOK,
       Calls!Days, Calls!Counts, Calls!CapHolds
  <2>3. OneAtATime'
    BY <1>0, <1>a, <1>10 DEF Calls!Midnight, Calls!budget, Calls!fetches, Calls!TypeOK,
       Calls!Days, Calls!Counts, OneAtATime, Held
  <2>4. OnDisk'
    BY <1>0, <1>a, <1>10 DEF Calls!Midnight, Calls!budget, Calls!fetches, Calls!TypeOK,
       Calls!Days, Calls!Counts, OnDisk
  <2>5. InMemory'
    BY <1>0, <1>a, <1>10 DEF Calls!Midnight, Calls!budget, Calls!fetches, Calls!TypeOK,
       Calls!Days, Calls!Counts, InMemory
  <2>6. Reserved'
    BY <1>0, <1>a, <1>10 DEF Calls!Midnight, Calls!budget, Calls!fetches, Calls!TypeOK,
       Calls!Days, Calls!Counts, Reserved, InMemory, Held, OneAtATime
  <2> QED BY <2>1, <2>2, <2>3, <2>4, <2>5, <2>6
<1> QED BY <1>1, <1>2, <1>3, <1>4, <1>5, <1>6, <1>7, <1>8, <1>9, <1>10 DEF Calls!Next

(* The budget of one backend, from its first start, through every crash.   *)
LEMMA CallsInvariant ==
    ASSUME CallsAssumption
    PROVE  UpstreamSpec => []CallsInv
<1>1. UpstreamInit => CallsInv
  <2> SUFFICES ASSUME Calls!Init PROVE CallsInv BY DEF UpstreamInit
  <2>0. Procs = {Backend} /\ Cap \in Nat /\ MaxDay \in Nat /\ MaxCrash \in Nat /\ Sigs # {}
    BY TheBackend DEF CallsAssumption
  <2>1. file = [day |-> 0 - 1, count |-> 0] /\ tmp = [day |-> 0 - 1, count |-> 0]
    BY DEF Calls!Init, Calls!Absent
  <2>2. sig \in [Calls!Tasks -> Sigs] BY <2>0 DEF Calls!Init
  <2>3. Calls!TypeOK
    BY <2>0, <2>1, <2>2 DEF Calls!Init, Calls!TypeOK, Calls!Days, Calls!Counts
  <2>4. Calls!CapHolds BY <2>0 DEF Calls!Init, Calls!CapHolds
  <2>5. OneAtATime /\ Reserved BY DEF Calls!Init, OneAtATime, Held, Reserved
  <2>6. OnDisk BY <2>1 DEF Calls!Init, OnDisk, Calls!Days
  <2>7. InMemory BY DEF Calls!Init, InMemory
  <2> QED BY <2>3, <2>4, <2>5, <2>6, <2>7 DEF CallsInv
<1>2. CallsInv /\ [UpstreamNext]_upstreamVars => CallsInv'
  <2> SUFFICES ASSUME CallsInv, Calls!Next \/ UNCHANGED callsVars PROVE CallsInv'
    BY OthersLeaveIt
  <2>1. CASE Calls!Next BY <2>1, CallsStepKeeps
  <2>2. CASE UNCHANGED callsVars
    <3>1. Calls!TypeOK' /\ Calls!CapHolds'
      BY <2>2 DEF callsVars, CallsInv, Calls!TypeOK, Calls!CapHolds
    <3>2. OneAtATime' /\ OnDisk' /\ InMemory' /\ Reserved'
      BY <2>2 DEF callsVars, CallsInv, OneAtATime, Held, OnDisk, InMemory, Reserved
    <3> QED BY <3>1, <3>2 DEF CallsInv
  <2> QED BY <2>1, <2>2
<1> QED BY <1>1, <1>2, PTL DEF UpstreamSpec

(* LiveCallBudget: a backend never makes calls for more than the day's     *)
(* cap, for any cap, any costs and any number of fetches, crashes and      *)
(* midnights, and whatever the disk refuses to write.                      *)
THEOREM CallsStayUnderTheCap ==
    ASSUME CallsAssumption
    PROVE  UpstreamSpec => []CapHolds
<1>1. CallsInv => CapHolds BY DEF CallsInv, CapHolds
<1> QED BY <1>1, CallsInvariant, PTL

-----------------------------------------------------------------------------
(* A set of naturals that is not empty has a least.                        *)
LEMMA LeastOf ==
    ASSUME NEW S \in SUBSET Nat, S # {}
    PROVE  \E n \in S : \A m \in S : n <= m
<1>1. PICK n \in S : \A m \in S : <<m, n>> \notin OpToRel(<, Nat)
  BY NatLessThanWellFounded, WFMin
<1>2. \A m \in S : n <= m
  <2> TAKE m \in S
  <2>1. m \in Nat /\ n \in Nat OBVIOUS
  <2>2. m < n => <<m, n>> \in OpToRel(<, Nat) BY <2>1, Zenon DEF OpToRel
  <2>3. ~(m < n) BY <1>1, <2>2, Zenon
  <2> QED BY <2>1, <2>3
<1> QED BY <1>2

(* Of some candidates there is a first with the most merit.                *)
LEMMA FirstMost ==
    ASSUME NEW most \in Nat, NEW I \in SUBSET (1..most), I # {},
           NEW merit, \A i \in I : merit[i] \in Int
    PROVE  \E i \in I : \A j \in I :
              IF j < i THEN merit[j] < merit[i] ELSE merit[j] <= merit[i]
<1> DEFINE FirstUpTo(n, i) ==
              \A j \in I \cap (1..n) :
                  IF j < i THEN merit[j] < merit[i] ELSE merit[j] <= merit[i]
           Without == {n \in 0..most : /\ I \cap (1..n) # {}
                                       /\ \A i \in I \cap (1..n) : ~FirstUpTo(n, i)}
<1>1. ASSUME Without # {} PROVE FALSE
  <2>1. Without \in SUBSET Nat OBVIOUS
  <2>2. PICK n \in Without : \A m \in Without : n <= m BY <1>1, <2>1, LeastOf
  <2>3. n \in 1..most /\ n - 1 \in 0..most
    <3>1. n \in 0..most /\ I \cap (1..n) # {} BY <2>2
    <3> QED BY <3>1
  <2>4. n - 1 \notin Without BY <2>2, <2>3
  <2>5. CASE n \notin I
    <3>1. I \cap (1..n) = I \cap (1..(n - 1)) BY <2>3, <2>5
    <3>2. I \cap (1..(n - 1)) # {} /\ \A i \in I \cap (1..(n - 1)) : ~FirstUpTo(n - 1, i)
      BY <2>2, <3>1
    <3> QED BY <2>3, <2>4, <3>2
  <2>6. CASE n \in I
    <3>1. CASE I \cap (1..(n - 1)) = {}
      <4>1. n \in I \cap (1..n) /\ FirstUpTo(n, n) BY <2>3, <2>6, <3>1
      <4> QED BY <2>2, <4>1
    <3>2. ASSUME NEW i \in I \cap (1..(n - 1)), FirstUpTo(n - 1, i) PROVE FALSE
      <4>1. CASE merit[n] > merit[i]
        <5>1. \A j \in I \cap (1..n) : j # n => j \in I \cap (1..(n - 1)) /\ j < n BY <2>3
        <5>2. FirstUpTo(n, n)
          <6> SUFFICES ASSUME NEW j \in I \cap (1..n)
                       PROVE  IF j < n THEN merit[j] < merit[n] ELSE merit[j] <= merit[n]
            OBVIOUS
          <6>1. merit[j] \in Int /\ merit[i] \in Int /\ merit[n] \in Int BY <2>6
          <6>2. CASE j = n BY <6>1, <6>2, <2>3
          <6>3. CASE j # n
            <7>1. merit[j] <= merit[i] BY <3>2, <5>1, <6>1, <6>3
            <7> QED BY <4>1, <5>1, <6>1, <6>3, <7>1
          <6> QED BY <6>2, <6>3
        <5>3. n \in I \cap (1..n) BY <2>3, <2>6
        <5> QED BY <2>2, <5>2, <5>3
      <4>2. CASE ~(merit[n] > merit[i])
        <5>1. FirstUpTo(n, i)
          <6> SUFFICES ASSUME NEW j \in I \cap (1..n)
                       PROVE  IF j < i THEN merit[j] < merit[i] ELSE merit[j] <= merit[i]
            OBVIOUS
          <6>1. CASE j = n BY <4>2, <6>1, <2>3, <2>6
          <6>2. CASE j # n
            <7>1. j \in I \cap (1..(n - 1)) BY <2>3, <6>2
            <7> QED BY <3>2, <7>1
          <6> QED BY <6>1, <6>2
        <5>2. i \in I \cap (1..n) BY <2>3
        <5> QED BY <2>2, <5>1, <5>2
      <4> QED BY <4>1, <4>2
    <3>3. I \cap (1..(n - 1)) # {} => \E i \in I \cap (1..(n - 1)) : FirstUpTo(n - 1, i)
      BY <2>3, <2>4
    <3> QED BY <3>1, <3>2, <3>3
  <2> QED BY <2>5, <2>6
<1>2. I \cap (1..most) = I OBVIOUS
<1>3. most \notin Without BY <1>1
<1>4. \E i \in I : FirstUpTo(most, i) BY <1>2, <1>3
<1> QED BY <1>2, <1>4
-----------------------------------------------------------------------------
(* The search for a route.  What came back as a route has a duration and a *)
(* score; the requests of a hosted router are numbered as they are made,   *)
(* and each but the last came back with a route that will not do.          *)
Measures(route) == route.minutes \in Nat /\ route.green \in Nat
SearchTypes ==
    /\ ask = Search!Nothing \/ ask \in Search!Asks
    /\ ask = Search!Nothing => replies = <<>> /\ answer = <<>>
    /\ DOMAIN replies \subseteq 1..LoopCandidates
    /\ \A i \in Search!Came : Measures(replies[i])

Turns == Cardinality(DOMAIN replies)
InTurn ==
    ask # Search!Nothing =>
        /\ DOMAIN replies \subseteq Search!Candidates
        /\ ~ask.selfHosted =>
              /\ Turns \in Nat /\ DOMAIN replies = 1..Turns
              /\ \A i \in DOMAIN replies :
                    i # Turns => i \in Search!Came /\ ~Search!GoodEnough(replies[i])

SearchInv ==
    /\ SearchTypes /\ InTurn
    /\ Search!SearchKeepsItsWord /\ Search!OneReplySuffices

-----------------------------------------------------------------------------
LEMMA AskedFor ==
    ASSUME ask \in Search!Asks
    PROVE  /\ ask # Search!Nothing /\ ask.preset \in Search!PresetNames
           /\ ask.loop \in BOOLEAN /\ ask.selfHosted \in BOOLEAN
           /\ ask.fastest # <<>> => Measures(ask.fastest[1])
<1>1. /\ ask.preset \in Search!PresetNames /\ ask.loop \in BOOLEAN /\ ask.selfHosted \in BOOLEAN
      /\ ask.fastest \in {<<>>} \cup {<<Search!Route(m, g)>> : m \in Minutes, g \in Greens}
  BY DEF Search!Asks
<1>2. ask # Search!Nothing
  BY <1>1 DEF Search!Nothing, Search!PresetNames
<1>3. ASSUME ask.fastest # <<>> PROVE Measures(ask.fastest[1])
  <2>1. PICK m \in Minutes, g \in Greens : ask.fastest = <<Search!Route(m, g)>> BY <1>1, <1>3
  <2>2. ask.fastest[1] = Search!Route(m, g) BY <2>1
  <2>3. m \in Nat /\ g \in Nat BY UpstreamAssumption
  <2> QED BY <2>2, <2>3 DEF Measures, Search!Route
<1> QED BY <1>1, <1>2, <1>3

(* What a preset may ask for is counted from one; a hosted router is asked *)
(* for no more than the ladder has rungs.                                  *)
LEMMA CandidatesCounted ==
    ASSUME ask \in Search!Asks
    PROVE  \E m \in Nat \ {0} :
              /\ Search!Candidates = 1..m
              /\ ~ask.selfHosted => m <= IF ask.loop /\ Search!Searches THEN 2 ELSE 3
<1> DEFINE share == IF ask.selfHosted
                    THEN IF ask.preset = "scenic" THEN LoopCandidates ELSE PreferenceScales
                    ELSE 2
<1>0. share \in Nat \ {0} /\ (~ask.selfHosted => share = 2) BY UpstreamAssumption
<1>1. CASE ~Search!Searches
  <2>1. Search!Candidates = 1..1 BY <1>1 DEF Search!Candidates, Search!Searches
  <2> QED BY <2>1
<1>2. CASE Search!Searches /\ ask.preset = "scenic" /\ ~ask.loop
  <2>1. Search!Candidates = 1..Len(Search!ScenicLadder) BY <1>2 DEF Search!Candidates
  <2>2. Len(Search!ScenicLadder) = 3 BY DEF Search!ScenicLadder
  <2> QED BY <1>2, <2>1, <2>2
<1>3. CASE Search!Searches /\ ~(ask.preset = "scenic" /\ ~ask.loop)
  <2>1. ask.loop BY <1>3, AskedFor DEF Search!Searches
  <2>2. Search!Candidates = 1..share BY <1>3, <2>1 DEF Search!Candidates
  <2> QED BY <1>0, <2>1, <2>2
<1> QED BY <1>1, <1>2, <1>3

(* What a response is shaped into is never a route.                        *)
LEMMA ShapedRefuses ==
    ASSUME NEW status, NEW says
    PROVE  Search!Shaped(status, says).kind # "route"
BY DEF Search!Shaped, Search!Refusal, Search!Unsnappable

(* Answers are of seven kinds; the paths of one that has a route start     *)
(* with one of the durations and scores there are.                         *)
LEMMA AnswerKinds ==
    ASSUME NEW a \in Search!SearchAnswers \cup Search!SingleAnswers
    PROVE  /\ a.how \in {"no_fixture", "budget", "too_large", "unreadable", "network", "status",
                         "paths"}
           /\ a.how = "paths" /\ a.paths # <<>> /\ ~(Head(a.paths).vertices < 2)
                => Measures(Head(a.paths))
<1> DEFINE Paths == {[how |-> "paths", paths |-> <<[vertices |-> 2, minutes |-> m, green |-> g]>>] :
                        m \in Minutes, g \in Search!Scores}
<1>1. CASE a \in Search!SearchAnswers
  <2>1. \/ a \in {[how |-> "network"],
                  [how |-> "status", status |-> 400, says |-> {"cannot_find_point"}]}
        \/ a \in Paths
    BY <1>1 DEF Search!SearchAnswers
  <2>2. ASSUME a \in Paths PROVE a.how = "paths" /\ Measures(Head(a.paths))
    <3>1. PICK m \in Minutes, g \in Search!Scores :
             a = [how |-> "paths", paths |-> <<[vertices |-> 2, minutes |-> m, green |-> g]>>]
      BY <2>2
    <3>2. m \in Nat /\ g \in Nat BY UpstreamAssumption DEF Search!Scores
    <3>3. Head(a.paths) = [vertices |-> 2, minutes |-> m, green |-> g] BY <3>1
    <3> QED BY <3>1, <3>2, <3>3 DEF Measures
  <2> QED BY <2>1, <2>2
<1>2. CASE a \in Search!SingleAnswers \ Search!SearchAnswers
  <2>1. \/ a \in {[how |-> h] : h \in {"no_fixture", "budget", "too_large", "unreadable"}}
        \/ a \in {[how |-> "paths", paths |-> p] :
                     p \in {<<>>, <<[vertices |-> 1, minutes |-> 0, green |-> 0]>>}}
        \/ a \in {[how |-> "status", status |-> s, says |-> {x, y}] :
                     s \in {400, 401, 429, 500}, x \in Search!Phrases, y \in Search!Phrases}
    BY <1>2 DEF Search!SingleAnswers
  <2>2. ASSUME NEW p \in {<<>>, <<[vertices |-> 1, minutes |-> 0, green |-> 0]>>},
               a = [how |-> "paths", paths |-> p], p # <<>>
        PROVE  Head(a.paths).vertices < 2
    <3>1. Head(a.paths) = [vertices |-> 1, minutes |-> 0, green |-> 0] BY <2>2
    <3> QED BY <3>1
  <2> QED BY <2>1, <2>2
<1> QED BY <1>1, <1>2

(* A reply that is a route has a duration and a score.                     *)
LEMMA PostedMeasures ==
    ASSUME NEW a \in Search!SearchAnswers \cup Search!SingleAnswers,
           Search!Posted(a).kind = "route"
    PROVE  Measures(Search!Posted(a))
<1>1. a.how \notin {"no_fixture", "budget", "too_large", "unreadable", "network"}
  BY DEF Search!Posted, Search!Refusal
<1>2. a.how # "status" BY ShapedRefuses DEF Search!Posted
<1>3. a.how = "paths" BY <1>1, <1>2, AnswerKinds
<1>4. a.paths # <<>> BY <1>3 DEF Search!Posted, Search!Refusal
<1>5. ~(Head(a.paths).vertices < 2) BY <1>3, <1>4 DEF Search!Posted, Search!Refusal
<1>6. Search!Posted(a) = Search!Route(Head(a.paths).minutes, Head(a.paths).green)
  BY <1>3, <1>4, <1>5 DEF Search!Posted
<1>7. Measures(Head(a.paths)) BY <1>3, <1>4, <1>5, AnswerKinds
<1> QED BY <1>6, <1>7 DEF Measures, Search!Route

-----------------------------------------------------------------------------
(* What is ranked is a number.                                             *)
LEMMA MeritCounts ==
    ASSUME ask \in Search!Asks, NEW route, Measures(route)
    PROVE  Search!Merit(route) \in Int
<1>1. Requested \in Nat BY UpstreamAssumption
<1>2. route.minutes \in Nat /\ route.green \in Nat BY DEF Measures
<1>3. Search!Fit(route) \in Int
  <2>1. Search!Off(route) \in Nat BY <1>1, <1>2 DEF Search!Off
  <2> QED BY <1>1, <2>1 DEF Search!Fit
<1>4. 6 * route.green * Requested \in Int
  <2>1. 6 * route.green \in Nat BY <1>2
  <2> QED BY <1>1, <2>1
<1>5. 40 * Search!Fit(route) \in Int BY <1>3
<1>6. 6 * route.green * Requested + 40 * Search!Fit(route) \in Int BY <1>4, <1>5
<1>7. CASE ask.preset # "scenic"
  <2>1. Search!Merit(route) = Search!Fit(route) BY <1>7 DEF Search!Merit
  <2> QED BY <1>3, <2>1
<1>8. CASE ask.preset = "scenic" /\ ask.loop
  <2>1. Search!Merit(route) = 6 * route.green * Requested + 40 * Search!Fit(route)
    BY <1>8 DEF Search!Merit
  <2> QED BY <1>6, <2>1
<1>9. CASE ask.preset = "scenic" /\ ~ask.loop
  <2>1. Search!Merit(route) = route.green BY <1>9 DEF Search!Merit
  <2> QED BY <1>2, <2>1
<1> QED BY <1>7, <1>8, <1>9

(* The best of some candidates is one of them, and none has more merit.    *)
LEMMA BestIsBest ==
    ASSUME ask \in Search!Asks, SearchTypes, NEW I \in SUBSET Search!Came, I # {}
    PROVE  /\ Search!Best(I) \in I
           /\ \A j \in I : Search!Merit(replies[j]) <= Search!Merit(replies[Search!Best(I)])
<1> DEFINE merit == [i \in I |-> Search!Merit(replies[i])]
           Most(i) == \A j \in I : IF j < i THEN merit[j] < merit[i] ELSE merit[j] <= merit[i]
<1>1. I \in SUBSET (1..LoopCandidates) /\ LoopCandidates \in Nat
  BY UpstreamAssumption DEF SearchTypes, Search!Came
<1>2. \A i \in I : merit[i] \in Int BY MeritCounts DEF SearchTypes
<1>3. \E i \in I : Most(i)
  <2> HIDE DEF merit
  <2> QED BY <1>1, <1>2, FirstMost
<1>4. Search!Best(I) = CHOOSE i \in I : Most(i)
  BY DEF Search!Best
<1>5. Search!Best(I) \in I /\ Most(Search!Best(I))
  <2> HIDE DEF Most
  <2> QED BY <1>3, <1>4
<1>6. \A j \in I : merit[j] <= merit[Search!Best(I)]
  <2> SUFFICES ASSUME NEW j \in I PROVE merit[j] <= merit[Search!Best(I)]
    OBVIOUS
  <2>1. merit[j] \in Int /\ merit[Search!Best(I)] \in Int BY <1>2, <1>5
  <2> HIDE DEF merit
  <2> QED BY <1>5, <2>1
<1> QED BY <1>5, <1>6

(* The least bad is one of those that came back.                           *)
LEMMA FallbackCame ==
    ASSUME ask \in Search!Asks, SearchTypes, Search!Came # {}
    PROVE  Search!Fallback \in Search!Came
<1> DEFINE first == CHOOSE i \in Search!Came : \A j \in Search!Came : i <= j
           better == {i \in Search!Came : /\ Search!Within(replies[i])
                                          /\ Search!Merit(replies[i])
                                                > Search!Merit(replies[first])}
<1>1. Search!Came \in SUBSET Nat BY DEF SearchTypes, Search!Came
<1>2. \E i \in Search!Came : \A j \in Search!Came : i <= j BY <1>1, LeastOf
<1>3. first \in Search!Came BY <1>2
<1>4. better # {} => Search!Best(better) \in Search!Came
  <2> DEFINE chosen == better
  <2>1. chosen \in SUBSET Search!Came OBVIOUS
  <2> HIDE DEF chosen
  <2>2. chosen # {} => Search!Best(chosen) \in Search!Came BY <2>1, BestIsBest
  <2> QED BY <2>2 DEF chosen
<1>5. Search!Fallback = IF better = {} THEN first ELSE Search!Best(better)
  BY DEF Search!Fallback
<1> HIDE DEF better, first
<1> QED BY <1>3, <1>4, <1>5

-----------------------------------------------------------------------------
(* The word given with candidate i, read off before it is given.           *)
Word(i, note) ==
    /\ ask.preset = "scenic" /\ note = "none" =>
          /\ ask.fastest # <<>>
          /\ 10 * replies[i].minutes <= 16 * ask.fastest[1].minutes
          /\ replies[i].green > ask.fastest[1].green
          /\ \A j \in Search!Came : Search!Acceptable(replies[j])
                                      => Search!Merit(replies[j]) <= Search!Merit(replies[i])
    /\ note = "no_greener" =>
          /\ replies[i].green <= ask.fastest[1].green
          /\ 10 * replies[i].minutes <= 16 * ask.fastest[1].minutes
    /\ note \in {"no_greener", "over_the_cap"} =>
          ~\E j \in Search!Came : Search!Acceptable(replies[j])
    /\ ask.preset \in Search!Preferences /\ ask.loop =>
          /\ (note = "closest_longer") <=> (100 * replies[i].minutes > 135 * Requested)
          /\ note = "closest_shorter" =>
                \A j \in Search!Came : Search!Fit(replies[j]) <= Search!Fit(replies[i])
Notes == {"none", "inferred", "shorter", "uncompared", "no_greener", "over_the_cap",
          "closest_longer", "closest_shorter"}
GivesWord(result) ==
    result[1].kind = "route" =>
        \E i \in Search!Came, note \in Notes : result = Search!Noted(i, note) /\ Word(i, note)

LEMMA ScenicWord ==
    ASSUME ask \in Search!Asks, SearchTypes, Search!Came # {}, ask.preset = "scenic"
    PROVE  GivesWord(Search!ScenicAnswer)
<1> DEFINE acceptable == {i \in Search!Came : Search!Acceptable(replies[i])}
           chosen == IF acceptable # {} THEN Search!Best(acceptable) ELSE Search!Fallback
           route == replies[chosen]
           note == CASE acceptable # {} /\ ask.loop /\ Search!Under(route) -> "shorter"
                     [] acceptable # {} /\ ~(ask.loop /\ Search!Under(route)) ->
                             IF ask.fastest = <<>> THEN "uncompared" ELSE "none"
                     [] OTHER -> IF Search!Within(route) THEN "no_greener" ELSE "over_the_cap"
<1>1. Search!ScenicAnswer = Search!Noted(chosen, note)
  BY DEF Search!ScenicAnswer
<1>2. /\ acceptable # {} => /\ chosen \in acceptable
                            /\ \A j \in acceptable :
                                  Search!Merit(replies[j]) <= Search!Merit(replies[chosen])
      /\ acceptable = {} => chosen \in Search!Came
  <2> DEFINE some == acceptable
  <2>1. some \in SUBSET Search!Came OBVIOUS
  <2> HIDE DEF some
  <2>2. some # {} => /\ Search!Best(some) \in some
                     /\ \A j \in some :
                           Search!Merit(replies[j]) <= Search!Merit(replies[Search!Best(some)])
    BY <2>1, BestIsBest
  <2> QED BY <2>2, FallbackCame DEF some
<1>3. chosen \in Search!Came /\ Measures(route)
  BY <1>2 DEF SearchTypes
<1>4. note \in {"shorter", "uncompared", "none", "no_greener", "over_the_cap"} OBVIOUS
<1>5. note = "none" => acceptable # {} /\ ask.fastest # <<>> OBVIOUS
<1>6. note \in {"no_greener", "over_the_cap"} => acceptable = {} OBVIOUS
<1>7. note = "no_greener" => Search!Within(route) OBVIOUS
<1>8. ask.preset \notin Search!Preferences BY DEF Search!Preferences
<1>9. ask.fastest # <<>> => Measures(ask.fastest[1]) BY AskedFor
<1> HIDE DEF note, chosen
<1>10. note = "none" =>
          /\ ask.fastest # <<>>
          /\ 10 * route.minutes <= 16 * ask.fastest[1].minutes
          /\ route.green > ask.fastest[1].green
          /\ \A j \in acceptable : Search!Merit(replies[j]) <= Search!Merit(route)
  BY <1>2, <1>5 DEF Search!Acceptable, Search!Within, Search!Greener
<1>11. note = "no_greener" =>
          /\ ~Search!Acceptable(route) /\ Search!Within(route)
  BY <1>3, <1>6, <1>7
<1>12. note = "no_greener" =>
          /\ route.green <= ask.fastest[1].green
          /\ 10 * route.minutes <= 16 * ask.fastest[1].minutes
  BY <1>3, <1>9, <1>11 DEF Search!Acceptable, Search!Within, Search!Greener, Measures
<1>13. Word(chosen, note)
  BY <1>6, <1>8, <1>10, <1>12 DEF Word
<1> QED BY <1>1, <1>3, <1>4, <1>13 DEF GivesWord, Notes

LEMMA PreferenceWord ==
    ASSUME ask \in Search!Asks, SearchTypes, Search!Came # {}, ask.preset # "scenic"
    PROVE  GivesWord(Search!PreferenceAnswer)
<1> DEFINE chosen == Search!Best(Search!Came)
           note == CASE Search!Over(replies[chosen]) -> "closest_longer"
                     [] Search!Under(replies[chosen]) -> "closest_shorter"
                     [] OTHER -> "inferred"
<1>1. Search!PreferenceAnswer = Search!Noted(chosen, note)
  BY DEF Search!PreferenceAnswer
<1>2. /\ chosen \in Search!Came
      /\ \A j \in Search!Came : Search!Merit(replies[j]) <= Search!Merit(replies[chosen])
  <2> DEFINE came == Search!Came
  <2>1. came \in SUBSET Search!Came OBVIOUS
  <2> QED BY <2>1, BestIsBest
<1>3. Measures(replies[chosen]) BY <1>2 DEF SearchTypes
<1>4. ~(Search!Over(replies[chosen]) /\ Search!Under(replies[chosen]))
  BY <1>3, UpstreamAssumption DEF Search!Over, Search!Under, Measures
<1>5. note = "closest_longer" <=> Search!Over(replies[chosen]) BY <1>4
<1>6. note \in {"closest_longer", "closest_shorter", "inferred"} BY <1>4
<1> HIDE DEF note, chosen
<1>7. \A j \in Search!Came : Search!Fit(replies[j]) <= Search!Fit(replies[chosen])
  BY <1>2 DEF Search!Merit
<1>8. Word(chosen, note)
  BY <1>5, <1>6, <1>7 DEF Word, Search!Over
<1> QED BY <1>1, <1>2, <1>6, <1>8 DEF GivesWord, Notes

(* What a settled search comes to: a word that is kept, or a failure that  *)
(* one reply could have prevented and did not.                             *)
Fails(result) ==
    result[1].kind # "route" =>
        IF ask.selfHosted THEN Search!Came = {}
        ELSE /\ result[1] = replies[Turns]
             /\ \A i \in Search!Came : ~Search!GoodEnough(replies[i])

LEMMA ResultHolds ==
    ASSUME SearchTypes, InTurn, Search!Settled
    PROVE  GivesWord(Search!Result) /\ Fails(Search!Result)
<1>0. ask \in Search!Asks BY DEF Search!Settled, SearchTypes
<1>1. /\ ask # Search!Nothing /\ ask.selfHosted \in BOOLEAN BY <1>0, AskedFor
<1>2. PICK m \in Nat \ {0} : Search!Candidates = 1..m BY <1>0, CandidatesCounted
<1>3. \A i \in Search!Came : i \in DOMAIN replies /\ replies[i].kind = "route"
  BY DEF Search!Came
<1>4. \A i \in Search!Refusals : i \in DOMAIN replies /\ replies[i].kind # "route"
  BY DEF Search!Came, Search!Refusals
(* A hosted router's refusal is its last reply. *)
<1>5. ASSUME ~ask.selfHosted, NEW i \in Search!Refusals
      PROVE  i = Turns /\ \A j \in Search!Came : ~Search!GoodEnough(replies[j])
  <2>1. i = Turns BY <1>1, <1>4, <1>5 DEF InTurn, Search!Refusals
  <2>2. \A j \in Search!Came : j # Turns BY <1>3, <1>4, <2>1
  <2> QED BY <1>1, <1>3, <1>5, <2>1, <2>2 DEF InTurn
<1>6. CASE Search!Came = {}
  <2>1. Search!Result = <<replies[1]>> BY <1>6 DEF Search!Result
  <2>2. 1 \in DOMAIN replies
    <3>1. CASE Search!Pending = {} BY <1>2, <3>1 DEF Search!Pending
    <3>2. CASE ~ask.selfHosted /\ Search!Refusals # {}
      BY <1>1, <1>4, <3>2 DEF InTurn
    <3> QED BY <1>6, <3>1, <3>2 DEF Search!Settled
  <2>3. 1 \in Search!Refusals /\ replies[1].kind # "route"
    BY <1>6, <2>2 DEF Search!Came, Search!Refusals
  <2>4. Search!Result[1] = replies[1] BY <2>1
  <2> QED BY <1>5, <1>6, <2>3, <2>4 DEF GivesWord, Fails
<1>7. CASE Search!Came # {} /\ ~Search!Searches
  <2> DEFINE note == IF ask.preset \in Search!Preferences THEN "inferred" ELSE "none"
  <2>1. Search!Result = Search!Noted(1, note) BY <1>7 DEF Search!Result
  <2>2. 1 \in Search!Came
    <3>1. Search!Candidates = 1..1 BY <1>7 DEF Search!Candidates, Search!Searches
    <3>2. CASE ~ask.selfHosted
      <4>1. DOMAIN replies \subseteq 1..1 BY <1>1, <3>1, <3>2 DEF InTurn
      <4> QED BY <1>3, <1>7, <4>1
    <3>3. CASE ask.selfHosted
      <4>1. DOMAIN replies \subseteq Search!Candidates BY <1>1, <3>3 DEF InTurn
      <4> QED BY <1>3, <1>7, <3>1, <4>1
    <3> QED BY <1>1, <3>2, <3>3
  <2>3. Word(1, note)
    BY <1>7 DEF Word, Search!Searches
  <2>4. Search!Noted(1, note)[1].kind = "route" BY DEF Search!Noted
  <2>5. note \in Notes BY DEF Notes
  <2> HIDE DEF note
  <2> QED BY <2>1, <2>2, <2>3, <2>4, <2>5 DEF GivesWord, Fails
<1>8. CASE /\ Search!Came # {} /\ Search!Searches
           /\ Search!Refusals # {} /\ ~ask.selfHosted
  <2> DEFINE refused == CHOOSE i \in Search!Refusals : TRUE
  <2>1. refused \in Search!Refusals BY <1>8
  <2>2. Search!Result = <<replies[refused]>> BY <1>8 DEF Search!Result
  <2> HIDE DEF refused
  <2>3. Search!Result[1] = replies[refused] BY <2>2
  <2> QED BY <1>4, <1>5, <1>8, <2>1, <2>3 DEF GivesWord, Fails
<1>9. CASE /\ Search!Came # {} /\ Search!Searches
           /\ ~(Search!Refusals # {} /\ ~ask.selfHosted)
  <2>1. Search!Result = Search!Chosen BY <1>9 DEF Search!Result
  <2>2. CASE ask.preset = "scenic"
    <3>1. Search!Result = Search!ScenicAnswer BY <2>1, <2>2 DEF Search!Chosen
    <3>2. Search!Result[1].kind = "route"
      BY <3>1 DEF Search!ScenicAnswer, Search!Noted
    <3>3. GivesWord(Search!Result) BY <1>0, <1>9, <2>2, <3>1, ScenicWord
    <3> QED BY <3>2, <3>3 DEF Fails
  <2>3. CASE ask.preset # "scenic"
    <3>1. Search!Result = Search!PreferenceAnswer BY <2>1, <2>3 DEF Search!Chosen
    <3>2. Search!Result[1].kind = "route"
      BY <3>1 DEF Search!PreferenceAnswer, Search!Noted
    <3>3. GivesWord(Search!Result) BY <1>0, <1>9, <2>3, <3>1, PreferenceWord
    <3> QED BY <3>2, <3>3 DEF Fails
  <2> QED BY <2>2, <2>3
<1> QED BY <1>6, <1>7, <1>8, <1>9

-----------------------------------------------------------------------------
LEMMA SearchBegins ==
    ASSUME SearchInv, Search!Begin
    PROVE  SearchInv'
<1>1. ask' \in Search!Asks /\ replies = <<>> /\ answer = <<>>
  BY DEF Search!Begin, SearchInv, SearchTypes
<1>2. replies' = <<>> /\ answer' = <<>> BY <1>1 DEF Search!Begin
<1>3. DOMAIN replies' = {} BY <1>2
<1>4. SearchTypes' BY <1>1, <1>2, <1>3 DEF SearchTypes, Search!Came
<1>5. Turns' = 0 BY <1>3, FS_EmptySet DEF Turns
<1>6. InTurn' BY <1>3, <1>5 DEF InTurn
<1>7. Search!SearchKeepsItsWord' /\ Search!OneReplySuffices'
  BY <1>2 DEF Search!SearchKeepsItsWord, Search!OneReplySuffices, Search!Routed, Search!Answered
<1> QED BY <1>4, <1>6, <1>7 DEF SearchInv

LEMMA SameCardinality == \A S : Search!Cardinality(S) = Cardinality(S)
BY DEF Search!Cardinality, Cardinality

LEMMA SearchSettles ==
    ASSUME SearchInv, NEW i \in 1..LoopCandidates, Search!Settle(i)
    PROVE  SearchInv'
<1>0. /\ ask # Search!Nothing /\ ask \in Search!Asks /\ answer = <<>>
      /\ ~Search!Settled /\ UNCHANGED <<ask, answer>>
  BY DEF Search!Settle, SearchInv, SearchTypes
<1>1. PICK a \in Search!SearchAnswers \cup Search!SingleAnswers :
         replies' = [j \in DOMAIN replies \cup {i} |->
                        IF j = i THEN Search!Posted(a) ELSE replies[j]]
  BY DEF Search!Settle
<1>2. DOMAIN replies' = DOMAIN replies \cup {i} BY <1>1
<1>3. Search!Pending # {} BY <1>0 DEF Search!Settled
<1>4. i \notin DOMAIN replies /\ i \in Search!Candidates
  <2>1. CASE ask.selfHosted BY <2>1 DEF Search!Settle, Search!Pending
  <2>2. CASE ~ask.selfHosted
    <3>1. i = Turns + 1 BY <2>2, SameCardinality DEF Search!Settle, Turns
    <3>2. Turns \in Nat /\ DOMAIN replies = 1..Turns BY <1>0, <2>2 DEF SearchInv, InTurn
    <3>3. PICK m \in Nat \ {0} : Search!Candidates = 1..m BY <1>0, CandidatesCounted
    <3>4. Turns < m BY <1>3, <3>2, <3>3 DEF Search!Pending
    <3> QED BY <3>1, <3>2, <3>3, <3>4
  <2> QED BY <2>1, <2>2
<1>5. /\ replies'[i] = Search!Posted(a)
      /\ \A j \in DOMAIN replies : replies'[j] = replies[j]
  BY <1>1, <1>4
<1>6. \A j \in Search!Came' : j \in Search!Came \/ (j = i /\ Search!Posted(a).kind = "route")
  BY <1>2, <1>5 DEF Search!Came
<1>7. SearchTypes'
  <2>1. DOMAIN replies' \subseteq 1..LoopCandidates BY <1>2 DEF SearchInv, SearchTypes
  <2>2. ASSUME NEW j \in Search!Came' PROVE Measures(replies'[j])
    <3>1. CASE j \in Search!Came
      BY <1>5, <3>1 DEF SearchInv, SearchTypes, Search!Came
    <3>2. CASE j = i /\ Search!Posted(a).kind = "route"
      BY <1>5, <3>2, PostedMeasures
    <3> QED BY <1>6, <3>1, <3>2
  <2> QED BY <1>0, <2>1, <2>2 DEF SearchTypes
<1>8. InTurn'
  <2>1. Search!Candidates' = Search!Candidates
    BY <1>0 DEF Search!Candidates, Search!Searches
  <2>2. DOMAIN replies' \subseteq Search!Candidates'
    BY <1>0, <1>2, <1>4, <2>1 DEF SearchInv, InTurn
  <2>3. ASSUME ~ask.selfHosted
        PROVE  /\ Turns' = Turns + 1 /\ Turns \in Nat /\ i = Turns + 1
               /\ DOMAIN replies = 1..Turns /\ DOMAIN replies' = 1..(Turns + 1)
    <3>1. i = Turns + 1 BY <2>3, SameCardinality DEF Search!Settle, Turns
    <3>2. Turns \in Nat /\ DOMAIN replies = 1..Turns BY <1>0, <2>3 DEF SearchInv, InTurn
    <3>3. DOMAIN replies' = 1..(Turns + 1) BY <1>2, <3>1, <3>2
    <3>4. Cardinality(1..(Turns + 1)) = Turns + 1
      <4>1. 1 \in Int /\ Turns + 1 \in Int /\ ~(1 > Turns + 1) BY <3>2
      <4>2. Cardinality(1..(Turns + 1)) = (Turns + 1) - 1 + 1 BY <4>1, FS_Interval
      <4> QED BY <3>2, <4>2
    <3>5. Turns' = Turns + 1 BY <3>3, <3>4 DEF Turns
    <3> QED BY <3>1, <3>2, <3>3, <3>5
  <2>4. ASSUME ~ask.selfHosted, NEW j \in DOMAIN replies
        PROVE  j \in Search!Came /\ ~Search!GoodEnough(replies[j])
    <3>1. j \in Search!Came BY <1>0, <2>4 DEF Search!Settled, Search!Refusals
    <3> QED BY <1>0, <2>4, <3>1 DEF Search!Settled
  <2>5. ASSUME ~ask.selfHosted, NEW j \in DOMAIN replies', j # Turns'
        PROVE  j \in Search!Came' /\ ~Search!GoodEnough(replies[j])'
    <3>1. j \in DOMAIN replies BY <2>3, <2>5
    <3>2. j \in Search!Came' BY <1>2, <1>5, <2>4, <2>5, <3>1 DEF Search!Came
    <3>3. replies'[j] = replies[j] BY <1>5, <3>1
    <3>4. ~Search!GoodEnough(replies[j]) BY <2>4, <2>5, <3>1
    <3> QED
      BY <1>0, <3>2, <3>3, <3>4
      DEF Search!GoodEnough, Search!Acceptable, Search!Within, Search!Greener, Search!Over
  <2> QED BY <1>0, <2>2, <2>3, <2>5 DEF InTurn
<1>9. Search!SearchKeepsItsWord' /\ Search!OneReplySuffices'
  BY <1>0 DEF Search!SearchKeepsItsWord, Search!OneReplySuffices, Search!Routed, Search!Answered
<1> QED BY <1>7, <1>8, <1>9 DEF SearchInv

LEMMA SearchChooses ==
    ASSUME SearchInv, Search!Choose
    PROVE  SearchInv'
<1>1. /\ answer' = Search!Result /\ UNCHANGED <<ask, replies>> /\ Search!Settled
  BY DEF Search!Choose
<1>2. GivesWord(answer') /\ Fails(answer') BY <1>1, ResultHolds DEF SearchInv
<1>3. ask # Search!Nothing BY <1>1 DEF Search!Settled
<1>4. SearchTypes' BY <1>1, <1>3 DEF SearchInv, SearchTypes, Search!Came
<1>5. InTurn'
  BY <1>1
  DEF SearchInv, InTurn, Turns, Search!Candidates, Search!Searches, Search!Came,
      Search!GoodEnough, Search!Acceptable, Search!Within, Search!Greener, Search!Over
<1>6. Search!SearchKeepsItsWord'
  <2>1. CASE answer'[1].kind # "route"
    BY <2>1 DEF Search!SearchKeepsItsWord, Search!Routed
  <2>2. CASE answer'[1].kind = "route"
    <3>1. PICK i \in Search!Came, note \in Notes : answer' = Search!Noted(i, note) /\ Word(i, note)
      BY <1>2, <2>2 DEF GivesWord
    <3>2. answer'[1].index = i /\ answer'[1].note = note BY <3>1 DEF Search!Noted
    <3>3. Search!TheRoute' = replies[i] BY <1>1, <3>2 DEF Search!TheRoute
    <3>4. Search!Came' = Search!Came BY <1>1 DEF Search!Came
    <3>5. \A r : /\ Search!Merit(r)' = Search!Merit(r)
                 /\ Search!Fit(r)' = Search!Fit(r)
                 /\ Search!Acceptable(r)' <=> Search!Acceptable(r)
      BY <1>1
      DEF Search!Merit, Search!Fit, Search!Off, Search!Acceptable, Search!Within,
          Search!Greener
    <3> QED
      BY <1>1, <3>1, <3>2, <3>3, <3>4, <3>5 DEF Search!SearchKeepsItsWord, Word
  <2> QED BY <2>1, <2>2
<1>7. Search!OneReplySuffices'
  BY <1>1, <1>2, SameCardinality
  DEF Search!OneReplySuffices, Fails, Turns, Search!Came, Search!GoodEnough,
      Search!Acceptable, Search!Within, Search!Greener, Search!Over
<1> QED BY <1>4, <1>5, <1>6, <1>7 DEF SearchInv

LEMMA SearchRests ==
    ASSUME SearchInv, Search!Raise \/ UNCHANGED searchVars
    PROVE  SearchInv'
<1>1. UNCHANGED <<ask, replies, answer>> BY DEF Search!Raise, searchVars
<1>2. SearchTypes' BY <1>1 DEF SearchInv, SearchTypes, Search!Came
<1>3. InTurn'
  BY <1>1
  DEF SearchInv, InTurn, Turns, Search!Candidates, Search!Searches, Search!Came,
      Search!GoodEnough, Search!Acceptable, Search!Within, Search!Greener, Search!Over
<1>4. Search!SearchKeepsItsWord'
  BY <1>1
  DEF SearchInv, Search!SearchKeepsItsWord, Search!Routed, Search!Answered, Search!TheRoute,
      Search!Came, Search!Merit, Search!Fit, Search!Off, Search!Acceptable, Search!Within,
      Search!Greener
<1>5. Search!OneReplySuffices'
  BY <1>1
  DEF SearchInv, Search!OneReplySuffices, Search!Answered, Search!Came, Search!GoodEnough,
      Search!Acceptable, Search!Within, Search!Greener, Search!Over
<1> QED BY <1>2, <1>3, <1>4, <1>5 DEF SearchInv

LEMMA SearchInvariant == UpstreamSpec => []SearchInv
<1>1. UpstreamInit => SearchInv
  <2> SUFFICES ASSUME Search!Init PROVE SearchInv BY DEF UpstreamInit
  <2>1. ask = Search!Nothing /\ replies = <<>> /\ answer = <<>> BY DEF Search!Init
  <2>2. SearchTypes BY <2>1 DEF SearchTypes, Search!Came
  <2>3. InTurn BY <2>1 DEF InTurn
  <2>4. Search!SearchKeepsItsWord /\ Search!OneReplySuffices
    BY <2>1
    DEF Search!SearchKeepsItsWord, Search!OneReplySuffices, Search!Routed, Search!Answered
  <2> QED BY <2>2, <2>3, <2>4 DEF SearchInv
<1>2. SearchInv /\ [UpstreamNext]_upstreamVars => SearchInv'
  BY OthersLeaveIt, SearchBegins, SearchSettles, SearchChooses, SearchRests DEF Search!Next
<1> QED BY <1>1, <1>2, PTL DEF UpstreamSpec

(* route_scenic and _route_preference: whatever durations and scores come  *)
(* back, in any order, the card's word about the route is kept.            *)
THEOREM TheCardKeepsItsWord == UpstreamSpec => []SearchKeepsItsWord
<1>1. SearchInv => SearchKeepsItsWord BY DEF SearchInv, SearchKeepsItsWord
<1> QED BY <1>1, SearchInvariant, PTL

(* A search of candidates fails only when none of them came back, or with  *)
(* the last request that was paid for; and a hosted router is paid for no  *)
(* candidate after one that will do.                                       *)
THEOREM OneReplyIsEnough == UpstreamSpec => []OneReplySuffices
<1>1. SearchInv => OneReplySuffices
  <2> SUFFICES ASSUME SearchInv, ask # Search!Nothing, ~ask.selfHosted
               PROVE  /\ \A i \in Search!Came :
                            Search!Searches /\ Search!GoodEnough(replies[i])
                              => i = Search!Cardinality(DOMAIN replies)
                      /\ Search!Cardinality(DOMAIN replies)
                           <= IF ask.loop /\ Search!Searches THEN 2
                              ELSE Len(Search!ScenicLadder)
    BY DEF SearchInv, OneReplySuffices, Search!PaysNoMoreThanNeeded
  <2>1. Search!Cardinality(DOMAIN replies) = Turns BY SameCardinality DEF Turns
  <2>2. /\ Turns \in Nat /\ DOMAIN replies = 1..Turns
        /\ DOMAIN replies \subseteq Search!Candidates
        /\ \A i \in DOMAIN replies : i # Turns => ~Search!GoodEnough(replies[i])
    BY DEF SearchInv, InTurn
  <2>3. PICK m \in Nat \ {0} :
           /\ Search!Candidates = 1..m
           /\ m <= IF ask.loop /\ Search!Searches THEN 2 ELSE 3
    BY CandidatesCounted DEF SearchInv, SearchTypes
  <2>4. Turns <= m
    <3>1. CASE Turns = 0 BY <3>1, <2>3
    <3>2. CASE Turns # 0
      <4>1. Turns \in 1..m BY <2>2, <2>3, <3>2
      <4> QED BY <4>1
    <3> QED BY <3>1, <3>2
  <2>5. Len(Search!ScenicLadder) = 3 BY DEF Search!ScenicLadder
  <2>6. Turns <= IF ask.loop /\ Search!Searches THEN 2 ELSE Len(Search!ScenicLadder)
    BY <2>2, <2>3, <2>4, <2>5
  <2> QED BY <2>1, <2>2, <2>6 DEF Search!Came
<1> QED BY <1>1, SearchInvariant, PTL

-----------------------------------------------------------------------------
(* The survey.  Every route is shown first as it was routed; a second card *)
(* comes only when all sources have answered, and is made of their answers.*)
Shown ==
    /\ DOMAIN cards = DOMAIN trip.routes
    /\ \A r \in DOMAIN cards :
          \/ cards[r] = <<Corridor!FirstCard(trip.routes[r])>>
          \/ /\ departure # <<>>
             /\ cards[r] = <<Corridor!FirstCard(trip.routes[r]), Corridor!Second(r)>>
    /\ departure # <<>> => DOMAIN found = Corridor!Sources
SurveyInv == Shown /\ Corridor!NoneMeansUnmeasured /\ Corridor!SurveyOnlyAdds

-----------------------------------------------------------------------------
(* Asking about barriers can only add findings to an assessment.           *)
LEMMA AskingAdds ==
    ASSUME NEW route, NEW spans
    PROVE  /\ Corridor!Assess(route, Corridor!Unasked).findings
                \subseteq Corridor!Assess(route, Corridor!AskedOf(spans)).findings
           /\ Corridor!Assess(route, Corridor!Unasked).covered
                = Corridor!Assess(route, Corridor!AskedOf(spans)).covered
           /\ Corridor!Assess(route, Corridor!Unasked).verdict = "fail"
                => Corridor!Assess(route, Corridor!AskedOf(spans)).verdict = "fail"
<1> DEFINE unasked == Corridor!AllFindings(route, Corridor!Unasked)
           asked == Corridor!AllFindings(route, Corridor!AskedOf(spans))
<1>1. unasked \subseteq asked
  <2> DEFINE barred(b) == Corridor!Findings("barrier", b.spans, route.lengths,
                                            Corridor!AssessBarrier)
  <2>1. barred(Corridor!Unasked) = {}
    <3>1. Corridor!Unasked.spans = <<>> BY DEF Corridor!Unasked
    <3>2. Corridor!ToSet(<<>>) = {} BY DEF Corridor!ToSet
    <3> QED BY <3>1, <3>2 DEF Corridor!Findings
  <2> QED BY <2>1 DEF Corridor!AllFindings
<1>2. CASE Corridor!Total(route.lengths) = 0
  BY <1>2 DEF Corridor!Assess
<1>3. CASE Corridor!Total(route.lengths) # 0
  <2>1. /\ Corridor!Assess(route, Corridor!Unasked).findings = unasked
        /\ Corridor!Assess(route, Corridor!AskedOf(spans)).findings = asked
    BY <1>3 DEF Corridor!Assess
  <2>2. Corridor!Assess(route, Corridor!Unasked).covered
            = Corridor!Assess(route, Corridor!AskedOf(spans)).covered
    BY <1>3 DEF Corridor!Assess
  <2>3. Corridor!Assess(route, Corridor!Unasked).verdict = "fail" => unasked # {}
    BY <1>3 DEF Corridor!Assess
  <2>4. asked # {} => Corridor!Assess(route, Corridor!AskedOf(spans)).verdict = "fail"
    BY <1>3 DEF Corridor!Assess
  <2> QED BY <1>1, <2>1, <2>2, <2>3, <2>4
<1> QED BY <1>2, <1>3

LEMMA CheckedIsAsked ==
    ASSUME NEW route, NEW barriers
    PROVE  Corridor!Assess(route, barriers).checked = barriers.asked
BY DEF Corridor!Assess

(* The second card says none of what was not measured, and keeps what the  *)
(* first one said.                                                         *)
LEMMA SecondHolds ==
    ASSUME NEW route
    PROVE  LET first == Corridor!FirstCard(route)
               second == Corridor!SecondCard(route)
               tags == Corridor!Surveyed(route)
           IN  /\ (second.stops = <<>>) <=> (found.rest_stops = <<>>)
               /\ (second.air = <<>>) <=> (found.air = <<>> /\ Corridor!Air(tags) = <<>>)
               /\ second.shade # <<>> => found.cloud # <<>> /\ Corridor!ShadeCover(tags) # <<>>
               /\ ~second.access.checked <=> (found.barriers = <<>>)
               /\ first.access.findings \subseteq second.access.findings
               /\ first.access.covered = second.access.covered
               /\ first.blocked => second.blocked
               /\ first.air # <<>> => second.air # <<>>
               /\ <<first.scenic, first.quiet>> = <<second.scenic, second.quiet>>
<1> DEFINE first == Corridor!FirstCard(route)
           second == Corridor!SecondCard(route)
           tags == Corridor!Surveyed(route)
           spans == Corridor!BarrierSpans(route.positions, found.barriers[1])
<1>1. /\ first.access = Corridor!Assess(tags, Corridor!Unasked)
      /\ second.access = Corridor!Reassessed(route)
  BY DEF Corridor!FirstCard, Corridor!SecondCard, Corridor!ScoredRoute, Corridor!Assessed
<1>2. Corridor!Reassessed(route)
        = IF found.barriers = <<>> THEN Corridor!Assess(tags, Corridor!Unasked)
          ELSE Corridor!Assess(tags, Corridor!AskedOf(spans))
  BY DEF Corridor!Reassessed, Corridor!Assessed, Corridor!Absent
<1>3. ~second.access.checked <=> (found.barriers = <<>>)
  <2>1. Corridor!Unasked.asked = FALSE /\ Corridor!AskedOf(spans).asked = TRUE
    BY DEF Corridor!Unasked, Corridor!AskedOf
  <2>2. second.access.checked = IF found.barriers = <<>> THEN FALSE ELSE TRUE
    BY <1>1, <1>2, <2>1, CheckedIsAsked
  <2> QED BY <2>2
<1>4. /\ first.access.findings \subseteq second.access.findings
      /\ first.access.covered = second.access.covered
      /\ first.access.verdict = "fail" => second.access.verdict = "fail"
  <2> HIDE DEF first, second, tags, spans
  <2> QED BY <1>1, <1>2, AskingAdds
<1>5. /\ first.blocked <=> (route.objective = "accessible" /\ first.access.verdict = "fail")
      /\ second.blocked <=> (route.objective = "accessible" /\ second.access.verdict = "fail")
  BY DEF Corridor!FirstCard, Corridor!SecondCard, Corridor!ScoredRoute
<1>6. <<first.scenic, first.quiet>> = <<second.scenic, second.quiet>>
  BY DEF Corridor!FirstCard, Corridor!SecondCard, Corridor!ScoredRoute
<1>7. (second.stops = <<>>) <=> (found.rest_stops = <<>>)
  <2>1. second.stops = IF found.rest_stops = <<>> THEN <<>>
                       ELSE <<Corridor!RestStops(route.positions, found.rest_stops[1])>>
    BY DEF Corridor!SecondCard, Corridor!ScoredRoute, Corridor!Absent
  <2> QED BY <2>1
<1>8. /\ first.air = Corridor!Air(tags)
      /\ (second.air = <<>>) <=> (found.air = <<>> /\ Corridor!Air(tags) = <<>>)
  BY DEF Corridor!FirstCard, Corridor!SecondCard, Corridor!ScoredRoute, Corridor!BlendAir,
         Corridor!Absent
<1>9. second.shade # <<>> => found.cloud # <<>> /\ Corridor!ShadeCover(tags) # <<>>
  BY DEF Corridor!SecondCard, Corridor!ScoredRoute, Corridor!BlendShade, Corridor!Need,
         Corridor!Absent
<1> QED BY <1>3, <1>4, <1>5, <1>6, <1>7, <1>8, <1>9

-----------------------------------------------------------------------------
(* While no second card is shown there is nothing to be said of one.       *)
LEMMA NoSecond ==
    ASSUME Shown, departure = <<>>
    PROVE  /\ \A r \in DOMAIN cards : cards[r] = <<Corridor!FirstCard(trip.routes[r])>>
           /\ Corridor!Surveyed2 = {}
<1>1. \A r \in DOMAIN cards : cards[r] = <<Corridor!FirstCard(trip.routes[r])>>
  BY DEF Shown
<1>2. \A r \in DOMAIN cards : Len(cards[r]) = 1 BY <1>1
<1> QED BY <1>1, <1>2 DEF Corridor!Surveyed2

LEMMA SurveyBegins ==
    ASSUME SurveyInv, Corridor!Begin
    PROVE  SurveyInv'
<1>1. /\ cards' = [r \in DOMAIN trip'.routes |-> <<Corridor!FirstCard(trip'.routes[r])>>]
      /\ UNCHANGED <<found, departure>>
  BY DEF Corridor!Begin
<1>2. \A r \in DOMAIN cards' : cards'[r] = <<Corridor!FirstCard(trip'.routes[r])>>
  BY <1>1
<1>3. Shown' BY <1>1, <1>2 DEF SurveyInv, Shown
<1>4. Corridor!Surveyed2' = {}
  <2>1. \A r \in DOMAIN cards' : Len(cards'[r]) = 1 BY <1>2
  <2> QED BY <2>1 DEF Corridor!Surveyed2
<1> QED
  BY <1>3, <1>4 DEF SurveyInv, Corridor!NoneMeansUnmeasured, Corridor!SurveyOnlyAdds

LEMMA SurveyAsks ==
    ASSUME SurveyInv, Corridor!Depart \/ \E source \in Corridor!Sources : Corridor!Reply(source)
    PROVE  SurveyInv'
<1>1. departure = <<>> /\ UNCHANGED <<trip, cards>>
  BY DEF Corridor!Depart, Corridor!Reply, SurveyInv, Shown
<1>2. /\ \A r \in DOMAIN cards : cards[r] = <<Corridor!FirstCard(trip.routes[r])>>
      /\ Corridor!Surveyed2 = {}
  BY <1>1, NoSecond DEF SurveyInv
<1>3. departure' # <<>> => DOMAIN found' = Corridor!Sources
  BY <1>1 DEF Corridor!Depart, Corridor!Reply
<1>4. \A r \in DOMAIN cards' : cards'[r] = <<Corridor!FirstCard(trip'.routes[r])>>
  BY <1>1, <1>2
<1>5. DOMAIN cards' = DOMAIN trip'.routes BY <1>1 DEF SurveyInv, Shown
<1>6. Shown' BY <1>3, <1>4, <1>5 DEF Shown
<1>7. Corridor!Surveyed2' = {} BY <1>1, <1>2 DEF Corridor!Surveyed2
<1> QED
  BY <1>6, <1>7 DEF SurveyInv, Corridor!NoneMeansUnmeasured, Corridor!SurveyOnlyAdds

LEMMA Appended ==
    ASSUME NEW one, NEW two
    PROVE  Append(<<one>>, two) = <<one, two>>
<1> DEFINE all == {one, two}
           long == Append(<<one>>, two)
           pair == <<one, two>>
<1>1. <<one>> \in Seq(all) /\ two \in all OBVIOUS
<1>2. /\ long \in Seq(all) /\ Len(long) = 2
      /\ long[1] = one /\ long[2] = two
  BY <1>1
<1>3. pair \in Seq(all) /\ Len(pair) = 2 /\ pair[1] = one /\ pair[2] = two OBVIOUS
<1> HIDE DEF long, pair
<1>4. \A i \in 1..Len(long) : long[i] = pair[i]
  BY <1>2, <1>3
<1>5. long = pair BY <1>2, <1>3, <1>4, SeqEqual
<1> QED BY <1>5 DEF long, pair

LEMMA SurveyShows ==
    ASSUME SurveyInv, NEW r \in DOMAIN cards, Corridor!ShowSecond(r)
    PROVE  SurveyInv'
<1> DEFINE route == trip.routes[r]
           first == Corridor!FirstCard(route)
           second == Corridor!SecondCard(route)
<1>1. /\ departure # <<>> /\ Len(cards[r]) = 1 /\ UNCHANGED <<trip, found, departure>>
      /\ cards' = [cards EXCEPT ![r] = Append(@, second)]
  BY DEF Corridor!ShowSecond
<1>2. cards[r] = <<first>>
  <2>1. ASSUME NEW other, cards[r] = <<first, other>> PROVE Len(cards[r]) = 2
    BY <2>1
  <2> QED BY <1>1, <2>1 DEF SurveyInv, Shown
<1>3. /\ DOMAIN cards' = DOMAIN cards
      /\ cards'[r] = <<first, second>>
      /\ \A q \in DOMAIN cards \ {r} : cards'[q] = cards[q]
  <2> HIDE DEF first, second
  <2>1. Append(<<first>>, second) = <<first, second>> BY Appended
  <2>2. cards' = [cards EXCEPT ![r] = <<first, second>>] BY <1>1, <1>2, <2>1
  <2> QED BY <2>2
<1>4. Shown'
  <2>1. cards'[r][2] = second
    <3> HIDE DEF first, second
    <3> QED BY <1>3
  <2>2. cards'[r] = <<Corridor!FirstCard(trip'.routes[r]), cards'[r][2]>>
    BY <1>1, <1>3, <2>1
  <2>3. ASSUME NEW q \in DOMAIN cards \ {r}
        PROVE  \/ cards'[q] = <<Corridor!FirstCard(trip'.routes[q])>>
               \/ cards'[q] = <<Corridor!FirstCard(trip'.routes[q]), cards'[q][2]>>
    BY <1>1, <1>3, <2>3 DEF SurveyInv, Shown, Corridor!Second
  <2> QED BY <1>1, <1>3, <2>2, <2>3 DEF SurveyInv, Shown, Corridor!Second
<1>5. Corridor!Surveyed2' = Corridor!Surveyed2 \cup {r}
  <2>1. Len(cards'[r]) = 2
    <3> HIDE DEF first, second
    <3> QED BY <1>3
  <2> QED BY <1>3, <2>1 DEF Corridor!Surveyed2
<1>6. cards'[r][1] = first /\ cards'[r][2] = second
  <2> HIDE DEF first, second
  <2> QED BY <1>3
<1>7. \A q \in Corridor!Surveyed2 \ {r} : q \in DOMAIN cards \ {r} BY DEF Corridor!Surveyed2
<1>8. r \notin Corridor!Surveyed2
  <2>1. Len(cards[r]) # 2 BY <1>1
  <2> QED BY <2>1 DEF Corridor!Surveyed2
<1>9. Corridor!NoneMeansUnmeasured'
  <2> SUFFICES ASSUME NEW q \in Corridor!Surveyed2'
               PROVE  LET tags == Corridor!Surveyed(trip.routes[q])
                          card == cards'[q][2]
                      IN  /\ (card.stops = <<>>) <=> (found.rest_stops = <<>>)
                          /\ (card.air = <<>>) <=> (found.air = <<>> /\ Corridor!Air(tags) = <<>>)
                          /\ card.shade # <<>>
                               => found.cloud # <<>> /\ Corridor!ShadeCover(tags) # <<>>
                          /\ ~card.access.checked <=> (found.barriers = <<>>)
    BY <1>1 DEF Corridor!NoneMeansUnmeasured, Corridor!Second, Corridor!Absent
  <2>1. CASE q = r BY <1>6, <2>1, SecondHolds
  <2>2. CASE q # r
    <3>1. q \in Corridor!Surveyed2 /\ cards'[q] = cards[q] BY <1>3, <1>5, <1>7, <2>2
    <3> QED
      BY <3>1 DEF SurveyInv, Corridor!NoneMeansUnmeasured, Corridor!Second, Corridor!Absent
  <2> QED BY <2>1, <2>2
<1>10. Corridor!SurveyOnlyAdds'
  <2> SUFFICES ASSUME NEW q \in Corridor!Surveyed2'
               PROVE  LET one == cards'[q][1]
                          two == cards'[q][2]
                      IN  /\ one.access.findings \subseteq two.access.findings
                          /\ one.access.covered = two.access.covered
                          /\ one.blocked => two.blocked
                          /\ one.air # <<>> => two.air # <<>>
                          /\ <<one.scenic, one.quiet>> = <<two.scenic, two.quiet>>
    BY DEF Corridor!SurveyOnlyAdds, Corridor!Second, Corridor!Absent
  <2>1. CASE q = r BY <1>6, <2>1, SecondHolds
  <2>2. CASE q # r
    <3>1. q \in Corridor!Surveyed2 /\ cards'[q] = cards[q] BY <1>3, <1>5, <1>7, <2>2
    <3> QED
      BY <3>1 DEF SurveyInv, Corridor!SurveyOnlyAdds, Corridor!Second, Corridor!Absent
  <2> QED BY <2>1, <2>2
<1> QED BY <1>4, <1>9, <1>10 DEF SurveyInv

LEMMA SurveyInvariant == UpstreamSpec => []SurveyInv
<1>1. UpstreamInit => SurveyInv
  <2> SUFFICES ASSUME Corridor!Init PROVE SurveyInv BY DEF UpstreamInit
  <2>1. DOMAIN cards = {} /\ DOMAIN trip.routes = {} /\ departure = <<>>
    BY DEF Corridor!Init, Corridor!Nothing
  <2>2. Corridor!Surveyed2 = {} BY <2>1 DEF Corridor!Surveyed2
  <2> QED
    BY <2>1, <2>2 DEF SurveyInv, Shown, Corridor!NoneMeansUnmeasured, Corridor!SurveyOnlyAdds
<1>2. SurveyInv /\ [UpstreamNext]_upstreamVars => SurveyInv'
  <2> SUFFICES ASSUME SurveyInv, Corridor!Next \/ UNCHANGED corridorVars PROVE SurveyInv'
    BY OthersLeaveIt
  <2>1. CASE UNCHANGED corridorVars
    <3>1. UNCHANGED <<trip, found, departure, cards>> BY <2>1 DEF corridorVars
    <3>2. Shown' BY <3>1 DEF SurveyInv, Shown, Corridor!Second
    <3>3. Corridor!NoneMeansUnmeasured'
      BY <3>1 DEF SurveyInv, Corridor!NoneMeansUnmeasured, Corridor!Surveyed2, Corridor!Second
    <3>4. Corridor!SurveyOnlyAdds'
      BY <3>1 DEF SurveyInv, Corridor!SurveyOnlyAdds, Corridor!Surveyed2, Corridor!Second
    <3> QED BY <3>2, <3>3, <3>4 DEF SurveyInv
  <2> QED BY <2>1, SurveyBegins, SurveyAsks, SurveyShows DEF Corridor!Next
<1> QED BY <1>1, <1>2, PTL DEF UpstreamSpec

(* enrich_routes: whatever the sources answer or fail to, a second card    *)
(* has no number that nobody measured.                                     *)
THEOREM NoneIsUnmeasured == UpstreamSpec => []NoneMeansUnmeasured
<1>1. SurveyInv => NoneMeansUnmeasured BY DEF SurveyInv, NoneMeansUnmeasured
<1> QED BY <1>1, SurveyInvariant, PTL

(* The second pass of route_events: a second card takes back nothing that  *)
(* the first one found, blocked or measured.                               *)
THEOREM TheSurveyOnlyAdds == UpstreamSpec => []SurveyOnlyAdds
<1>1. SurveyInv => SurveyOnlyAdds BY DEF SurveyInv, SurveyOnlyAdds
<1> QED BY <1>1, SurveyInvariant, PTL

-----------------------------------------------------------------------------
(* What a checked card promises.  The metres of a route are added up by a  *)
(* function that calls itself, so what a total is worth is shown by        *)
(* induction: of what fails there would be a first.                        *)

(* What holds at nought and goes on holding, stated of a set.              *)
LEMMA StepByStep ==
    ASSUME NEW N \in Nat, NEW S, 0 \in S, \A n \in 1..N : n - 1 \in S => n \in S
    PROVE  \A n \in 0..N : n \in S
<1> DEFINE bad == {n \in 0..N : n \notin S}
<1> SUFFICES ASSUME bad # {} PROVE FALSE OBVIOUS
<1>1. bad \in SUBSET Nat OBVIOUS
<1>2. PICK n \in bad : \A m \in bad : n <= m
  <2> HIDE DEF bad
  <2> QED BY <1>1, LeastOf
<1>3. n \in 1..N /\ n - 1 \in 0..N OBVIOUS
<1>4. n - 1 \notin bad BY <1>2, <1>3
<1> QED BY <1>3, <1>4

\* The definition of the running totals, and the function they make.
Running(f, numbers, n) ==
    f = [i \in 0..n |-> IF i = 0 THEN 0 ELSE f[i - 1] + numbers[i]]
Runs(numbers, n) ==
    \E f \in [0..n -> Int] : f[0] = 0 /\ \A i \in 1..n : f[i] = f[i - 1] + numbers[i]

(* The running totals of a sequence are what their definition says.        *)
LEMMA SumsRun ==
    ASSUME NEW numbers \in Seq(Int)
    PROVE  /\ Corridor!Sums(numbers) \in [0..Len(numbers) -> Int]
           /\ Corridor!Sums(numbers)[0] = 0
           /\ \A i \in 1..Len(numbers) :
                 Corridor!Sums(numbers)[i] = Corridor!Sums(numbers)[i - 1] + numbers[i]
<1> DEFINE size == Len(numbers)
           known == {n \in 0..size : Runs(numbers, n)}
<1>1. Runs(numbers, 0)
  <2> DEFINE f == [i \in 0..0 |-> 0]
  <2>1. f \in [0..0 -> Int] /\ f[0] = 0 /\ 1..0 = {} OBVIOUS
  <2> HIDE DEF f
  <2> QED BY <2>1 DEF Runs
<1>2. ASSUME NEW n \in 1..size, Runs(numbers, n - 1) PROVE Runs(numbers, n)
  <2>1. PICK f \in [0..(n - 1) -> Int] :
           f[0] = 0 /\ \A i \in 1..(n - 1) : f[i] = f[i - 1] + numbers[i]
    BY <1>2 DEF Runs
  <2> DEFINE g == [i \in 0..n |-> IF i = n THEN f[n - 1] + numbers[n] ELSE f[i]]
  <2>2. numbers[n] \in Int /\ f[n - 1] \in Int OBVIOUS
  <2>3. g \in [0..n -> Int] /\ g[0] = 0 BY <2>1, <2>2
  <2>4. \A i \in 1..n : g[i] = g[i - 1] + numbers[i] BY <2>1, <2>2
  <2> HIDE DEF g
  <2> QED BY <2>3, <2>4 DEF Runs
<1>3. Runs(numbers, size)
  <2>1. \A n \in 1..size : n - 1 \in known => n \in known BY <1>2
  <2>2. 0 \in known /\ size \in 0..size /\ size \in Nat BY <1>1
  <2> HIDE DEF known, size
  <2>3. size \in known BY <2>1, <2>2, StepByStep
  <2> QED BY <2>3 DEF known
<1>4. PICK f \in [0..size -> Int] :
         f[0] = 0 /\ \A i \in 1..size : f[i] = f[i - 1] + numbers[i]
  BY <1>3 DEF Runs
<1>5. Running(f, numbers, size)
  <2>1. f = [i \in 0..size |-> f[i]] OBVIOUS
  <2>2. \A i \in 0..size : f[i] = IF i = 0 THEN 0 ELSE f[i - 1] + numbers[i] BY <1>4
  <2> QED BY <2>1, <2>2 DEF Running
<1>6. Corridor!Sums(numbers) = CHOOSE h : Running(h, numbers, size) BY DEF Corridor!Sums, Running
<1>7. Running(Corridor!Sums(numbers), numbers, size) BY <1>5, <1>6
<1>8. /\ DOMAIN Corridor!Sums(numbers) = 0..size /\ Corridor!Sums(numbers)[0] = 0
      /\ \A i \in 1..size : Corridor!Sums(numbers)[i] = Corridor!Sums(numbers)[i - 1] + numbers[i]
  <2>1. Corridor!Sums(numbers)
          = [i \in 0..size |-> IF i = 0 THEN 0 ELSE Corridor!Sums(numbers)[i - 1] + numbers[i]]
    BY <1>7 DEF Running
  <2>2. \A i \in 0..size :
           Corridor!Sums(numbers)[i]
             = IF i = 0 THEN 0 ELSE Corridor!Sums(numbers)[i - 1] + numbers[i]
    BY <2>1, Zenon
  <2> QED BY <2>1, <2>2
<1>9. \A n \in 0..size : Corridor!Sums(numbers)[n] = f[n]
  <2> DEFINE same == {n \in 0..size : Corridor!Sums(numbers)[n] = f[n]}
  <2>1. 0 \in same BY <1>4, <1>8
  <2>2. \A n \in 1..size : n - 1 \in same => n \in same BY <1>4, <1>8
  <2>3. size \in Nat OBVIOUS
  <2> HIDE DEF same, size
  <2>4. \A n \in 0..size : n \in same BY <2>1, <2>2, <2>3, StepByStep
  <2> QED BY <2>4 DEF same
<1>10. Corridor!Sums(numbers) = [n \in 0..size |-> f[n]]
  <2>1. Corridor!Sums(numbers) = [n \in 0..size |-> Corridor!Sums(numbers)[n]] BY <1>7 DEF Running
  <2> QED BY <1>9, <2>1
<1> QED BY <1>4, <1>8, <1>10

(* A total of naturals is one, and none of them is more.                   *)
LEMMA TotalCovers ==
    ASSUME NEW numbers \in Seq(Nat)
    PROVE  /\ Corridor!Total(numbers) \in Nat
           /\ \A i \in DOMAIN numbers : numbers[i] <= Corridor!Total(numbers)
<1> DEFINE sums == Corridor!Sums(numbers)
           size == Len(numbers)
           good == {n \in 0..size : sums[n] \in Nat /\ \A i \in 1..n : numbers[i] <= sums[n]}
<1>1. numbers \in Seq(Int) /\ size \in Nat /\ DOMAIN numbers = 1..size
      /\ \A i \in 1..size : numbers[i] \in Nat
  OBVIOUS
<1>2. /\ sums \in [0..size -> Int] /\ sums[0] = 0
      /\ \A i \in 1..size : sums[i] = sums[i - 1] + numbers[i]
  BY <1>1, SumsRun
<1> HIDE DEF sums, size
<1>3. 0 \in good BY <1>1, <1>2
<1>4. \A n \in 1..size : n - 1 \in good => n \in good
  <2> SUFFICES ASSUME NEW n \in 1..size, n - 1 \in good PROVE n \in good OBVIOUS
  <2>1. sums[n - 1] \in Nat /\ \A i \in 1..(n - 1) : numbers[i] <= sums[n - 1] OBVIOUS
  <2>2. sums[n] = sums[n - 1] + numbers[n] /\ numbers[n] \in Nat BY <1>1, <1>2
  <2>3. \A i \in 1..n : i = n \/ i \in 1..(n - 1) OBVIOUS
  <2>4. sums[n] \in Nat BY <2>1, <2>2
  <2>5. \A i \in 1..n : numbers[i] <= sums[n]
    <3> TAKE i \in 1..n
    <3>1. numbers[i] \in Nat BY <1>1
    <3>2. CASE i = n BY <2>1, <2>2, <3>2
    <3>3. CASE i \in 1..(n - 1) BY <2>1, <2>2, <3>1, <3>3
    <3> QED BY <2>3, <3>2, <3>3
  <2> QED BY <2>4, <2>5, <1>1
<1>5. \A n \in 0..size : n \in good
  <2> HIDE DEF good
  <2> QED BY <1>1, <1>3, <1>4, StepByStep
<1>6. size \in good BY <1>1, <1>5
<1> QED BY <1>1, <1>6 DEF sums, size, Corridor!Total

(* What is sharper term by term is so in total.                            *)
LEMMA TotalsAdd ==
    ASSUME NEW size \in Nat,
           NEW one \in [1..size -> Int], NEW two \in [1..size -> Int], NEW all \in [1..size -> Int],
           \A i \in 1..size : one[i] + two[i] <= all[i]
    PROVE  /\ Corridor!Total(one) \in Int /\ Corridor!Total(two) \in Int
           /\ Corridor!Total(all) \in Int
           /\ Corridor!Total(one) + Corridor!Total(two) <= Corridor!Total(all)
<1> DEFINE a == Corridor!Sums(one)
           b == Corridor!Sums(two)
           c == Corridor!Sums(all)
           good == {n \in 0..size : a[n] + b[n] <= c[n]}
<1>1. /\ one \in Seq(Int) /\ two \in Seq(Int) /\ all \in Seq(Int)
      /\ Len(one) = size /\ Len(two) = size /\ Len(all) = size
  OBVIOUS
<1>2. /\ a \in [0..size -> Int] /\ a[0] = 0 /\ \A i \in 1..size : a[i] = a[i - 1] + one[i]
      /\ b \in [0..size -> Int] /\ b[0] = 0 /\ \A i \in 1..size : b[i] = b[i - 1] + two[i]
      /\ c \in [0..size -> Int] /\ c[0] = 0 /\ \A i \in 1..size : c[i] = c[i - 1] + all[i]
  BY <1>1, SumsRun
<1> HIDE DEF a, b, c
<1>3. 0 \in good BY <1>2
<1>4. \A n \in 1..size : n - 1 \in good => n \in good
  <2> SUFFICES ASSUME NEW n \in 1..size, n - 1 \in good PROVE n \in good OBVIOUS
  <2> DEFINE m == n - 1
  <2>1. m \in 0..size /\ n \in 0..size OBVIOUS
  <2>2. a[m] \in Int /\ b[m] \in Int /\ c[m] \in Int BY <1>2, <2>1
  <2>3. one[n] \in Int /\ two[n] \in Int /\ all[n] \in Int OBVIOUS
  <2>4. one[n] + two[n] <= all[n] OBVIOUS
  <2>5. a[m] + b[m] <= c[m] OBVIOUS
  <2>6. a[n] = a[m] + one[n] /\ b[n] = b[m] + two[n] /\ c[n] = c[m] + all[n] BY <1>2
  <2>7. a[n] + b[n] <= c[n]
    <3> HIDE DEF m
    <3> QED BY <2>2, <2>3, <2>4, <2>5, <2>6
  <2> QED BY <2>1, <2>7
<1>5. \A n \in 0..size : n \in good
  <2> HIDE DEF good
  <2> QED BY <1>3, <1>4, StepByStep
<1>6. a[size] + b[size] <= c[size] /\ a[size] \in Int /\ b[size] \in Int /\ c[size] \in Int
  BY <1>2, <1>5
<1> QED BY <1>1, <1>6 DEF a, b, c, Corridor!Total

(* A stretch of a sequence of naturals.                                    *)
LEMMA PartOfIt ==
    ASSUME NEW numbers \in Seq(Nat), NEW m \in Nat, NEW n \in m..Len(numbers)
    PROVE  /\ SubSeq(numbers, m + 1, n) \in Seq(Nat)
           /\ Len(SubSeq(numbers, m + 1, n)) = n - m
           /\ \A i \in 1..(n - m) : SubSeq(numbers, m + 1, n)[i] = numbers[m + i]
<1>1. m + 1 \in 1..(Len(numbers) + 1) /\ n \in ((m + 1) - 1)..Len(numbers) OBVIOUS
<1> QED BY <1>1, SubSeqProperties

\* One of a route's SpansOfDetails.
Span == [from : Nat, to : Nat, value : STRING, at : Seq(Nat)]

(* What a span covers of a route is a number of metres.                    *)
LEMMA ExtentCounts ==
    ASSUME NEW numbers \in Seq(Nat), NEW span, span.from \in Nat, span.to \in Nat
    PROVE  Corridor!Extent(span, numbers) \in Nat
<1> DEFINE from == Corridor!SpanFrom(span, numbers)
           to == Corridor!SpanTo(span, numbers)
<1>1. from \in Nat /\ to \in from..Len(numbers)
  BY DEF Corridor!SpanFrom, Corridor!SpanTo, Corridor!Lesser
<1> HIDE DEF from, to
<1>2. SubSeq(numbers, from + 1, to) \in Seq(Nat) BY <1>1, PartOfIt
<1>3. Corridor!Total(SubSeq(numbers, from + 1, to)) \in Nat BY <1>2, TotalCovers
<1> QED BY <1>3 DEF Corridor!Extent, from, to

(* A span over one segment is as long as it.                               *)
LEMMA ExtentOfOne ==
    ASSUME NEW numbers \in Seq(Nat), NEW i \in 1..Len(numbers), numbers[i] > 0,
           NEW span, span.from = i - 1, span.to = i
    PROVE  Corridor!Extent(span, numbers) > 0
<1> DEFINE part == SubSeq(numbers, (i - 1) + 1, i)
<1>1. Corridor!SpanFrom(span, numbers) = i - 1 /\ Corridor!SpanTo(span, numbers) = i
  BY DEF Corridor!SpanFrom, Corridor!SpanTo, Corridor!Lesser
<1>2. part \in Seq(Nat) /\ Len(part) = 1 /\ part[1] = numbers[i]
  <2> DEFINE m == i - 1
  <2>1. m \in Nat /\ i \in m..Len(numbers) /\ i - m = 1 /\ m + 1 = i OBVIOUS
  <2> HIDE DEF m
  <2>2. /\ SubSeq(numbers, m + 1, i) \in Seq(Nat)
        /\ Len(SubSeq(numbers, m + 1, i)) = i - m
        /\ \A j \in 1..(i - m) : SubSeq(numbers, m + 1, i)[j] = numbers[m + j]
    BY <2>1, PartOfIt
  <2>3. SubSeq(numbers, m + 1, i)[1] = numbers[i] BY <2>1, <2>2
  <2> QED BY <2>1, <2>2, <2>3 DEF m
<1> HIDE DEF part
<1>3. Corridor!Total(part) \in Nat /\ part[1] <= Corridor!Total(part) /\ numbers[i] \in Nat
  <2>1. 1 \in DOMAIN part /\ numbers[i] \in Nat BY <1>2
  <2> QED BY <1>2, <2>1, TotalCovers
<1>4. Corridor!Total(part) > 0 BY <1>2, <1>3
<1> QED BY <1>1, <1>4 DEF Corridor!Extent, part

(* Metres that pass and metres that fail are metres of which something is  *)
(* recorded.                                                               *)
MetresOf(spans, numbers, verdicts, verdict) ==
    [i \in DOMAIN spans |->
        IF verdicts[i] = verdict THEN Corridor!Extent(spans[i], numbers) ELSE 0]
LEMMA JudgedIsRecorded ==
    ASSUME NEW numbers \in Seq(Nat), NEW spans \in Seq(Span), NEW verdicts,
           \A i \in DOMAIN spans :
               spans[i].value \in Corridor!UnknownValues => verdicts[i] = "unknown"
    PROVE  /\ Corridor!Total(MetresOf(spans, numbers, verdicts, "pass")) \in Int
           /\ Corridor!Total(MetresOf(spans, numbers, verdicts, "fail")) \in Int
           /\ Corridor!Recorded(spans, numbers) \in Int
           /\ Corridor!Total(MetresOf(spans, numbers, verdicts, "pass"))
                + Corridor!Total(MetresOf(spans, numbers, verdicts, "fail"))
                <= Corridor!Recorded(spans, numbers)
<1> DEFINE size == Len(spans)
           pass == MetresOf(spans, numbers, verdicts, "pass")
           fail == MetresOf(spans, numbers, verdicts, "fail")
           all == [i \in DOMAIN spans |-> IF spans[i].value \in Corridor!UnknownValues THEN 0
                                          ELSE Corridor!Extent(spans[i], numbers)]
<1>1. size \in Nat /\ DOMAIN spans = 1..size OBVIOUS
<1>2. \A i \in 1..size : Corridor!Extent(spans[i], numbers) \in Nat
  <2> TAKE i \in 1..size
  <2>1. spans[i] \in Span OBVIOUS
  <2>2. spans[i].from \in Nat /\ spans[i].to \in Nat BY <2>1 DEF Span
  <2> QED BY <2>2, ExtentCounts
<1>3. pass \in [1..size -> Int] /\ fail \in [1..size -> Int] /\ all \in [1..size -> Int]
  BY <1>1, <1>2 DEF MetresOf
<1>4. \A i \in 1..size : pass[i] + fail[i] <= all[i]
  <2> TAKE i \in 1..size
  <2>1. pass[i] = IF verdicts[i] = "pass" THEN Corridor!Extent(spans[i], numbers) ELSE 0
    BY <1>1 DEF MetresOf
  <2>2. fail[i] = IF verdicts[i] = "fail" THEN Corridor!Extent(spans[i], numbers) ELSE 0
    BY <1>1 DEF MetresOf
  <2>3. all[i] = IF spans[i].value \in Corridor!UnknownValues THEN 0
                 ELSE Corridor!Extent(spans[i], numbers)
    BY <1>1
  <2>4. spans[i].value \in Corridor!UnknownValues => verdicts[i] = "unknown" BY <1>1
  <2> HIDE DEF pass, fail, all
  <2>5. "pass" # "fail" /\ "pass" # "unknown" /\ "fail" # "unknown" OBVIOUS
  <2>6. Corridor!Extent(spans[i], numbers) \in Nat BY <1>2
  <2> QED BY <2>1, <2>2, <2>3, <2>4, <2>5, <2>6
<1>5. Corridor!Recorded(spans, numbers) = Corridor!Total(all) BY DEF Corridor!Recorded
<1> HIDE DEF pass, fail, all, size
<1>6. /\ Corridor!Total(pass) \in Int /\ Corridor!Total(fail) \in Int
      /\ Corridor!Total(all) \in Int
      /\ Corridor!Total(pass) + Corridor!Total(fail) <= Corridor!Total(all)
  BY <1>1, <1>3, <1>4, TotalsAdd
<1> QED BY <1>5, <1>6 DEF pass, fail

LEMMA SurfaceRecorded ==
    ASSUME NEW numbers \in Seq(Nat), NEW spans \in Seq(Span)
    PROVE  /\ Corridor!Metres(spans, numbers, "pass", Corridor!AssessSurface) \in Int
           /\ Corridor!Metres(spans, numbers, "fail", Corridor!AssessSurface) \in Int
           /\ Corridor!Recorded(spans, numbers) \in Int
           /\ Corridor!Metres(spans, numbers, "pass", Corridor!AssessSurface)
                + Corridor!Metres(spans, numbers, "fail", Corridor!AssessSurface)
                <= Corridor!Recorded(spans, numbers)
<1> DEFINE verdicts == [i \in DOMAIN spans |-> Corridor!AssessSurface(spans[i].value)]
<1>1. \A i \in DOMAIN spans :
         spans[i].value \in Corridor!UnknownValues => verdicts[i] = "unknown"
  BY DEF Corridor!AssessSurface, Corridor!Judge
<1>2. /\ Corridor!Metres(spans, numbers, "pass", Corridor!AssessSurface)
           = Corridor!Total(MetresOf(spans, numbers, verdicts, "pass"))
      /\ Corridor!Metres(spans, numbers, "fail", Corridor!AssessSurface)
           = Corridor!Total(MetresOf(spans, numbers, verdicts, "fail"))
  BY DEF Corridor!Metres, MetresOf
<1> HIDE DEF verdicts
<1> QED BY <1>1, <1>2, JudgedIsRecorded

LEMMA SmoothnessRecorded ==
    ASSUME NEW numbers \in Seq(Nat), NEW spans \in Seq(Span)
    PROVE  /\ Corridor!Metres(spans, numbers, "pass", Corridor!AssessSmoothness) \in Int
           /\ Corridor!Metres(spans, numbers, "fail", Corridor!AssessSmoothness) \in Int
           /\ Corridor!Recorded(spans, numbers) \in Int
           /\ Corridor!Metres(spans, numbers, "pass", Corridor!AssessSmoothness)
                + Corridor!Metres(spans, numbers, "fail", Corridor!AssessSmoothness)
                <= Corridor!Recorded(spans, numbers)
<1> DEFINE verdicts == [i \in DOMAIN spans |-> Corridor!AssessSmoothness(spans[i].value)]
<1>1. \A i \in DOMAIN spans :
         spans[i].value \in Corridor!UnknownValues => verdicts[i] = "unknown"
  BY DEF Corridor!AssessSmoothness, Corridor!Judge
<1>2. /\ Corridor!Metres(spans, numbers, "pass", Corridor!AssessSmoothness)
           = Corridor!Total(MetresOf(spans, numbers, verdicts, "pass"))
      /\ Corridor!Metres(spans, numbers, "fail", Corridor!AssessSmoothness)
           = Corridor!Total(MetresOf(spans, numbers, verdicts, "fail"))
  BY DEF Corridor!Metres, MetresOf
<1> HIDE DEF verdicts
<1> QED BY <1>1, <1>2, JudgedIsRecorded

(* A route that passes without reserve is recorded for most of its length. *)
LEMMA PassIsRecorded ==
    ASSUME NEW route \in TagsOfARoute, NEW barriers,
           Corridor!Assess(route, barriers).verdict = "pass",
           Corridor!Reliance(Corridor!Assess(route, barriers)) = "plain"
    PROVE  10 * (Corridor!Recorded(route.surface, route.lengths)
                   + Corridor!Recorded(route.smoothness, route.lengths))
             >= 6 * Corridor!Assess(route, barriers).whole
<1> DEFINE access == Corridor!Assess(route, barriers)
           recorded == Corridor!Recorded(route.surface, route.lengths)
                         + Corridor!Recorded(route.smoothness, route.lengths)
           judged == Corridor!Measured(route, "pass") + Corridor!Measured(route, "fail")
<1>1. /\ route.lengths \in Seq(Nat)
      /\ route.surface \in Seq(Span) /\ route.smoothness \in Seq(Span)
  BY DEF TagsOfARoute, SpansOfDetails, Span
<1>2. recorded \in Int /\ judged \in Int /\ judged <= recorded
  <2> DEFINE p == Corridor!Metres(route.surface, route.lengths, "pass", Corridor!AssessSurface)
             f == Corridor!Metres(route.surface, route.lengths, "fail", Corridor!AssessSurface)
             q == Corridor!Metres(route.smoothness, route.lengths, "pass",
                                  Corridor!AssessSmoothness)
             g == Corridor!Metres(route.smoothness, route.lengths, "fail",
                                  Corridor!AssessSmoothness)
             r == Corridor!Recorded(route.surface, route.lengths)
             s == Corridor!Recorded(route.smoothness, route.lengths)
  <2>1. p \in Int /\ f \in Int /\ r \in Int /\ p + f <= r BY <1>1, SurfaceRecorded
  <2>2. q \in Int /\ g \in Int /\ s \in Int /\ q + g <= s BY <1>1, SmoothnessRecorded
  <2>3. judged = (p + q) + (f + g) BY DEF Corridor!Measured
  <2>4. recorded = r + s OBVIOUS
  <2> HIDE DEF judged, recorded, p, f, q, g, r, s
  <2> QED BY <2>1, <2>2, <2>3, <2>4
<1>3. Corridor!Total(route.lengths) # 0
  <2>1. Corridor!Total(route.lengths) = 0 => access.verdict = "unknown"
    BY DEF Corridor!Assess
  <2> QED BY <2>1
<1>4. access.covered = Corridor!Definite(route) /\ access.whole = Corridor!Whole(route)
  BY <1>3 DEF Corridor!Assess
<1>5. access.whole \in Nat
  <2>1. Corridor!Total(route.lengths) \in Nat BY <1>1, TotalCovers
  <2> HIDE DEF access
  <2> QED BY <1>4, <2>1 DEF Corridor!Whole
<1>6. access.covered \in Int /\ access.covered <= judged
  <2>1. access.covered = Corridor!Lesser(judged, access.whole)
    BY <1>4 DEF Corridor!Definite
  <2> HIDE DEF access, judged
  <2> QED BY <2>1, <1>2, <1>5 DEF Corridor!Lesser
<1>7. 10 * access.covered >= 6 * access.whole
  <2>1. ~(10 * access.covered < 3 * access.whole)
    BY DEF Corridor!Reliance
  <2>2. ~(10 * access.covered >= 3 * access.whole /\ 10 * access.covered < 6 * access.whole)
    BY DEF Corridor!Reliance
  <2> HIDE DEF access
  <2> QED BY <2>1, <2>2, <1>5, <1>6
<1> HIDE DEF access, judged, recorded
<1>8. 10 * recorded >= 6 * access.whole BY <1>2, <1>5, <1>6, <1>7
<1> QED BY <1>8 DEF recorded, access

(* How far a node is from a segment: no further than from where it starts. *)
LEMMA GapCounts ==
    ASSUME NEW positions \in Seq(Int), NEW i \in Corridor!Segments(positions),
           NEW node, node.at \in Int
    PROVE  /\ Corridor!Gap(positions, i, node) \in Nat
           /\ positions[i] \in Int /\ positions[i + 1] \in Int
           /\ Corridor!Gap(positions, i, node) <= Corridor!Magnitude(node.at - positions[i])
           /\ positions[i] = positions[i + 1] =>
                Corridor!Gap(positions, i, node) = Corridor!Magnitude(node.at - positions[i])
<1>1. positions[i] \in Int /\ positions[i + 1] \in Int BY DEF Corridor!Segments
<1> DEFINE p == positions[i]
           q == positions[i + 1]
           a == node.at
           low == IF p < q THEN p ELSE q
           high == p + q - low
<1>2. Corridor!Gap(positions, i, node)
        = IF a < low THEN low - a ELSE IF a > high THEN a - high ELSE 0
  BY DEF Corridor!Gap, Corridor!Lesser
<1>3. Corridor!Magnitude(a - p) = IF a - p < 0 THEN 0 - (a - p) ELSE a - p
  BY DEF Corridor!Magnitude
<1>4. p \in Int /\ q \in Int /\ a \in Int BY <1>1
<1> HIDE DEF p, q, a
<1>5. /\ Corridor!Gap(positions, i, node) \in Nat
      /\ Corridor!Gap(positions, i, node) <= Corridor!Magnitude(a - p)
      /\ p = q => Corridor!Gap(positions, i, node) = Corridor!Magnitude(a - p)
  BY <1>2, <1>3, <1>4
<1> QED BY <1>4, <1>5 DEF p, q, a

(* There is a nearest segment, and of those equally near it is the last.   *)
LEMMA NearestIsThere ==
    ASSUME NEW positions \in Seq(Int), Len(positions) >= 2, NEW node, node.at \in Int
    PROVE  /\ Corridor!Nearest(positions, node) \in Corridor!Segments(positions)
           /\ \A j \in Corridor!Segments(positions) :
                 IF j > Corridor!Nearest(positions, node)
                 THEN Corridor!Gap(positions, Corridor!Nearest(positions, node), node)
                        < Corridor!Gap(positions, j, node)
                 ELSE Corridor!Gap(positions, Corridor!Nearest(positions, node), node)
                        <= Corridor!Gap(positions, j, node)
<1> DEFINE size == Len(positions)
           last == size - 1
           I == 1..last
           gap == [i \in I |-> Corridor!Gap(positions, i, node)]
           merit == [i \in I |-> 0 - gap[size - i]]
<1>1. size \in Nat /\ last \in Nat /\ 1 \in I /\ Corridor!Segments(positions) = I
  BY DEF Corridor!Segments
<1>2. \A i \in I : size - i \in I /\ gap[i] \in Nat
  <2> TAKE i \in I
  <2>1. Corridor!Gap(positions, i, node) \in Nat BY <1>1, GapCounts
  <2> QED BY <2>1
<1>3. \A i \in I : merit[i] = 0 - gap[size - i] /\ merit[i] \in Int
  <2> TAKE i \in I
  <2>1. merit[i] = 0 - gap[size - i] OBVIOUS
  <2>2. gap[size - i] \in Nat BY <1>2
  <2> HIDE DEF gap, merit
  <2> QED BY <2>1, <2>2
<1>4. \A i \in I : gap[i] = Corridor!Gap(positions, i, node) OBVIOUS
<1>5. \A i \in I : i \in Int BY <1>1
<1> HIDE DEF merit, gap
<1>6. PICK k \in I : \A j \in I : IF j < k THEN merit[j] < merit[k] ELSE merit[j] <= merit[k]
  <2>1. I \in SUBSET (1..last) /\ I # {} /\ \A i \in I : merit[i] \in Int BY <1>1, <1>3
  <2> HIDE DEF I, last
  <2> QED BY <1>1, <2>1, FirstMost
<1> DEFINE n == size - k
<1>7. n \in I BY <1>2
<1>8. \A j \in I : IF j > n THEN gap[n] < gap[j] ELSE gap[n] <= gap[j]
  <2> TAKE j \in I
  <2> DEFINE m == size - j
  <2>1. m \in I /\ size - m = j BY <1>1, <1>2, <1>5
  <2>2. merit[m] = 0 - gap[j] /\ merit[k] = 0 - gap[n] BY <1>3, <2>1
  <2>3. IF m < k THEN merit[m] < merit[k] ELSE merit[m] <= merit[k] BY <1>6, <2>1
  <2>4. gap[j] \in Nat /\ gap[n] \in Nat BY <1>2, <1>7
  <2>5. m < k <=> j > n BY <1>1, <1>5
  <2> HIDE DEF m, n
  <2> QED BY <2>2, <2>3, <2>4, <2>5
<1>9. \A j \in I : IF j > n THEN Corridor!Gap(positions, n, node) < Corridor!Gap(positions, j, node)
                   ELSE Corridor!Gap(positions, n, node) <= Corridor!Gap(positions, j, node)
  BY <1>4, <1>7, <1>8
<1> HIDE DEF I, n
<1>10. Corridor!Nearest(positions, node) =
         CHOOSE i \in I : \A j \in I :
            IF j > i THEN Corridor!Gap(positions, i, node) < Corridor!Gap(positions, j, node)
            ELSE Corridor!Gap(positions, i, node) <= Corridor!Gap(positions, j, node)
  BY <1>1 DEF Corridor!Nearest
<1> QED BY <1>1, <1>7, <1>9, <1>10

LEMMA Squares == ASSUME NEW a \in Nat, NEW b \in Nat, a <= b PROVE a * a <= b * b
<1>1. PICK d \in Nat : b = a + d
  <2>1. b - a \in Nat /\ b = a + (b - a) OBVIOUS
  <2> QED BY <2>1
<1>2. b * b = a * a + (2 * a * d + d * d) BY <1>1
<1>3. 2 * a * d \in Nat /\ d * d \in Nat /\ a * a \in Nat OBVIOUS
<1> QED BY <1>2, <1>3

(* What lies on the line lies by its nearest segment, and that one is no   *)
(* point, unless the line ends in one.                                     *)
LEMMA NearestIsASegment ==
    ASSUME NEW positions \in Seq(Int), Len(positions) >= 2,
           NEW node, node.at \in Int, node.off \in Int,
           Corridor!OnTheLine(positions, node),
           positions[Len(positions)] # positions[Len(positions) - 1]
    PROVE  LET i == Corridor!Nearest(positions, node) IN
           /\ i \in Corridor!Segments(positions)
           /\ Corridor!Lengths(positions)[i] > 0
           /\ Corridor!NearLine(Corridor!Gap(positions, i, node), node, Corridor!Corridor)
<1> DEFINE i == Corridor!Nearest(positions, node)
           gap(j) == Corridor!Gap(positions, j, node)
<1>1. /\ i \in Corridor!Segments(positions)
      /\ \A j \in Corridor!Segments(positions) : IF j > i THEN gap(i) < gap(j) ELSE gap(i) <= gap(j)
  BY NearestIsThere
<1> HIDE DEF i
<1>2. \A j \in Corridor!Segments(positions) : gap(j) \in Nat BY GapCounts
<1>3. positions[i] # positions[i + 1]
  <2> SUFFICES ASSUME positions[i] = positions[i + 1] PROVE FALSE OBVIOUS
  <2> DEFINE j == i + 1
  <2>1. i + 1 \in Corridor!Segments(positions) BY <1>1 DEF Corridor!Segments
  <2>2. gap(i) = Corridor!Magnitude(node.at - positions[i]) BY <1>1, GapCounts
  <2>3. gap(j) <= Corridor!Magnitude(node.at - positions[j]) BY <2>1, GapCounts
  <2>4. gap(i) < gap(j)
    <3>1. j > i BY <1>1 DEF Corridor!Segments
    <3> QED BY <1>1, <2>1, <3>1
  <2>5. gap(i) \in Nat /\ gap(j) \in Nat BY <1>1, <1>2, <2>1
  <2>6. gap(j) <= gap(i) BY <2>2, <2>3
  <2> HIDE DEF gap, j
  <2> QED BY <2>4, <2>5, <2>6
<1>4. Corridor!Lengths(positions)[i] > 0
  <2>1. positions[i] \in Int /\ positions[i + 1] \in Int BY <1>1 DEF Corridor!Segments
  <2>2. Corridor!Lengths(positions)[i] = Corridor!Magnitude(positions[i + 1] - positions[i])
    BY <1>1 DEF Corridor!Lengths
  <2> QED BY <1>3, <2>1, <2>2 DEF Corridor!Magnitude
<1>5. PICK j \in Corridor!Segments(positions) :
         Corridor!NearLine(gap(j), node, Corridor!Corridor)
  BY DEF Corridor!OnTheLine
<1>6. gap(i) <= gap(j) /\ gap(i) \in Nat /\ gap(j) \in Nat
  <2>1. gap(i) \in Nat /\ gap(j) \in Nat BY <1>1, <1>2
  <2>2. gap(i) < gap(j) \/ gap(i) <= gap(j) BY <1>1
  <2> HIDE DEF gap
  <2> QED BY <2>1, <2>2
<1>7. gap(i) * gap(i) <= gap(j) * gap(j) BY <1>6, Squares
<1>8. gap(j) * gap(j) + node.off * node.off <= 100
  BY <1>5 DEF Corridor!NearLine, Corridor!Corridor
<1>9. gap(i) * gap(i) + node.off * node.off <= 100
  <2>1. gap(i) * gap(i) \in Int /\ gap(j) * gap(j) \in Int /\ node.off * node.off \in Int
    BY <1>6
  <2> HIDE DEF gap
  <2> QED BY <1>7, <1>8, <2>1
<1> QED BY <1>1, <1>4, <1>9 DEF Corridor!NearLine, Corridor!Corridor, i

LEMMA SurveyCardinality == \A S : Corridor!Cardinality(S) = Cardinality(S)
BY DEF Corridor!Cardinality, Cardinality

(* A finite set put in a sequence is all in it.                            *)
LEMMA AllInTheSequence ==
    ASSUME NEW S, IsFiniteSet(S)
    PROVE  Corridor!ToSet(Corridor!SetToSeq(S)) = S
<1> DEFINE size == Cardinality(S)
           inOrder == Corridor!SetToSeq(S)
<1>1. size \in Nat /\ ExistsBijection(1..size, S) BY FS_CardinalityType
<1>2. PICK b \in Bijection(1..size, S) : TRUE BY <1>1 DEF ExistsBijection
<1>3. b \in [1..size -> S] /\ Corridor!IsInjective(b)
  BY <1>2 DEF Bijection, Injection, IsInjective, Corridor!IsInjective
<1>4. inOrder = CHOOSE f \in [1..size -> S] : Corridor!IsInjective(f)
  BY SurveyCardinality DEF Corridor!SetToSeq
<1> HIDE DEF inOrder
<1>5. inOrder \in [1..size -> S] /\ Corridor!IsInjective(inOrder) BY <1>3, <1>4
<1>6. inOrder \in Injection(1..size, S)
  BY <1>5 DEF Injection, IsInjective, Corridor!IsInjective
<1>7. inOrder \in Surjection(1..size, S)
  <2>1. Cardinality(1..size) = size
    <3>1. Cardinality(1..size) = IF 1 > size THEN 0 ELSE size - 1 + 1 BY <1>1, FS_Interval
    <3> QED BY <1>1, <3>1
  <2> QED BY <1>6, <2>1, FS_Injection
<1> QED BY <1>5, <1>7 DEF Surjection, Corridor!ToSet, inOrder

\* What BarrierSpans makes of a node, and of which nodes.
SpanOf(positions, node) ==
    LET i == Corridor!Nearest(positions, node) IN
    [from |-> i - 1, to |-> i, value |-> node.value,
     at |-> <<Corridor!Along(positions, i, node)>>]
NearTo(positions, nodes) ==
    {node \in nodes :
        Corridor!NearLine(Corridor!Gap(positions, Corridor!Nearest(positions, node), node),
                          node, Corridor!Corridor)}
SpansOf(positions, nodes) == {SpanOf(positions, node) : node \in NearTo(positions, nodes)}

(* Each node within the corridor has its span.                             *)
LEMMA EachHasASpan ==
    ASSUME NEW positions, NEW nodes, IsFiniteSet(nodes)
    PROVE  Corridor!ToSet(Corridor!BarrierSpans(positions, nodes)) = SpansOf(positions, nodes)
<1> DEFINE near == NearTo(positions, nodes)
           giving == [node \in near |-> SpanOf(positions, node)]
<1>1. IsFiniteSet(near)
  <2>1. near \in SUBSET nodes BY DEF NearTo
  <2> HIDE DEF near
  <2> QED BY <2>1, FS_Subset
<1>2. giving \in Surjection(near, SpansOf(positions, nodes))
  BY DEF Surjection, SpansOf
<1>3. IsFiniteSet(SpansOf(positions, nodes))
  <2> HIDE DEF near, giving
  <2> QED BY <1>1, <1>2, FS_Surjection
<1>4. Corridor!BarrierSpans(positions, nodes) = Corridor!SetToSeq(SpansOf(positions, nodes))
  BY DEF Corridor!BarrierSpans, SpansOf, NearTo, SpanOf
<1> QED BY <1>3, <1>4, AllInTheSequence

LEMMA LengthsCount ==
    ASSUME NEW positions \in Seq(Int), Len(positions) >= 2
    PROVE  /\ Corridor!Lengths(positions) \in Seq(Nat)
           /\ Corridor!Segments(positions) = 1..Len(Corridor!Lengths(positions))
<1> DEFINE size == Len(positions) - 1
           lengths == Corridor!Lengths(positions)
<1>1. size \in Nat /\ Corridor!Segments(positions) = 1..size BY DEF Corridor!Segments
<1>2. \A i \in 1..size : Corridor!Magnitude(positions[i + 1] - positions[i]) \in Nat
  <2> TAKE i \in 1..size
  <2>1. positions[i] \in Int /\ positions[i + 1] \in Int OBVIOUS
  <2> QED BY <2>1 DEF Corridor!Magnitude
<1>3. lengths \in [1..size -> Nat] BY <1>1, <1>2 DEF Corridor!Lengths
<1> HIDE DEF lengths, size
<1>4. lengths \in Seq(Nat) /\ Len(lengths) = size BY <1>1, <1>3
<1> QED BY <1>1, <1>4 DEF lengths

(* A gate on the line is found: it has a verdict, and a stretch of the way *)
(* to lie on.                                                              *)
LEMMA GateIsFound ==
    ASSUME NEW positions \in Seq(Int), Len(positions) >= 2,
           NEW route, route.lengths = Corridor!Lengths(positions),
           NEW nodes, IsFiniteSet(nodes),
           NEW node \in nodes, node.at \in Int, node.off \in Int,
           node.value \in Corridor!RejectedBarriers,
           Corridor!OnTheLine(positions, node),
           positions[Len(positions)] # positions[Len(positions) - 1]
    PROVE  LET access == Corridor!Assess(route,
                             Corridor!AskedOf(Corridor!BarrierSpans(positions, nodes)))
           IN  access.verdict = "fail" /\ \E f \in access.findings : f.type = "barrier"
<1> DEFINE i == Corridor!Nearest(positions, node)
           span == SpanOf(positions, node)
           spans == Corridor!BarrierSpans(positions, nodes)
           access == Corridor!Assess(route, Corridor!AskedOf(spans))
           listed == Corridor!Findings("barrier", spans, route.lengths, Corridor!AssessBarrier)
<1>1. /\ i \in Corridor!Segments(positions)
      /\ Corridor!Lengths(positions)[i] > 0
      /\ Corridor!NearLine(Corridor!Gap(positions, i, node), node, Corridor!Corridor)
  BY NearestIsASegment
<1>2. span \in Corridor!ToSet(spans)
  <2>1. span \in SpansOf(positions, nodes) BY <1>1 DEF SpansOf, NearTo
  <2> QED BY <2>1, EachHasASpan
<1>3. route.lengths \in Seq(Nat) /\ i \in 1..Len(route.lengths) /\ route.lengths[i] > 0
  BY <1>1, LengthsCount
<1>4. span.from = i - 1 /\ span.to = i /\ span.value = node.value BY DEF SpanOf
<1>5. Corridor!Extent(span, route.lengths) > 0
  <2> HIDE DEF i, span
  <2> QED BY <1>3, <1>4, ExtentOfOne
<1>6. Corridor!AssessBarrier(span.value) = "fail"
  <2>1. /\ node.value \notin Corridor!UnknownValues
        /\ node.value \notin Corridor!AcceptedBarriers
    BY DEF Corridor!RejectedBarriers, Corridor!UnknownValues, Corridor!AcceptedBarriers
  <2> QED BY <1>4, <2>1 DEF Corridor!AssessBarrier, Corridor!Judge
<1>7. [type |-> "barrier", at |-> Corridor!Located(span, route.lengths)] \in listed
  <2> HIDE DEF span, spans
  <2> QED BY <1>2, <1>5, <1>6 DEF Corridor!Findings
<1>8. listed \subseteq Corridor!AllFindings(route, Corridor!AskedOf(spans))
  <2>1. Corridor!AskedOf(spans).spans = spans BY DEF Corridor!AskedOf
  <2> HIDE DEF spans
  <2> QED BY <2>1 DEF Corridor!AllFindings
<1>9. Corridor!Total(route.lengths) # 0
  <2>1. i \in DOMAIN route.lengths /\ route.lengths[i] \in Nat BY <1>3
  <2>2. Corridor!Total(route.lengths) \in Nat /\ route.lengths[i] <= Corridor!Total(route.lengths)
    BY <1>3, <2>1, TotalCovers
  <2> HIDE DEF i
  <2> QED BY <1>3, <2>1, <2>2
<1>10. /\ access.findings = Corridor!AllFindings(route, Corridor!AskedOf(spans))
       /\ access.findings # {} => access.verdict = "fail"
  <2> HIDE DEF spans
  <2> QED BY <1>9 DEF Corridor!Assess
<1>11. [type |-> "barrier", at |-> Corridor!Located(span, route.lengths)].type = "barrier" OBVIOUS
<1> HIDE DEF access, listed, span, spans
<1> QED BY <1>7, <1>8, <1>10, <1>11 DEF access, spans

(* What is surveyed is a trip that may be made; the barriers known are all *)
(* that match, for a reply that may have been cut short is not used; and a *)
(* second card is made of what was found.                                  *)
Looked ==
    /\ trip = Corridor!Nothing \/ trip \in Trips
    /\ trip = Corridor!Nothing => DOMAIN found = {}
    /\ "barriers" \in DOMAIN found =>
          found.barriers \in {Corridor!Absent, <<Corridor!Matching("barriers")>>}
    /\ \A r \in Corridor!Surveyed2 :
          Corridor!Second(r) = Corridor!SecondCard(trip.routes[r])
LookedInv == SurveyInv /\ Looked

(* A reply that is used was not cut short, so it is all there was.         *)
LEMMA UsedIsWhole ==
    ASSUME trip \in Trips,
           NEW returned \in Corridor!Returned("barriers")
    PROVE  Corridor!Usable("barriers", returned)
             \in {Corridor!Absent, <<Corridor!Matching("barriers")>>}
<1> DEFINE matching == Corridor!Matching("barriers")
<1>1. IsFiniteSet(matching)
  <2>1. IsFiniteSet(trip.nodes) BY SurveyAssumption
  <2>2. matching \in SUBSET trip.nodes BY DEF Corridor!Matching
  <2> HIDE DEF matching
  <2> QED BY <2>1, <2>2, FS_Subset
<1>2. /\ returned \in SUBSET matching
      /\ Cardinality(returned) = Corridor!Lesser(Cardinality(matching), MaxResults)
  BY SurveyCardinality DEF Corridor!Returned
<1>3. Cardinality(matching) \in Nat /\ MaxResults \in Nat
  <2>1. Cardinality(matching) \in Nat BY <1>1, FS_CardinalityType
  <2> QED BY <2>1, SurveyAssumption
<1>4. Corridor!Usable("barriers", returned)
        = IF Cardinality(returned) >= MaxResults THEN Corridor!Absent ELSE <<returned>>
  BY SurveyCardinality DEF Corridor!Usable
<1> HIDE DEF matching
<1>5. CASE Cardinality(returned) >= MaxResults BY <1>4, <1>5
<1>6. CASE ~(Cardinality(returned) >= MaxResults)
  <2>1. Cardinality(returned) = Cardinality(matching)
    BY <1>2, <1>3, <1>6 DEF Corridor!Lesser
  <2>2. returned = matching BY <1>1, <1>2, <2>1, FS_Subset
  <2> QED BY <1>4, <1>6, <2>2 DEF matching
<1> QED BY <1>5, <1>6 DEF matching

\* What matches depends on the trip alone.
LEMMA SameMatches ==
    ASSUME trip' = trip
    PROVE  Corridor!Matching("barriers")' = Corridor!Matching("barriers")
BY DEF Corridor!Matching, Corridor!Boxed, Corridor!Sampled, Corridor!AllPoints

LEMMA NoSecondYet ==
    ASSUME SurveyInv', departure' = <<>>
    PROVE  Corridor!Surveyed2' = {}
<1>1. \A r \in DOMAIN cards' : cards'[r] = <<Corridor!FirstCard(trip'.routes[r])>>
  BY DEF SurveyInv, Shown
<1>2. \A r \in DOMAIN cards' : Len(cards'[r]) = 1 BY <1>1
<1> QED BY <1>2 DEF Corridor!Surveyed2

LEMMA LookedBegins ==
    ASSUME LookedInv, Corridor!Begin PROVE LookedInv'
<1>1. SurveyInv' BY SurveyBegins DEF LookedInv
<1>2. trip = Corridor!Nothing /\ trip' \in Trips /\ UNCHANGED <<found, departure>>
  BY DEF Corridor!Begin
<1>3. DOMAIN found = {} BY <1>2 DEF LookedInv, Looked
<1>4. departure = <<>>
  <2>1. departure # <<>> => DOMAIN found = Corridor!Sources BY DEF LookedInv, SurveyInv, Shown
  <2> QED BY <1>3, <2>1 DEF Corridor!Sources
<1>5. Corridor!Surveyed2' = {} BY <1>1, <1>2, <1>4, NoSecondYet
<1>6. Looked' BY <1>2, <1>3, <1>5 DEF Looked
<1> QED BY <1>1, <1>6 DEF LookedInv

LEMMA LookedReplies ==
    ASSUME LookedInv, NEW source \in Corridor!Sources, Corridor!Reply(source)
    PROVE  LookedInv'
<1>1. SurveyInv' BY SurveyAsks DEF LookedInv
<1>2. /\ trip # Corridor!Nothing /\ source \notin DOMAIN found
      /\ UNCHANGED <<trip, departure, cards>>
  BY DEF Corridor!Reply
<1>3. trip \in Trips BY <1>2 DEF LookedInv, Looked
<1>4. departure = <<>> BY <1>2 DEF LookedInv, SurveyInv, Shown
<1>5. Corridor!Surveyed2' = {} BY <1>1, <1>2, <1>4, NoSecondYet
<1>6. "barriers" \in DOMAIN found' =>
         found'.barriers \in {Corridor!Absent, <<Corridor!Matching("barriers")>>}
  <2>1. CASE source = "barriers"
    <3>1. PICK reply \in {Corridor!Absent}
                  \cup {Corridor!Usable("barriers", returned) :
                            returned \in Corridor!Returned("barriers")} :
             found' = [s \in DOMAIN found \cup {"barriers"} |->
                          IF s = "barriers" THEN reply ELSE found[s]]
      BY <2>1 DEF Corridor!Reply
    <3>2. found'.barriers = reply BY <3>1
    <3>3. reply \in {Corridor!Absent, <<Corridor!Matching("barriers")>>}
      BY <3>1, <1>3, UsedIsWhole
    <3> QED BY <3>2, <3>3
  <2>2. CASE source # "barriers"
    <3>1. "barriers" \in DOMAIN found' =>
             "barriers" \in DOMAIN found /\ found'.barriers = found.barriers
      BY <2>2 DEF Corridor!Reply
    <3> QED BY <3>1 DEF LookedInv, Looked
  <2> QED BY <2>1, <2>2
<1>7. Corridor!Matching("barriers")' = Corridor!Matching("barriers") BY <1>2, SameMatches
<1>8. Looked' BY <1>2, <1>3, <1>5, <1>6, <1>7 DEF Looked
<1> QED BY <1>1, <1>8 DEF LookedInv

LEMMA LookedDeparts ==
    ASSUME LookedInv, Corridor!Depart PROVE LookedInv'
<1>1. SurveyInv' BY SurveyAsks DEF LookedInv
<1>2. departure = <<>> /\ UNCHANGED <<trip, found, cards>> BY DEF Corridor!Depart
<1>3. Corridor!Surveyed2' = {}
  <2>1. Corridor!Surveyed2 = {} BY <1>2, NoSecond DEF LookedInv, SurveyInv
  <2> QED BY <1>2, <2>1 DEF Corridor!Surveyed2
<1>4. Corridor!Matching("barriers")' = Corridor!Matching("barriers") BY <1>2, SameMatches
<1>5. Looked' BY <1>2, <1>3, <1>4 DEF LookedInv, Looked
<1> QED BY <1>1, <1>5 DEF LookedInv

LEMMA LookedShows ==
    ASSUME LookedInv, NEW r \in DOMAIN cards, Corridor!ShowSecond(r) PROVE LookedInv'
<1> DEFINE second == Corridor!SecondCard(trip.routes[r])
<1>1. SurveyInv' BY SurveyShows DEF LookedInv
<1>2. /\ Len(cards[r]) = 1 /\ UNCHANGED <<trip, found, departure>>
      /\ cards' = [cards EXCEPT ![r] = Append(@, second)]
  BY DEF Corridor!ShowSecond
<1>3. PICK first : cards[r] = <<first>>
  <2>1. ASSUME NEW one, NEW other, cards[r] = <<one, other>> PROVE Len(cards[r]) = 2
    BY <2>1
  <2> QED BY <1>2, <2>1 DEF LookedInv, SurveyInv, Shown
<1>4. cards'[r][2] = second
  <2> HIDE DEF second
  <2>1. Append(<<first>>, second) = <<first, second>> BY Appended
  <2>2. cards'[r] = <<first, second>> BY <1>2, <1>3, <2>1
  <2> QED BY <2>2
<1>5. \A q \in Corridor!Surveyed2' :
         Corridor!Second(q)' = Corridor!SecondCard(trip.routes[q])
  <2> SUFFICES ASSUME NEW q \in Corridor!Surveyed2'
               PROVE  cards'[q][2] = Corridor!SecondCard(trip.routes[q])
    BY DEF Corridor!Second
  <2>1. CASE q = r BY <1>4, <2>1
  <2>2. CASE q # r
    <3>1. q \in DOMAIN cards' /\ Len(cards'[q]) = 2 BY DEF Corridor!Surveyed2
    <3>2. q \in Corridor!Surveyed2 /\ cards'[q] = cards[q]
      BY <1>2, <2>2, <3>1 DEF Corridor!Surveyed2
    <3> QED BY <3>2 DEF LookedInv, Looked, Corridor!Second
  <2> QED BY <2>1, <2>2
<1>6. Corridor!Matching("barriers")' = Corridor!Matching("barriers") BY <1>2, SameMatches
<1>7. \A q \in Corridor!Surveyed2' :
         Corridor!Second(q)' = Corridor!SecondCard(trip.routes[q])'
  BY <1>2, <1>5 DEF Corridor!SecondCard, Corridor!Reassessed, Corridor!Need
<1>8. Looked' BY <1>2, <1>6, <1>7 DEF LookedInv, Looked
<1> QED BY <1>1, <1>8 DEF LookedInv

LEMMA LookedRests ==
    ASSUME LookedInv, UNCHANGED corridorVars, SurveyInv' PROVE LookedInv'
<1>1. UNCHANGED <<trip, found, departure, cards>> BY DEF corridorVars
<1>2. Corridor!Matching("barriers")' = Corridor!Matching("barriers") BY <1>1, SameMatches
<1>3. \A r \in Corridor!Surveyed2' :
         Corridor!Second(r)' = Corridor!SecondCard(trip.routes[r])'
  BY <1>1 DEF LookedInv, Looked, Corridor!Surveyed2, Corridor!Second,
              Corridor!SecondCard, Corridor!Reassessed, Corridor!Need
<1> QED BY <1>1, <1>2, <1>3 DEF LookedInv, Looked

LEMMA LookedInvariant == UpstreamSpec => []LookedInv
<1>1. UpstreamInit => Looked
  <2> SUFFICES ASSUME Corridor!Init PROVE Looked BY DEF UpstreamInit
  <2>1. DOMAIN cards = {} /\ DOMAIN found = {} /\ trip = Corridor!Nothing BY DEF Corridor!Init
  <2>2. Corridor!Surveyed2 = {} BY <2>1 DEF Corridor!Surveyed2
  <2> QED BY <2>1, <2>2 DEF Looked
<1>2. SurveyInv /\ SurveyInv' /\ Looked /\ [UpstreamNext]_upstreamVars => Looked'
  <2> SUFFICES ASSUME LookedInv, SurveyInv', Corridor!Next \/ UNCHANGED corridorVars
               PROVE  LookedInv'
    BY OthersLeaveIt DEF LookedInv
  <2>1. CASE UNCHANGED corridorVars BY <2>1, LookedRests
  <2>2. CASE Corridor!Begin BY <2>2, LookedBegins
  <2>3. CASE Corridor!Depart BY <2>3, LookedDeparts
  <2>4. CASE \E source \in Corridor!Sources : Corridor!Reply(source) BY <2>4, LookedReplies
  <2>5. CASE \E r \in DOMAIN cards : Corridor!ShowSecond(r) BY <2>5, LookedShows
  <2> QED BY <2>1, <2>2, <2>3, <2>4, <2>5 DEF Corridor!Next
<1> QED BY <1>1, <1>2, SurveyInvariant, PTL DEF UpstreamSpec, LookedInv

\* A card is of a route of a trip that may be made.
LEMMA OfTheTrip ==
    ASSUME LookedInv, NEW r \in DOMAIN cards
    PROVE  /\ trip \in Trips
           /\ trip.routes[r].positions \in Seq(Int) /\ Len(trip.routes[r].positions) >= 2
           /\ Corridor!Surveyed(trip.routes[r]) \in TagsOfARoute
           /\ Corridor!Surveyed(trip.routes[r]).lengths
                = Corridor!Lengths(trip.routes[r].positions)
<1> DEFINE positions == trip.routes[r].positions
           tags == trip.routes[r].tags
           route == Corridor!Surveyed(trip.routes[r])
<1>1. r \in DOMAIN trip.routes BY DEF LookedInv, SurveyInv, Shown
<1>2. trip \in Trips
  <2>1. trip = Corridor!Nothing => DOMAIN trip.routes = {} BY DEF Corridor!Nothing
  <2> QED BY <1>1, <2>1 DEF LookedInv, Looked
<1>3. positions \in Seq(Int) /\ Len(positions) >= 2 /\ tags \in TagsOfARoute
  BY <1>1, <1>2, SurveyAssumption
<1>4. route = [tags EXCEPT !.lengths = Corridor!Lengths(positions)] BY DEF Corridor!Surveyed
<1>5. Corridor!Lengths(positions) \in Seq(Nat) BY <1>3, LengthsCount
<1> HIDE DEF route, tags
<1>6. route \in TagsOfARoute /\ route.lengths = Corridor!Lengths(positions)
  BY <1>3, <1>4, <1>5 DEF TagsOfARoute
<1> QED BY <1>2, <1>3, <1>6 DEF route

(* A card is made of an assessment of its route, with or without barriers. *)
LEMMA CardsAssess ==
    ASSUME NEW route,
           NEW card \in {Corridor!FirstCard(route), Corridor!SecondCard(route)}
    PROVE  \E barriers : /\ card.access = Corridor!Assess(Corridor!Surveyed(route), barriers)
                         /\ card.sentence = Corridor!Sentence(card.access)
<1>1. CASE card = Corridor!FirstCard(route)
  BY <1>1 DEF Corridor!FirstCard, Corridor!ScoredRoute, Corridor!Assessed
<1>2. CASE card = Corridor!SecondCard(route)
  <2>1. card.access = Corridor!Reassessed(route) /\ card.sentence = Corridor!Sentence(card.access)
    BY <1>2 DEF Corridor!SecondCard, Corridor!ScoredRoute
  <2> QED BY <2>1 DEF Corridor!Reassessed, Corridor!Assessed
<1> QED BY <1>1, <1>2

(* The first half of the promise: a gate on the line, asked about, is in  *)
(* the barriers that were found, and so among the findings.                *)
LEMMA CheckedListsGates ==
    ASSUME LookedInv, NEW r \in Corridor!Surveyed2, Corridor!Second(r).access.checked,
           NEW node \in trip.nodes,
           node.value \in Corridor!RejectedBarriers, Corridor!Boxed(node),
           Corridor!OnTheLine(trip.routes[r].positions, node),
           trip.routes[r].positions[Len(trip.routes[r].positions)]
             # trip.routes[r].positions[Len(trip.routes[r].positions) - 1]
    PROVE  /\ Corridor!Second(r).access.verdict = "fail"
           /\ \E f \in Corridor!Second(r).access.findings : f.type = "barrier"
<1> DEFINE positions == trip.routes[r].positions
           route == Corridor!Surveyed(trip.routes[r])
           matching == Corridor!Matching("barriers")
           second == Corridor!SecondCard(trip.routes[r])
<1>1. r \in DOMAIN cards BY DEF Corridor!Surveyed2
<1>2. /\ trip \in Trips /\ positions \in Seq(Int) /\ Len(positions) >= 2
      /\ route.lengths = Corridor!Lengths(positions)
  BY <1>1, OfTheTrip
<1>3. Corridor!Second(r) = second BY DEF LookedInv, Looked
<1>4. found.barriers # <<>> BY <1>3, SecondHolds
<1>5. "barriers" \in DOMAIN found
  <2>1. departure # <<>>
    <3>1. ASSUME NEW one, cards[r] = <<one>> PROVE FALSE
      <4>1. Len(cards[r]) = 1 BY <3>1
      <4>2. Len(cards[r]) = 2 BY DEF Corridor!Surveyed2
      <4>3. 1 # 2 OBVIOUS
      <4> QED BY <4>1, <4>2, <4>3, Zenon
    <3> QED BY <1>1, <3>1 DEF LookedInv, SurveyInv, Shown
  <2> QED BY <2>1 DEF LookedInv, SurveyInv, Shown, Corridor!Sources
<1>6. found.barriers = <<matching>>
  BY <1>4, <1>5 DEF LookedInv, Looked, Corridor!Absent
<1>7. second.access
        = Corridor!Assess(route, Corridor!AskedOf(Corridor!BarrierSpans(positions, matching)))
  <2>1. second.access = Corridor!Reassessed(trip.routes[r])
    BY DEF Corridor!SecondCard, Corridor!ScoredRoute
  <2>2. found.barriers[1] = matching BY <1>6
  <2> HIDE DEF matching, second
  <2> QED BY <2>1, <2>2, <1>4 DEF Corridor!Reassessed, Corridor!Absent
<1>8. node \in matching BY DEF Corridor!Matching, Corridor!BarriersWithAVerdict
<1>9. IsFiniteSet(matching)
  <2>1. IsFiniteSet(trip.nodes) BY <1>2, SurveyAssumption
  <2>2. matching \in SUBSET trip.nodes BY DEF Corridor!Matching
  <2> HIDE DEF matching
  <2> QED BY <2>1, <2>2, FS_Subset
<1>10. node.at \in Int /\ node.off \in Int BY <1>2, SurveyAssumption
<1> HIDE DEF matching, second, route
<1>11. second.access.verdict = "fail" /\ \E f \in second.access.findings : f.type = "barrier"
  BY <1>2, <1>7, <1>8, <1>9, <1>10, GateIsFound
<1> QED BY <1>3, <1>11

(* enrich.py and accessibility.py: a card that says its barriers were      *)
(* checked lists every gate of the corridor, whatever the sources answered *)
(* and in whatever order; one that passes a route without reserve rests on *)
(* recorded ways.                                                          *)
THEOREM CheckedIsComplete == UpstreamSpec => []CheckedMeansComplete
<1>1. LookedInv => CheckedMeansComplete
  <2> SUFFICES ASSUME LookedInv, NEW r \in DOMAIN cards
               PROVE  LET positions == trip.routes[r].positions
                          route == Corridor!Surveyed(trip.routes[r])
                      IN
                      /\ r \in Corridor!Surveyed2 /\ Corridor!Second(r).access.checked =>
                            \A node \in trip.nodes :
                                /\ node.value \in Corridor!RejectedBarriers
                                /\ Corridor!Boxed(node)
                                /\ Corridor!OnTheLine(positions, node)
                                /\ positions[Len(positions)] # positions[Len(positions) - 1]
                                => /\ Corridor!Second(r).access.verdict = "fail"
                                   /\ \E f \in Corridor!Second(r).access.findings :
                                         f.type = "barrier"
                      /\ \A i \in DOMAIN cards[r] :
                            cards[r][i].access.verdict = "pass"
                              /\ cards[r][i].sentence.reliance = "plain" =>
                                10 * (Corridor!Recorded(route.surface, route.lengths)
                                        + Corridor!Recorded(route.smoothness, route.lengths))
                                  >= 6 * cards[r][i].access.whole
    BY DEF CheckedMeansComplete, Corridor!CheckedMeansComplete
  <2> DEFINE route == Corridor!Surveyed(trip.routes[r])
             made == {Corridor!FirstCard(trip.routes[r]), Corridor!SecondCard(trip.routes[r])}
  <2>1. ASSUME NEW i \in DOMAIN cards[r],
               cards[r][i].access.verdict = "pass", cards[r][i].sentence.reliance = "plain"
        PROVE  10 * (Corridor!Recorded(route.surface, route.lengths)
                       + Corridor!Recorded(route.smoothness, route.lengths))
                 >= 6 * cards[r][i].access.whole
    <3>1. cards[r][i] \in made
      <4>1. CASE cards[r] = <<Corridor!FirstCard(trip.routes[r])>> BY <4>1
      <4>2. CASE cards[r] = <<Corridor!FirstCard(trip.routes[r]), Corridor!Second(r)>>
        <5>1. Len(cards[r]) = 2 BY <4>2
        <5>2. Corridor!Second(r) = Corridor!SecondCard(trip.routes[r])
          BY <5>1 DEF LookedInv, Looked, Corridor!Surveyed2
        <5> QED BY <4>2, <5>2
      <4> QED BY <4>1, <4>2 DEF LookedInv, SurveyInv, Shown
    <3> DEFINE card == cards[r][i]
    <3>2. PICK barriers : /\ card.access = Corridor!Assess(route, barriers)
                          /\ card.sentence = Corridor!Sentence(card.access)
      BY <3>1, CardsAssess
    <3>3. Corridor!Reliance(card.access) = "plain"
      <4>1. Corridor!Sentence(card.access).reliance = Corridor!Reliance(card.access)
        BY DEF Corridor!Sentence
      <4>2. card.sentence.reliance = "plain" BY <2>1
      <4> HIDE DEF card
      <4> QED BY <3>2, <4>1, <4>2
    <3>4. route \in TagsOfARoute BY OfTheTrip
    <3> HIDE DEF route
    <3> QED BY <2>1, <3>2, <3>3, <3>4, PassIsRecorded
  <2> QED BY <2>1, CheckedListsGates
<1> QED BY <1>1, LookedInvariant, PTL

-----------------------------------------------------------------------------
(* The tables.  What the rules of a model leave of a priority, one after   *)
(* another.                                                                *)
Named(model, i, attribute, value) == model[i].on = attribute /\ value \in model[i].values
IsLeft(left, model, attribute, value) ==
    left = [i \in 0..Len(model) |->
               IF i = 0 THEN 100
               ELSE IF model[i].on = attribute /\ value \in model[i].values
                    THEN (left[i - 1] * model[i].percent) \div 100 ELSE left[i - 1]]

\* There is one such function, so the definition stands for it.
LEMMA PriorityIs ==
    ASSUME NEW model, Len(model) \in Nat, NEW attribute, NEW value,
           NEW f, IsLeft(f, model, attribute, value)
    PROVE  Search!Priority(model, attribute, value) = f[Len(model)]
<1> DEFINE size == Len(model)
           left == CHOOSE h : IsLeft(h, model, attribute, value)
           same == {n \in 0..size : left[n] = f[n]}
<1>1. IsLeft(left, model, attribute, value) OBVIOUS
<1>2. Search!Priority(model, attribute, value) = left[size] BY DEF Search!Priority, IsLeft
<1> HIDE DEF left
<1>3. ASSUME NEW h, IsLeft(h, model, attribute, value)
      PROVE  \A i \in 0..size : h[i] = IF i = 0 THEN 100
                                       ELSE IF Named(model, i, attribute, value)
                                       THEN (h[i - 1] * model[i].percent) \div 100 ELSE h[i - 1]
  <2> SUFFICES ASSUME NEW i \in 0..size
               PROVE  h[i] = IF i = 0 THEN 100
                             ELSE IF Named(model, i, attribute, value)
                             THEN (h[i - 1] * model[i].percent) \div 100 ELSE h[i - 1]
    OBVIOUS
  <2> QED BY <1>3, Zenon DEF IsLeft, Named
<1>4. 0 \in same
  <2>1. 0 \in 0..size OBVIOUS
  <2> QED BY <1>1, <1>3, <2>1
<1>5. \A n \in 1..size : n - 1 \in same => n \in same
  <2> SUFFICES ASSUME NEW n \in 1..size, n - 1 \in same PROVE n \in same OBVIOUS
  <2>1. n \in 0..size /\ n # 0 OBVIOUS
  <2>2. left[n - 1] = f[n - 1] OBVIOUS
  <2>3. left[n] = IF Named(model, n, attribute, value)
                  THEN (left[n - 1] * model[n].percent) \div 100 ELSE left[n - 1]
    BY <1>1, <1>3, <2>1
  <2>4. f[n] = IF Named(model, n, attribute, value)
               THEN (f[n - 1] * model[n].percent) \div 100 ELSE f[n - 1]
    BY <1>3, <2>1
  <2> QED BY <2>1, <2>2, <2>3, <2>4
<1>6. size \in 0..size OBVIOUS
<1>7. size \in same
  <2> HIDE DEF same
  <2>1. \A n \in 0..size : n \in same BY <1>4, <1>5, StepByStep
  <2> QED BY <1>6, <2>1
<1> QED BY <1>2, <1>7

(* A value that one rule names gets that rule's percentage; one that none  *)
(* names keeps its priority.                                               *)
LEMMA NamedOnce ==
    ASSUME NEW model, Len(model) \in Nat, NEW attribute, NEW value,
           NEW k \in 1..Len(model), model[k].percent \in Nat,
           \A i \in 1..Len(model) : Named(model, i, attribute, value) <=> i = k
    PROVE  Search!Priority(model, attribute, value) = model[k].percent
<1> DEFINE size == Len(model)
           percent == model[k].percent
           f == [i \in 0..size |-> IF i < k THEN 100 ELSE percent]
<1>1. \A i \in 0..size :
         f[i] = IF i = 0 THEN 100
                ELSE IF model[i].on = attribute /\ value \in model[i].values
                     THEN (f[i - 1] * model[i].percent) \div 100 ELSE f[i - 1]
  <2>0. f[0] = 100 OBVIOUS
  <2> SUFFICES ASSUME NEW i \in 1..size
               PROVE  f[i] = IF Named(model, i, attribute, value)
                             THEN (f[i - 1] * model[i].percent) \div 100 ELSE f[i - 1]
    <3> HIDE DEF f
    <3> QED BY <2>0 DEF Named
  <2>1. i - 1 \in 0..size /\ i \in 0..size OBVIOUS
  <2>2. CASE i = k
    <3>1. f[i] = percent /\ f[i - 1] = 100 BY <2>1, <2>2
    <3>2. (100 * percent) \div 100 = percent OBVIOUS
    <3> QED BY <2>2, <3>1, <3>2
  <2>3. CASE i # k
    <3>1. f[i] = f[i - 1] BY <2>1, <2>3
    <3> QED BY <2>3, <3>1
  <2> QED BY <2>2, <2>3
<1>2. f = [i \in 0..size |-> f[i]] OBVIOUS
<1> HIDE DEF f
<1>3. IsLeft(f, model, attribute, value) BY <1>1, <1>2 DEF IsLeft
<1>4. f[size] = percent BY DEF f
<1> QED BY <1>3, <1>4, PriorityIs

LEMMA NeverNamed ==
    ASSUME NEW model, Len(model) \in Nat, NEW attribute, NEW value,
           \A i \in 1..Len(model) : ~Named(model, i, attribute, value)
    PROVE  Search!Priority(model, attribute, value) = 100
<1> DEFINE size == Len(model)
           f == [i \in 0..size |-> 100]
<1>1. \A i \in 0..size :
         f[i] = IF i = 0 THEN 100
                ELSE IF model[i].on = attribute /\ value \in model[i].values
                     THEN (f[i - 1] * model[i].percent) \div 100 ELSE f[i - 1]
  BY DEF Named
<1>2. f = [i \in 0..size |-> f[i]] OBVIOUS
<1> HIDE DEF f
<1>3. IsLeft(f, model, attribute, value) BY <1>1, <1>2 DEF IsLeft
<1>4. f[size] = 100 BY DEF f
<1> QED BY <1>3, <1>4, PriorityIs

(* For each model and each table: what the model leaves a kind of way, and *)
(* what the table says it is worth.                                        *)
LEMMA QuietClasses ==
    ASSUME NEW v \in DOMAIN Corridor!QuietClass
    PROVE  LET priority == Search!Priority(Search!QuietModel, "road_class", v)
               worth == Corridor!QuietClass[v]
           IN  \/ priority = 2 /\ worth \in 0..3
               \/ priority = 10 /\ worth = 12
               \/ priority = 25 /\ worth = 28
               \/ priority = 45 /\ worth = 45
               \/ priority = 70 /\ worth \in 55..70
               \/ priority = 100 /\ worth \in 85..100
<1> DEFINE model == Search!QuietModel
           On(i) == Named(model, i, "road_class", v)
<1>1. /\ Len(model) = 8
      /\ model[2].percent = 2
      /\ model[3].percent = 10
      /\ model[4].percent = 25
      /\ model[5].percent = 45
      /\ model[6].percent = 70
  BY DEF Search!QuietModel, Search!Class, Search!Environment, Search!Surface, Search!Streets
<1>2. /\ ~On(1) /\ ~On(7) /\ ~On(8)
      /\ On(2) <=> v \in {"MOTORWAY", "TRUNK"}
      /\ On(3) <=> v = "PRIMARY"
      /\ On(4) <=> v = "SECONDARY"
      /\ On(5) <=> v = "TERTIARY"
      /\ On(6) <=> v \in {"RESIDENTIAL", "UNCLASSIFIED", "SERVICE", "ROAD"}
  BY DEF Named, Search!QuietModel, Search!Class, Search!Environment, Search!Surface, Search!Streets
<1>3. \A i \in 1..Len(model) : i \in {1, 2, 3, 4, 5, 6, 7, 8} BY <1>1
<1> HIDE DEF On, model
<1>4. ASSUME NEW k \in 1..8, model[k].percent \in Nat,
             \A i \in 1..Len(model) : On(i) <=> i = k
      PROVE  Search!Priority(model, "road_class", v) = model[k].percent
  <2>1. k \in 1..Len(model) /\ Len(model) \in Nat BY <1>1
  <2> QED BY <1>4, <2>1, NamedOnce DEF On
<1>5. CASE v \in {"MOTORWAY", "TRUNK"}
  <2>1. Corridor!QuietClass[v] \in 0..3 BY <1>5 DEF Corridor!QuietClass
  <2>2. \A i \in 1..Len(model) : On(i) <=> i = 2 BY <1>2, <1>3, <1>5
  <2>3. Search!Priority(model, "road_class", v) = 2 BY <1>1, <1>4, <2>2
  <2> QED BY <2>1, <2>3 DEF model
<1>6. CASE v = "PRIMARY"
  <2>1. Corridor!QuietClass[v] = 12 BY <1>6 DEF Corridor!QuietClass
  <2>2. \A i \in 1..Len(model) : On(i) <=> i = 3 BY <1>2, <1>3, <1>6
  <2>3. Search!Priority(model, "road_class", v) = 10 BY <1>1, <1>4, <2>2
  <2> QED BY <2>1, <2>3 DEF model
<1>7. CASE v = "SECONDARY"
  <2>1. Corridor!QuietClass[v] = 28 BY <1>7 DEF Corridor!QuietClass
  <2>2. \A i \in 1..Len(model) : On(i) <=> i = 4 BY <1>2, <1>3, <1>7
  <2>3. Search!Priority(model, "road_class", v) = 25 BY <1>1, <1>4, <2>2
  <2> QED BY <2>1, <2>3 DEF model
<1>8. CASE v = "TERTIARY"
  <2>1. Corridor!QuietClass[v] = 45 BY <1>8 DEF Corridor!QuietClass
  <2>2. \A i \in 1..Len(model) : On(i) <=> i = 5 BY <1>2, <1>3, <1>8
  <2>3. Search!Priority(model, "road_class", v) = 45 BY <1>1, <1>4, <2>2
  <2> QED BY <2>1, <2>3 DEF model
<1>9. CASE v \in {"RESIDENTIAL", "UNCLASSIFIED", "SERVICE", "ROAD"}
  <2>1. Corridor!QuietClass[v] \in 55..70 BY <1>9 DEF Corridor!QuietClass
  <2>2. \A i \in 1..Len(model) : On(i) <=> i = 6 BY <1>2, <1>3, <1>9
  <2>3. Search!Priority(model, "road_class", v) = 70 BY <1>1, <1>4, <2>2
  <2> QED BY <2>1, <2>3 DEF model
<1>10. CASE /\ ~(v \in {"MOTORWAY", "TRUNK"})
         /\ ~(v = "PRIMARY")
         /\ ~(v = "SECONDARY")
         /\ ~(v = "TERTIARY")
         /\ ~(v \in {"RESIDENTIAL", "UNCLASSIFIED", "SERVICE", "ROAD"})
  <2>1. Corridor!QuietClass[v] \in 85..100 BY <1>10 DEF Corridor!QuietClass
  <2>2. \A i \in 1..Len(model) : ~On(i) BY <1>2, <1>3, <1>10
  <2>3. Len(model) \in Nat BY <1>1
  <2>4. Search!Priority(model, "road_class", v) = 100 BY <2>2, <2>3, NeverNamed DEF On
  <2> QED BY <2>1, <2>4 DEF model
<1> QED BY <1>5, <1>6, <1>7, <1>8, <1>9, <1>10

LEMMA QuietSurfaces ==
    ASSUME NEW v \in DOMAIN Corridor!QuietSurface
    PROVE  LET priority == Search!Priority(Search!QuietModel, "surface", v)
               worth == Corridor!QuietSurface[v]
           IN  \/ priority = 40 /\ worth = 20
               \/ priority = 100 /\ worth \in 45..100
<1> DEFINE model == Search!QuietModel
           On(i) == Named(model, i, "surface", v)
<1>1. /\ Len(model) = 8
      /\ model[8].percent = 40
  BY DEF Search!QuietModel, Search!Class, Search!Environment, Search!Surface
<1>2. /\ ~On(1) /\ ~On(2) /\ ~On(3) /\ ~On(4) /\ ~On(5) /\ ~On(6) /\ ~On(7)
      /\ On(8) <=> v = "COBBLESTONE"
  BY DEF Named, Search!QuietModel, Search!Class, Search!Environment, Search!Surface
<1>3. \A i \in 1..Len(model) : i \in {1, 2, 3, 4, 5, 6, 7, 8} BY <1>1
<1> HIDE DEF On, model
<1>4. ASSUME NEW k \in 1..8, model[k].percent \in Nat,
             \A i \in 1..Len(model) : On(i) <=> i = k
      PROVE  Search!Priority(model, "surface", v) = model[k].percent
  <2>1. k \in 1..Len(model) /\ Len(model) \in Nat BY <1>1
  <2> QED BY <1>4, <2>1, NamedOnce DEF On
<1>5. CASE v = "COBBLESTONE"
  <2>1. Corridor!QuietSurface[v] = 20 BY <1>5 DEF Corridor!QuietSurface
  <2>2. \A i \in 1..Len(model) : On(i) <=> i = 8 BY <1>2, <1>3, <1>5
  <2>3. Search!Priority(model, "surface", v) = 40 BY <1>1, <1>4, <2>2
  <2> QED BY <2>1, <2>3 DEF model
<1>6. CASE /\ ~(v = "COBBLESTONE")
  <2>1. Corridor!QuietSurface[v] \in 45..100 BY <1>6 DEF Corridor!QuietSurface
  <2>2. \A i \in 1..Len(model) : ~On(i) BY <1>2, <1>3, <1>6
  <2>3. Len(model) \in Nat BY <1>1
  <2>4. Search!Priority(model, "surface", v) = 100 BY <2>2, <2>3, NeverNamed DEF On
  <2> QED BY <2>1, <2>4 DEF model
<1> QED BY <1>5, <1>6

LEMMA AirClasses ==
    ASSUME NEW v \in DOMAIN Corridor!AirClass
    PROVE  LET priority == Search!Priority(Search!AirModel, "road_class", v)
               worth == Corridor!AirClass[v]
           IN  \/ priority = 2 /\ worth \in 0..5
               \/ priority = 8 /\ worth = 15
               \/ priority = 22 /\ worth = 30
               \/ priority = 45 /\ worth = 45
               \/ priority = 75 /\ worth \in 55..65
               \/ priority = 100 /\ worth \in 75..100
<1> DEFINE model == Search!AirModel
           On(i) == Named(model, i, "road_class", v)
<1>1. /\ Len(model) = 7
      /\ model[2].percent = 2
      /\ model[3].percent = 8
      /\ model[4].percent = 22
      /\ model[5].percent = 45
      /\ model[6].percent = 75
  BY DEF Search!AirModel, Search!Class, Search!Environment, Search!Streets
<1>2. /\ ~On(1) /\ ~On(7)
      /\ On(2) <=> v \in {"MOTORWAY", "TRUNK"}
      /\ On(3) <=> v = "PRIMARY"
      /\ On(4) <=> v = "SECONDARY"
      /\ On(5) <=> v = "TERTIARY"
      /\ On(6) <=> v \in {"RESIDENTIAL", "UNCLASSIFIED", "SERVICE", "ROAD"}
  BY DEF Named, Search!AirModel, Search!Class, Search!Environment, Search!Streets
<1>3. \A i \in 1..Len(model) : i \in {1, 2, 3, 4, 5, 6, 7} BY <1>1
<1> HIDE DEF On, model
<1>4. ASSUME NEW k \in 1..7, model[k].percent \in Nat,
             \A i \in 1..Len(model) : On(i) <=> i = k
      PROVE  Search!Priority(model, "road_class", v) = model[k].percent
  <2>1. k \in 1..Len(model) /\ Len(model) \in Nat BY <1>1
  <2> QED BY <1>4, <2>1, NamedOnce DEF On
<1>5. CASE v \in {"MOTORWAY", "TRUNK"}
  <2>1. Corridor!AirClass[v] \in 0..5 BY <1>5 DEF Corridor!AirClass
  <2>2. \A i \in 1..Len(model) : On(i) <=> i = 2 BY <1>2, <1>3, <1>5
  <2>3. Search!Priority(model, "road_class", v) = 2 BY <1>1, <1>4, <2>2
  <2> QED BY <2>1, <2>3 DEF model
<1>6. CASE v = "PRIMARY"
  <2>1. Corridor!AirClass[v] = 15 BY <1>6 DEF Corridor!AirClass
  <2>2. \A i \in 1..Len(model) : On(i) <=> i = 3 BY <1>2, <1>3, <1>6
  <2>3. Search!Priority(model, "road_class", v) = 8 BY <1>1, <1>4, <2>2
  <2> QED BY <2>1, <2>3 DEF model
<1>7. CASE v = "SECONDARY"
  <2>1. Corridor!AirClass[v] = 30 BY <1>7 DEF Corridor!AirClass
  <2>2. \A i \in 1..Len(model) : On(i) <=> i = 4 BY <1>2, <1>3, <1>7
  <2>3. Search!Priority(model, "road_class", v) = 22 BY <1>1, <1>4, <2>2
  <2> QED BY <2>1, <2>3 DEF model
<1>8. CASE v = "TERTIARY"
  <2>1. Corridor!AirClass[v] = 45 BY <1>8 DEF Corridor!AirClass
  <2>2. \A i \in 1..Len(model) : On(i) <=> i = 5 BY <1>2, <1>3, <1>8
  <2>3. Search!Priority(model, "road_class", v) = 45 BY <1>1, <1>4, <2>2
  <2> QED BY <2>1, <2>3 DEF model
<1>9. CASE v \in {"RESIDENTIAL", "UNCLASSIFIED", "SERVICE", "ROAD"}
  <2>1. Corridor!AirClass[v] \in 55..65 BY <1>9 DEF Corridor!AirClass
  <2>2. \A i \in 1..Len(model) : On(i) <=> i = 6 BY <1>2, <1>3, <1>9
  <2>3. Search!Priority(model, "road_class", v) = 75 BY <1>1, <1>4, <2>2
  <2> QED BY <2>1, <2>3 DEF model
<1>10. CASE /\ ~(v \in {"MOTORWAY", "TRUNK"})
         /\ ~(v = "PRIMARY")
         /\ ~(v = "SECONDARY")
         /\ ~(v = "TERTIARY")
         /\ ~(v \in {"RESIDENTIAL", "UNCLASSIFIED", "SERVICE", "ROAD"})
  <2>1. Corridor!AirClass[v] \in 75..100 BY <1>10 DEF Corridor!AirClass
  <2>2. \A i \in 1..Len(model) : ~On(i) BY <1>2, <1>3, <1>10
  <2>3. Len(model) \in Nat BY <1>1
  <2>4. Search!Priority(model, "road_class", v) = 100 BY <2>2, <2>3, NeverNamed DEF On
  <2> QED BY <2>1, <2>4 DEF model
<1> QED BY <1>5, <1>6, <1>7, <1>8, <1>9, <1>10

LEMMA ShadeClasses ==
    ASSUME NEW v \in DOMAIN Corridor!CanopyClass
    PROVE  LET priority == Search!Priority(Search!ShadeModel, "road_class", v)
               worth == Corridor!CanopyClass[v]
           IN  \/ priority = 5 /\ worth \in 5..8
               \/ priority = 15 /\ worth = 15
               \/ priority = 30 /\ worth = 25
               \/ priority = 40 /\ worth = 35
               \/ priority = 55 /\ worth \in 40..50
               \/ priority = 65 /\ worth = 55
               \/ priority = 75 /\ worth = 60
               \/ priority = 100 /\ worth \in 80..85
<1> DEFINE model == Search!ShadeModel
           On(i) == Named(model, i, "road_class", v)
<1>1. /\ Len(model) = 10
      /\ model[3].percent = 5
      /\ model[4].percent = 15
      /\ model[5].percent = 30
      /\ model[6].percent = 40
      /\ model[7].percent = 55
      /\ model[8].percent = 65
      /\ model[9].percent = 75
  BY DEF Search!ShadeModel, Search!Class, Search!Environment, Search!Surface,
         Search!ShadeRules
<1>2. /\ ~On(1) /\ ~On(2) /\ ~On(10)
      /\ On(3) <=> v \in {"MOTORWAY", "TRUNK"}
      /\ On(4) <=> v = "PRIMARY"
      /\ On(5) <=> v \in {"SECONDARY", "PEDESTRIAN"}
      /\ On(6) <=> v \in {"TERTIARY", "ROAD"}
      /\ On(7) <=> v \in {"SERVICE", "UNCLASSIFIED", "CYCLEWAY", "LIVING_STREET", "STEPS"}
      /\ On(8) <=> v = "RESIDENTIAL"
      /\ On(9) <=> v = "FOOTWAY"
  BY DEF Named, Search!ShadeModel, Search!Class, Search!Environment, Search!Surface,
         Search!ShadeRules
<1>3. \A i \in 1..Len(model) : i \in {1, 2, 3, 4, 5, 6, 7, 8, 9, 10} BY <1>1
<1> HIDE DEF On, model
<1>4. ASSUME NEW k \in 1..10, model[k].percent \in Nat,
             \A i \in 1..Len(model) : On(i) <=> i = k
      PROVE  Search!Priority(model, "road_class", v) = model[k].percent
  <2>1. k \in 1..Len(model) /\ Len(model) \in Nat BY <1>1
  <2> QED BY <1>4, <2>1, NamedOnce DEF On
<1>5. CASE v \in {"MOTORWAY", "TRUNK"}
  <2>1. Corridor!CanopyClass[v] \in 5..8 BY <1>5 DEF Corridor!CanopyClass
  <2>2. \A i \in 1..Len(model) : On(i) <=> i = 3 BY <1>2, <1>3, <1>5
  <2>3. Search!Priority(model, "road_class", v) = 5 BY <1>1, <1>4, <2>2
  <2> QED BY <2>1, <2>3 DEF model
<1>6. CASE v = "PRIMARY"
  <2>1. Corridor!CanopyClass[v] = 15 BY <1>6 DEF Corridor!CanopyClass
  <2>2. \A i \in 1..Len(model) : On(i) <=> i = 4 BY <1>2, <1>3, <1>6
  <2>3. Search!Priority(model, "road_class", v) = 15 BY <1>1, <1>4, <2>2
  <2> QED BY <2>1, <2>3 DEF model
<1>7. CASE v \in {"SECONDARY", "PEDESTRIAN"}
  <2>1. Corridor!CanopyClass[v] = 25 BY <1>7 DEF Corridor!CanopyClass
  <2>2. \A i \in 1..Len(model) : On(i) <=> i = 5 BY <1>2, <1>3, <1>7
  <2>3. Search!Priority(model, "road_class", v) = 30 BY <1>1, <1>4, <2>2
  <2> QED BY <2>1, <2>3 DEF model
<1>8. CASE v \in {"TERTIARY", "ROAD"}
  <2>1. Corridor!CanopyClass[v] = 35 BY <1>8 DEF Corridor!CanopyClass
  <2>2. \A i \in 1..Len(model) : On(i) <=> i = 6 BY <1>2, <1>3, <1>8
  <2>3. Search!Priority(model, "road_class", v) = 40 BY <1>1, <1>4, <2>2
  <2> QED BY <2>1, <2>3 DEF model
<1>9. CASE v \in {"SERVICE", "UNCLASSIFIED", "CYCLEWAY", "LIVING_STREET", "STEPS"}
  <2>1. Corridor!CanopyClass[v] \in 40..50 BY <1>9 DEF Corridor!CanopyClass
  <2>2. \A i \in 1..Len(model) : On(i) <=> i = 7 BY <1>2, <1>3, <1>9
  <2>3. Search!Priority(model, "road_class", v) = 55 BY <1>1, <1>4, <2>2
  <2> QED BY <2>1, <2>3 DEF model
<1>10. CASE v = "RESIDENTIAL"
  <2>1. Corridor!CanopyClass[v] = 55 BY <1>10 DEF Corridor!CanopyClass
  <2>2. \A i \in 1..Len(model) : On(i) <=> i = 8 BY <1>2, <1>3, <1>10
  <2>3. Search!Priority(model, "road_class", v) = 65 BY <1>1, <1>4, <2>2
  <2> QED BY <2>1, <2>3 DEF model
<1>11. CASE v = "FOOTWAY"
  <2>1. Corridor!CanopyClass[v] = 60 BY <1>11 DEF Corridor!CanopyClass
  <2>2. \A i \in 1..Len(model) : On(i) <=> i = 9 BY <1>2, <1>3, <1>11
  <2>3. Search!Priority(model, "road_class", v) = 75 BY <1>1, <1>4, <2>2
  <2> QED BY <2>1, <2>3 DEF model
<1>12. CASE /\ ~(v \in {"MOTORWAY", "TRUNK"})
         /\ ~(v = "PRIMARY")
         /\ ~(v \in {"SECONDARY", "PEDESTRIAN"})
         /\ ~(v \in {"TERTIARY", "ROAD"})
         /\ ~(v \in {"SERVICE", "UNCLASSIFIED", "CYCLEWAY", "LIVING_STREET", "STEPS"})
         /\ ~(v = "RESIDENTIAL")
         /\ ~(v = "FOOTWAY")
  <2>1. Corridor!CanopyClass[v] \in 80..85 BY <1>12 DEF Corridor!CanopyClass
  <2>2. \A i \in 1..Len(model) : ~On(i) BY <1>2, <1>3, <1>12
  <2>3. Len(model) \in Nat BY <1>1
  <2>4. Search!Priority(model, "road_class", v) = 100 BY <2>2, <2>3, NeverNamed DEF On
  <2> QED BY <2>1, <2>4 DEF model
<1> QED BY <1>5, <1>6, <1>7, <1>8, <1>9, <1>10, <1>11, <1>12

LEMMA ShadeSurfaces ==
    ASSUME NEW v \in DOMAIN Corridor!CanopySurface
    PROVE  LET priority == Search!Priority(Search!ShadeModel, "surface", v)
               worth == Corridor!CanopySurface[v]
           IN  \/ priority = 60 /\ worth \in 20..30
               \/ priority = 100 /\ worth \in 40..85
<1> DEFINE model == Search!ShadeModel
           On(i) == Named(model, i, "surface", v)
<1>1. /\ Len(model) = 10
      /\ model[10].percent = 60
  BY DEF Search!ShadeModel, Search!Class, Search!Environment, Search!Surface,
         Search!ShadeRules
<1>2. /\ ~On(1) /\ ~On(2) /\ ~On(3) /\ ~On(4) /\ ~On(5) /\ ~On(6) /\ ~On(7) /\ ~On(8) /\ ~On(9)
      /\ On(10) <=> v \in {"ASPHALT", "CONCRETE", "PAVED", "PAVING_STONES", "SAND"}
  BY DEF Named, Search!ShadeModel, Search!Class, Search!Environment, Search!Surface,
         Search!ShadeRules
<1>3. \A i \in 1..Len(model) : i \in {1, 2, 3, 4, 5, 6, 7, 8, 9, 10} BY <1>1
<1> HIDE DEF On, model
<1>4. ASSUME NEW k \in 1..10, model[k].percent \in Nat,
             \A i \in 1..Len(model) : On(i) <=> i = k
      PROVE  Search!Priority(model, "surface", v) = model[k].percent
  <2>1. k \in 1..Len(model) /\ Len(model) \in Nat BY <1>1
  <2> QED BY <1>4, <2>1, NamedOnce DEF On
<1>5. CASE v \in {"ASPHALT", "CONCRETE", "PAVED", "PAVING_STONES", "SAND"}
  <2>1. Corridor!CanopySurface[v] \in 20..30 BY <1>5 DEF Corridor!CanopySurface
  <2>2. \A i \in 1..Len(model) : On(i) <=> i = 10 BY <1>2, <1>3, <1>5
  <2>3. Search!Priority(model, "surface", v) = 60 BY <1>1, <1>4, <2>2
  <2> QED BY <2>1, <2>3 DEF model
<1>6. CASE /\ ~(v \in {"ASPHALT", "CONCRETE", "PAVED", "PAVING_STONES", "SAND"})
  <2>1. Corridor!CanopySurface[v] \in 40..85 BY <1>6 DEF Corridor!CanopySurface
  <2>2. \A i \in 1..Len(model) : ~On(i) BY <1>2, <1>3, <1>6
  <2>3. Len(model) \in Nat BY <1>1
  <2>4. Search!Priority(model, "surface", v) = 100 BY <2>2, <2>3, NeverNamed DEF On
  <2> QED BY <2>1, <2>4 DEF model
<1> QED BY <1>5, <1>6

LEMMA ShadeEnvironments ==
    ASSUME NEW v \in DOMAIN Corridor!EnvironmentCover
    PROVE  LET priority == Search!Priority(Search!ShadeModel, "road_environment", v)
               worth == Corridor!EnvironmentCover[v]
           IN  \/ priority = 15 /\ worth = 10
               \/ priority = 100 /\ worth = 100
<1> DEFINE model == Search!ShadeModel
           On(i) == Named(model, i, "road_environment", v)
<1>1. /\ Len(model) = 10
      /\ model[1].percent = 0
      /\ model[2].percent = 15
  BY DEF Search!ShadeModel, Search!Class, Search!Environment, Search!Surface,
         Search!ShadeRules
<1>2. /\ ~On(3) /\ ~On(4) /\ ~On(5) /\ ~On(6) /\ ~On(7) /\ ~On(8) /\ ~On(9) /\ ~On(10)
      /\ On(1) <=> v = "FERRY"
      /\ On(2) <=> v = "BRIDGE"
  BY DEF Named, Search!ShadeModel, Search!Class, Search!Environment, Search!Surface,
         Search!ShadeRules
<1>3. \A i \in 1..Len(model) : i \in {1, 2, 3, 4, 5, 6, 7, 8, 9, 10} BY <1>1
<1> HIDE DEF On, model
<1>4. ASSUME NEW k \in 1..10, model[k].percent \in Nat,
             \A i \in 1..Len(model) : On(i) <=> i = k
      PROVE  Search!Priority(model, "road_environment", v) = model[k].percent
  <2>1. k \in 1..Len(model) /\ Len(model) \in Nat BY <1>1
  <2> QED BY <1>4, <2>1, NamedOnce DEF On
<1>5. CASE v = "FERRY"
  <2>1. FALSE BY <1>5 DEF Corridor!EnvironmentCover
  <2>2. \A i \in 1..Len(model) : On(i) <=> i = 1 BY <1>2, <1>3, <1>5
  <2>3. Search!Priority(model, "road_environment", v) = 0 BY <1>1, <1>4, <2>2
  <2> QED BY <2>1, <2>3 DEF model
<1>6. CASE v = "BRIDGE"
  <2>1. Corridor!EnvironmentCover[v] = 10 BY <1>6 DEF Corridor!EnvironmentCover
  <2>2. \A i \in 1..Len(model) : On(i) <=> i = 2 BY <1>2, <1>3, <1>6
  <2>3. Search!Priority(model, "road_environment", v) = 15 BY <1>1, <1>4, <2>2
  <2> QED BY <2>1, <2>3 DEF model
<1>7. CASE /\ ~(v = "FERRY")
         /\ ~(v = "BRIDGE")
  <2>1. Corridor!EnvironmentCover[v] = 100 BY <1>7 DEF Corridor!EnvironmentCover
  <2>2. \A i \in 1..Len(model) : ~On(i) BY <1>2, <1>3, <1>7
  <2>3. Len(model) \in Nat BY <1>1
  <2>4. Search!Priority(model, "road_environment", v) = 100 BY <2>2, <2>3, NeverNamed DEF On
  <2> QED BY <2>1, <2>4 DEF model
<1> QED BY <1>5, <1>6, <1>7

(* Where the model prefers a kind of way, the table does not rate it lower.*)
LEMMA TablesOrder ==
    /\ Search!Orders(Search!QuietModel, "road_class", Corridor!QuietClass)
    /\ Search!Orders(Search!QuietModel, "surface", Corridor!QuietSurface)
    /\ Search!Orders(Search!AirModel, "road_class", Corridor!AirClass)
    /\ Search!Orders(Search!ShadeModel, "road_class", Corridor!CanopyClass)
    /\ Search!Orders(Search!ShadeModel, "surface", Corridor!CanopySurface)
    /\ Search!Orders(Search!ShadeModel, "road_environment", Corridor!EnvironmentCover)
<1>1. Search!Orders(Search!QuietModel, "road_class", Corridor!QuietClass)
  <2> SUFFICES ASSUME NEW a \in DOMAIN Corridor!QuietClass,
                      NEW b \in DOMAIN Corridor!QuietClass,
                      Search!Priority(Search!QuietModel, "road_class", a)
                        > Search!Priority(Search!QuietModel, "road_class", b)
               PROVE  Corridor!QuietClass[a] >= Corridor!QuietClass[b]
    BY DEF Search!Orders
  <2> QED BY QuietClasses
<1>2. Search!Orders(Search!QuietModel, "surface", Corridor!QuietSurface)
  <2> SUFFICES ASSUME NEW a \in DOMAIN Corridor!QuietSurface,
                      NEW b \in DOMAIN Corridor!QuietSurface,
                      Search!Priority(Search!QuietModel, "surface", a)
                        > Search!Priority(Search!QuietModel, "surface", b)
               PROVE  Corridor!QuietSurface[a] >= Corridor!QuietSurface[b]
    BY DEF Search!Orders
  <2> QED BY QuietSurfaces
<1>3. Search!Orders(Search!AirModel, "road_class", Corridor!AirClass)
  <2> SUFFICES ASSUME NEW a \in DOMAIN Corridor!AirClass,
                      NEW b \in DOMAIN Corridor!AirClass,
                      Search!Priority(Search!AirModel, "road_class", a)
                        > Search!Priority(Search!AirModel, "road_class", b)
               PROVE  Corridor!AirClass[a] >= Corridor!AirClass[b]
    BY DEF Search!Orders
  <2> QED BY AirClasses
<1>4. Search!Orders(Search!ShadeModel, "road_class", Corridor!CanopyClass)
  <2> SUFFICES ASSUME NEW a \in DOMAIN Corridor!CanopyClass,
                      NEW b \in DOMAIN Corridor!CanopyClass,
                      Search!Priority(Search!ShadeModel, "road_class", a)
                        > Search!Priority(Search!ShadeModel, "road_class", b)
               PROVE  Corridor!CanopyClass[a] >= Corridor!CanopyClass[b]
    BY DEF Search!Orders
  <2> QED BY ShadeClasses
<1>5. Search!Orders(Search!ShadeModel, "surface", Corridor!CanopySurface)
  <2> SUFFICES ASSUME NEW a \in DOMAIN Corridor!CanopySurface,
                      NEW b \in DOMAIN Corridor!CanopySurface,
                      Search!Priority(Search!ShadeModel, "surface", a)
                        > Search!Priority(Search!ShadeModel, "surface", b)
               PROVE  Corridor!CanopySurface[a] >= Corridor!CanopySurface[b]
    BY DEF Search!Orders
  <2> QED BY ShadeSurfaces
<1>6. Search!Orders(Search!ShadeModel, "road_environment", Corridor!EnvironmentCover)
  <2> SUFFICES ASSUME NEW a \in DOMAIN Corridor!EnvironmentCover,
                      NEW b \in DOMAIN Corridor!EnvironmentCover,
                      Search!Priority(Search!ShadeModel, "road_environment", a)
                        > Search!Priority(Search!ShadeModel, "road_environment", b)
               PROVE  Corridor!EnvironmentCover[a] >= Corridor!EnvironmentCover[b]
    BY DEF Search!Orders
  <2> QED BY ShadeEnvironments
<1> QED BY <1>1, <1>2, <1>3, <1>4, <1>5, <1>6

(* No model but the fastest, which has none, lets a ferry be taken.        *)
LEMMA NoFerry ==
    ASSUME NEW preset \in Search!PresetNames \ {"fastest"}, NEW selfHosted \in BOOLEAN
    PROVE  Search!Priority(Search!CustomModel(preset, selfHosted), "road_environment", "FERRY") = 0
<1> DEFINE model == Search!CustomModel(preset, selfHosted)
           On(i) == Named(model, i, "road_environment", "FERRY")
<1>1. ASSUME NEW k \in 1..Len(model), Len(model) \in Nat, model[k].percent \in Nat,
             \A i \in 1..Len(model) : On(i) <=> i = k
      PROVE  Search!Priority(model, "road_environment", "FERRY") = model[k].percent
  <2> HIDE DEF model
  <2> QED BY <1>1, NamedOnce
<1>2. CASE preset = "scenic"
  <2>1. model = Search!ScenicModel BY <1>2 DEF Search!CustomModel
  <2>2. /\ Len(model) = 6 /\ model[1].percent = 0 /\ On(1)
        /\ ~On(2) /\ ~On(3) /\ ~On(4) /\ ~On(5) /\ ~On(6)
    BY <2>1
       DEF Named, Search!ScenicModel, Search!Environment, Search!Class
  <2>3. \A i \in 1..Len(model) : i \in {1, 2, 3, 4, 5, 6} BY <2>2
  <2>4. 1 \in 1..Len(model) /\ Len(model) \in Nat BY <2>2
  <2> HIDE DEF model, On
  <2>5. \A i \in 1..Len(model) : On(i) <=> i = 1 BY <2>2, <2>3
  <2>6. Search!Priority(model, "road_environment", "FERRY") = 0 BY <1>1, <2>2, <2>4, <2>5
  <2> QED BY <2>6 DEF model
<1>3. CASE preset = "quiet"
  <2>1. model = Search!QuietModel BY <1>3 DEF Search!CustomModel
  <2>2. /\ Len(model) = 8 /\ model[1].percent = 0 /\ On(1)
        /\ ~On(2) /\ ~On(3) /\ ~On(4) /\ ~On(5) /\ ~On(6) /\ ~On(7) /\ ~On(8)
    BY <2>1
       DEF Named, Search!QuietModel, Search!Environment, Search!Class, Search!Surface
  <2>3. \A i \in 1..Len(model) : i \in {1, 2, 3, 4, 5, 6, 7, 8} BY <2>2
  <2>4. 1 \in 1..Len(model) /\ Len(model) \in Nat BY <2>2
  <2> HIDE DEF model, On
  <2>5. \A i \in 1..Len(model) : On(i) <=> i = 1 BY <2>2, <2>3
  <2>6. Search!Priority(model, "road_environment", "FERRY") = 0 BY <1>1, <2>2, <2>4, <2>5
  <2> QED BY <2>6 DEF model
<1>4. CASE preset = "air"
  <2>1. model = Search!AirModel BY <1>4 DEF Search!CustomModel
  <2>2. /\ Len(model) = 7 /\ model[1].percent = 0 /\ On(1)
        /\ ~On(2) /\ ~On(3) /\ ~On(4) /\ ~On(5) /\ ~On(6) /\ ~On(7)
    BY <2>1
       DEF Named, Search!AirModel, Search!Environment, Search!Class
  <2>3. \A i \in 1..Len(model) : i \in {1, 2, 3, 4, 5, 6, 7} BY <2>2
  <2>4. 1 \in 1..Len(model) /\ Len(model) \in Nat BY <2>2
  <2> HIDE DEF model, On
  <2>5. \A i \in 1..Len(model) : On(i) <=> i = 1 BY <2>2, <2>3
  <2>6. Search!Priority(model, "road_environment", "FERRY") = 0 BY <1>1, <2>2, <2>4, <2>5
  <2> QED BY <2>6 DEF model
<1>5. CASE preset = "shade"
  <2>1. model = Search!ShadeModel BY <1>5 DEF Search!CustomModel
  <2>2. /\ Len(model) = 10 /\ model[1].percent = 0 /\ On(1)
        /\ ~On(2) /\ ~On(3) /\ ~On(4) /\ ~On(5) /\ ~On(6) /\ ~On(7) /\ ~On(8) /\ ~On(9) /\ ~On(10)
    BY <2>1
       DEF Named, Search!ShadeModel, Search!Environment, Search!Class, Search!Surface,
           Search!ShadeRules
  <2>3. \A i \in 1..Len(model) : i \in {1, 2, 3, 4, 5, 6, 7, 8, 9, 10} BY <2>2
  <2>4. 1 \in 1..Len(model) /\ Len(model) \in Nat BY <2>2
  <2> HIDE DEF model, On
  <2>5. \A i \in 1..Len(model) : On(i) <=> i = 1 BY <2>2, <2>3
  <2>6. Search!Priority(model, "road_environment", "FERRY") = 0 BY <1>1, <2>2, <2>4, <2>5
  <2> QED BY <2>6 DEF model
<1>6. CASE preset = "accessible"
  <2>1. model = Search!AccessibleModel(selfHosted) BY <1>6 DEF Search!CustomModel
  <2>2. /\ Len(model) = IF selfHosted THEN 4 ELSE 3
        /\ ~On(1) /\ On(2) /\ model[2].percent = 0 /\ ~On(3)
        /\ selfHosted => ~On(4)
    BY <2>1
       DEF Named, Search!AccessibleModel, Search!Environment, Search!Class, Search!Surface,
           Search!Smoothness
  <2>3. \A i \in 1..Len(model) : i \in {1, 2, 3} \/ (i = 4 /\ selfHosted)
    <3> HIDE DEF model, On
    <3> QED BY <2>2
  <2> HIDE DEF model, On
  <2>4. 2 \in 1..Len(model) /\ Len(model) \in Nat BY <2>2
  <2>5. \A i \in 1..Len(model) : On(i) <=> i = 2 BY <2>2, <2>3
  <2>6. Search!Priority(model, "road_environment", "FERRY") = 0 BY <1>1, <2>2, <2>4, <2>5
  <2> QED BY <2>6 DEF model
<1> QED BY <1>2, <1>3, <1>4, <1>5, <1>6 DEF Search!PresetNames

(* What a model names the router knows.                                    *)
LEMMA ModelsCompile ==
    ASSUME NEW preset \in Search!PresetNames, NEW selfHosted \in BOOLEAN
    PROVE  Search!Compiles(Search!CustomModel(preset, selfHosted), selfHosted)
<1> DEFINE model == Search!CustomModel(preset, selfHosted)
           known(i) == /\ model[i].values \subseteq Search!GHValues[model[i].on]
                       /\ model[i].on = "smoothness" => selfHosted
<1> SUFFICES \A i \in DOMAIN model : known(i) BY DEF Search!Compiles
<1>1. /\ Search!GHValues["road_class"] = Search!GHRoadClasses
      /\ Search!GHValues["surface"] = Search!GHSurfaces
      /\ Search!GHValues["road_environment"] = Search!GHRoadEnvironments
      /\ Search!GHValues["smoothness"] = Search!GHSmoothnesses
  BY DEF Search!GHValues
<1>2. CASE preset = "scenic"
  <2>1. model = Search!ScenicModel BY <1>2 DEF Search!CustomModel
  <2>2. DOMAIN model = 1..6 BY <2>1 DEF Search!ScenicModel
  <2>3. \A i \in 1..6 : i \in {1, 2, 3, 4, 5, 6} OBVIOUS
  <2>4. /\ known(1) /\ known(2) /\ known(3) /\ known(4) /\ known(5) /\ known(6)
    BY <1>1, <2>1
       DEF Search!ScenicModel, Search!Environment, Search!Class,
           Search!GHRoadClasses, Search!GHSurfaces, Search!GHRoadEnvironments
  <2> HIDE DEF model, known
  <2> QED BY <2>2, <2>3, <2>4
<1>3. CASE preset = "quiet"
  <2>1. model = Search!QuietModel BY <1>3 DEF Search!CustomModel
  <2>2. DOMAIN model = 1..8 BY <2>1 DEF Search!QuietModel
  <2>3. \A i \in 1..8 : i \in {1, 2, 3, 4, 5, 6, 7, 8} OBVIOUS
  <2>4. /\ known(1) /\ known(2) /\ known(3) /\ known(4) /\ known(5) /\ known(6)
        /\ known(7) /\ known(8)
    BY <1>1, <2>1
       DEF Search!QuietModel, Search!Environment, Search!Class, Search!Surface, Search!Streets,
           Search!GHRoadClasses, Search!GHSurfaces, Search!GHRoadEnvironments
  <2> HIDE DEF model, known
  <2> QED BY <2>2, <2>3, <2>4
<1>4. CASE preset = "air"
  <2>1. model = Search!AirModel BY <1>4 DEF Search!CustomModel
  <2>2. DOMAIN model = 1..7 BY <2>1 DEF Search!AirModel
  <2>3. \A i \in 1..7 : i \in {1, 2, 3, 4, 5, 6, 7} OBVIOUS
  <2>4. /\ known(1) /\ known(2) /\ known(3) /\ known(4) /\ known(5) /\ known(6)
        /\ known(7)
    BY <1>1, <2>1
       DEF Search!AirModel, Search!Environment, Search!Class, Search!Streets,
           Search!GHRoadClasses, Search!GHSurfaces, Search!GHRoadEnvironments
  <2> HIDE DEF model, known
  <2> QED BY <2>2, <2>3, <2>4
<1>5. CASE preset = "shade"
  <2>1. model = Search!ShadeModel BY <1>5 DEF Search!CustomModel
  <2>2. DOMAIN model = 1..10 BY <2>1 DEF Search!ShadeModel, Search!ShadeRules
  <2>3. \A i \in 1..10 : i \in {1, 2, 3, 4, 5, 6, 7, 8, 9, 10} OBVIOUS
  <2>4. /\ known(1) /\ known(2) /\ known(3) /\ known(4) /\ known(5) /\ known(6)
        /\ known(7) /\ known(8) /\ known(9) /\ known(10)
    BY <1>1, <2>1
       DEF Search!ShadeModel, Search!Environment, Search!Class, Search!Surface, Search!ShadeRules,
           Search!GHRoadClasses, Search!GHSurfaces, Search!GHRoadEnvironments
  <2> HIDE DEF model, known
  <2> QED BY <2>2, <2>3, <2>4
<1>6. CASE preset = "accessible"
  <2>1. model = Search!AccessibleModel(selfHosted) BY <1>6 DEF Search!CustomModel
  <2>2. DOMAIN model = IF selfHosted THEN 1..4 ELSE 1..3
    <3>1. CASE selfHosted BY <2>1, <3>1 DEF Search!AccessibleModel
    <3>2. CASE ~selfHosted BY <2>1, <3>2 DEF Search!AccessibleModel
    <3> QED BY <3>1, <3>2
  <2>3. known(1) /\ known(2) /\ known(3) /\ (selfHosted => known(4))
    BY <1>1, <2>1
       DEF Search!AccessibleModel, Search!Environment, Search!Class, Search!Surface,
           Search!Smoothness, Search!GHRoadClasses, Search!GHSurfaces, Search!GHRoadEnvironments,
           Search!GHSmoothnesses
  <2> HIDE DEF model, known
  <2>4. \A i \in DOMAIN model : i \in {1, 2, 3} \/ (i = 4 /\ selfHosted) BY <2>2
  <2> QED BY <2>3, <2>4
<1>7. CASE preset = "fastest"
  <2>1. model = <<>> BY <1>7 DEF Search!CustomModel
  <2> QED BY <2>1
<1> QED BY <1>2, <1>3, <1>4, <1>5, <1>6, <1>7 DEF Search!PresetNames

(* custom_model of each preset and the tables of geometry.py: whatever is  *)
(* asked for, the model is one the router compiles, takes no ferry, and    *)
(* prefers no kind of way that the score then rates lower.                 *)
THEOREM TheTablesAgree == UpstreamSpec => []TablesAgree
<1>1. SearchInv => TablesAgree
  <2> SUFFICES ASSUME SearchInv, ask # Search!Nothing PROVE TablesAgree BY DEF TablesAgree
  <2> DEFINE model == Search!CustomModel(ask.preset, ask.selfHosted)
  <2>1. ask.preset \in Search!PresetNames /\ ask.selfHosted \in BOOLEAN
    BY DEF SearchInv, SearchTypes, Search!Asks
  <2>2. Search!Compiles(model, ask.selfHosted) BY <2>1, ModelsCompile
  <2>3. ask.preset # "fastest" => Search!Priority(model, "road_environment", "FERRY") = 0
    BY <2>1, NoFerry
  <2>4. /\ ask.preset = "quiet" => model = Search!QuietModel
        /\ ask.preset = "air" => model = Search!AirModel
        /\ ask.preset = "shade" => model = Search!ShadeModel
    BY DEF Search!CustomModel
  <2> HIDE DEF model
  <2> QED BY <2>2, <2>3, <2>4, TablesOrder DEF TablesAgree, model
<1> QED BY <1>1, SearchInvariant, PTL

-----------------------------------------------------------------------------
(* The photographs.  In a finite total order every rank is taken: no two   *)
(* have the same, and there are as many ranks as there are members.        *)
UpTo(S, R, p) == {q \in S : q = p \/ <<q, p>> \in R}

LEMMA Ranked ==
    ASSUME NEW S, IsFiniteSet(S), NEW R,
           \A p \in S : <<p, p>> \notin R,
           \A p, q \in S : p = q \/ <<p, q>> \in R \/ <<q, p>> \in R,
           \A p, q, r \in S : <<p, q>> \in R /\ <<q, r>> \in R => <<p, r>> \in R
    PROVE  \A k \in 1..Cardinality(S) :
              \E p \in S : Cardinality(UpTo(S, R, p)) = k
<1> DEFINE rank == [p \in S |-> Cardinality(UpTo(S, R, p))]
           ranks == 1..Cardinality(S)
<1>1. ASSUME NEW p \in S
      PROVE  /\ IsFiniteSet(UpTo(S, R, p)) /\ Cardinality(UpTo(S, R, p)) \in ranks
  <2>1. UpTo(S, R, p) \in SUBSET S /\ p \in UpTo(S, R, p) BY DEF UpTo
  <2>2. IsFiniteSet(UpTo(S, R, p)) /\ Cardinality(UpTo(S, R, p)) <= Cardinality(S)
    BY <2>1, FS_Subset
  <2>3. Cardinality(UpTo(S, R, p)) \in Nat /\ Cardinality(S) \in Nat BY <2>2, FS_CardinalityType
  <2>4. Cardinality(UpTo(S, R, p)) # 0 BY <2>1, <2>2, FS_EmptySet
  <2> QED BY <2>2, <2>3, <2>4
<1>2. ASSUME NEW p \in S, NEW q \in S, <<p, q>> \in R PROVE rank[p] # rank[q]
  <2>1. UpTo(S, R, p) \in SUBSET UpTo(S, R, q) BY <1>2 DEF UpTo
  <2>2. q \in UpTo(S, R, q) /\ q \notin UpTo(S, R, p) BY <1>2 DEF UpTo
  <2>3. IsFiniteSet(UpTo(S, R, q)) BY <1>1
  <2>4. Cardinality(UpTo(S, R, q)) = Cardinality(UpTo(S, R, p)) => UpTo(S, R, q) = UpTo(S, R, p)
    BY <2>1, <2>3, FS_Subset
  <2> QED BY <2>2, <2>4
<1>3. rank \in Injection(S, ranks)
  <2>1. rank \in [S -> ranks]
    <3> HIDE DEF ranks
    <3> QED BY <1>1
  <2>2. ASSUME NEW p \in S, NEW q \in S, rank[p] = rank[q] PROVE p = q
    <3> HIDE DEF rank
    <3> QED BY <1>2, <2>2
  <2>3. DOMAIN rank = S OBVIOUS
  <2> HIDE DEF rank, ranks
  <2> QED BY <2>1, <2>2, <2>3 DEF Injection, IsInjective
<1>4. IsFiniteSet(ranks) /\ Cardinality(ranks) = Cardinality(S)
  <2>1. Cardinality(S) \in Nat BY FS_CardinalityType
  <2> QED BY <2>1, FS_Interval
<1>5. rank \in Surjection(S, ranks)
  <2> HIDE DEF rank, ranks
  <2> QED BY <1>3, <1>4, FS_Injection
<1>6. \A k \in ranks : \E p \in S : rank[p] = k BY <1>5 DEF Surjection
<1> QED BY <1>6

(* The members of a finite set of numbers, in order, are its members.      *)
LEMMA InOrderMembers ==
    ASSUME NEW S \in SUBSET Int, IsFiniteSet(S)
    PROVE  \A k \in 1..Cardinality(S) : Strip!InOrder(S)[k] \in S
<1> DEFINE R == {pair \in S \X S : pair[1] < pair[2]}
<1>1. \A k \in 1..Cardinality(S) :
         \E p \in S : Cardinality(UpTo(S, R, p)) = k
  <2>1. \A p \in S : <<p, p>> \notin R OBVIOUS
  <2>2. ASSUME NEW p \in S, NEW q \in S PROVE p = q \/ <<p, q>> \in R \/ <<q, p>> \in R
    <3>1. p \in Int /\ q \in Int /\ <<p, q>> \in S \X S /\ <<q, p>> \in S \X S OBVIOUS
    <3> QED BY <3>1
  <2>3. ASSUME NEW p \in S, NEW q \in S, NEW r \in S, <<p, q>> \in R, <<q, r>> \in R
        PROVE  <<p, r>> \in R
    <3>1. p \in Int /\ q \in Int /\ r \in Int /\ p < q /\ q < r BY <2>3
    <3>2. p < r BY <3>1
    <3> QED BY <3>2
  <2> HIDE DEF R
  <2>4. IsFiniteSet(S) OBVIOUS
  <2>5. \A p, q \in S : p = q \/ <<p, q>> \in R \/ <<q, p>> \in R BY <2>2
  <2>6. \A p, q, r \in S : <<p, q>> \in R /\ <<q, r>> \in R => <<p, r>> \in R BY <2>3
  <2> QED BY <2>1, <2>4, <2>5, <2>6, Ranked, Zenon
<1>2. ASSUME NEW p \in S
      PROVE  UpTo(S, R, p) = {q \in S : q <= p}
  <2>1. ASSUME NEW q \in S PROVE q <= p <=> q = p \/ <<q, p>> \in R
    <3>1. p \in Int /\ q \in Int OBVIOUS
    <3>2. <<q, p>> \in R <=> q < p OBVIOUS
    <3> QED BY <3>1, <3>2
  <2> QED BY <2>1 DEF UpTo
<1>3. ASSUME NEW k \in 1..Cardinality(S)
      PROVE  (CHOOSE n \in S : Strip!Cardinality({m \in S : m <= n}) = k) \in S
  <2>1. \A T : Strip!Cardinality(T) = Cardinality(T) BY DEF Strip!Cardinality, Cardinality
  <2>2. \E n \in S : Strip!Cardinality({m \in S : m <= n}) = k BY <1>1, <1>2, <2>1
  <2> QED BY <2>2
<1>4. Strip!Cardinality(S) = Cardinality(S) BY DEF Strip!Cardinality, Cardinality
<1> QED BY <1>3, <1>4 DEF Strip!InOrder

(* The vertex nearest to a place is one.                                   *)
LEMMA NearestIsAVertex ==
    ASSUME NEW twice \in Int
    PROVE  Strip!NearestVertex(twice) \in Nat
<1> DEFINE off(i) == Strip!Distance(2 * Vertices[i], twice)
           merit == [i \in DOMAIN Vertices |-> -off(i)]
           IsNearest(i) == \A j \in DOMAIN Vertices :
                              IF j < i THEN off(i) < off(j) ELSE off(i) <= off(j)
<1>1. Vertices \in Seq(Nat) /\ DOMAIN Vertices = 1..Len(Vertices) /\ Len(Vertices) \in Nat \ {0}
  BY PhotosAssumption
<1>2. ASSUME NEW i \in DOMAIN Vertices PROVE off(i) \in Int
  <2>1. 2 * Vertices[i] \in Int BY <1>1
  <2> QED BY <2>1 DEF Strip!Distance
<1>3. \A i \in DOMAIN Vertices : merit[i] \in Int /\ merit[i] = -off(i) BY <1>2
<1>4. PICK i \in DOMAIN Vertices : \A j \in DOMAIN Vertices :
         IF j < i THEN merit[j] < merit[i] ELSE merit[j] <= merit[i]
  <2>1. DOMAIN Vertices \in SUBSET (1..Len(Vertices)) /\ DOMAIN Vertices # {}
    <3>1. 1 \in 1..Len(Vertices) BY <1>1
    <3> QED BY <1>1, <3>1
  <2>2. \A i \in DOMAIN Vertices : merit[i] \in Int BY <1>3
  <2>3. Len(Vertices) \in Nat BY <1>1
  <2> HIDE DEF merit
  <2> QED BY <2>1, <2>2, <2>3, FirstMost
<1>5. IsNearest(i)
  <2> SUFFICES ASSUME NEW j \in DOMAIN Vertices
               PROVE  IF j < i THEN off(i) < off(j) ELSE off(i) <= off(j)
    OBVIOUS
  <2> HIDE DEF off, merit
  <2> QED BY <1>2, <1>3, <1>4
<1>6. (CHOOSE n \in DOMAIN Vertices : IsNearest(n)) \in DOMAIN Vertices
  <2> HIDE DEF IsNearest
  <2> QED BY <1>5
<1>7. Strip!NearestVertex(twice) = Vertices[CHOOSE n \in DOMAIN Vertices : IsNearest(n)]
  BY DEF Strip!NearestVertex
<1> QED
  <2> HIDE DEF IsNearest
  <2> QED BY <1>1, <1>6, <1>7

LEMMA WholeIsANumber == Strip!Whole \in Nat
<1>1. Len(Vertices) \in DOMAIN Vertices /\ Vertices \in Seq(Nat) BY PhotosAssumption
<1> QED BY <1>1 DEF Strip!Whole

Places == [at : Nat, isBarrier : BOOLEAN]
AtABarrier(blockers) == {Strip!NearestVertex(2 * b) : b \in blockers}

(* The anchors are places along the route, the one for a barrier at it.    *)
LEMMA AnchorsAlongTheRoute ==
    ASSUME NEW objective, NEW blockers \in SUBSET Nat
    PROVE  /\ Strip!AnchorsFor(objective, blockers) \in Seq(Places)
           /\ \A i \in DOMAIN Strip!AnchorsFor(objective, blockers) :
                 Strip!AnchorsFor(objective, blockers)[i].isBarrier
                   => Strip!AnchorsFor(objective, blockers)[i].at \in AtABarrier(blockers)
<1> DEFINE even == Strip!EvenAnchors
           nearest(i) == Strip!NearestVertex((Strip!Whole * (2 * i - 1)) \div MaxAnchors)
           ats == {nearest(i) : i \in 1..MaxAnchors}
<1>1. Strip!Whole \in Nat BY WholeIsANumber
<1>2. MaxAnchors \in Int BY PhotosAssumption
<1>3. ASSUME NEW i \in 1..MaxAnchors PROVE nearest(i) \in Nat
  <2>1. (Strip!Whole * (2 * i - 1)) \in Int BY <1>1, <1>2
  <2>2. (Strip!Whole * (2 * i - 1)) \div MaxAnchors \in Int
    <3>1. MaxAnchors \in Nat \ {0} BY <1>2
    <3> QED BY <2>1, <3>1
  <2> QED BY <2>2, NearestIsAVertex
<1>4. ats \in SUBSET Int /\ ats \in SUBSET Nat
  <2> HIDE DEF nearest
  <2> QED BY <1>3
<1>5. IsFiniteSet(ats)
  <2>1. IsFiniteSet(1..MaxAnchors) BY <1>2, FS_Interval
  <2> DEFINE f == [i \in 1..MaxAnchors |-> nearest(i)]
  <2>2. f \in Surjection(1..MaxAnchors, ats)
    <3> HIDE DEF nearest
    <3> QED BY DEF Surjection
  <2> HIDE DEF f, ats
  <2> QED BY <2>1, <2>2, FS_Surjection
<1>6. /\ even \in Seq(Places)
      /\ \A i \in DOMAIN even : ~even[i].isBarrier
  <2>1. Strip!Cardinality(ats) = Cardinality(ats) BY DEF Strip!Cardinality, Cardinality
  <2>2. even = IF Strip!Whole = 0 THEN <<>>
               ELSE [k \in 1..Cardinality(ats) |-> Strip!Anchor(Strip!InOrder(ats)[k], FALSE)]
    BY <2>1 DEF Strip!EvenAnchors
  <2>3. Cardinality(ats) \in Nat BY <1>5, FS_CardinalityType
  <2>4. \A k \in 1..Cardinality(ats) : Strip!InOrder(ats)[k] \in ats
    <3> HIDE DEF ats
    <3> QED BY <1>4, <1>5, InOrderMembers
  <2>5. \A k \in 1..Cardinality(ats) :
           /\ Strip!Anchor(Strip!InOrder(ats)[k], FALSE) \in Places
           /\ ~Strip!Anchor(Strip!InOrder(ats)[k], FALSE).isBarrier
    <3> HIDE DEF ats
    <3> QED BY <1>4, <2>4 DEF Strip!Anchor, Places
  <2> DEFINE anchor(k) == Strip!Anchor(Strip!InOrder(ats)[k], FALSE)
             along == [k \in 1..Cardinality(ats) |-> anchor(k)]
  <2>6. along \in Seq(Places) /\ DOMAIN along = 1..Cardinality(ats)
    <3>1. \A k \in 1..Cardinality(ats) : anchor(k) \in Places BY <2>5
    <3> HIDE DEF anchor, ats
    <3> QED BY <2>3, <3>1
  <2>7. \A k \in DOMAIN along : ~along[k].isBarrier
    <3>1. \A k \in 1..Cardinality(ats) : ~anchor(k).isBarrier BY <2>5
    <3> HIDE DEF anchor, ats
    <3> QED BY <2>6, <3>1
  <2>8. even = <<>> \/ even = along BY <2>2
  <2> HIDE DEF along, even
  <2>9. <<>> \in Seq(Places) /\ DOMAIN <<>> = {} OBVIOUS
  <2> QED BY <2>6, <2>7, <2>8, <2>9
<1>7. CASE objective # "accessible" \/ blockers = {} \/ even = <<>>
  <2>1. Strip!AnchorsFor(objective, blockers) = even BY <1>7 DEF Strip!AnchorsFor
  <2> HIDE DEF even
  <2> QED BY <1>6, <2>1
<1>8. CASE objective = "accessible" /\ blockers # {} /\ even # <<>>
  <2> DEFINE IsFirst(b) == \A c \in blockers : b <= Strip!NearestVertex(2 * c)
             first == CHOOSE b \in AtABarrier(blockers) : IsFirst(b)
             rest == SubSeq(even, 1, Len(even) - 1)
  <2>1. \A c \in blockers : Strip!NearestVertex(2 * c) \in Nat
    <3>1. \A c \in blockers : 2 * c \in Int OBVIOUS
    <3> QED BY <3>1, NearestIsAVertex
  <2>2. AtABarrier(blockers) \in SUBSET Nat /\ AtABarrier(blockers) # {}
    BY <1>8, <2>1 DEF AtABarrier
  <2>3. PICK b \in AtABarrier(blockers) : \A c \in AtABarrier(blockers) : b <= c
    BY <2>2, LeastOf
  <2>4. IsFirst(b) BY <2>3 DEF AtABarrier
  <2>5. first \in AtABarrier(blockers)
    <3> HIDE DEF IsFirst
    <3> QED BY <2>4
  <2>6. rest \in Seq(Places) /\ \A i \in DOMAIN rest : ~rest[i].isBarrier
    <3> HIDE DEF even
    <3> QED BY <1>6, <1>8
  <2> DEFINE head == Strip!Anchor(first, TRUE)
  <2>7. Strip!AnchorsFor(objective, blockers) = <<head>> \o rest
    BY <1>8 DEF Strip!AnchorsFor, AtABarrier
  <2>8. head \in Places /\ head.at = first
    <3> HIDE DEF first
    <3> QED BY <2>2, <2>5 DEF Strip!Anchor, Places
  <2> HIDE DEF rest, first, head
  <2>9. /\ <<head>> \o rest \in Seq(Places)
        /\ \A i \in DOMAIN (<<head>> \o rest) :
              (<<head>> \o rest)[i] = head \/ \E k \in DOMAIN rest : (<<head>> \o rest)[i] = rest[k]
    <3>1. <<head>> \in Seq(Places) /\ <<head>> \o rest \in Seq(Places) BY <2>6, <2>8
    <3>2. /\ DOMAIN (<<head>> \o rest) = 1..(1 + Len(rest)) /\ (<<head>> \o rest)[1] = head
          /\ \A i \in 2..(1 + Len(rest)) : (<<head>> \o rest)[i] = rest[i - 1]
      BY <2>6, <2>8
    <3>3. \A i \in 2..(1 + Len(rest)) : i - 1 \in DOMAIN rest BY <2>6
    <3>4. \A i \in 1..(1 + Len(rest)) : i = 1 \/ i \in 2..(1 + Len(rest)) BY <2>6
    <3> QED BY <3>1, <3>2, <3>3, <3>4
  <2> QED BY <2>5, <2>6, <2>7, <2>8, <2>9
<1> QED BY <1>7, <1>8

-----------------------------------------------------------------------------
(* The anchors are those of the request, and each reply is what an answer  *)
(* of photographs is made into at its anchor.                              *)
OfTheRequest ==
    IF photoAsk = Strip!Nothing THEN photoAnswer = <<>> /\ results = <<>>
    ELSE /\ photoAsk.blockers \subseteq Nat
         /\ anchors \in Seq(Places)
         /\ \A i \in DOMAIN anchors :
               anchors[i].isBarrier => anchors[i].at \in AtABarrier(photoAsk.blockers)
OfTheSources ==
    /\ photoAsk # Strip!Nothing => DOMAIN results \subseteq Strip!Tasks
    /\ \A t \in DOMAIN results :
          \/ results[t] = <<>>
          \/ \E pages \in Pages :
                results[t] = <<Strip!Photographs(pages, t[1], anchors[t[2]])>>
StripInv ==
    OfTheRequest /\ OfTheSources /\ Strip!StripAlongTheWay /\ Strip!FailureCostsItsOwn

(* All there is to answer from has come.                                   *)
AllReplied ==
    /\ photoAsk # Strip!Nothing /\ OfTheRequest
    /\ OfTheSources /\ DOMAIN results = Strip!Tasks

(* A reply has photographs of its anchor.                                  *)
FoundHere(i) == {photo \in Strip!Found : photo.at = anchors[i].at}

LEMMA OrderedChoice ==
    ASSUME NEW Any, NEW all \in Seq(Any), NEW S \in SUBSET DOMAIN all
    PROVE  /\ IsFiniteSet(S) /\ Cardinality(S) \in Nat
           /\ Strip!Cardinality(S) = Cardinality(S)
           /\ \A k \in 1..Cardinality(S) : Strip!InOrder(S)[k] \in S
<1>1. DOMAIN all = 1..Len(all) /\ Len(all) \in Nat /\ S \in SUBSET Int OBVIOUS
<1>2. IsFiniteSet(1..Len(all)) BY <1>1, FS_Interval
<1>3. IsFiniteSet(S) BY <1>1, <1>2, FS_Subset
<1>4. Cardinality(S) \in Nat BY <1>3, FS_CardinalityType
<1>5. Strip!Cardinality(S) = Cardinality(S) BY DEF Strip!Cardinality, Cardinality
<1> QED BY <1>1, <1>3, <1>4, <1>5, InOrderMembers

LEMMA PhotographsThere ==
    ASSUME NEW pages \in Pages, NEW source, NEW anchor
    PROVE  Strip!Photographs(pages, source, anchor)
              \in Seq({Strip!Photo(pages[i], source, anchor) : i \in DOMAIN pages})
<1> DEFINE usable == {i \in DOMAIN pages : /\ Strip!Fetchable(pages[i].host)
                                           /\ source = "wikimedia_commons" => pages[i].licensed}
           shot(i) == Strip!Photo(pages[i], source, anchor)
<1>1. pages \in Seq({pages[i] : i \in DOMAIN pages}) BY PhotosAssumption
<1>2. usable \in SUBSET DOMAIN pages OBVIOUS
<1>3. /\ Cardinality(usable) \in Nat /\ Strip!Cardinality(usable) = Cardinality(usable)
      /\ \A k \in 1..Cardinality(usable) : Strip!InOrder(usable)[k] \in usable
  <2> HIDE DEF usable
  <2> QED BY <1>1, <1>2, OrderedChoice
<1>4. Strip!Photographs(pages, source, anchor)
         = [k \in 1..Cardinality(usable) |-> shot(Strip!InOrder(usable)[k])]
  BY <1>3 DEF Strip!Photographs
<1>5. \A k \in 1..Cardinality(usable) :
         shot(Strip!InOrder(usable)[k]) \in {shot(i) : i \in DOMAIN pages}
  <2> HIDE DEF usable, shot
  <2> QED BY <1>2, <1>3
<1>6. [k \in 1..Cardinality(usable) |-> shot(Strip!InOrder(usable)[k])]
         \in Seq({shot(i) : i \in DOMAIN pages})
  <2> HIDE DEF usable, shot
  <2> QED BY <1>3, <1>5
<1> QED BY <1>4, <1>6

LEMMA RepliesAreFound ==
    ASSUME OfTheSources, NEW t \in DOMAIN results, results[t] # <<>>
    PROVE  results[t][1] \in Seq(FoundHere(t[2]))
<1>1. PICK pages \in Pages :
         results[t] = <<Strip!Photographs(pages, t[1], anchors[t[2]])>>
  BY DEF OfTheSources
<1> DEFINE photos == results[t][1]
           any == {Strip!Photo(pages[i], t[1], anchors[t[2]]) : i \in DOMAIN pages}
<1>2. photos \in Seq(any) BY <1>1, PhotographsThere
<1>3. \A photo \in any : photo.at = anchors[t[2]].at BY DEF Strip!Photo
<1>4. ASSUME NEW k \in DOMAIN photos PROVE photos[k] \in Strip!Found
  <2>1. photos[k] \in Strip!ToSet(photos) BY DEF Strip!ToSet
  <2>2. t \in {u \in DOMAIN results : results[u] # Strip!Absent} BY DEF Strip!Absent
  <2> HIDE DEF photos
  <2>3. Strip!ToSet(results[t][1]) \subseteq Strip!Found BY <2>2 DEF Strip!Found
  <2> QED BY <2>1, <2>3 DEF photos
<1>5. ASSUME NEW k \in DOMAIN photos PROVE photos[k] \in FoundHere(t[2])
  <2>1. photos[k] \in any
    <3> HIDE DEF photos, any
    <3> QED BY <1>2
  <2> HIDE DEF photos, any
  <2> QED BY <1>3, <1>4, <2>1 DEF FoundHere
<1>6. photos \in Seq(FoundHere(t[2]))
  <2> HIDE DEF photos, any
  <2> QED BY <1>2, <1>5
<1> QED BY <1>6

(* What is found at an anchor was found there, and whatever a source has   *)
(* there is something found.                                               *)
LEMMA FoundAtAnchor ==
    ASSUME OfTheSources, DOMAIN results = Strip!Tasks, NEW i
    PROVE  /\ Strip!FoundAt(i) \in Seq(FoundHere(i))
           /\ \A t \in Strip!Tasks :
                 t[2] = i /\ results[t] # <<>> /\ results[t][1] # <<>> => Strip!FoundAt(i) # <<>>
<1> DEFINE of(source) == IF <<source, i>> \in Strip!Tasks THEN results[<<source, i>>] ELSE <<>>
           given(source) == IF of(source) = <<>> THEN <<>> ELSE of(source)[1]
           one == given("wikimedia_commons")
           two == given("mapillary")
           all == one \o two
           firsts == {k \in DOMAIN all : \A j \in 1..(k - 1) : all[j].id # all[k].id}
<1>1. ASSUME NEW source PROVE given(source) \in Seq(FoundHere(i))
  <2>1. CASE of(source) = <<>> BY <2>1
  <2>2. CASE of(source) # <<>>
    <3>1. <<source, i>> \in DOMAIN results /\ of(source) = results[<<source, i>>] BY <2>2
    <3>2. results[<<source, i>>][1] \in Seq(FoundHere(i))
      <4>1. <<source, i>>[2] = i OBVIOUS
      <4> QED BY <2>2, <3>1, <4>1, RepliesAreFound
    <3> QED BY <2>2, <3>1, <3>2
  <2> QED BY <2>1, <2>2
<1>2. one \in Seq(FoundHere(i)) /\ two \in Seq(FoundHere(i)) BY <1>1
<1>3. all \in Seq(FoundHere(i)) /\ Len(all) = Len(one) + Len(two)
  <2> HIDE DEF one, two
  <2> QED BY <1>2
<1>4. firsts \in SUBSET DOMAIN all OBVIOUS
<1>5. /\ IsFiniteSet(firsts)
      /\ Cardinality(firsts) \in Nat /\ Strip!Cardinality(firsts) = Cardinality(firsts)
      /\ \A k \in 1..Cardinality(firsts) : Strip!InOrder(firsts)[k] \in firsts
  <2> HIDE DEF firsts, all
  <2> QED BY <1>3, <1>4, OrderedChoice
<1>6. Strip!FoundAt(i) = [k \in 1..Cardinality(firsts) |-> all[Strip!InOrder(firsts)[k]]]
  BY <1>5 DEF Strip!FoundAt, Strip!Absent
<1>7. Strip!FoundAt(i) \in Seq(FoundHere(i)) /\ Len(Strip!FoundAt(i)) = Cardinality(firsts)
  <2>1. \A k \in 1..Cardinality(firsts) : all[Strip!InOrder(firsts)[k]] \in FoundHere(i)
    <3>1. ASSUME NEW k \in DOMAIN all PROVE all[k] \in FoundHere(i)
      <4> HIDE DEF all, one, two
      <4> QED BY <1>3
    <3>2. firsts \subseteq DOMAIN all BY <1>4
    <3> HIDE DEF firsts, all
    <3> QED BY <1>5, <3>1, <3>2
  <2> HIDE DEF firsts, all
  <2> QED BY <1>5, <1>6, <2>1
<1>8. ASSUME NEW t \in Strip!Tasks, t[2] = i, results[t] # <<>>, results[t][1] # <<>>
      PROVE  Strip!FoundAt(i) # <<>>
  <2>1. t = <<t[1], i>> /\ t[1] \in {"wikimedia_commons", "mapillary"}
    BY <1>8 DEF Strip!Tasks, Strip!SourceNames
  <2>2. given(t[1]) = results[t][1] BY <1>8, <2>1
  <2>3. one # <<>> \/ two # <<>> BY <1>8, <2>1, <2>2
  <2>4. 1 \in DOMAIN all
    <3> HIDE DEF one, two
    <3> QED BY <1>2, <1>3, <2>3
  <2>5. 1 \in firsts
    <3>1. 1..(1 - 1) = {} OBVIOUS
    <3> HIDE DEF all
    <3> QED BY <2>4, <3>1
  <2>6. Cardinality(firsts) # 0
    <3> HIDE DEF firsts
    <3> QED BY <1>5, <2>5, FS_EmptySet
  <2> HIDE DEF firsts
  <2> QED BY <1>5, <1>7, <2>6
<1> QED BY <1>7, <1>8

-----------------------------------------------------------------------------
(* The first of those with the most of something is one of them.           *)
LEMMA FirstBestIsOne ==
    ASSUME OfTheRequest, photoAsk # Strip!Nothing,
           NEW I \in SUBSET DOMAIN anchors, I # {},
           NEW merit, \A i \in I : merit[i] \in Int
    PROVE  Strip!FirstBest(I, merit) \in I
<1>1. Len(anchors) \in Nat /\ I \in SUBSET (1..Len(anchors)) BY DEF OfTheRequest
<1>2. \E i \in I : \A j \in I :
         IF j < i THEN merit[j] < merit[i] ELSE merit[j] <= merit[i]
  BY <1>1, FirstMost
<1> QED BY <1>2 DEF Strip!FirstBest

(* The hero's anchor has photographs, and is a barrier if that is said.    *)
LEMMA HeroAnchorIsUsable ==
    ASSUME AllReplied, Strip!Usable # {}
    PROVE  /\ Strip!HeroAnchor[1] \in Strip!Usable
           /\ Strip!HeroAnchor[2] = "first_barrier" => anchors[Strip!HeroAnchor[1]].isBarrier
<1> DEFINE usable == Strip!Usable
           barriers == {i \in usable : anchors[i].isBarrier}
           commons == [i \in usable |-> Strip!Cardinality(Strip!CommonsAt(i))]
           offMiddle == [i \in usable |-> -Strip!Distance(2 * anchors[i].at, Strip!Whole)]
           alike(S) == [i \in S |-> 0]
           most == Strip!FirstBest(usable, commons)
           midway == Strip!FirstBest(usable, offMiddle)
           sampled == Strip!FirstBest(usable, alike(usable))
           barrier == Strip!FirstBest(barriers, alike(barriers))
<1>1. usable \in SUBSET DOMAIN anchors /\ barriers \in SUBSET DOMAIN anchors
  BY DEF Strip!Usable
<1>2. OfTheRequest /\ photoAsk # Strip!Nothing BY DEF AllReplied
<1>3. \A i \in usable : commons[i] \in Int
  <2>1. ASSUME NEW i \in usable PROVE Strip!Cardinality(Strip!CommonsAt(i)) \in Nat
    <3>1. Strip!FoundAt(i) \in Seq(FoundHere(i)) BY FoundAtAnchor DEF AllReplied
    <3>2. Strip!CommonsAt(i) \in SUBSET DOMAIN Strip!FoundAt(i) BY DEF Strip!CommonsAt
    <3> QED BY <3>1, <3>2, OrderedChoice
  <2> HIDE DEF usable
  <2> QED BY <2>1
<1>4. \A i \in usable : offMiddle[i] \in Int
  <2>1. ASSUME NEW i \in usable
        PROVE  -Strip!Distance(2 * anchors[i].at, Strip!Whole) \in Int
    <3>0. i \in DOMAIN anchors /\ anchors \in Seq(Places) BY <1>1, <1>2 DEF OfTheRequest
    <3>1. anchors[i].at \in Nat
      <4>1. anchors[i] \in Places
        <5> HIDE DEF usable
        <5> QED BY <3>0
      <4> QED BY <4>1 DEF Places
    <3>2. 2 * anchors[i].at \in Nat BY <3>1
    <3> QED BY <3>2, WholeIsANumber DEF Strip!Distance
  <2> HIDE DEF usable
  <2> QED BY <2>1
<1>5. most \in usable
  <2> HIDE DEF usable, commons
  <2> QED BY <1>1, <1>2, <1>3, FirstBestIsOne DEF usable
<1>6. midway \in usable
  <2> HIDE DEF usable, offMiddle
  <2> QED BY <1>1, <1>2, <1>4, FirstBestIsOne DEF usable
<1>7. sampled \in usable
  <2>1. \A i \in usable : alike(usable)[i] \in Int OBVIOUS
  <2> HIDE DEF usable, alike
  <2> QED BY <1>1, <1>2, <2>1, FirstBestIsOne DEF usable
<1>8. barriers # {} => barrier \in barriers
  <2>1. \A i \in barriers : alike(barriers)[i] \in Int OBVIOUS
  <2> HIDE DEF barriers, alike
  <2> QED BY <1>1, <1>2, <2>1, FirstBestIsOne
<1>9. \/ barriers # {} /\ Strip!HeroAnchor = <<barrier, "first_barrier">>
      \/ Strip!HeroAnchor = <<midway, "midpoint">>
      \/ Strip!HeroAnchor = <<most, "most_photographed">>
      \/ Strip!HeroAnchor = <<sampled, "sampled">>
  BY DEF Strip!HeroAnchor
<1>10. \A i \in barriers : i \in usable /\ anchors[i].isBarrier OBVIOUS
<1> HIDE DEF usable, barriers, most, midway, sampled, barrier
<1>11. \/ /\ barriers # {} /\ Strip!HeroAnchor[1] = barrier
       \/ Strip!HeroAnchor[1] \in usable /\ Strip!HeroAnchor[2] # "first_barrier"
  BY <1>5, <1>6, <1>7, <1>9
<1> QED BY <1>8, <1>10, <1>11 DEF usable

(* A hero is one of what was found at its anchor.                          *)
LEMMA HeroIsFound ==
    ASSUME AllReplied, NEW i, Strip!FoundAt(i) # <<>>
    PROVE  Strip!Hero(i) \in FoundHere(i)
<1>1. Strip!FoundAt(i) \in Seq(FoundHere(i)) BY FoundAtAnchor DEF AllReplied
<1>2. Strip!CommonsAt(i) \in SUBSET DOMAIN Strip!FoundAt(i) BY DEF Strip!CommonsAt
<1>3. CASE Strip!CommonsAt(i) = {}
  <2>1. 1 \in DOMAIN Strip!FoundAt(i) BY <1>1
  <2> QED BY <1>1, <1>3, <2>1 DEF Strip!Hero
<1>4. CASE Strip!CommonsAt(i) # {}
  <2>1. /\ IsFiniteSet(Strip!CommonsAt(i)) /\ Cardinality(Strip!CommonsAt(i)) \in Nat
        /\ \A k \in 1..Cardinality(Strip!CommonsAt(i)) :
              Strip!InOrder(Strip!CommonsAt(i))[k] \in Strip!CommonsAt(i)
    BY <1>1, <1>2, OrderedChoice
  <2>2. Cardinality(Strip!CommonsAt(i)) # 0 BY <1>4, <2>1, FS_EmptySet
  <2>3. Strip!InOrder(Strip!CommonsAt(i))[1] \in Strip!CommonsAt(i) BY <2>1, <2>2
  <2> QED BY <1>1, <1>2, <1>4, <2>3 DEF Strip!Hero
<1> QED BY <1>3, <1>4

(* The photographs that may go into the strip are finite and each has its  *)
(* rank; the strip takes the first of them, in that order.                 *)
AlongTheWay(S) == {pair \in S \X S : Strip!Sooner([i \in DOMAIN anchors |-> anchors[i].at],
                                                  pair[1], pair[2])}

LEMMA OfferedIsFound ==
    ASSUME AllReplied, NEW hero, NEW p \in Strip!Offered(hero)
    PROVE  /\ p = <<p[1], p[2]>> /\ p[1] \in DOMAIN anchors /\ p[1] \in Int /\ p[2] \in Int
           /\ anchors[p[1]].at \in Nat
           /\ p[2] \in DOMAIN Strip!FoundAt(p[1])
           /\ Strip!FoundAt(p[1])[p[2]] \in FoundHere(p[1])
           /\ Strip!FoundAt(p[1])[p[2]].id # hero.id
<1>0. PICK i \in DOMAIN anchors : \E n \in Strip!Others(i, hero) : p = <<i, n>>
  BY DEF Strip!Offered
<1>1. PICK n \in Strip!Others(i, hero) : p = <<i, n>> BY <1>0
<1>2. n \in DOMAIN Strip!FoundAt(i) /\ Strip!FoundAt(i)[n].id # hero.id
  BY DEF Strip!Others
<1>3. Strip!FoundAt(i) \in Seq(FoundHere(i)) BY FoundAtAnchor DEF AllReplied
<1>4. Strip!FoundAt(i)[n] \in FoundHere(i) /\ n \in Int BY <1>2, <1>3
<1>5. anchors \in Seq(Places) BY DEF AllReplied, OfTheRequest
<1>6. anchors[i] \in Places /\ i \in Int BY <1>5
<1>7. anchors[i].at \in Nat BY <1>6 DEF Places
<1>8. p[1] = i /\ p[2] = n BY <1>1
<1> QED BY <1>1, <1>2, <1>4, <1>6, <1>7, <1>8

LEMMA OfferedFinite ==
    ASSUME AllReplied, NEW hero
    PROVE  IsFiniteSet(Strip!Offered(hero))
<1> DEFINE taken(i) == {m \in Strip!Others(i, hero) :
                           Strip!Cardinality(Strip!Others(i, hero) \cap 1..m) <= MaxPerAnchor}
           from(i) == {<<i, n>> : n \in taken(i)}
           each == {from(i) : i \in DOMAIN anchors}
<1>1. ASSUME NEW i \in DOMAIN anchors PROVE IsFiniteSet(from(i))
  <2>1. Strip!FoundAt(i) \in Seq(FoundHere(i)) BY FoundAtAnchor DEF AllReplied
  <2>2. taken(i) \in SUBSET DOMAIN Strip!FoundAt(i) BY DEF Strip!Others
  <2>3. IsFiniteSet(taken(i))
    <3> HIDE DEF taken
    <3> QED BY <2>1, <2>2, OrderedChoice
  <2> DEFINE pairing == [n \in taken(i) |-> <<i, n>>]
  <2>4. pairing \in Surjection(taken(i), from(i))
    <3>1. DOMAIN pairing = taken(i) /\ \A n \in taken(i) : pairing[n] = <<i, n>> OBVIOUS
    <3>2. pairing \in [taken(i) -> from(i)]
      <4> HIDE DEF taken
      <4> QED OBVIOUS
    <3>3. \A pair \in from(i) : \E n \in taken(i) : pairing[n] = pair
      <4> HIDE DEF taken
      <4> QED OBVIOUS
    <3> HIDE DEF pairing, from, taken
    <3> QED BY <3>2, <3>3 DEF Surjection
  <2> HIDE DEF pairing, from, taken
  <2> QED BY <2>3, <2>4, FS_Surjection
<1>2. IsFiniteSet(each)
  <2>1. anchors \in Seq(Places) BY DEF AllReplied, OfTheRequest
  <2>2. IsFiniteSet(DOMAIN anchors) BY <2>1, OrderedChoice
  <2> DEFINE gather == [i \in DOMAIN anchors |-> from(i)]
  <2>3. gather \in Surjection(DOMAIN anchors, each)
    <3> HIDE DEF from
    <3> QED BY DEF Surjection
  <2> HIDE DEF gather, each
  <2> QED BY <2>2, <2>3, FS_Surjection
<1>3. Strip!Offered(hero) = UNION each BY DEF Strip!Offered
<1>4. \A T \in each : IsFiniteSet(T)
  <2> HIDE DEF from
  <2> QED BY <1>1
<1> HIDE DEF each
<1> QED BY <1>2, <1>3, <1>4, FS_UNION

LEMMA OfferedRanked ==
    ASSUME AllReplied, NEW hero
    PROVE  \A k \in 1..Cardinality(Strip!Offered(hero)) :
              \E p \in Strip!Offered(hero) :
                 Cardinality(UpTo(Strip!Offered(hero), AlongTheWay(Strip!Offered(hero)), p)) = k
<1> DEFINE offered == Strip!Offered(hero)
           R == AlongTheWay(offered)
           metres(p) == anchors[p[1]].at
           earlier(p, q) == \/ metres(p) < metres(q)
                            \/ metres(p) = metres(q) /\ p[1] < q[1]
                            \/ p[1] = q[1] /\ p[2] < q[2]
<1>1. ASSUME NEW p \in offered
      PROVE p = <<p[1], p[2]>> /\ p[1] \in Int /\ p[2] \in Int /\ metres(p) \in Nat
  BY OfferedIsFound
<1>2. ASSUME NEW p \in offered, NEW q \in offered
      PROVE  <<p, q>> \in R <=> earlier(p, q)
  <2>1. p[1] \in DOMAIN anchors /\ q[1] \in DOMAIN anchors BY OfferedIsFound
  <2>2. <<p, q>> \in offered \X offered OBVIOUS
  <2> HIDE DEF offered
  <2> QED BY <2>1, <2>2 DEF AlongTheWay, Strip!Sooner
<1>3. \A p \in offered : <<p, p>> \notin R
  <2> SUFFICES ASSUME NEW p \in offered PROVE ~earlier(p, p) BY <1>2
  <2> HIDE DEF offered
  <2> QED BY <1>1
<1>4. \A p, q \in offered : p = q \/ <<p, q>> \in R \/ <<q, p>> \in R
  <2> SUFFICES ASSUME NEW p \in offered, NEW q \in offered
               PROVE  p = q \/ earlier(p, q) \/ earlier(q, p)
    BY <1>2
  <2>1. p[1] = q[1] /\ p[2] = q[2] => p = q
    <3> HIDE DEF offered
    <3> QED BY <1>1
  <2>2. p[1] = q[1] => metres(p) = metres(q) OBVIOUS
  <2> HIDE DEF offered, metres
  <2> QED BY <1>1, <2>1, <2>2
<1>5. \A p, q, r \in offered : <<p, q>> \in R /\ <<q, r>> \in R => <<p, r>> \in R
  <2> SUFFICES ASSUME NEW p \in offered, NEW q \in offered, NEW r \in offered,
                      earlier(p, q), earlier(q, r)
               PROVE  earlier(p, r)
    BY <1>2
  <2>1. /\ p[1] = q[1] => metres(p) = metres(q)
        /\ q[1] = r[1] => metres(q) = metres(r)
    OBVIOUS
  <2> HIDE DEF offered, metres
  <2> QED BY <1>1, <2>1
<1>6. IsFiniteSet(offered) BY OfferedFinite
<1> HIDE DEF offered, R
<1>7. \A k \in 1..Cardinality(offered) : \E p \in offered : Cardinality(UpTo(offered, R, p)) = k
  BY <1>3, <1>4, <1>5, <1>6, Ranked, Zenon
<1> QED BY <1>7 DEF offered, R

(* A strip shows what was found, never the hero, and in the order of the   *)
(* places: what comes first has the lower rank.                            *)
LEMMA StripSound ==
    ASSUME AllReplied, NEW hero
    PROVE  /\ \A i \in DOMAIN Strip!Strip(hero) :
                 Strip!Strip(hero)[i] \in Strip!Found /\ Strip!Strip(hero)[i].id # hero.id
           /\ \A i, j \in DOMAIN Strip!Strip(hero) :
                 i < j => Strip!Strip(hero)[i].at <= Strip!Strip(hero)[j].at
<1> DEFINE offered == Strip!Offered(hero)
           R == AlongTheWay(offered)
           key == [i \in DOMAIN anchors |-> anchors[i].at]
           upTo(p) == {q \in offered : q = p \/ Strip!Sooner(key, q, p)}
           place(k) == CHOOSE p \in offered : Strip!Cardinality(upTo(p)) = k
           shown(k) == Strip!FoundAt(place(k)[1])[place(k)[2]]
           size == IF Strip!Cardinality(offered) < StripSize
                   THEN Strip!Cardinality(offered) ELSE StripSize
<1>1. Strip!Strip(hero) = [k \in 1..size |-> shown(k)]
  BY DEF Strip!Strip, Strip!StripIn
<1>2. \A T : Strip!Cardinality(T) = Cardinality(T) BY DEF Strip!Cardinality, Cardinality
<1>3. IsFiniteSet(offered) /\ Cardinality(offered) \in Nat
  <2>1. IsFiniteSet(offered) BY OfferedFinite
  <2> QED BY <2>1, FS_CardinalityType
<1>4. \A k \in 1..size : k \in 1..Cardinality(offered)
  <2>1. size \in Nat /\ size <= Cardinality(offered)
    <3> HIDE DEF offered
    <3> QED BY <1>2, <1>3, PhotosAssumption
  <2> HIDE DEF size, offered
  <2> QED BY <1>3, <2>1
<1>5. ASSUME NEW p \in offered PROVE upTo(p) = UpTo(offered, R, p)
  <2>1. \A q \in offered : <<q, p>> \in R <=> Strip!Sooner(key, q, p)
    <3> HIDE DEF offered, key
    <3> QED BY DEF AlongTheWay, key
  <2> HIDE DEF offered, R, key
  <2> QED BY <2>1 DEF UpTo
<1>6. ASSUME NEW k \in 1..size
      PROVE  place(k) \in offered /\ Cardinality(UpTo(offered, R, place(k))) = k
  <2>1. \E p \in offered : Cardinality(UpTo(offered, R, p)) = k
    <3> HIDE DEF size
    <3> QED BY <1>4, OfferedRanked
  <2>2. \E p \in offered : Strip!Cardinality(upTo(p)) = k
    <3> HIDE DEF upTo, R, offered
    <3> QED BY <1>2, <1>5, <2>1
  <2>3. place(k) \in offered /\ Strip!Cardinality(upTo(place(k))) = k
    <3> HIDE DEF upTo, offered
    <3> QED BY <2>2
  <2> HIDE DEF upTo, R, offered, place
  <2> QED BY <1>2, <1>5, <2>3
<1>7. ASSUME NEW p \in offered
      PROVE  /\ p[1] \in DOMAIN anchors /\ anchors[p[1]].at \in Nat
             /\ Strip!FoundAt(p[1])[p[2]] \in FoundHere(p[1])
             /\ Strip!FoundAt(p[1])[p[2]].id # hero.id
  BY OfferedIsFound
<1>8. ASSUME NEW k \in 1..size
      PROVE  /\ shown(k) \in Strip!Found /\ shown(k).id # hero.id
             /\ shown(k).at = anchors[place(k)[1]].at /\ shown(k).at \in Nat
  <2>1. place(k) \in offered BY <1>6
  <2> HIDE DEF place, offered, size
  <2> QED BY <1>7, <2>1 DEF FoundHere
<1>9. ASSUME NEW i \in 1..size, NEW j \in 1..size, i < j
      PROVE  anchors[place(i)[1]].at <= anchors[place(j)[1]].at
  <2> DEFINE p == place(i)
             q == place(j)
  <2>1. /\ p \in offered /\ Cardinality(UpTo(offered, R, p)) = i
        /\ q \in offered /\ Cardinality(UpTo(offered, R, q)) = j
    BY <1>6
  <2>2. anchors[p[1]].at \in Nat /\ anchors[q[1]].at \in Nat BY <1>7, <2>1
  <2>3. ~ anchors[q[1]].at < anchors[p[1]].at
    <3> SUFFICES ASSUME anchors[q[1]].at < anchors[p[1]].at PROVE FALSE OBVIOUS
    <3>1. \A a, b \in offered : <<a, b>> \in R <=> Strip!Sooner(key, a, b)
      <4> HIDE DEF offered, key
      <4> QED BY DEF AlongTheWay, key
    <3>2. p[1] \in DOMAIN anchors /\ q[1] \in DOMAIN anchors BY <1>7, <2>1
    <3>3. \A r \in offered : <<r, q>> \in R \/ r = q => <<r, p>> \in R
      <4> SUFFICES ASSUME NEW r \in offered, <<r, q>> \in R \/ r = q PROVE <<r, p>> \in R
        OBVIOUS
      <4>1. r[1] \in DOMAIN anchors /\ anchors[r[1]].at \in Nat BY <1>7
      <4>2. anchors[r[1]].at <= anchors[q[1]].at
        <5>1. r = q \/ Strip!Sooner(key, r, q) BY <2>1, <3>1
        <5> HIDE DEF p, q, offered, R
        <5> QED BY <2>2, <3>2, <4>1, <5>1 DEF Strip!Sooner
      <4>3. Strip!Sooner(key, r, p)
        <5> HIDE DEF p, q, offered, R
        <5> QED BY <2>2, <3>2, <4>1, <4>2 DEF Strip!Sooner
      <4> HIDE DEF p, q, offered, R, key
      <4> QED BY <2>1, <3>1, <4>3
    <3>4. UpTo(offered, R, q) \in SUBSET UpTo(offered, R, p) BY <3>3 DEF UpTo
    <3>5. UpTo(offered, R, p) \in SUBSET offered BY DEF UpTo
    <3> HIDE DEF offered, R, p, q
    <3>6. IsFiniteSet(UpTo(offered, R, p)) BY <1>3, <3>5, FS_Subset
    <3>7. Cardinality(UpTo(offered, R, q)) <= Cardinality(UpTo(offered, R, p))
      BY <3>4, <3>6, FS_Subset
    <3>8. i \in Int /\ j \in Int BY DEF size
    <3> QED BY <1>9, <2>1, <3>7, <3>8
  <2> HIDE DEF p, q
  <2>4. anchors[p[1]].at <= anchors[q[1]].at BY <2>2, <2>3
  <2> QED BY <2>4 DEF p, q
<1>10. DOMAIN Strip!Strip(hero) = 1..size
       /\ \A k \in 1..size : Strip!Strip(hero)[k] = shown(k)
  <2> HIDE DEF size, shown
  <2> QED BY <1>1
<1> HIDE DEF size, shown, place
<1> QED BY <1>8, <1>9, <1>10

-----------------------------------------------------------------------------
(* What is promised of an answer, and the answers that are made.           *)
Promised(shown) ==
    /\ \A i, j \in DOMAIN shown.strip : i < j => shown.strip[i].at <= shown.strip[j].at
    /\ \A i \in DOMAIN shown.strip :
          shown.strip[i] \in Strip!Found /\ shown.strip[i].id # shown.hero[1].id
    /\ (Strip!Found # {}) <=> (shown.hero # Strip!Absent)
    /\ shown.hero # Strip!Absent => Strip!ToSet(shown.hero) \subseteq Strip!Found
    /\ shown.sources = {t[1] : t \in {u \in DOMAIN results : results[u] # Strip!Absent}}
    /\ shown.basis = "first_barrier" => shown.hero[1].at \in AtABarrier(photoAsk.blockers)

LEMMA FoundIsUsable ==
    ASSUME AllReplied
    PROVE  Strip!Found # {} => Strip!Usable # {}
<1> SUFFICES ASSUME NEW photo \in Strip!Found PROVE Strip!Usable # {} OBVIOUS
<1>1. PICK t \in DOMAIN results : results[t] # <<>> /\ photo \in Strip!ToSet(results[t][1])
  BY DEF Strip!Found, Strip!Absent
<1>2. results[t][1] # <<>> BY <1>1 DEF Strip!ToSet
<1>3. t \in Strip!Tasks /\ t[2] \in DOMAIN anchors BY DEF AllReplied, Strip!Tasks
<1>4. Strip!FoundAt(t[2]) # <<>> BY <1>1, <1>2, <1>3, FoundAtAnchor DEF AllReplied
<1> QED BY <1>3, <1>4 DEF Strip!Usable

LEMMA ResponseSound ==
    ASSUME AllReplied
    PROVE  \E shown : Strip!Response = <<shown>> /\ Promised(shown)
<1> DEFINE sources == {t[1] : t \in {u \in DOMAIN results : results[u] # Strip!Absent}}
           chosen == Strip!HeroAnchor
           hero == Strip!Hero(chosen[1])
<1>1. Strip!AnsweredBy = sources
  <2>1. \A t \in Strip!Tasks : t[1] \in Strip!SourceNames BY DEF Strip!Tasks
  <2> QED BY <2>1 DEF AllReplied, Strip!AnsweredBy
<1>2. CASE Strip!Usable = {}
  <2> DEFINE note == IF anchors # <<>> /\ Strip!AnsweredBy = {} THEN "" ELSE "no_photographs"
             shown == [hero |-> <<>>, strip |-> <<>>, basis |-> "none", measured |-> FALSE,
                      sources |-> Strip!AnsweredBy, note |-> note]
  <2>1. Strip!Response = <<shown>>
    BY <1>2 DEF Strip!Response, Strip!NoPhotographs, Strip!Absent
  <2>2. Strip!Found = {} BY <1>2, FoundIsUsable
  <2>3. /\ shown.hero = <<>> /\ shown.strip = <<>> /\ shown.basis = "none"
        /\ shown.sources = Strip!AnsweredBy
    OBVIOUS
  <2> HIDE DEF shown
  <2>4. DOMAIN shown.strip = {} BY <2>3
  <2>5. shown.sources = {t[1] : t \in {u \in DOMAIN results : results[u] # Strip!Absent}}
    BY <1>1, <2>3
  <2>6. Promised(shown) BY <2>2, <2>3, <2>4, <2>5 DEF Promised, Strip!Absent
  <2> QED BY <2>1, <2>6
<1>3. CASE Strip!Usable # {}
  <2> DEFINE shown == [hero |-> <<hero>>, strip |-> Strip!Strip(hero), basis |-> chosen[2],
                      measured |-> chosen[2] \in {"first_barrier", "midpoint"},
                      sources |-> Strip!AnsweredBy, note |-> Strip!Note(chosen[2])]
  <2>1. Strip!Response = <<shown>> BY <1>3 DEF Strip!Response
  <2>2. chosen[1] \in Strip!Usable
        /\ (chosen[2] = "first_barrier" => anchors[chosen[1]].isBarrier)
    BY <1>3, HeroAnchorIsUsable
  <2>3. chosen[1] \in DOMAIN anchors /\ Strip!FoundAt(chosen[1]) # <<>>
    BY <2>2 DEF Strip!Usable
  <2>4. hero \in FoundHere(chosen[1]) BY <2>3, HeroIsFound
  <2>5. hero \in Strip!Found /\ hero.at = anchors[chosen[1]].at BY <2>4 DEF FoundHere
  <2>6. chosen[2] = "first_barrier" => hero.at \in AtABarrier(photoAsk.blockers)
    BY <2>2, <2>3, <2>5 DEF AllReplied, OfTheRequest
  <2>7. /\ shown.hero = <<hero>> /\ shown.strip = Strip!Strip(hero) /\ shown.basis = chosen[2]
        /\ shown.sources = Strip!AnsweredBy
    OBVIOUS
  <2> HIDE DEF shown, hero, chosen
  <2>8. shown.hero # <<>> /\ shown.hero[1] = hero /\ Strip!ToSet(shown.hero) = {hero}
    BY <2>7 DEF Strip!ToSet
  <2>9. /\ \A i \in DOMAIN shown.strip :
              shown.strip[i] \in Strip!Found /\ shown.strip[i].id # hero.id
        /\ \A i, j \in DOMAIN shown.strip : i < j => shown.strip[i].at <= shown.strip[j].at
    BY <2>7, StripSound
  <2>10. shown.sources = {t[1] : t \in {u \in DOMAIN results : results[u] # Strip!Absent}}
    BY <1>1, <2>7
  <2>11. Promised(shown) BY <2>5, <2>6, <2>7, <2>8, <2>9, <2>10 DEF Promised, Strip!Absent
  <2> QED BY <2>1, <2>11
<1> QED BY <1>2, <1>3

-----------------------------------------------------------------------------
LEMMA StripBegins ==
    ASSUME StripInv, Strip!Begin
    PROVE  StripInv'
<1>1. /\ photoAsk = Strip!Nothing /\ UNCHANGED <<results, photoAnswer>>
      /\ photoAsk'.blockers \in Blockers
      /\ anchors' = Strip!AnchorsFor(photoAsk'.objective, photoAsk'.blockers)
  BY DEF Strip!Begin
<1>2. photoAnswer = <<>> /\ results = <<>> BY <1>1 DEF StripInv, OfTheRequest
<1>3. photoAsk'.blockers \in SUBSET Nat BY <1>1, PhotosAssumption
<1>4. /\ anchors' \in Seq(Places)
      /\ \A i \in DOMAIN anchors' :
            anchors'[i].isBarrier => anchors'[i].at \in AtABarrier(photoAsk'.blockers)
  BY <1>1, <1>3, AnchorsAlongTheRoute
<1>5. OfTheRequest' BY <1>1, <1>2, <1>3, <1>4 DEF OfTheRequest
<1>6. results' = <<>> /\ DOMAIN results' = {} BY <1>1, <1>2
<1>7. OfTheSources' BY <1>6 DEF OfTheSources
<1>8. photoAnswer' = <<>> BY <1>1, <1>2
<1> QED
  BY <1>5, <1>7, <1>8
  DEF StripInv, Strip!StripAlongTheWay, Strip!FailureCostsItsOwn, Strip!Absent

LEMMA StripReplies ==
    ASSUME StripInv, NEW source, NEW i, Strip!Reply(source, i)
    PROVE  StripInv'
<1>1. PICK reply \in {<<>>} \cup {<<Strip!Photographs(pages, source, anchors[i])>> :
                                     pages \in Pages} :
         results' = [t \in DOMAIN results \cup {<<source, i>>} |->
                        IF t = <<source, i>> THEN reply ELSE results[t]]
  BY DEF Strip!Reply, Strip!Absent
<1>2. /\ photoAsk # Strip!Nothing /\ photoAnswer = <<>> /\ <<source, i>> \in Strip!Tasks
      /\ UNCHANGED <<photoAsk, anchors, photoAnswer>>
  BY DEF Strip!Reply, Strip!Absent
<1>3. Strip!Tasks' = Strip!Tasks BY <1>2 DEF Strip!Tasks
<1>4. OfTheRequest' BY <1>2 DEF StripInv, OfTheRequest
<1>5. DOMAIN results' \subseteq Strip!Tasks BY <1>1, <1>2 DEF StripInv, OfTheSources
<1>6. ASSUME NEW t \in DOMAIN results'
      PROVE  \/ results'[t] = <<>>
             \/ \E pages \in Pages :
                   results'[t] = <<Strip!Photographs(pages, t[1], anchors'[t[2]])>>
  <2>1. CASE t = <<source, i>>
    <3>1. results'[t] = reply /\ t[1] = source /\ t[2] = i BY <1>1, <2>1
    <3> QED BY <1>1, <1>2, <3>1
  <2>2. CASE t # <<source, i>>
    <3>1. t \in DOMAIN results /\ results'[t] = results[t] BY <1>1, <2>2
    <3> QED BY <1>2, <3>1 DEF StripInv, OfTheSources
  <2> QED BY <2>1, <2>2
<1>7. OfTheSources' BY <1>3, <1>5, <1>6 DEF OfTheSources
<1> QED
  BY <1>2, <1>4, <1>7
  DEF StripInv, Strip!StripAlongTheWay, Strip!FailureCostsItsOwn, Strip!Absent

LEMMA StripResponds ==
    ASSUME StripInv, Strip!Respond
    PROVE  StripInv'
<1>1. /\ photoAsk # Strip!Nothing /\ DOMAIN results = Strip!Tasks
      /\ photoAnswer' = Strip!Response /\ UNCHANGED <<photoAsk, anchors, results>>
  BY DEF Strip!Respond
<1>2. AllReplied BY <1>1 DEF StripInv, AllReplied
<1>3. PICK shown : Strip!Response = <<shown>> /\ Promised(shown) BY <1>2, ResponseSound
<1>4. photoAnswer'[1] = shown BY <1>1, <1>3
<1>5. Strip!Found' = Strip!Found BY <1>1 DEF Strip!Found
<1>6. OfTheRequest' BY <1>1 DEF StripInv, OfTheRequest
<1>7. OfTheSources'
  <2>1. Strip!Tasks' = Strip!Tasks BY <1>1 DEF Strip!Tasks
  <2> QED BY <1>1, <2>1 DEF StripInv, OfTheSources
<1>8. Strip!StripAlongTheWay' BY <1>3, <1>4, <1>5 DEF Promised, Strip!StripAlongTheWay
<1>9. Strip!FailureCostsItsOwn'
  BY <1>1, <1>3, <1>4, <1>5 DEF Promised, Strip!FailureCostsItsOwn, AtABarrier
<1> QED BY <1>6, <1>7, <1>8, <1>9 DEF StripInv

LEMMA StripRests ==
    ASSUME StripInv, UNCHANGED <<photoAsk, anchors, results, photoAnswer>>
    PROVE  StripInv'
<1>1. OfTheRequest' BY DEF StripInv, OfTheRequest
<1>2. Strip!Tasks' = Strip!Tasks BY DEF Strip!Tasks
<1>3. OfTheSources' BY <1>2 DEF StripInv, OfTheSources
<1>4. Strip!Found' = Strip!Found BY DEF Strip!Found
<1>5. Strip!StripAlongTheWay' BY <1>4 DEF StripInv, Strip!StripAlongTheWay
<1>6. Strip!FailureCostsItsOwn' BY <1>4 DEF StripInv, Strip!FailureCostsItsOwn
<1> QED BY <1>1, <1>3, <1>5, <1>6 DEF StripInv

LEMMA StripInvariant == UpstreamSpec => []StripInv
<1>1. UpstreamInit => StripInv
  <2> SUFFICES ASSUME Strip!Init PROVE StripInv BY DEF UpstreamInit
  <2>1. photoAsk = Strip!Nothing /\ photoAnswer = <<>> /\ results = <<>> /\ DOMAIN results = {}
    BY DEF Strip!Init, Strip!Absent
  <2> QED
    BY <2>1
    DEF StripInv, OfTheRequest, OfTheSources, Strip!StripAlongTheWay, Strip!FailureCostsItsOwn,
        Strip!Absent
<1>2. StripInv /\ [UpstreamNext]_upstreamVars => StripInv'
  <2> SUFFICES ASSUME StripInv, Strip!Next \/ UNCHANGED stripVars PROVE StripInv'
    BY OthersLeaveIt
  <2>1. CASE Strip!Fetch BY <2>1, StripRests DEF Strip!Fetch
  <2>2. CASE UNCHANGED stripVars BY <2>2, StripRests DEF stripVars
  <2> QED BY <2>1, <2>2, StripBegins, StripReplies, StripResponds DEF Strip!Next
<1> QED BY <1>1, <1>2, PTL DEF UpstreamSpec

(* route_photos: for any route, anchors and answers of the sources, the    *)
(* strip goes along the way, leaves the hero out, and shows what was found *)
(* where it says.                                                          *)
THEOREM TheStripGoesAlong == UpstreamSpec => []StripAlongTheWay
<1>1. StripInv => StripAlongTheWay BY DEF StripInv, StripAlongTheWay
<1> QED BY <1>1, StripInvariant, PTL

(* _degrade: whatever fails, and wherever, whoever found a photograph has  *)
(* it used, and no other place passes for the first barrier.               *)
THEOREM AFailureCostsItsOwn == UpstreamSpec => []FailureCostsItsOwn
<1>1. StripInv => FailureCostsItsOwn BY DEF StripInv, FailureCostsItsOwn
<1> QED BY <1>1, StripInvariant, PTL

=============================================================================
