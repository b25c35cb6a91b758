------------------------------- MODULE Places -------------------------------
(***************************************************************************)
(* backend/main.py geocode() and backend/routing.py geocode_search(): the  *)
(* place search.  A request is let through by the client's bucket of       *)
(* geocode_limiter, answered from geocode_cache when it can be, and else   *)
(* put to Nominatim, whose answer is kept: a place found for FoundTtl, and *)
(* "nowhere is called that" for EmptyTtl.                                  *)
(*                                                                         *)
(* Requests are those of one client; each gives way while a worker thread  *)
(* reads or writes the table and while Nominatim is awaited, so another of *)
(* the same name may be anywhere between.  A bucket that has refills Rate  *)
(* tokens a tick.                                                          *)
(***************************************************************************)
EXTENDS Integers, FiniteSets

CONSTANTS Clients,            \* requests at once
          Names,              \* normalised queries
          Capacity, Rate,     \* of the bucket
          FoundTtl, EmptyTtl, \* geocode_cache_ttl_s and geocode_empty_cache_ttl_s, in ticks
          MaxNow

VARIABLES now, tokens,
          rows,     \* geocode_cache: what is kept per name, or Absent
          request,  \* per request: where it is, its name and what it was told
          answered, \* the last answer: its status, and what it says of which name
          searches  \* history: the searches put to Nominatim

vars == <<now, tokens, rows, request, answered, searches>>

Outcomes == {"found", "empty"}
Never == 0 - 1
Absent == [outcome |-> "none", expires |-> Never]
Idle == [at |-> "idle"]
Silence == [status |-> 0, from |-> "nobody"]
Fuller(n) == IF n > Capacity THEN Capacity ELSE n
Goto(c, place) == request' = [request EXCEPT ![c] = place]
Error(status) == answered' = [status |-> status, from |-> "nominatim"]

Init ==
    /\ now = 0 /\ tokens = Capacity
    /\ rows = [n \in Names |-> Absent]
    /\ request = [c \in Clients |-> Idle]
    /\ answered = Silence /\ searches = 0

-----------------------------------------------------------------------------
(* geocode_limiter.check: a token, or a 429.                               *)
Ask(c, n) ==
    /\ request[c].at = "idle"
    /\ \/ /\ tokens > 0 /\ tokens' = tokens - 1
          /\ Goto(c, [at |-> "looking", name |-> n]) /\ UNCHANGED answered
       \/ /\ tokens = 0 /\ answered' = [status |-> 429, from |-> "limiter"]
          /\ UNCHANGED <<tokens, request>>
    /\ UNCHANGED <<now, rows, searches>>

Fresh(n) == rows[n] # Absent /\ now < rows[n].expires

(* A hit costs Nominatim nothing, and gives its token back.                *)
Hit(c) ==
    /\ request[c].at = "looking" /\ Fresh(request[c].name)
    /\ tokens' = Fuller(tokens + 1)
    /\ answered' = [status |-> 200, from |-> "cache", name |-> request[c].name,
                    outcome |-> rows[request[c].name].outcome]
    /\ Goto(c, Idle)
    /\ UNCHANGED <<now, rows, searches>>

(* A miss; a row that has expired is deleted first.  The search may be     *)
(* refused before it is sent: no fixture, or no budget.                    *)
Miss(c) ==
    LET n == request[c].name IN
    /\ request[c].at = "looking" /\ ~Fresh(n)
    /\ rows' = [rows EXCEPT ![n] = Absent]
    /\ \/ /\ searches' = searches + 1
          /\ Goto(c, [at |-> "searching", name |-> n]) /\ UNCHANGED answered
       \/ Error(503) /\ Goto(c, Idle) /\ UNCHANGED searches
    /\ UNCHANGED <<now, tokens>>

\* A slip: a search that came to nothing is given back its token.
FailedForFree(c) ==
    /\ request[c].at = "searching"
    /\ Error(502) /\ Goto(c, Idle)
    /\ tokens' = Fuller(tokens + 1)
    /\ UNCHANGED <<now, rows, searches>>

(* Nominatim's 429 becomes a 503 with its wait; another bad status, a body *)
(* too large or unreadable, or a failure of the transport a 502.           *)
Failed(c) ==
    /\ request[c].at = "searching"
    /\ Error(503) \/ Error(502)
    /\ Goto(c, Idle)
    /\ UNCHANGED <<now, tokens, rows, searches>>

(* Nominatim answers; entries that do not read are left out.               *)
Found(c) ==
    LET n == request[c].name IN
    /\ request[c].at = "searching"
    /\ \E outcome \in Outcomes : Goto(c, [at |-> "keeping", name |-> n, outcome |-> outcome])
    /\ UNCHANGED <<now, tokens, rows, answered, searches>>

(* Nowhere is called that: good for less long than a place found.          *)
Life(outcome) == IF outcome = "found" THEN FoundTtl ELSE EmptyTtl

(* put_geocode, by upsert.  A write that raises takes the answer with it.  *)
Keep(c) ==
    LET told == request[c] IN
    /\ told.at = "keeping"
    /\ \/ /\ rows' = [rows EXCEPT ![told.name] =
                         [outcome |-> told.outcome, expires |-> now + Life(told.outcome)]]
          /\ answered' = [status |-> 200, from |-> "nominatim", name |-> told.name,
                          outcome |-> told.outcome]
       \/ rows' = rows /\ Error(500)
    /\ Goto(c, Idle)
    /\ UNCHANGED <<now, tokens, searches>>

Tick ==
    /\ now < MaxNow /\ now' = now + 1
    /\ tokens' = Fuller(tokens + Rate)
    /\ UNCHANGED <<rows, request, answered, searches>>

Next ==
    \/ \E c \in Clients :
          \/ \E n \in Names : Ask(c, n)
          \/ Hit(c) \/ Miss(c) \/ Failed(c) \/ Found(c) \/ Keep(c)
    \/ Tick

Spec == Init /\ [][Next]_vars

-----------------------------------------------------------------------------
(* However hits, misses, failures and ticks come, the searches put to      *)
(* Nominatim are within what the bucket had and was filled with: a token   *)
(* comes back only to a request that searched nothing.                     *)
EverySearchIsPaidFor ==
    LET looking == {c \in Clients : request[c].at = "looking"} IN
    searches + tokens + Cardinality(looking) <= Capacity + Rate * now

=============================================================================
