-------------------------- MODULE CacheConnections --------------------------
(***************************************************************************)
(* backend/cache.py: the connections of Cache.  A worker thread takes its  *)
(* own from thread-local storage or opens one and registers it, so that    *)
(* close(), which runs on the event loop while workers are busy, can reach *)
(* the connections of every thread.                                        *)
(*                                                                         *)
(* The threads belong to anyio's pool, which is external: it retires a     *)
(* thread that has been idle and starts another in its place.              *)
(***************************************************************************)
EXTENDS Integers, FiniteSets

CONSTANTS Workers,   \* places in anyio's pool of threads
          MaxOpened  \* bound on the connections opened

VARIABLES opened,  \* connections opened so far, numbered from 1
          open,    \* those not closed
          all,     \* _all
          local,   \* per thread: its connection in _local, or 0
          closed,  \* _closed
          closer,  \* where close() is: before, marked, closing, reset, done
          doomed,  \* `connections`: what close() has taken to close
          step,    \* where each worker's call is
          mine,    \* the connection its call holds, or 0
          racers   \* history: calls past the check when _closed was set

vars == <<opened, open, all, local, closed, closer, doomed, step, mine, racers>>
closing == <<closed, closer, doomed, racers>>

None == 0
Goto(w, place) == step' = [step EXCEPT ![w] = place]

(* _init_schema has opened one connection, on the event loop's own thread, *)
(* which does not call again.                                              *)
Init ==
    /\ opened = 1 /\ open = {1} /\ all = {1}
    /\ local = [w \in Workers |-> None]
    /\ closed = FALSE /\ closer = "before" /\ doomed = {}
    /\ step = [w \in Workers |-> "idle"]
    /\ mine = [w \in Workers |-> None]
    /\ racers = {}

-----------------------------------------------------------------------------
(* The conn property: refuse, reuse, or open and register. *)
Check(w) ==
    /\ step[w] = "idle" /\ ~closed
    /\ Goto(w, "checked")
    /\ UNCHANGED <<opened, open, all, local, mine, closing>>

Look(w) ==
    /\ step[w] = "checked"
    /\ mine' = [mine EXCEPT ![w] = local[w]]
    /\ Goto(w, IF local[w] = None THEN "opening" ELSE "using")
    /\ UNCHANGED <<opened, open, all, local, closing>>

Open(w) ==
    /\ step[w] = "opening" /\ opened < MaxOpened
    /\ opened' = opened + 1
    /\ open' = open \cup {opened'}
    /\ local' = [local EXCEPT ![w] = opened']
    /\ mine' = [mine EXCEPT ![w] = opened']
    /\ Goto(w, "registering")
    /\ UNCHANGED <<all, closing>>

Register(w) ==
    /\ step[w] = "registering"
    /\ all' = all \cup {mine[w]}
    /\ Goto(w, "using")
    /\ UNCHANGED <<opened, open, local, mine, closing>>

(* The statement, or sqlite3.ProgrammingError if the connection is closed. *)
Use(w) ==
    /\ step[w] = "using"
    /\ Goto(w, "idle")
    /\ mine' = [mine EXCEPT ![w] = None]
    /\ UNCHANGED <<opened, open, all, local, closing>>

(* anyio retires an idle thread, and with it its thread-local storage; the *)
(* connection stays in _all.                                               *)
Retire(w) ==
    /\ step[w] = "idle" /\ local[w] # None
    /\ local' = [local EXCEPT ![w] = None]
    /\ UNCHANGED <<opened, open, all, mine, step, closing>>

-----------------------------------------------------------------------------
\* A slip, and close() as it was: the flag is set last.
MarkLast ==
    /\ closer = "before" /\ closer' = "marked"
    /\ UNCHANGED <<opened, open, all, local, closed, doomed, step, mine, racers>>

(* close(): the flag first, then the list, then each connection in it.     *)
Past == {w \in Workers : step[w] \in {"checked", "opening", "registering"}}
Mark ==
    /\ closer = "before" /\ closer' = "marked"
    /\ closed' = TRUE
    /\ racers' = Past
    /\ UNCHANGED <<opened, open, all, local, doomed, step, mine>>

Take ==
    /\ closer = "marked" /\ closer' = "closing"
    /\ doomed' = all /\ all' = {}
    /\ UNCHANGED <<opened, open, local, closed, step, mine, racers>>

Shut ==
    /\ closer = "closing"
    /\ \E c \in doomed : doomed' = doomed \ {c} /\ open' = open \ {c}
    /\ UNCHANGED <<opened, all, local, closed, closer, step, mine, racers>>

Reset ==
    /\ closer = "closing" /\ doomed = {}
    /\ closer' = "done"
    /\ local' = [w \in Workers |-> None]
    /\ UNCHANGED <<opened, open, all, closed, doomed, step, mine, racers>>

Next ==
    \/ \E w \in Workers :
          Check(w) \/ Look(w) \/ Open(w) \/ Register(w) \/ Use(w) \/ Retire(w)
    \/ Mark \/ Take \/ Shut \/ Reset

Spec == Init /\ [][Next]_vars

-----------------------------------------------------------------------------
TypeOK ==
    /\ opened \in 0..MaxOpened /\ open \subseteq 1..opened
    /\ all \subseteq 1..opened /\ doomed \subseteq 1..opened
    /\ local \in [Workers -> 0..opened] /\ mine \in [Workers -> 0..opened]
    /\ closed \in BOOLEAN
    /\ closer \in {"before", "marked", "closing", "done"}
    /\ step \in [Workers -> {"idle", "checked", "opening", "registering", "using"}]
    /\ \A w \in Workers : step[w] \in {"registering", "using"} <=> mine[w] # None
    /\ racers \subseteq Workers

(* Until close() takes the list, every open connection is in it or is      *)
(* about to be put there by the call that opened it: none is reachable     *)
(* from its own thread only.  What a finished close() leaves open are the  *)
(* connections of calls that were past the check when it began, at most    *)
(* one for each: whoever comes later is refused.                           *)
CloseReachesAllButRacers ==
    /\ closer \in {"before", "marked"} =>
          \A c \in open :
              c \in all \/ \E w \in Workers : step[w] = "registering" /\ mine[w] = c
    /\ closer = "done" => Cardinality(open) <= Cardinality(racers)

(* close(): a call racing it raises rather than opening a connection that  *)
(* will never be closed.                                                   *)
NoConnectionOutlivesClose ==
    closer = "done" /\ (\A w \in Workers : step[w] = "idle") => open = {}

(* class Cache: one connection per thread, the event loop's included.      *)
OneConnectionPerThread ==
    closer = "before" => Cardinality(open) <= Cardinality(Workers) + 1

=============================================================================
