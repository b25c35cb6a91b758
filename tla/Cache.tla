------------------------------- MODULE Cache -------------------------------
(***************************************************************************)
(* backend/cache.py: class Cache, its rows (this module extends            *)
(* RouteCache) and its connections.  A statement of the one runs on a      *)
(* connection of the other, and all it can meet there is the exception     *)
(* RouteCache already allows at any statement; so a behaviour here goes    *)
(* along one of them, on a new file, while the other has not begun.        *)
(***************************************************************************)
EXTENDS RouteCache

CONSTANTS Threads, MaxOpened

ASSUME ConnectionsAssumption == IsFiniteSet(Threads) /\ MaxOpened \in Nat \ {0}

VARIABLES opened, open, all, local, closed, closer, doomed, step, mine, racers

Connections == INSTANCE CacheConnections WITH Workers <- Threads
connectionVars == <<opened, open, all, local, closed, closer, doomed, step, mine, racers>>

CacheInit == Init /\ Connections!Init
RowsStep == Connections!Init /\ Next /\ UNCHANGED connectionVars
ConnectionsStep ==
    /\ Init /\ \A t \in Tables : Stored(t) = {}
    /\ Connections!Next
    /\ UNCHANGED vars
CacheNext == RowsStep \/ ConnectionsStep
CacheSpec == CacheInit /\ [][CacheNext]_<<vars, connectionVars>>

-----------------------------------------------------------------------------
(* Until close() takes the list it can reach every open connection, and    *)
(* what it leaves open are those of calls already past the check.          *)
CloseReachesAllButRacers ==
    Connections!TypeOK /\ Connections!CloseReachesAllButRacers

=============================================================================
