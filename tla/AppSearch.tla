------------------------------ MODULE AppSearch ------------------------------
(***************************************************************************)
(* frontend/src/App.jsx (the reducer and its one fetch effect) over        *)
(* frontend/src/api/client.js: searches, each started by a press, the next *)
(* of which aborts the one before.                                         *)
(*                                                                         *)
(* An abort ends an await on the network at once.  An await on the saved   *)
(* routes, on the save, or on the body of an error goes on, and finds out  *)
(* afterwards or not at all.  A route is its objective's id; the payload   *)
(* of `done` and the saved set are sets of them.                           *)
(***************************************************************************)
EXTENDS Integers, FiniteSets

CONSTANTS Objectives,  \* the route types on offer
          Limit,       \* how many may be pressed at once
          MaxSearches  \* bound on the presses

ASSUME SearchAssumption ==
    /\ IsFiniteSet(Objectives) /\ Limit \in 1..Cardinality(Objectives)
    /\ MaxSearches \in Nat \ {0}

VARIABLES objectives, routes, phase,  \* the reducer's state
          nonce,    \* presses so far; the searches are 1..nonce
          current,  \* abortRef: the search that is not aborted, or 0
          at,       \* per search: where its request is
          asked,    \* per search: the objectives of its request
          given,    \* per search: the routes its stream has delivered
          final,    \* per search: the payload of `done`, or {}
          copied,   \* history: the searches answered from the saved set
          shown,    \* history: the search that settled last, or 0
          spoke     \* history: the search of the last dispatch, or 0

vars == <<objectives, routes, phase, nonce, current, at, asked, given, final, copied, shown, spoke>>
request == <<asked, given, final>>
controls == <<objectives, nonce, current>>
screen == <<routes, phase, shown, spoke>>

Searches == 1..MaxSearches
Goto(s, place) == at' = [at EXCEPT ![s] = place]
Aborted(s) == s # current

Init ==
    /\ objectives \in {O \in SUBSET Objectives : Cardinality(O) \in 1..Limit}
    /\ routes = {} /\ phase = "idle"
    /\ nonce = 0 /\ current = 0
    /\ at = [s \in Searches |-> "none"]
    /\ asked = [s \in Searches |-> {}] /\ given = [s \in Searches |-> {}]
    /\ final = [s \in Searches |-> {}]
    /\ copied = {} /\ shown = 0 /\ spoke = 0

-----------------------------------------------------------------------------
(* The buttons.                                                            *)
Toggle(o) ==
    /\ objectives' = IF o \in objectives THEN objectives \ {o} ELSE objectives \cup {o}
    /\ Cardinality(objectives') \in 1..Limit
    /\ UNCHANGED <<nonce, current, at, request, screen, copied>>

(* Find routes: the effect of the press before is cleaned up, its timer    *)
(* with it; the request's values are those of this render.                 *)
Press ==
    /\ nonce < MaxSearches /\ nonce' = nonce + 1
    /\ at' = [s \in Searches |-> IF s = nonce' THEN "timer"
                                 ELSE IF at[s] = "timer" THEN "ended" ELSE at[s]]
    /\ asked' = [asked EXCEPT ![nonce'] = objectives]
    /\ UNCHANGED <<objectives, current, given, final, screen, copied>>

(* The effect's timer: the search before is aborted, and this one asks.    *)
OnNetwork == {"asking", "streaming"}

Fire(s) ==
    /\ at[s] = "timer"
    /\ current' = s /\ phase' = "loading"
    /\ at' = [t \in Searches |-> IF t = s THEN "asking"
                                 ELSE IF t = current /\ at[t] \in OnNetwork THEN "ended" ELSE at[t]]
    /\ UNCHANGED <<objectives, nonce, request, routes, shown, spoke, copied>>

-----------------------------------------------------------------------------
(* What a search tells the reducer.                                        *)
\* A slip: the answer of a search that lost the race is shown.
SettleUnchecked(s, payload) ==
    /\ routes' = payload /\ phase' = "success" /\ shown' = s /\ spoke' = s

Settle(s, payload) ==
    IF Aborted(s) THEN UNCHANGED screen
    ELSE routes' = payload /\ phase' = "success" /\ shown' = s /\ spoke' = s

\* A slip: the failure is announced and not dispatched.
FailSilently(s) == UNCHANGED screen

Fail(s) == phase' = "error" /\ spoke' = s /\ UNCHANGED <<routes, shown>>

(* Routes merge by id; those no longer pressed are dropped.                *)
Show(s, some) ==
    /\ routes' = (routes \cup some) \cap objectives
    /\ spoke' = s /\ UNCHANGED <<phase, shown>>

(* fetchRoutes, from the request to its answer.                            *)
Unreachable(s) ==
    /\ at[s] = "asking" /\ Goto(s, "replaying")
    /\ UNCHANGED <<controls, request, screen, copied>>

RefusedStatus(s) ==
    /\ at[s] = "asking" /\ Goto(s, "refused")
    /\ UNCHANGED <<controls, request, screen, copied>>

Refused(s) ==
    /\ at[s] = "refused" /\ Goto(s, "ended")
    /\ Fail(s)
    /\ UNCHANGED <<controls, request, copied>>

Answered(s) ==
    /\ at[s] = "asking" /\ Goto(s, "streaming")
    /\ UNCHANGED <<controls, request, screen, copied>>

StreamRoute(s) ==
    /\ at[s] = "streaming" /\ final[s] = {}
    /\ \E id \in asked[s] :
          /\ given' = [given EXCEPT ![s] = @ \cup {id}]
          /\ Show(s, {id})
    /\ UNCHANGED <<controls, at, asked, final, copied>>

StreamDone(s) ==
    /\ at[s] = "streaming" /\ final[s] = {}
    /\ \E payload \in SUBSET asked[s] \ {{}} :
          given[s] \subseteq payload /\ final' = [final EXCEPT ![s] = payload]
    /\ UNCHANGED <<controls, at, asked, given, screen, copied>>

StreamError(s) ==
    /\ at[s] = "streaming" /\ final[s] = {} /\ Goto(s, "ended")
    /\ Fail(s)
    /\ UNCHANGED <<controls, request, copied>>

(* The connection is lost: the saved set, if nothing was delivered yet.    *)
StreamDrop(s) ==
    /\ at[s] = "streaming"
    /\ \/ given[s] = {} /\ Goto(s, "replaying") /\ UNCHANGED screen
       \/ given[s] # {} /\ Goto(s, "ended") /\ Fail(s)
    /\ UNCHANGED <<controls, request, copied>>

(* The body ends: with `done`, offer it to the store; without it, the      *)
(* saved set.                                                              *)
StreamEnd(s) ==
    /\ at[s] = "streaming"
    /\ Goto(s, IF final[s] # {} THEN "saving" ELSE "replaying")
    /\ UNCHANGED <<controls, request, screen, copied>>

(* replayFromStore: an await no abort ends.                                *)
ReplayHit(s) ==
    /\ at[s] = "replaying" /\ Goto(s, "replayed")
    /\ copied' = copied \cup {s}
    /\ \E saved \in SUBSET asked[s] \ {{}} :
          Show(s, saved) /\ final' = [final EXCEPT ![s] = saved]
    /\ UNCHANGED <<controls, asked, given>>

ReplayMiss(s) ==
    /\ at[s] = "replaying" /\ Goto(s, "ended")
    /\ Fail(s)
    /\ UNCHANGED <<controls, request, copied>>

(* fetchRoutes returns.  keep() has waited for the save, or for its        *)
(* deadline, whichever comes first.                                        *)
Return(s) ==
    /\ at[s] \in {"saving", "replayed"} /\ Goto(s, "ended")
    /\ Settle(s, final[s])
    /\ UNCHANGED <<controls, request, copied>>

Next ==
    \/ \E o \in Objectives : Toggle(o)
    \/ Press
    \/ \E s \in Searches :
          \/ Fire(s) \/ Unreachable(s) \/ RefusedStatus(s) \/ Refused(s) \/ Answered(s)
          \/ StreamRoute(s) \/ StreamDone(s) \/ StreamError(s) \/ StreamDrop(s) \/ StreamEnd(s)
          \/ ReplayHit(s) \/ ReplayMiss(s) \/ Return(s)

Spec == Init /\ [][Next]_vars

-----------------------------------------------------------------------------
TypeOK ==
    /\ objectives \subseteq Objectives /\ Cardinality(objectives) \in 1..Limit
    /\ routes \subseteq Objectives /\ phase \in {"idle", "loading", "success", "error"}
    /\ nonce \in 0..MaxSearches /\ current \in 0..nonce
    /\ at \in [Searches -> {"none", "timer", "asking", "refused", "streaming", "replaying",
                            "replayed", "saving", "ended"}]
    /\ {asked, given, final} \subseteq [Searches -> SUBSET Objectives]
    /\ \A s \in Searches : given[s] \subseteq asked[s] /\ final[s] \subseteq asked[s]
    /\ \A s \in Searches : at[s] \in OnNetwork => s = current
    /\ copied \subseteq Searches /\ shown \in 0..nonce /\ spoke \in 0..nonce

(* The answer on screen is never that of an earlier press than another     *)
(* answer already shown, and a search that lost the race settles nothing.  *)
SettledInOrder ==
    [][shown' # shown => shown' = current /\ shown' > shown]_vars

(* The spinner has a cause: while the phase is loading, the search that    *)
(* put it there is still on its way to an answer or an error.              *)
LoadingMeansAsking ==
    /\ TypeOK
    /\ phase = "loading" => current # 0 /\ at[current] # "ended"

-----------------------------------------------------------------------------
(* The reducer: a route for a chip that is no longer pressed is an answer  *)
(* to a question nobody is asking.                                         *)
ShownForPressedChips == [][routes' # routes => routes' \subseteq objectives']_vars

(* client.js: replaying after some routes have been dispatched would       *)
(* deliver them a second time.                                             *)
ReplayedOnlyIfNothingGiven == \A s \in copied : given[s] = {}

(* App.jsx: a search that has been aborted says nothing more.              *)
OnlyTheCurrentSearchSpeaks == [][spoke' # spoke => spoke' = current]_vars

=============================================================================
