---------------------------- MODULE AppSearchProofs ----------------------------
(***************************************************************************)
(* Proofs about AppSearch, for any route types and any number of presses:  *)
(* the spinner has a cause, and searches settle in the order they were     *)
(* asked.                                                                  *)
(***************************************************************************)
EXTENDS AppSearch, TLAPS

(* Only the last press can have its timer running.                         *)
OneTimer == \A s \in Searches : at[s] = "timer" => s = nonce

(* A search nobody has pressed for has said and been told nothing.         *)
NotYet == \A s \in Searches : s > nonce => at[s] = "none" /\ given[s] = {} /\ final[s] = {}

(* No search settles that was not the one asking.                          *)
ShownBeforeCurrent == shown <= current

(* While the phase is loading, the one asking has left its timer and is    *)
(* not at an end.                                                          *)
Waits == phase = "loading" => current # 0 /\ at[current] \notin {"timer", "ended"}

SearchInv == TypeOK /\ OneTimer /\ NotYet /\ ShownBeforeCurrent /\ Waits

-----------------------------------------------------------------------------
(* What a search may do without a press or a timer: it moves from one of   *)
(* its own places to another, off the timer and back onto none, and where  *)
(* it ends the phase is no longer loading unless it was aborted.           *)
OwnStep(s) ==
    /\ \E place \in {"refused", "streaming", "replaying", "replayed", "saving", "ended"} :
          /\ at' = [at EXCEPT ![s] = place]
          /\ place = "ended" => phase' # "loading" \/ (s # current /\ phase' = phase)
          /\ place = "streaming" => at[s] \in OnNetwork
    /\ at[s] \notin {"none", "timer", "ended"}
    /\ UNCHANGED controls
    /\ phase' \in {phase, "success", "error"}
    /\ routes' \subseteq Objectives
    /\ asked' = asked
    /\ \E some \in SUBSET asked[s] : given' \in {given, [given EXCEPT ![s] = some]}
    /\ \E some \in SUBSET asked[s] : final' \in {final, [final EXCEPT ![s] = some]}
    /\ copied' \subseteq Searches
    /\ shown' = shown \/ (s = current /\ shown' = s /\ at'[s] = "ended")
    /\ spoke' \in {spoke, s}

(* Every step of a search that is under way is one of those.               *)
LEMMA SearchMoves ==
    ASSUME SearchInv, NEW s \in Searches,
           \/ Unreachable(s) \/ RefusedStatus(s) \/ Refused(s) \/ Answered(s)
           \/ StreamRoute(s) \/ StreamDone(s) \/ StreamError(s) \/ StreamDrop(s) \/ StreamEnd(s)
           \/ ReplayHit(s) \/ ReplayMiss(s) \/ Return(s)
    PROVE  OwnStep(s)
<1> USE DEF SearchInv, TypeOK, controls, request, screen, OwnStep, Goto, OnNetwork, Fail
<1>1. CASE Unreachable(s) BY <1>1 DEF Unreachable
<1>2. CASE RefusedStatus(s) BY <1>2 DEF RefusedStatus
<1>3. CASE Refused(s) BY <1>3 DEF Refused
<1>4. CASE Answered(s) BY <1>4 DEF Answered
<1>5. CASE StreamRoute(s) BY <1>5 DEF StreamRoute, Show
<1>6. CASE StreamDone(s) BY <1>6 DEF StreamDone
<1>7. CASE StreamError(s) BY <1>7 DEF StreamError
<1>8. CASE StreamDrop(s) BY <1>8 DEF StreamDrop
<1>9. CASE StreamEnd(s) BY <1>9 DEF StreamEnd
<1>10. CASE ReplayHit(s) BY <1>10 DEF ReplayHit, Show
<1>11. CASE ReplayMiss(s) BY <1>11 DEF ReplayMiss
<1>12. CASE Return(s) BY <1>12 DEF Return, Settle, Aborted
<1> QED
  BY <1>1, <1>2, <1>3, <1>4, <1>5, <1>6, <1>7, <1>8, <1>9, <1>10, <1>11, <1>12

(* Such a step keeps the invariant.                                        *)
LEMMA OwnStepKeeps ==
    ASSUME SearchInv, NEW s \in Searches, OwnStep(s)
    PROVE  SearchInv'
<1> USE DEF SearchInv, OwnStep, controls
<1>1. s \in Nat /\ nonce \in Nat /\ s <= nonce
  BY SearchAssumption DEF NotYet, TypeOK, Searches
<1>2. TypeOK'
  <2> USE DEF TypeOK
  <2>1. (/\ given \in [Searches -> SUBSET Objectives]
         /\ \A t \in Searches : given[t] \subseteq asked[t])'
    OBVIOUS
  <2>2. (/\ final \in [Searches -> SUBSET Objectives]
         /\ \A t \in Searches : final[t] \subseteq asked[t])'
    OBVIOUS
  <2>3. (at \in [Searches -> {"none", "timer", "asking", "refused", "streaming", "replaying",
                              "replayed", "saving", "ended"}])'
    OBVIOUS
  <2>4. (\A t \in Searches : at[t] \in OnNetwork => t = current)' BY DEF OnNetwork
  <2>5. (shown \in 0..nonce /\ spoke \in 0..nonce)' BY <1>1
  <2>6. (/\ objectives \subseteq Objectives /\ Cardinality(objectives) \in 1..Limit
         /\ routes \subseteq Objectives /\ phase \in {"idle", "loading", "success", "error"}
         /\ nonce \in 0..MaxSearches /\ current \in 0..nonce
         /\ asked \in [Searches -> SUBSET Objectives]
         /\ copied \subseteq Searches)'
    OBVIOUS
  <2> QED BY <2>1, <2>2, <2>3, <2>4, <2>5, <2>6
<1>3. OneTimer' BY DEF OneTimer, TypeOK
<1>4. NotYet' BY <1>1 DEF NotYet, TypeOK, Searches
<1>5. ShownBeforeCurrent' BY <1>1 DEF ShownBeforeCurrent, TypeOK
<1>6. Waits' BY <1>1 DEF Waits, TypeOK, Searches
<1> QED BY <1>2, <1>3, <1>4, <1>5, <1>6

(* The invariant: a step of the screen, a press, a timer, or a search's    *)
(* own step.                                                               *)
LEMMA SearchInvariant == Spec => []SearchInv
<1>1. Init => SearchInv
  BY SearchAssumption
     DEF Init, SearchInv, TypeOK, OneTimer, NotYet, ShownBeforeCurrent, Waits, Searches, OnNetwork
<1>2. SearchInv /\ [Next]_vars => SearchInv'
  <2> SUFFICES ASSUME SearchInv, [Next]_vars PROVE SearchInv' OBVIOUS
  <2>1. ASSUME NEW o \in Objectives, Toggle(o) PROVE SearchInv'
    BY <2>1 DEF Toggle, SearchInv, TypeOK, OneTimer, NotYet, ShownBeforeCurrent, Waits,
                request, screen
  <2>2. CASE Press
    <3> USE <2>2, SearchAssumption DEF Press, SearchInv, request, screen
    <3>1. TypeOK' BY DEF TypeOK, NotYet, Searches, OnNetwork
    <3>2. OneTimer' BY DEF TypeOK, OneTimer, Searches
    <3>3. ShownBeforeCurrent' BY DEF ShownBeforeCurrent
    <3>4. Waits' BY DEF Waits, TypeOK, Searches
    <3>5. NotYet' BY DEF NotYet, TypeOK, Searches
    <3> QED BY <3>1, <3>2, <3>3, <3>4, <3>5
  <2>3. ASSUME NEW s \in Searches, Fire(s) PROVE SearchInv'
    <3> USE <2>3 DEF Fire, SearchInv, request
    <3>1. s = nonce /\ s \in Nat BY DEF OneTimer, Searches
    <3>2. TypeOK' BY <3>1 DEF TypeOK, Searches, OnNetwork
    <3>3. OneTimer' BY <3>1 DEF TypeOK, OneTimer
    <3>4. ShownBeforeCurrent' BY <3>1 DEF ShownBeforeCurrent, TypeOK
    <3>5. Waits' BY <3>1 DEF Waits, TypeOK, Searches
    <3>6. NotYet' BY <3>1 DEF NotYet, TypeOK, Searches
    <3> QED BY <3>2, <3>3, <3>4, <3>5, <3>6
  <2>4. CASE UNCHANGED vars
    BY <2>4 DEF vars, SearchInv, TypeOK, OneTimer, NotYet, ShownBeforeCurrent, Waits, request
  <2> QED BY <2>1, <2>2, <2>3, <2>4, SearchMoves, OwnStepKeeps DEF Next
<1> QED BY <1>1, <1>2, PTL DEF Spec

-----------------------------------------------------------------------------
(* App.jsx: the spinner has a cause.  While the phase is loading, the      *)
(* search that put it there is on its way to an answer or an error.        *)
THEOREM AppSearchSpins == Spec => []LoadingMeansAsking
<1>1. SearchInv => LoadingMeansAsking BY DEF SearchInv, Waits, LoadingMeansAsking
<1> QED BY <1>1, SearchInvariant, PTL

(* App.jsx: a search that lost the race settles nothing, and the answer on *)
(* screen is never replaced by that of an earlier press.                   *)
THEOREM AppSearchSettlesInOrder == Spec => SettledInOrder
<1>1. SearchInv /\ [Next]_vars => [shown' # shown => shown' = current /\ shown' > shown]_vars
  <2> SUFFICES ASSUME SearchInv, Next PROVE shown' # shown => shown' = current /\ shown' > shown
    BY DEF vars
  <2>1. ASSUME NEW s \in Searches, OwnStep(s)
        PROVE  shown' # shown => shown' = current /\ shown' > shown
    BY <2>1 DEF OwnStep, SearchInv, ShownBeforeCurrent, TypeOK, Searches
  <2>2. ASSUME NEW s \in Searches, Fire(s) PROVE shown' = shown BY <2>2 DEF Fire
  <2>3. Press => shown' = shown BY DEF Press, screen
  <2>4. ASSUME NEW o \in Objectives, Toggle(o) PROVE shown' = shown BY <2>4 DEF Toggle, screen
  <2> QED BY <2>1, <2>2, <2>3, <2>4, SearchMoves DEF Next
<1> QED BY <1>1, SearchInvariant, PTL DEF Spec, SettledInOrder

=============================================================================
