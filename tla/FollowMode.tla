----------------------------- MODULE FollowMode -----------------------------
(***************************************************************************)
(* frontend/src/lib/followTracking.js and useReroute.js together: one      *)
(* effect of useFollowTracking is the walk being followed, another is the  *)
(* screen lock (this module extends WakeLock).  `active` starts and stops  *)
(* both; between the two, fixes, timers, answers, promises and the hiding  *)
(* of the page come in any order.                                          *)
(***************************************************************************)
EXTENDS WakeLock

CONSTANTS Sustain, Cooldown, MaxNow, MaxLines

ASSUME FollowAssumption ==
    /\ Sustain \in Nat /\ Cooldown \in Nat \ {0}
    /\ MaxNow \in Nat /\ MaxLines \in Nat \ {0}

VARIABLES now, line, anchor, since, offRoute, arrived, poor, error, request, due, last,
          reroute, matched, lost, sent

Walk == INSTANCE FollowSession
walkVars == <<now, line, anchor, since, offRoute, arrived, poor, error, request, due, last,
              reroute, matched, lost, sent>>

FollowInit == Init /\ Walk!Init

StartBoth == Start /\ Walk!Start
StopBoth == Stop /\ Walk!Stop
LockStep ==
    /\ \/ Show \/ Hide
       \/ \E a \in 1..MaxAcquires : Granted(a) \/ Refused(a)
    /\ UNCHANGED walkVars
WalkStep ==
    /\ \/ \E here \in Walk!Readings : Walk!Fix(here) \/ Walk!Redrawn(here)
       \/ Walk!PoorFix \/ Walk!NoFix
       \/ Walk!Attempt \/ Walk!Failed
       \/ Walk!Tick
    /\ UNCHANGED vars

FollowNext == StartBoth \/ StopBoth \/ LockStep \/ WalkStep
FollowSpec == FollowInit /\ [][FollowNext]_<<vars, walkVars>>

-----------------------------------------------------------------------------
(* The lock and the walk begin and end together, each variable keeps its   *)
(* type, and positions are never sent faster than the cooldown, whatever   *)
(* ended the attempt before.                                               *)
AttemptsSpaced ==
    /\ TypeOK /\ Walk!TypeOK
    /\ active <=> line # 0
    /\ Walk!AttemptsSpaced

(* A walk that has arrived is not off its route and asks for no other.     *)
ArrivalWins == Walk!ArrivalWins

(* A position leaves the phone only after every reading for Sustain has    *)
(* been off the line, by a walk that has neither arrived nor stopped.      *)
SentOnlyWhenLost == Walk!SentOnlyWhenLost

=============================================================================
