--------------------------- MODULE FollowSession ---------------------------
(***************************************************************************)
(* frontend/src/lib/followTracking.js and useReroute.js, with the session  *)
(* state App.jsx keeps for them: one walk being followed.  Fixes place the *)
(* walker on the line; a wrong turn that lasts arms a request for a new    *)
(* line; its answer replaces the line being walked.                        *)
(*                                                                         *)
(* The actors are the walker's fixes, the retry timer, the routing server  *)
(* and the buttons.  A step is one of their callbacks with the renders and *)
(* the effects it sets off.  Where a fix falls on a line is two facts: is  *)
(* it more than ON_ROUTE_M away, and is it an arrival (near the last       *)
(* vertex, with ARRIVAL_PROGRESS of the line behind).                      *)
(***************************************************************************)
EXTENDS Integers, FiniteSets

CONSTANTS Sustain,   \* trackOffRoute's seconds, in ticks
          Cooldown,  \* REROUTE_COOLDOWN_MS, in ticks
          MaxNow,    \* bound on the clock
          MaxLines   \* bound on the lines walked in a session

VARIABLES now,
          line,      \* the line being walked: 1 is the plan's, 0 is none
          anchor,    \* anchorM: the line it was measured along, 0 is null
          since,     \* offRouteState.since, or Never
          offRoute, arrived,
          poor,      \* poorSignal
          error,     \* follow mode cannot read the position
          request,   \* the reroute effect: off, waiting on its timer, flying
          due,       \* when the timer fires
          last,      \* lastAttemptAt
          reroute,   \* the state handed to the sheet
          matched,   \* history: the anchor the last match was given
          lost,      \* history: when the unbroken run of off readings began
          sent       \* history: when each request of the session was sent

vars == <<now, line, anchor, since, offRoute, arrived, poor, error, request, due, last,
          reroute, matched, lost, sent>>
session == <<line, anchor, since, offRoute, arrived, matched, lost>>
signal == <<poor, error>>

Never == -1
Quiet == [rerouting |-> FALSE, failed |-> FALSE, count |-> 0]
Readings == [off : BOOLEAN, near : BOOLEAN]
Later(a, b) == IF a > b THEN a ELSE b

Init ==
    /\ now = 0 /\ line = 0
    /\ anchor = 0 /\ matched = 0
    /\ since = Never /\ lost = Never /\ offRoute = FALSE /\ arrived = FALSE
    /\ poor = FALSE /\ error = FALSE
    /\ request = "off" /\ due = 0 /\ last = 0 - Cooldown
    /\ reroute = Quiet /\ sent = {}

Start ==
    /\ line = 0 /\ line' = 1
    /\ UNCHANGED <<now, anchor, since, offRoute, arrived, signal, request, due, last,
                   reroute, matched, lost, sent>>

(* Stop, or Done: the watch is cleared, the timer and the request with it, *)
(* and every effect puts its state back.                                   *)
Stop ==
    /\ line # 0 /\ line' = 0
    /\ anchor' = 0 /\ matched' = 0
    /\ since' = Never /\ lost' = Never /\ offRoute' = FALSE /\ arrived' = FALSE
    /\ poor' = FALSE /\ error' = FALSE
    /\ request' = "off" /\ due' = 0 /\ last' = 0 - Cooldown
    /\ reroute' = Quiet /\ sent' = {}
    /\ UNCHANGED now

-----------------------------------------------------------------------------
(* The reroute effect runs when `wanted` changes.  Its cleanup cancels the *)
(* timer and aborts the request; its body schedules the first attempt.     *)
Wanted == line # 0 /\ offRoute /\ ~arrived
\* A slip: an attempt that failed is tried again at once.
ScheduleAtOnce(time) == now

Schedule(time) == Later(now, time + Cooldown)

FollowWanted ==
    /\ request' = CASE ~Wanted' -> "off"
                    [] Wanted' /\ ~Wanted -> "waiting"
                    [] OTHER -> request
    /\ due' = IF Wanted' /\ ~Wanted THEN Schedule(last) ELSE due

\* A slip, and the sheet as it was: arriving does not end the off-route run.
TrackAfterArrival(here) ==
    /\ arrived' = (arrived \/ here.near)
    /\ since' = CASE ~here.off -> Never
                  [] here.off /\ since = Never -> now
                  [] here.off /\ since # Never -> since
    /\ offRoute' = (since' # Never /\ now - since' >= Sustain)

\* A slip: one reading inside the distance does not stop the clock.
TrackSticky(here) ==
    /\ arrived' = (arrived \/ here.near)
    /\ since' = CASE arrived' -> Never
                  [] ~arrived' /\ since # Never -> since
                  [] ~arrived' /\ since = Never -> IF here.off THEN now ELSE Never
    /\ offRoute' = (here.off /\ since' # Never /\ now - since' >= Sustain)

(* trackOffRoute and the effect around it; an arrival ends its run.        *)
Track(here) ==
    /\ arrived' = (arrived \/ here.near)
    /\ since' = CASE arrived' \/ ~here.off -> Never
                  [] ~arrived' /\ here.off /\ since = Never -> now
                  [] ~arrived' /\ here.off /\ since # Never -> since
    /\ offRoute' = (since' # Never /\ now - since' >= Sustain)

(* A match of a position with the line `on`, windowed around the anchor.   *)
Locate(here, on) ==
    /\ matched' = anchor
    /\ lost' = IF ~here.off THEN Never ELSE IF lost = Never THEN now ELSE lost
    /\ line' = on
    /\ Track(here)

Fix(here) ==
    /\ line # 0
    /\ poor' = FALSE /\ error' = FALSE
    /\ Locate(here, line)
    /\ anchor' = line
    /\ FollowWanted
    /\ UNCHANGED <<now, last, reroute, sent>>

(* Rejected for its accuracy: nothing but the notice changes.              *)
PoorFix ==
    /\ line # 0
    /\ poor' = TRUE /\ error' = FALSE
    /\ UNCHANGED <<now, session, request, due, last, reroute, sent>>

NoFix ==
    /\ line # 0
    /\ error' = TRUE
    /\ UNCHANGED <<now, session, poor, request, due, last, reroute, sent>>

-----------------------------------------------------------------------------
(* The timer fires: the position is sent.                                  *)
Attempt ==
    /\ request = "waiting" /\ now >= due
    /\ request' = "flying"
    /\ last' = now
    /\ reroute' = [reroute EXCEPT !.rerouting = TRUE]
    /\ sent' = sent \cup {now}
    /\ UNCHANGED <<now, session, signal, due>>

(* A drawable route came back.  The line is replaced, and the position     *)
(* matched again at once, with the anchor there is; only then is the       *)
(* anchor dropped, because the line changed.                               *)
Redrawn(here) ==
    /\ request = "flying" /\ line < MaxLines
    /\ reroute' = [rerouting |-> FALSE, failed |-> FALSE, count |-> reroute.count + 1]
    /\ Locate(here, line + 1)
    /\ anchor' = 0
    /\ request' = IF Wanted' THEN "waiting" ELSE "off"
    /\ due' = Schedule(last)
    /\ UNCHANGED <<now, signal, last, sent>>

(* The request failed, or held no route that can be drawn.                 *)
Failed ==
    /\ request = "flying"
    /\ reroute' = [reroute EXCEPT !.rerouting = FALSE, !.failed = TRUE]
    /\ request' = "waiting"
    /\ due' = Schedule(last)
    /\ UNCHANGED <<now, session, signal, last, sent>>

Tick ==
    /\ now < MaxNow /\ now' = now + 1
    /\ UNCHANGED <<session, signal, request, due, last, reroute, sent>>

Next ==
    \/ Start \/ Stop
    \/ \E here \in Readings : Fix(here) \/ Redrawn(here)
    \/ PoorFix \/ NoFix
    \/ Attempt \/ Failed
    \/ Tick

Spec == Init /\ [][Next]_vars

-----------------------------------------------------------------------------
TypeOK ==
    /\ now \in 0..MaxNow /\ line \in 0..MaxLines
    /\ anchor \in 0..line /\ matched \in 0..MaxLines
    /\ since \in 0..now \cup {Never} /\ lost \in 0..now \cup {Never}
    /\ offRoute \in BOOLEAN /\ arrived \in BOOLEAN /\ poor \in BOOLEAN /\ error \in BOOLEAN
    /\ request \in {"off", "waiting", "flying"}
    /\ due \in 0..(MaxNow + Cooldown) /\ last \in (0 - Cooldown)..now
    /\ reroute \in [rerouting : BOOLEAN, failed : BOOLEAN, count : 0..MaxLines]
    /\ sent \subseteq 0..now

(* A position leaves the phone only after a wrong turn that has lasted:    *)
(* every reading for Sustain has been off the line being walked, and the   *)
(* walker has neither arrived nor stopped.                                 *)
SentOnlyWhenLost ==
    [][sent' # sent /\ sent' # {} =>
          line # 0 /\ ~arrived /\ lost # Never /\ now - lost >= Sustain]_vars

(* Never more often than the cooldown, whatever ended the attempt before:  *)
(* an answer, a failure, or the walker's return to the line.               *)
AttemptsSpaced ==
    /\ \A s, t \in sent : s # t => s - t >= Cooldown \/ t - s >= Cooldown
    /\ Cardinality(sent) >= reroute.count

(* Arrival wins: however far past the end the walker strays, a walk that   *)
(* has arrived is not off its route and asks for no other.                 *)
ArrivalWins == arrived => ~offRoute /\ request = "off"

-----------------------------------------------------------------------------
(* useReroute: rerouting while a request is in flight.                     *)
ReroutingMeansInFlight == reroute.rerouting => request = "flying"

(* followTracking: an anchor measured along the old line would window the  *)
(* search around a distance that means nothing on the new one.             *)
MatchedOnOwnLine == matched \in {0, line}

(* FollowMode: the arrival card counts what was sent.                      *)
ArrivalCountsWhatWasSent == arrived => reroute.count = Cardinality(sent)

=============================================================================
