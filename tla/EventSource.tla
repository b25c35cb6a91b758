---------------------------- MODULE EventSource ----------------------------
(***************************************************************************)
(* What both transports of POST /api/routes may rely on about the          *)
(* generator they drain, route_events_with_deadline (backend/main.py):     *)
(* after some route and progress events it hands out one answer, or gives  *)
(* up, or raises, and it always ends.                                      *)
(*                                                                         *)
(* RouteEvents implements this module; RouteServer builds on its Pulls.    *)
(***************************************************************************)
EXTENDS Sequences, EventKinds

VARIABLES phase,   \* how far the generator is
          given    \* the outcomes it has handed out

Init == phase = "working" /\ given = << >>

Pull(p) ==
    /\ phase' = p.next
    /\ given' = IF p.event \in Outcomes THEN Append(given, p.event) ELSE given

Next == \E p \in Pulls(phase) : Pull(p)

Behaviour == Init /\ [][Next]_<<phase, given>>

(* The generator is always asked for its next event, and routes run out. *)
Spec == Behaviour /\ WF_<<phase, given>>(Next)

=============================================================================
