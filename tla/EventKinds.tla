----------------------------- MODULE EventKinds -----------------------------
(***************************************************************************)
(* The events of backend/main.py's route_events_with_deadline, by what     *)
(* they mean to the transports that drain it.                              *)
(***************************************************************************)

Phases == {"working", "answered", "spent", "ended"}

\* A complete answer, one cut short by the deadline, a timeout with nothing
\* to show, an exception: what the consumer can receive besides routes.
Outcomes == {"done", "truncated", "timeout", "raised"}

(* What the next pull may return in a phase, and the phase it leads to.    *)
(* The one irregularity: the deadline may still strike behind a complete   *)
(* answer.                                                                 *)
Pulls(phase) ==
    CASE phase = "working" ->
             {[event |-> "route", next |-> "working"],
              [event |-> "done", next |-> "answered"],
              [event |-> "truncated", next |-> "spent"],
              [event |-> "timeout", next |-> "spent"],
              [event |-> "raised", next |-> "ended"]}
      [] phase = "answered" ->
             {[event |-> "truncated", next |-> "spent"],
              [event |-> "end", next |-> "ended"]}
      [] phase = "spent" -> {[event |-> "end", next |-> "ended"]}
      \* Only a pull that was cancelled leaves a generator to be asked again.
      [] phase = "ended" -> {[event |-> "end", next |-> "ended"]}

=============================================================================
