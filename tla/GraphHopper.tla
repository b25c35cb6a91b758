---------------------------- MODULE GraphHopper ----------------------------
(***************************************************************************)
(* backend/routing.py: one request to the router, and what becomes of its  *)
(* answer.  An answer is a record `how`: the kind of failure before there  *)
(* was a response ("no_fixture", "budget", "too_large", "network"), or a   *)
(* response with its status and the phrases of its message that the code   *)
(* looks for, each by a name: no_connection stands for "connection between *)
(* locations not found".                                                   *)
(***************************************************************************)
EXTENDS Presets, FiniteSets

(* What the message may say: profile_parameter stands for "profile         *)
(* parameter can only be one of".                                          *)
Phrases == {"flexible_mode", "custom_model", "speed_mode", "profile_parameter",
            "cannot_find_point", "point_0", "no_connection"}

(* build_request_body.  The speed-mode graph answers neither a custom      *)
(* model nor, on a server of one's own, a round trip.                      *)
RequestBody(preset, influence, loop, scale, selfHosted) ==
    LET model == CustomModel(preset, selfHosted) IN
    [algorithm |-> IF loop THEN "round_trip" ELSE "point_to_point",
     scale |-> IF loop THEN scale ELSE 100,
     model |-> model,
     influence |-> CASE preset = "scenic" -> influence
                     [] preset \in DOMAIN Influence -> Influence[preset]
                     [] OTHER -> 0,
     flexible |-> model # <<>> \/ (loop /\ selfHosted)]

-----------------------------------------------------------------------------
Refusal(kind, status) == [kind |-> kind, status |-> status, unsnappable |-> FALSE]
Unsnappable == [kind |-> "no_route", status |-> 422, unsnappable |-> TRUE]

(* _shape_upstream_error: the first of its tests that holds.               *)
Shaped(status, says) ==
    LET plan == \/ "flexible_mode" \in says \/ {"custom_model", "speed_mode"} \subseteq says
                \/ "profile_parameter" \in says
    IN  CASE plan -> Refusal("plan_limitation", 422)
          [] ~plan /\ status \in {401, 403} -> Refusal("auth", 503)
          [] ~plan /\ status = 429 -> Refusal("upstream_rate_limit", 503)
          [] OTHER -> IF says \cap {"cannot_find_point", "point_0"} # {} THEN Unsnappable
                      ELSE IF "no_connection" \in says
                      THEN Refusal("no_route", 422) ELSE Refusal("upstream", 502)

(* _post_route and _parse_path: a reply is a route or a refusal.           *)
Route(minutes, green) == [kind |-> "route", minutes |-> minutes, green |-> green]
Posted(answer) ==
    CASE answer.how \in {"no_fixture", "budget"} -> Refusal(answer.how, 503)
      [] answer.how \in {"too_large", "unreadable"} -> Refusal("upstream", 502)
      [] answer.how = "network" -> Refusal("network", 502)
      [] answer.how = "status" -> Shaped(answer.status, answer.says)
      [] answer.how = "paths" /\ answer.paths = <<>> -> Refusal("no_route", 422)
      [] answer.how = "paths" /\ answer.paths # <<>> ->
            IF Head(answer.paths).vertices < 2 THEN Refusal("no_route", 422)
            ELSE Route(Head(answer.paths).minutes, Head(answer.paths).green)

(* _best_failure of route_events: the first failure, upgraded when the     *)
(* router's extent is finite; `region` is what the manifest says of the    *)
(* start ("inside", "outside", or "unknown" without a manifest).           *)
BestFailure(failures, finite, region) ==
    LET failure == IF failures = <<>> THEN Refusal("no_route", 422) ELSE Head(failures) IN
    IF failure.unsnappable /\ finite
    THEN [kind |-> "outside_coverage", status |-> 422, region |-> region]
    ELSE [kind |-> failure.kind, status |-> failure.status, region |-> "unknown"]

=============================================================================
