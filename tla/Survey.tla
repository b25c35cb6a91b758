------------------------------- MODULE Survey -------------------------------
(***************************************************************************)
(* backend/enrich.py and the part of main.py that shows a route twice:     *)
(* first as it was routed, then with what the sources said of it.          *)
(*                                                                         *)
(* The world has one dimension: a vertex is a position in metres, a route  *)
(* a sequence of them, and a mapped node is `at` a position, `off` metres  *)
(* to the side.  One survey is made for all routes of a request.           *)
(***************************************************************************)
EXTENDS WayScores, FiniteSets

CONSTANTS Trips,        \* what may be surveyed: routes, mapped nodes, and the sun by slot
          MaxResults,   \* OVERPASS_MAX_RESULTS
          MaxPoints,    \* the vertices _sampled_for_overpass leaves as they are
          Spacing,      \* its 25 metres
          Pad,          \* _bbox's pad_deg, in metres
          Hour          \* the hour of departure

VARIABLES trip,      \* what is being surveyed, or Nothing
          found,     \* what each source answered so far
          departure, \* the suggestion, when there is one
          cards      \* what the stream has shown of each route, first and second
vars == <<trip, found, departure, cards>>

Nothing == [routes |-> <<>>]
Absent == <<>>
Sources == {"rest_stops", "barriers", "air", "cloud"}
Corridor == 10
StopCorridor == 35
StopKinds == {"bench", "drinking_water", "toilets", "shelter", "viewpoint"}

Segments(positions) == 1..(Len(positions) - 1)
Lengths(positions) == [i \in Segments(positions) |-> Magnitude(positions[i + 1] - positions[i])]
Cumulative(positions, i) == Total(SubSeq(Lengths(positions), 1, i - 1))
Surveyed(route) == [route.tags EXCEPT !.lengths = Lengths(route.positions)]

-----------------------------------------------------------------------------
(* _sampled_for_overpass and sample_every, over the routes end to end.     *)
AllPoints == FlattenSeq([r \in DOMAIN trip.routes |-> trip.routes[r].positions])
Interpolated(points, metres) ==
    LET i == CHOOSE i \in Segments(points) :
                 /\ \A j \in 2..i : Cumulative(points, j) < metres
                 /\ i = Len(points) - 1 \/ Cumulative(points, i + 1) >= metres
        past == metres - Cumulative(points, i)
    IN  IF points[i + 1] < points[i] THEN points[i] - past ELSE points[i] + past
SampleEvery(points, spacing, most) ==
    LET whole == Total(Lengths(points))
        apart == IF whole \div (most - 1) > spacing THEN whole \div (most - 1) ELSE spacing
        targets == [k \in 1..((whole + apart - 1) \div apart) |-> (k - 1) * apart]
    IN  IF whole = 0 THEN <<points[1]>>
        ELSE SubSeq([k \in DOMAIN targets |-> Interpolated(points, targets[k])]
                        \o <<points[Len(points)]>>, 1, most)
Sampled ==
    IF Len(AllPoints) <= MaxPoints THEN AllPoints ELSE SampleEvery(AllPoints, Spacing, MaxPoints)

Boxed(node) ==
    /\ \E p \in ToSet(Sampled) : p - Pad <= node.at
    /\ \E p \in ToSet(Sampled) : node.at <= p + Pad

(* fetch_overpass: a full reply may have been cut short, and is not usable.*)
Matching(source) ==
    {node \in trip.nodes :
        /\ Boxed(node)
        /\ node.value \in IF source = "barriers" THEN BarriersWithAVerdict ELSE StopKinds}
\* A slip: what was counted is used, however much was left out.
UsableTruncated(source, returned) == <<returned>>
Usable(source, returned) ==
    IF Cardinality(returned) >= MaxResults THEN Absent ELSE <<returned>>
Returned(source) ==
    {returned \in SUBSET Matching(source) :
        Cardinality(returned) = Lesser(Cardinality(Matching(source)), MaxResults)}

-----------------------------------------------------------------------------
(* barrier_spans_on_route: the nearest segment, of equally near ones the   *)
(* last, if it is within the corridor.                                     *)
Gap(positions, i, node) ==
    LET low == Lesser(positions[i], positions[i + 1])
        high == positions[i] + positions[i + 1] - low
    IN  IF node.at < low THEN low - node.at ELSE IF node.at > high THEN node.at - high ELSE 0
Nearest(positions, node) ==
    CHOOSE i \in Segments(positions) :
        \A j \in Segments(positions) :
            IF j > i THEN Gap(positions, i, node) < Gap(positions, j, node)
                     ELSE Gap(positions, i, node) <= Gap(positions, j, node)
NearLine(gap, node, metres) == gap * gap + node.off * node.off <= metres * metres
Along(positions, i, node) ==
    LET foot == IF Gap(positions, i, node) = 0 THEN Magnitude(node.at - positions[i])
                ELSE IF Magnitude(node.at - positions[i]) < Magnitude(node.at - positions[i + 1])
                THEN 0 ELSE Lengths(positions)[i]
    IN  Cumulative(positions, i) + foot
BarrierSpans(positions, nodes) ==
    LET span(node) == LET i == Nearest(positions, node) IN
                      [from |-> i - 1, to |-> i, value |-> node.value,
                       at |-> <<Along(positions, i, node)>>]
        near == {node \in nodes : NearLine(Gap(positions, Nearest(positions, node), node),
                                           node, Corridor)}
    IN  SetToSeq({span(node) : node \in near})

(* rest_stops_on_route: the nearest vertex, within a wider corridor.       *)
NearestVertex(positions, node) ==
    CHOOSE i \in DOMAIN positions :
        \A j \in DOMAIN positions :
            IF j < i THEN Magnitude(positions[i] - node.at) < Magnitude(positions[j] - node.at)
                     ELSE Magnitude(positions[i] - node.at) <= Magnitude(positions[j] - node.at)
RestStops(positions, nodes) ==
    {[type |-> node.value, at |-> Cumulative(positions, NearestVertex(positions, node))] :
        node \in {n \in nodes : NearLine(Magnitude(positions[NearestVertex(positions, n)] - n.at),
                                         n, StopCorridor)}}

-----------------------------------------------------------------------------
(* _hour_index and _value_at: the reading of the hour asked for, none when *)
(* the series does not have that hour or has no value for it.              *)
ReadingAt(hour, series) ==
    LET at == {i \in DOMAIN series : series[i].hour = hour} IN
    IF at = {} THEN Absent ELSE series[CHOOSE i \in at : \A j \in at : i <= j].value
AirScore(aqi) == IF aqi > 100 THEN 0 ELSE 100 * (100 - aqi)
Answered(source, series) ==
    LET value == ReadingAt(Hour, series) IN
    IF value = Absent THEN Absent
    ELSE <<IF source = "air" THEN AirScore(value[1]) ELSE 100 * value[1]>>
Series(source) ==
    {<<>>, <<[hour |-> Hour - 1, value |-> <<20>>]>>, <<[hour |-> Hour, value |-> Absent]>>}
        \cup {<<[hour |-> Hour - 1, value |-> <<90>>], [hour |-> Hour, value |-> <<v>>]>> :
                  v \in IF source = "air" THEN {10, 80} ELSE {0, 100}}

(* best_departure: the first of the slots with the best score; what could  *)
(* not be read counts a half, and a loop has no heading to catch the light *)
(* along.                                                                  *)
SlotScore(slot, loop, air, cloud) ==
    LET clear == 10000 - (IF cloud = Absent THEN 5000 ELSE cloud[1])
        exposure == (slot.need * clear) \div 10000
        breath == IF air = Absent THEN 5000 ELSE air[1]
        known == 45 * breath + 35 * (10000 - exposure)
        score == IF loop THEN (known * 100) \div 80 ELSE known + 20 * slot.light
    IN  IF slot.dark THEN (score * 35) \div 100 ELSE score
BestSlot(slots, loop, air, cloud) ==
    CHOOSE i \in DOMAIN slots :
        \A j \in DOMAIN slots :
            IF j < i THEN SlotScore(slots[j], loop, air, cloud) < SlotScore(slots[i], loop, air, cloud)
            ELSE SlotScore(slots[j], loop, air, cloud) <= SlotScore(slots[i], loop, air, cloud)
Reason(slot, loop, air, cloud) ==
    LET clear == 10000 - (IF cloud = Absent THEN 5000 ELSE cloud[1])
        low == ~loop /\ slot.light > 3000
        shaded == (slot.need * clear) \div 10000 < 2500 /\ slot.up
    IN  <<CASE low -> "low light" [] ~low /\ shaded -> "off your back"
            [] OTHER -> IF slot.up THEN "" ELSE "dark",
          CASE air # Absent /\ air[1] > 7000 -> "good air"
            [] air # Absent /\ air[1] < 4000 -> "poor air" [] OTHER -> "">>


-----------------------------------------------------------------------------
Init == trip = Nothing /\ found = <<>> /\ departure = <<>> /\ cards = <<>>

(* _blend_air and _blend_shade, in ten-thousandths.                        *)
BlendAir(measured, proxy) ==
    CASE measured = Absent -> proxy
      [] measured # Absent /\ proxy = Absent -> measured
      [] OTHER -> <<(measured[1] * (5500 + (45 * proxy[1]) \div 100)) \div 10000>>
\* A slip: no cover is known, so there is none.
BlendShadeOpen(need, cover) ==
    IF need = Absent THEN Absent
    ELSE <<10000 - (need[1] * (10000 - IF cover = Absent THEN 0 ELSE cover[1])) \div 10000>>
BlendShade(need, cover) ==
    IF need = Absent \/ cover = Absent THEN Absent
    ELSE <<10000 - (need[1] * (10000 - cover[1])) \div 10000>>

(* _scored_route: `access` is the assessment, the rest what was measured.  *)
ScoredRoute(route, access, stops, air, need) ==
    [access |-> access,
     blocked |-> route.objective = "accessible" /\ access.verdict = "fail",
     sentence |-> Sentence(access), status |-> StatusNote(route.objective, access),
     scenic |-> Scenic(Surveyed(route), 0, Absent, Absent), quiet |-> Quiet(Surveyed(route)),
     air |-> BlendAir(air, Air(Surveyed(route))),
     shade |-> BlendShade(need, ShadeCover(Surveyed(route))),
     stops |-> stops]
Assessed(route) == Assess(Surveyed(route), Unasked)
FirstCard(route) == ScoredRoute(route, Assessed(route), Absent, Absent, Absent)

Begin ==
    /\ trip = Nothing
    /\ trip' \in Trips
    /\ cards' = [r \in DOMAIN trip'.routes |-> <<FirstCard(trip'.routes[r])>>]
    /\ UNCHANGED <<found, departure>>

(* The four sources are asked at once and answer in any order; whatever    *)
(* goes wrong with one is None, and None is all that is known of it.       *)
Reply(source) ==
    /\ trip # Nothing /\ source \notin DOMAIN found
    /\ \E answer \in {Absent}
              \cup IF source \in {"air", "cloud"}
                   THEN {Answered(source, series) : series \in Series(source)}
                   ELSE {Usable(source, returned) : returned \in Returned(source)} :
          found' = [s \in DOMAIN found \cup {source} |-> IF s = source THEN answer ELSE found[s]]
    /\ UNCHANGED <<trip, departure, cards>>

Longest ==
    trip.routes[CHOOSE r \in DOMAIN trip.routes :
        \A q \in DOMAIN trip.routes :
            LET mine == Len(trip.routes[r].positions)
                theirs == Len(trip.routes[q].positions)
            IN  IF q < r THEN theirs < mine ELSE theirs <= mine].positions
ClosesLoop(positions) == Magnitude(positions[1] - positions[Len(positions)]) <= 120

(* best_departure asks once more for what did not come.                    *)
Depart ==
    /\ DOMAIN found = Sources /\ departure = <<>>
    /\ \E air \in IF found.air # Absent THEN {found.air}
                   ELSE {Answered("air", series) : series \in Series("air")} :
       \E cloud \in IF found.cloud # Absent THEN {found.cloud}
                     ELSE {Answered("cloud", series) : series \in Series("cloud")} :
          LET loop == ClosesLoop(Longest)
              slot == BestSlot(trip.slots, loop, air, cloud)
          IN  departure' = IF air = Absent /\ cloud = Absent THEN <<"none">>
                           ELSE <<slot, Reason(trip.slots[slot], loop, air, cloud)>>
    /\ UNCHANGED <<trip, found, cards>>

(* The second pass over one route: the same card when nobody could look    *)
(* for barriers, and the air, the hour's shade and the stops there are.    *)
Need == IF found.cloud = Absent THEN Absent
        ELSE <<(trip.slots[1].need * (10000 - found.cloud[1])) \div 10000>>
\* A slip: the second assessment is given the barriers and nothing else.
ReassessedAlone(route) ==
    IF found.barriers = Absent THEN Assessed(route)
    ELSE Assess([Surveyed(route) EXCEPT !.surface = <<>>, !.smoothness = <<>>, !.roadClass = <<>>],
                AskedOf(BarrierSpans(route.positions, found.barriers[1])))
Reassessed(route) ==
    IF found.barriers = Absent THEN Assessed(route)
    ELSE Assess(Surveyed(route), AskedOf(BarrierSpans(route.positions, found.barriers[1])))
SecondCard(route) ==
    ScoredRoute(route, Reassessed(route),
                IF found.rest_stops = Absent THEN Absent
                ELSE <<RestStops(route.positions, found.rest_stops[1])>>,
                found.air, Need)
ShowSecond(r) ==
    /\ departure # <<>>
    /\ Len(cards[r]) = 1 /\ \A q \in 1..(r - 1) : Len(cards[q]) = 2
    /\ cards' = [cards EXCEPT ![r] = Append(@, SecondCard(trip.routes[r]))]
    /\ UNCHANGED <<trip, found, departure>>

Next ==
    \/ Begin \/ Depart
    \/ \E source \in Sources : Reply(source)
    \/ \E r \in DOMAIN cards : ShowSecond(r)
Spec == Init /\ [][Next]_vars

-----------------------------------------------------------------------------
Second(r) == cards[r][2]
Surveyed2 == {r \in DOMAIN cards : Len(cards[r]) = 2}
OnTheLine(positions, node) ==
    \E i \in Segments(positions) :
        Lengths(positions)[i] > 0 /\ NearLine(Gap(positions, i, node), node, Corridor)

Recorded(spans, lengths) ==
    Total([i \in DOMAIN spans |->
               IF spans[i].value \in UnknownValues THEN 0 ELSE Extent(spans[i], lengths)])

(* What a card says of a route is what somebody looked at.  A card that    *)
(* says its barriers were checked lists every gate, stile and turnstile in *)
(* the box that was asked about and within the corridor of the route,      *)
(* whatever the sources answered and in whatever order (a line that ends   *)
(* in a repeated vertex is set apart); one that passes a route without     *)
(* reserve has a recorded surface or smoothness for most of it.            *)
CheckedMeansComplete ==
    \A r \in DOMAIN cards :
        LET positions == trip.routes[r].positions
            route == Surveyed(trip.routes[r])
        IN
        /\ r \in Surveyed2 /\ Second(r).access.checked =>
              \A node \in trip.nodes :
                  /\ node.value \in RejectedBarriers /\ Boxed(node) /\ OnTheLine(positions, node)
                  /\ positions[Len(positions)] # positions[Len(positions) - 1]
                  => /\ Second(r).access.verdict = "fail"
                     /\ \E f \in Second(r).access.findings : f.type = "barrier"
        /\ \A i \in DOMAIN cards[r] :
              LET access == cards[r][i].access IN
              access.verdict = "pass" /\ cards[r][i].sentence.reliance = "plain" =>
                  10 * (Recorded(route.surface, route.lengths)
                            + Recorded(route.smoothness, route.lengths)) >= 6 * access.whole

(* None means nobody could measure, never nought: stops, shade and air are *)
(* absent from the second card exactly when their source or the tags they  *)
(* rest on are.                                                            *)
NoneMeansUnmeasured ==
    \A r \in Surveyed2 :
        LET route == Surveyed(trip.routes[r]) IN
        /\ (Second(r).stops = Absent) <=> (found.rest_stops = Absent)
        /\ (Second(r).air = Absent) <=> (found.air = Absent /\ Air(route) = Absent)
        /\ Second(r).shade # Absent => found.cloud # Absent /\ ShadeCover(route) # Absent
        /\ ~Second(r).access.checked <=> (found.barriers = Absent)

(* The second pass never takes back what the first one found or measured.  *)
SurveyOnlyAdds ==
    \A r \in Surveyed2 :
        LET first == cards[r][1] IN
        /\ first.access.findings \subseteq Second(r).access.findings
        /\ first.access.covered = Second(r).access.covered
        /\ first.blocked => Second(r).blocked
        /\ first.air # Absent => Second(r).air # Absent
        /\ <<first.scenic, first.quiet>> = <<Second(r).scenic, Second(r).quiet>>

=============================================================================
