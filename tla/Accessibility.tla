--------------------------- MODULE Accessibility ---------------------------
(***************************************************************************)
(* backend/accessibility.py: what a tag says of a stretch of way, and what *)
(* the stretches, the barriers and the climbs say of a whole route.        *)
(*                                                                         *)
(* Tag values are written as normalise() leaves them; None is "".  A route *)
(* is a record of integers: `lengths` of its segments in metres, `heights` *)
(* on the resampled grid in decimetres, and spans of path details.  A span *)
(* [from, to, value] covers the segments from+1..to, counted from 1.       *)
(***************************************************************************)
EXTENDS Integers, Sequences, SequencesExt

AcceptableSurfaces == {"PAVED", "ASPHALT", "CONCRETE", "PAVING_STONES", "COMPACTED"}
RejectedSurfaces ==
    {"GRAVEL", "FINE_GRAVEL", "GROUND", "DIRT", "EARTH", "GRASS", "SAND", "MUD", "WOOD",
     "COBBLESTONE", "SETT", "UNHEWN_COBBLESTONE", "PEBBLESTONE", "UNPAVED", "METAL_GRID",
     "WOODCHIPS", "SNOW", "ICE"}
RejectedSmoothness == {"BAD", "VERY_BAD", "HORRIBLE", "VERY_HORRIBLE", "IMPASSABLE"}
RejectedBarriers == {"GATE", "STILE", "TURNSTILE", "KISSING_GATE"}
AcceptedBarriers == {"NO", "NONE", "ENTRANCE"}
BarriersWithAVerdict == RejectedBarriers \cup AcceptedBarriers
UnknownValues == {"", "MISSING", "UNKNOWN", "OTHER", "NONE", "NULL"}

\* A slip: a value nobody has recorded passes when it is not rejected.
JudgeHopeful(value, passing, failing) ==
    IF value \in failing THEN "fail" ELSE "pass"

Judge(value, passing, failing) ==
    CASE value \notin UnknownValues /\ value \in passing -> "pass"
      [] value \notin UnknownValues /\ value \in failing -> "fail"
      [] OTHER -> "unknown"

AssessSurface(value) == Judge(value, AcceptableSurfaces, RejectedSurfaces)
AssessSmoothness(value) == Judge(value, {"EXCELLENT", "GOOD", "INTERMEDIATE"}, RejectedSmoothness)
AssessBarrier(value) == Judge(value, AcceptedBarriers, RejectedBarriers)
AssessRoadClass(value) == Judge(value, {}, {"STEPS"})

-----------------------------------------------------------------------------
Sums(numbers) ==
    LET sum[i \in 0..Len(numbers)] == IF i = 0 THEN 0 ELSE sum[i - 1] + numbers[i]
    IN  sum
Total(numbers) == Sums(numbers)[Len(numbers)]
Lesser(a, b) == IF a < b THEN a ELSE b
Magnitude(n) == IF n < 0 THEN 0 - n ELSE n

(* The part of a span that lies on the route.                              *)
SpanFrom(span, lengths) == Lesser(span.from, Len(lengths))
SpanTo(span, lengths) ==
    LET to == Lesser(span.to, Len(lengths)) IN
    IF to < SpanFrom(span, lengths) THEN SpanFrom(span, lengths) ELSE to
Extent(span, lengths) ==
    Total(SubSeq(lengths, SpanFrom(span, lengths) + 1, SpanTo(span, lengths)))

(* _span_verdicts: spans of no length say nothing.  A failing span is a    *)
(* finding at the start of its stretch, or at the barrier it carries.      *)
Weighted(spans, lengths) == SelectSeq(spans, LAMBDA span : Extent(span, lengths) > 0)
Located(span, lengths) ==
    IF span.at = <<>> THEN Total(SubSeq(lengths, 1, SpanFrom(span, lengths)))
                      ELSE span.at[1]
Findings(kind, spans, lengths, Assess(_)) ==
    {[type |-> kind, at |-> Located(span, lengths)] :
        span \in {s \in ToSet(spans) : Extent(s, lengths) > 0 /\ Assess(s.value) = "fail"}}

-----------------------------------------------------------------------------
(* incline_findings.  Heights stand Grid metres apart, so one decimetre of *)
(* climb is half of one percent; `Steep` and `Sustained` are 8% for one    *)
(* window and 5% on the mean of Window windows, in decimetres of climb.    *)
Grid == 20
Window == 50 \div Grid
Steep == 16
Sustained == 10 * Window
Climbs(heights) == [i \in 1..(Len(heights) - 1) |-> heights[i + 1] - heights[i]]
TooSteep(climbs) == \E i \in DOMAIN climbs : Magnitude(climbs[i]) > Steep
TooLong(climbs) ==
    \E i \in 1..(Len(climbs) - Window + 1) :
        Magnitude(Total(SubSeq(climbs, i, i + Window - 1))) > Sustained
InclineFindings(heights) ==
    LET climbs == Climbs(heights) IN
    IF Len(heights) >= 3 /\ (TooSteep(climbs) \/ TooLong(climbs))
    THEN {[type |-> "incline", at |-> 0]} ELSE {}

-----------------------------------------------------------------------------
(* assess_route.  `barriers` is Unasked when nobody looked; a sequence,    *)
(* the empty one too, is what a source said.                               *)
Unasked == [asked |-> FALSE, spans |-> <<>>]
AskedOf(spans) == [asked |-> TRUE, spans |-> spans]

AllFindings(route, barriers) ==
    UNION {Findings("steps", route.roadClass, route.lengths, AssessRoadClass),
           Findings("surface", route.surface, route.lengths, AssessSurface),
           Findings("smoothness", route.smoothness, route.lengths, AssessSmoothness),
           Findings("barrier", barriers.spans, route.lengths, AssessBarrier),
           InclineFindings(route.heights)}

Metres(spans, lengths, verdict, Assess(_)) ==
    Total([i \in DOMAIN spans |->
               IF Assess(spans[i].value) = verdict THEN Extent(spans[i], lengths) ELSE 0])
Measured(route, verdict) ==
    Metres(route.surface, route.lengths, verdict, AssessSurface)
        + Metres(route.smoothness, route.lengths, verdict, AssessSmoothness)

(* Surface and smoothness are two passes over one route.                   *)
Passes(route) ==
    Len(SelectSeq(<<route.surface, route.smoothness>>,
                  LAMBDA spans : Weighted(spans, route.lengths) # <<>>))
Whole(route) == Total(route.lengths) * (IF Passes(route) = 2 THEN 2 ELSE 1)
Definite(route) == Lesser(Measured(route, "pass") + Measured(route, "fail"), Whole(route))

Assess(route, barriers) ==
    LET findings == AllFindings(route, barriers)
        covered == Definite(route)
    IN  IF Total(route.lengths) = 0
        THEN [verdict |-> "unknown", findings |-> {}, covered |-> 0, whole |-> 1,
              checked |-> barriers.asked]
        ELSE [verdict |-> CASE findings # {} -> "fail"
                            [] findings = {} /\ covered = 0 -> "unknown"
                            [] OTHER -> "pass",
              findings |-> findings, covered |-> covered, whole |-> Whole(route),
              checked |-> barriers.asked]

(* RouteAccessibility.sentence and main's _status_note: how far the answer *)
(* may be relied on, and which dimension the reader is told went unasked.  *)
Reliance(a) == CASE 10 * a.covered < 3 * a.whole -> "do not rely on it"
                 [] 10 * a.covered >= 3 * a.whole /\ 10 * a.covered < 6 * a.whole -> "unverified rest"
                 [] OTHER -> "plain"
Sentence(a) == [subject |-> IF a.checked THEN "accessibility data" ELSE "surface data",
                reliance |-> Reliance(a),
                barriersUnchecked |-> ~a.checked]
StatusNote(objective, a) ==
    CASE a.verdict = "fail" -> "rejected"
      [] a.verdict # "fail" /\ objective = "accessible" /\ Reliance(a) = "do not rely on it" ->
            IF a.checked THEN "nothing found, little recorded" ELSE "barriers could not be checked"
      [] OTHER -> "none"

=============================================================================
