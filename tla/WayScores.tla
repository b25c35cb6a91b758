----------------------------- MODULE WayScores -----------------------------
(***************************************************************************)
(* backend/geometry.py: what the tags of a route's ways are worth to each  *)
(* objective.  Tables are in percent, scores in ten-thousandths, which is  *)
(* what score_geometry rounds to; an absent score is <<>>.  The curviness  *)
(* and the elevation term come from the shape and are inputs.              *)
(***************************************************************************)
EXTENDS Accessibility

NaturalClass ==
    [PATH |-> 100, TRACK |-> 95, BRIDLEWAY |-> 95, FOOTWAY |-> 75, CYCLEWAY |-> 70,
     PEDESTRIAN |-> 60, STEPS |-> 60, LIVING_STREET |-> 55, RESIDENTIAL |-> 40, SERVICE |-> 35,
     UNCLASSIFIED |-> 35, ROAD |-> 30, TERTIARY |-> 25, SECONDARY |-> 15, PRIMARY |-> 8,
     TRUNK |-> 2, MOTORWAY |-> 0]
NaturalSurface ==
    [GROUND |-> 100, DIRT |-> 100, EARTH |-> 100, GRASS |-> 100, SAND |-> 90, WOOD |-> 90,
     FINE_GRAVEL |-> 80, GRAVEL |-> 75, COMPACTED |-> 70, COBBLESTONE |-> 45,
     PAVING_STONES |-> 40, UNPAVED |-> 80, CONCRETE |-> 20, ASPHALT |-> 15, PAVED |-> 20]
AirClass ==
    [MOTORWAY |-> 0, TRUNK |-> 5, PRIMARY |-> 15, SECONDARY |-> 30, TERTIARY |-> 45, ROAD |-> 55,
     SERVICE |-> 60, UNCLASSIFIED |-> 60, RESIDENTIAL |-> 65, LIVING_STREET |-> 75,
     PEDESTRIAN |-> 85, CYCLEWAY |-> 85, FOOTWAY |-> 85, STEPS |-> 85, BRIDLEWAY |-> 95,
     TRACK |-> 95, PATH |-> 100]
QuietClass ==
    [MOTORWAY |-> 0, TRUNK |-> 3, PRIMARY |-> 12, SECONDARY |-> 28, TERTIARY |-> 45, ROAD |-> 55,
     UNCLASSIFIED |-> 62, RESIDENTIAL |-> 68, SERVICE |-> 70, LIVING_STREET |-> 85,
     FOOTWAY |-> 88, CYCLEWAY |-> 90, STEPS |-> 90, PEDESTRIAN |-> 92, TRACK |-> 95,
     BRIDLEWAY |-> 97, PATH |-> 100]
QuietSurface ==
    [ASPHALT |-> 100, GRASS |-> 95, PAVED |-> 95, CONCRETE |-> 90, COMPACTED |-> 90,
     GROUND |-> 90, DIRT |-> 90, EARTH |-> 90, SAND |-> 85, UNPAVED |-> 80, FINE_GRAVEL |-> 75,
     WOOD |-> 55, GRAVEL |-> 55, PAVING_STONES |-> 45, COBBLESTONE |-> 20]
CanopyClass ==
    [MOTORWAY |-> 5, TRUNK |-> 8, PRIMARY |-> 15, SECONDARY |-> 25, PEDESTRIAN |-> 25,
     ROAD |-> 35, TERTIARY |-> 35, SERVICE |-> 40, UNCLASSIFIED |-> 40, CYCLEWAY |-> 50,
     LIVING_STREET |-> 50, STEPS |-> 50, RESIDENTIAL |-> 55, FOOTWAY |-> 60, TRACK |-> 80,
     PATH |-> 85, BRIDLEWAY |-> 85]
CanopySurface ==
    [SAND |-> 20, CONCRETE |-> 25, ASPHALT |-> 30, PAVED |-> 30, PAVING_STONES |-> 30,
     COBBLESTONE |-> 40, GRASS |-> 50, GRAVEL |-> 60, FINE_GRAVEL |-> 60, COMPACTED |-> 60,
     UNPAVED |-> 70, WOOD |-> 80, GROUND |-> 85, DIRT |-> 85, EARTH |-> 85]
EnvironmentCover == [TUNNEL |-> 100, BRIDGE |-> 10]

UnknownTagValues == {"", "MISSING", "OTHER", "UNKNOWN", "NONE"}

-----------------------------------------------------------------------------
(* weighted_tag_score: the mean of `table` over the metres it knows, and   *)
(* how many those are.  What it does not know lowers the coverage only.    *)
Read(spans, lengths, table) ==
    SelectSeq(Weighted(spans, lengths),
              LAMBDA span : span.value \notin UnknownTagValues /\ span.value \in DOMAIN table)
Covered(spans, lengths, table) ==
    LET read == Read(spans, lengths, table)
    IN  Total([i \in DOMAIN read |-> Extent(read[i], lengths)])

TagScore(spans, lengths, table) ==
    LET read == Read(spans, lengths, table) IN
    IF read = <<>> THEN <<>>
    ELSE <<Total([i \in DOMAIN read |-> 100 * table[read[i].value] * Extent(read[i], lengths)])
               \div Covered(spans, lengths, table)>>

(* _blend_terms, with the weights in percent of their sum.                 *)
Blend(first, weight, second) ==
    CASE first = <<>> -> second
      [] first # <<>> /\ second = <<>> -> first
      [] OTHER -> <<(first[1] * weight + second[1] * (100 - weight)) \div 100>>

-----------------------------------------------------------------------------
(* score_geometry, for a route of Accessibility with its road_environment. *)
Naturalness(route) ==
    Blend(TagScore(route.roadClass, route.lengths, NaturalClass), 65,
          TagScore(route.surface, route.lengths, NaturalSurface))
Air(route) == TagScore(route.roadClass, route.lengths, AirClass)
Quiet(route) ==
    Blend(TagScore(route.roadClass, route.lengths, QuietClass), 75,
          TagScore(route.surface, route.lengths, QuietSurface))

(* Where the route is tunnel or bridge the tag is the answer; elsewhere    *)
(* the canopy guess is all there is.                                       *)
Canopy(route) ==
    Blend(TagScore(route.roadClass, route.lengths, CanopyClass), 60,
          TagScore(route.surface, route.lengths, CanopySurface))
ShadeCover(route) ==
    LET canopy == Canopy(route)
        cover == TagScore(route.environment, route.lengths, EnvironmentCover)
        whole == Total(route.lengths)
        under == Lesser(Covered(route.environment, route.lengths, EnvironmentCover), whole)
    IN  CASE canopy = <<>> -> cover
          [] canopy # <<>> /\ cover = <<>> -> canopy
          [] OTHER -> <<(canopy[1] * (whole - under) + cover[1] * under) \div whole>>

(* The weighted mean of the terms there are, each <<weight, term>>.        *)
Renormalised(terms) ==
    LET weighing == SelectSeq(terms, LAMBDA t : t[2] # <<>>)
        Summed(Of(_)) == Total([i \in DOMAIN weighing |-> Of(weighing[i])])
    IN  Summed(LAMBDA t : t[1] * t[2][1]) \div Summed(LAMBDA t : t[1])
Scenic(route, curve, elevation, clip) ==
    Renormalised(<< <<20, <<curve>> >>, <<45, clip>>, <<20, Naturalness(route)>>,
                    <<15, elevation>> >>)

=============================================================================
