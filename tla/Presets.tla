------------------------------ MODULE Presets ------------------------------
(***************************************************************************)
(* backend/routing.py: what each preset asks of GraphHopper.  A custom     *)
(* model is a sequence of rules, each multiplying the priority of the ways *)
(* it names by a percentage; rules that multiply by one are left out.      *)
(***************************************************************************)
EXTENDS Integers, Sequences, SequencesExt

GHSurfaces ==
    {"PAVED", "ASPHALT", "CONCRETE", "PAVING_STONES", "COMPACTED", "GRAVEL", "FINE_GRAVEL",
     "GROUND", "DIRT", "GRASS", "SAND", "WOOD", "COBBLESTONE", "UNPAVED", "MISSING", "OTHER"}
GHRoadClasses ==
    {"STEPS", "PATH", "FOOTWAY", "TRACK", "BRIDLEWAY", "CYCLEWAY", "PEDESTRIAN",
     "LIVING_STREET", "MOTORWAY", "TRUNK", "PRIMARY", "SECONDARY", "TERTIARY",
     "RESIDENTIAL", "SERVICE", "UNCLASSIFIED", "ROAD", "OTHER"}
GHRoadEnvironments == {"ROAD", "FERRY", "BRIDGE", "TUNNEL", "FORD", "OTHER"}
GHSmoothnesses ==
    {"EXCELLENT", "GOOD", "INTERMEDIATE", "BAD", "VERY_BAD", "HORRIBLE", "VERY_HORRIBLE",
     "IMPASSABLE", "MISSING", "OTHER"}
GHValues == [road_class |-> GHRoadClasses, surface |-> GHSurfaces,
             road_environment |-> GHRoadEnvironments, smoothness |-> GHSmoothnesses]

Class(values, percent) == [on |-> "road_class", values |-> values, percent |-> percent]
Surface(values, percent) == [on |-> "surface", values |-> values, percent |-> percent]
Environment(values, percent) ==
    [on |-> "road_environment", values |-> values, percent |-> percent]
Smoothness(values, percent) == [on |-> "smoothness", values |-> values, percent |-> percent]

ScenicModel ==
    << Environment({"FERRY"}, 0), Class({"MOTORWAY", "TRUNK", "PRIMARY"}, 5),
       Class({"SECONDARY"}, 25), Class({"TERTIARY"}, 50),
       Class({"PEDESTRIAN", "LIVING_STREET"}, 90), Environment({"TUNNEL"}, 20) >>

(* Smoothness is encoded in a graph of one's own only; naming it to the    *)
(* hosted router fails the request.                                        *)
AccessibleModel(selfHosted) ==
    << Class({"STEPS"}, 0), Environment({"FERRY"}, 0),
       Surface({"GRAVEL", "GROUND", "DIRT", "SAND", "GRASS", "COBBLESTONE", "UNPAVED",
                "WOOD"}, 0) >>
    \o IF selfHosted
       THEN << Smoothness({"BAD", "VERY_BAD", "HORRIBLE", "VERY_HORRIBLE", "IMPASSABLE"}, 0) >>
       ELSE <<>>

Streets == {"RESIDENTIAL", "UNCLASSIFIED", "SERVICE", "ROAD"}
QuietModel ==
    << Environment({"FERRY"}, 0), Class({"MOTORWAY", "TRUNK"}, 2), Class({"PRIMARY"}, 10),
       Class({"SECONDARY"}, 25), Class({"TERTIARY"}, 45), Class(Streets, 70),
       Environment({"TUNNEL"}, 15), Surface({"COBBLESTONE"}, 40) >>
AirModel ==
    << Environment({"FERRY"}, 0), Class({"MOTORWAY", "TRUNK"}, 2), Class({"PRIMARY"}, 8),
       Class({"SECONDARY"}, 22), Class({"TERTIARY"}, 45), Class(Streets, 75),
       Environment({"TUNNEL"}, 3) >>

(* `half` are the classes that halve the chance of shade, or nearly.        *)
ShadeRules(half) ==
    << Environment({"FERRY"}, 0), Environment({"BRIDGE"}, 15), Class({"MOTORWAY", "TRUNK"}, 5),
       Class({"PRIMARY"}, 15), Class({"SECONDARY", "PEDESTRIAN"}, 30),
       Class({"TERTIARY", "ROAD"}, 40), Class(half, 55),
       Class({"RESIDENTIAL"}, 65), Class({"FOOTWAY"}, 75),
       Surface({"ASPHALT", "CONCRETE", "PAVED", "PAVING_STONES", "SAND"}, 60) >>

\* A slip: a class no rule names keeps its full priority, steps among them.
ShadeModelForgetsSteps ==
    ShadeRules({"SERVICE", "UNCLASSIFIED", "CYCLEWAY", "LIVING_STREET"})

ShadeModel ==
    ShadeRules({"SERVICE", "UNCLASSIFIED", "CYCLEWAY", "LIVING_STREET", "STEPS"})

(* custom_model and distance_influence of build_request_body: the fastest  *)
(* preset has none.                                                        *)
PresetNames == {"fastest", "scenic", "accessible", "quiet", "shade", "air"}
CustomModel(preset, selfHosted) ==
    CASE preset = "scenic" -> ScenicModel
      [] preset = "accessible" -> AccessibleModel(selfHosted)
      [] preset = "quiet" -> QuietModel
      [] preset = "air" -> AirModel
      [] preset = "shade" -> ShadeModel
      [] OTHER -> <<>>
ScenicLadder == <<20, 45, 90>>
Influence == [accessible |-> 60, quiet |-> 45, air |-> 55, shade |-> 35]

(* What a custom model makes of a way whose `attribute` is `value`: every  *)
(* rule that names it applies, and what none names keeps its priority.     *)
Priority(model, attribute, value) ==
    LET left[i \in 0..Len(model)] ==
            IF i = 0 THEN 100
            ELSE IF model[i].on = attribute /\ value \in model[i].values
                 THEN (left[i - 1] * model[i].percent) \div 100 ELSE left[i - 1]
    IN  left[Len(model)]
Compiles(model, selfHosted) ==
    \A i \in DOMAIN model :
        /\ model[i].values \subseteq GHValues[model[i].on]
        /\ model[i].on = "smoothness" => selfHosted

=============================================================================
