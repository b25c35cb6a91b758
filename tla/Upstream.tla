------------------------------ MODULE Upstream ------------------------------
(***************************************************************************)
(* What one backend asks of the services it stands on: the readiness       *)
(* probes (this module extends Probes), the live calls and their budget,   *)
(* the candidates of a preset, the survey of a corridor, the photographs   *)
(* along a route, and the place search.                                    *)
(*                                                                         *)
(* In the code these share no variable but the fetch layer's counter, on   *)
(* whose answer each decides by itself; so a behaviour here takes one of   *)
(* them up, and goes on with it, while the others have not begun.          *)
(***************************************************************************)
EXTENDS Probes, Sequences

CONSTANTS Procs, Width, Sigs, Cap, Costs, MaxDay, MaxCrash,
          Requested, Minutes, Greens, LoopCandidates, PreferenceScales,
          Trips, MaxResults, MaxPoints, Spacing, Pad, Hour,
          Objectives, Blockers, Vertices, MaxAnchors, StripSize, MaxPerAnchor, Pages,
          Clients, Names, Capacity, Rate, FoundTtl, EmptyTtl

ASSUME UpstreamAssumption ==
    /\ Requested \in Nat /\ Minutes \subseteq Nat /\ Greens \subseteq Nat
    /\ LoopCandidates \in Nat \ {0} /\ PreferenceScales \in Nat \ {0}

\* A route has a vertex, and places along it are metres from its start.
ASSUME PhotosAssumption ==
    /\ Vertices \in Seq(Nat) \ {<<>>} /\ \A places \in Blockers : places \subseteq Nat
    /\ MaxAnchors \in Int /\ StripSize \in Nat /\ MaxPerAnchor \in Nat
    /\ \A pages \in Pages : pages \in Seq({pages[i] : i \in DOMAIN pages})

\* What is surveyed is finite, and a route has two ends.
SpansOfDetails == Seq([from : Nat, to : Nat, value : STRING, at : Seq(Nat)])
TagsOfARoute == [lengths : Seq(Nat), heights : Seq(Int), roadClass : SpansOfDetails,
                 surface : SpansOfDetails, smoothness : SpansOfDetails,
                 environment : SpansOfDetails]
ASSUME SurveyAssumption ==
    /\ MaxResults \in Nat
    /\ \A world \in Trips :
          /\ IsFiniteSet(world.nodes) /\ \A node \in world.nodes : {node.at, node.off} \subseteq Int
          /\ \A r \in DOMAIN world.routes :
                /\ world.routes[r].positions \in Seq(Int) /\ Len(world.routes[r].positions) >= 2
                /\ world.routes[r].tags \in TagsOfARoute

VARIABLES today, up, day, used, file, tmp, at, sig, cost, fixture, crashes, granted,
          ask, replies, answer, said,
          trip, found, departure, cards,
          photoAsk, anchors, results, photoAnswer, image,
          placeNow, tokens, rows, request, answered, searches

Calls == INSTANCE LiveCalls
Search == INSTANCE Candidates
Corridor == INSTANCE Survey
Strip == INSTANCE Photos WITH ask <- photoAsk, answer <- photoAnswer
Place == INSTANCE Places WITH now <- placeNow

callsVars == <<today, up, day, used, file, tmp, at, sig, cost, fixture, crashes, granted>>
searchVars == <<ask, replies, answer, said>>
corridorVars == <<trip, found, departure, cards>>
stripVars == <<photoAsk, anchors, results, photoAnswer, image>>
placeVars == <<placeNow, tokens, rows, request, answered, searches>>

UpstreamInit ==
    Init /\ Calls!Init /\ Search!Init /\ Corridor!Init /\ Strip!Init /\ Place!Init

ProbesStep ==
    /\ Calls!Init /\ Search!Init /\ Corridor!Init /\ Strip!Init /\ Place!Init
    /\ Next
    /\ UNCHANGED <<callsVars, searchVars, corridorVars, stripVars, placeVars>>
CallsStep ==
    /\ Init /\ Search!Init /\ Corridor!Init /\ Strip!Init /\ Place!Init
    /\ Calls!Next
    /\ UNCHANGED <<vars, searchVars, corridorVars, stripVars, placeVars>>
SearchStep ==
    /\ Init /\ Calls!Init /\ Corridor!Init /\ Strip!Init /\ Place!Init
    /\ Search!Next
    /\ UNCHANGED <<vars, callsVars, corridorVars, stripVars, placeVars>>
CorridorStep ==
    /\ Init /\ Calls!Init /\ Search!Init /\ Strip!Init /\ Place!Init
    /\ Corridor!Next
    /\ UNCHANGED <<vars, callsVars, searchVars, stripVars, placeVars>>
StripStep ==
    /\ Init /\ Calls!Init /\ Search!Init /\ Corridor!Init /\ Place!Init
    /\ Strip!Next
    /\ UNCHANGED <<vars, callsVars, searchVars, corridorVars, placeVars>>
PlaceStep ==
    /\ Init /\ Calls!Init /\ Search!Init /\ Corridor!Init /\ Strip!Init
    /\ Place!Next
    /\ UNCHANGED <<vars, callsVars, searchVars, corridorVars, stripVars>>

UpstreamNext ==
    ProbesStep \/ CallsStep \/ SearchStep \/ CorridorStep \/ StripStep \/ PlaceStep

upstreamVars == <<vars, callsVars, searchVars, corridorVars, stripVars, placeVars>>
UpstreamSpec == UpstreamInit /\ [][UpstreamNext]_upstreamVars

-----------------------------------------------------------------------------
(* LiveCallBudget: one backend spends no more than the cap in a day,       *)
(* however often it crashes and starts again and wherever midnight falls.  *)
CapHolds == Calls!TypeOK /\ Calls!CapHolds

(* route_scenic and _route_preference keep the word they give on the card: *)
(* a scenic route without a caveat is inside 1.6 times the fastest,        *)
(* greener, and the best of those; one with a caveat has it; a loop is     *)
(* called longer or shorter than asked only when it is.                    *)
SearchKeepsItsWord == Search!SearchKeepsItsWord

(* A preset whose candidates are gathered fails only if all of them did;   *)
(* one whose candidates are paid for asks for none after one that will do, *)
(* and fails only with the last request it made.                           *)
OneReplySuffices == Search!OneReplySuffices /\ Search!PaysNoMoreThanNeeded

(* The custom model that steers a preference route and the table that      *)
(* scores it agree on which of two kinds of way is better; no model lets a *)
(* ferry be taken, and none names what the router would reject.            *)
TablesAgree ==
    ask # Search!Nothing =>
        LET model == Search!CustomModel(ask.preset, ask.selfHosted) IN
        /\ Search!Compiles(model, ask.selfHosted)
        /\ ask.preset # "fastest" => Search!Priority(model, "road_environment", "FERRY") = 0
        /\ ask.preset = "quiet" =>
              /\ Search!Orders(model, "road_class", Corridor!QuietClass)
              /\ Search!Orders(model, "surface", Corridor!QuietSurface)
        /\ ask.preset = "air" => Search!Orders(model, "road_class", Corridor!AirClass)
        /\ ask.preset = "shade" =>
              /\ Search!Orders(model, "road_class", Corridor!CanopyClass)
              /\ Search!Orders(model, "surface", Corridor!CanopySurface)
              /\ Search!Orders(model, "road_environment", Corridor!EnvironmentCover)

(* What a card says of a route is what somebody looked at: "checked" only  *)
(* where every gate on the line is listed, and no pass without reserve     *)
(* over ways whose surface and smoothness nobody recorded.                 *)
CheckedMeansComplete == Corridor!CheckedMeansComplete

(* A number that nothing was measured for is none, and not nought.         *)
NoneMeansUnmeasured == Corridor!NoneMeansUnmeasured

(* The second card of a route keeps every blocker of the first.            *)
SurveyOnlyAdds == Corridor!SurveyOnlyAdds

(* The strip goes along the way: in order, without the hero, and nothing   *)
(* in it that no source gave.                                              *)
StripAlongTheWay == Strip!StripAlongTheWay

(* A source that failed at an anchor costs the strip only what it would    *)
(* have given there.                                                       *)
FailureCostsItsOwn == Strip!FailureCostsItsOwn

(* The searches put to Nominatim are within what the client's bucket had   *)
(* and was filled with.                                                    *)
EverySearchIsPaidFor == Place!EverySearchIsPaidFor

=============================================================================
