---------------------------- MODULE RouteEvents ----------------------------
(***************************************************************************)
(* One request's answer as a stream of events: route_events, the pipeline  *)
(* that routes each objective, shows every route at once, enriches and     *)
(* narrates them and then hands out the final payload, under               *)
(* route_events_with_deadline, which may cut it off after any event or in  *)
(* the middle of any await (backend/main.py).                              *)
(*                                                                         *)
(* Routes are modelled by the fields that tell an honest answer from a     *)
(* dishonest one: whether the card is blocked, has geometry, still awaits  *)
(* enrichment, claims that gates and stiles were checked, has narration.   *)
(* The routers, the accessibility engine, Overpass and the narrator are    *)
(* external: any of their answers may come, or none before the deadline.   *)
(***************************************************************************)
EXTENDS Sequences, Integers, FiniteSets

CONSTANT Presets        \* objectives that have a preset
CONSTANT MaxObjectives  \* most objectives one request may name

ASSUME PresetAssumption ==
    {"fastest", "scenic", "accessible"} \subseteq Presets /\ MaxObjectives \in Nat

VARIABLES objectives, \* resolved_objectives(): what the caller asked for
          pc,         \* where route_events is
          attempt,    \* per objective: how routing it went
          access,     \* per objective: the engine's verdict on its route
          survey,     \* context.barrier_nodes: unknown, absent or usable
          routes,     \* `routes`: the objectives built, with their cards
          todo,       \* the objectives the loop at pc has still to show
          partial,    \* the cards shown: the client's merged view
          answers     \* the terminal events, in order

vars == <<objectives, pc, attempt, access, survey, routes, todo, partial, answers>>

Entries(s) == {s[i] : i \in DOMAIN s}
Asked == Entries(objectives)
Requests ==
    {s \in UNION {[1..n -> Presets] : n \in 1..MaxObjectives} :
        \A i, j \in DOMAIN s : s[i] = s[j] => i = j}

Unassessed == [verdict |-> "none", checked |-> FALSE]
Assessments == [verdict : {"none", "clear", "barred"}, checked : BOOLEAN]
Card == [status : {"ok", "blocked"}, geometry : BOOLEAN, pending : BOOLEAN,
         checked : BOOLEAN, narrated : BOOLEAN]

(* ordered: fastest first, because scenic is measured against it, and then *)
(* the caller's order.  Every loop takes the objectives by their turn.     *)
Place == [o \in Asked |-> CHOOSE i \in DOMAIN objectives : objectives[i] = o]
Turn == [o \in Asked |-> IF o = "fastest" THEN 0 ELSE Place[o]]
First == CHOOSE o \in todo : \A p \in todo : Turn[o] <= Turn[p]

Routed == {o \in Asked : attempt[o] = "routed"}
Rest == Asked \ {"fastest"}

(* The baseline for scenic, routed when the caller did not ask for it. *)
NeedsBaseline == "scenic" \in Asked /\ "fastest" \notin Asked

(* _blocked_route and _scored_route: only the accessible preset is rejected *)
(* by what the engine found.                                               *)
BlockedRoute ==
    [status |-> "blocked", geometry |-> FALSE, pending |-> FALSE,
     checked |-> FALSE, narrated |-> FALSE]
ScoredRoute(o, assessment, isPending) ==
    [status |-> IF o = "accessible" /\ assessment.verdict = "barred"
                THEN "blocked" ELSE "ok",
     geometry |-> TRUE, pending |-> isPending,
     checked |-> assessment.checked, narrated |-> FALSE]

\* Slips: an engine that fails the second time takes its first verdict with
\* it; an Overpass that never answered counts as a survey without barriers.
ReassessForgets(first, engine) ==
    IF survey = "absent" THEN first
    ELSE IF engine = "none" THEN Unassessed
    ELSE [verdict |-> engine, checked |-> TRUE]
ReassessUnsurveyed(first, engine) ==
    IF engine = "none" THEN first ELSE [verdict |-> engine, checked |-> TRUE]

(* The second pass's assessment of a route: the first pass's unless there  *)
(* was a survey of the barriers and the engine answered again.             *)
Reassessed(first, engine) ==
    IF survey = "absent" \/ engine = "none" THEN first
    ELSE [verdict |-> engine, checked |-> TRUE]

Put(f, o, card) == [x \in DOMAIN f \cup {o} |-> IF x = o THEN card ELSE f[x]]

(* A route event: the client merges routes by id. *)
Show(o, card) == partial' = Put(partial, o, card)

Answer(kind, payload) == answers' = Append(answers, [kind |-> kind, routes |-> payload])
Raise == Answer("raised", {}) /\ pc' = "over"

Init ==
    /\ objectives \in Requests
    /\ pc = "preflight"
    /\ attempt = [o \in Presets |-> "untried"]
    /\ access = [o \in Presets |-> Unassessed]
    /\ survey = "unknown"
    /\ routes = [o \in {} |-> BlockedRoute]
    /\ todo = {}
    /\ partial = [o \in {} |-> BlockedRoute]
    /\ answers = << >>

-----------------------------------------------------------------------------
(* The two ends are inside the graph's extent, or the request raises. *)
Preflight ==
    /\ pc = "preflight"
    /\ \/ Raise
       \/ pc' = "baseline" /\ UNCHANGED answers
    /\ UNCHANGED <<objectives, attempt, access, survey, routes, todo, partial>>

Baseline ==
    /\ pc = "baseline"
    /\ pc' = "fastest"
    /\ IF NeedsBaseline
       THEN \E how \in {"routed", "noroute", "failed"} :
                attempt' = [attempt EXCEPT !["fastest"] = how]
       ELSE UNCHANGED attempt
    /\ UNCHANGED <<objectives, access, survey, routes, todo, partial, answers>>

(* fastest alone and first.  Without a route the objective is blocked; a    *)
(* router that failed ends the request.                                    *)
RunFastest ==
    /\ pc = "fastest"
    /\ IF "fastest" \notin Asked
       THEN pc' = "rest" /\ UNCHANGED <<attempt, routes, answers>>
       ELSE \E how \in {"routed", "noroute", "failed"} :
                /\ attempt' = [attempt EXCEPT !["fastest"] = how]
                /\ IF how = "failed"
                   THEN Raise
                   ELSE pc' = "rest" /\ UNCHANGED answers
                /\ routes' = IF how = "noroute"
                             THEN Put(routes, "fastest", BlockedRoute) ELSE routes
    /\ UNCHANGED <<objectives, access, survey, todo, partial>>

(* The other objectives together; whatever fails is blocked.  Nothing      *)
(* routed at all is an error.                                              *)
RunRest ==
    /\ pc = "rest"
    /\ \E how \in [Rest -> {"routed", "noroute", "failed"}] :
          LET unrouted == {o \in Rest : how[o] # "routed"}
              someRouted == unrouted # Rest \/ Routed # {}
          IN
          /\ attempt' = [o \in Presets |-> IF o \in Rest THEN how[o] ELSE attempt[o]]
          /\ routes' = [o \in DOMAIN routes \cup unrouted |-> BlockedRoute]
          /\ IF someRouted
             THEN /\ pc' = "first"
                  /\ todo' = {o \in Asked : attempt'[o] = "routed"}
                  /\ UNCHANGED answers
             ELSE Raise /\ UNCHANGED todo
    /\ UNCHANGED <<objectives, access, survey, partial>>

(* First pass: every routed objective is assessed and shown, enrichment    *)
(* still to come, then the ones without a route.                           *)
ShowFirst ==
    /\ pc = "first" /\ todo # {}
    /\ LET o == First IN
       \E verdict \in {"none", "clear", "barred"} :
          /\ access' = [access EXCEPT ![o] = [verdict |-> verdict, checked |-> FALSE]]
          /\ Show(o, ScoredRoute(o, access'[o], TRUE))
    /\ todo' = todo \ {First}
    /\ UNCHANGED <<objectives, pc, attempt, survey, routes, answers>>

FirstShown ==
    /\ pc = "first" /\ todo = {}
    /\ pc' = "blocked"
    /\ todo' = DOMAIN routes
    /\ UNCHANGED <<objectives, attempt, access, survey, routes, partial, answers>>

ShowBlocked ==
    /\ pc = "blocked" /\ todo # {}
    /\ Show(First, routes[First])
    /\ todo' = todo \ {First}
    /\ UNCHANGED <<objectives, pc, attempt, access, survey, routes, answers>>

(* enrich_context: one survey for all routes, or none that can be used. *)
Enrich ==
    /\ pc = "blocked" /\ todo = {}
    /\ pc' = "second"
    /\ survey' \in {"absent", "usable"}
    /\ todo' = Routed
    /\ UNCHANGED <<objectives, attempt, access, routes, partial, answers>>

(* Second pass: the same routes by the same ids.  A survey only adds       *)
(* findings, so what was barred stays barred when the engine answers.      *)
ShowSecond ==
    /\ pc = "second" /\ todo # {}
    /\ LET o == First IN
       \E engine \in {"none", "clear", "barred"} :
          /\ access[o].verdict = "barred" => engine # "clear"
          /\ access' = [access EXCEPT ![o] = Reassessed(@, engine)]
          /\ routes' = Put(routes, o, ScoredRoute(o, access'[o], FALSE))
          /\ Show(o, routes'[o])
    /\ todo' = todo \ {First}
    /\ UNCHANGED <<objectives, pc, attempt, survey, answers>>

\* A slip: the narration pass shows only the routes that can be walked.
NarrateOk ==
    /\ pc = "second" /\ todo = {}
    /\ pc' = "narrated"
    /\ \E told \in SUBSET DOMAIN routes :
          /\ routes' = [o \in DOMAIN routes |->
                          [routes[o] EXCEPT !.narrated = o \in told]]
          /\ todo' = {o \in told : routes[o].status = "ok"}
    /\ UNCHANGED <<objectives, attempt, access, survey, partial, answers>>

(* _attach_narration: any of the routes, none without a key. *)
Narrate ==
    /\ pc = "second" /\ todo = {}
    /\ pc' = "narrated"
    /\ \E told \in SUBSET DOMAIN routes :
          /\ routes' = [o \in DOMAIN routes |->
                          [routes[o] EXCEPT !.narrated = o \in told]]
          /\ todo' = told
    /\ UNCHANGED <<objectives, attempt, access, survey, partial, answers>>

ShowNarrated ==
    /\ pc = "narrated" /\ todo # {}
    /\ Show(First, routes[First])
    /\ todo' = todo \ {First}
    /\ UNCHANGED <<objectives, pc, attempt, access, survey, routes, answers>>

(* The routes of a document, each with its place in the document's order.  *)
Payload(ids, order, cards) ==
    {[place |-> order[o], id |-> o, card |-> cards[o]] : o \in ids}

(* The settled document: every route built, in the caller's order. *)
Done ==
    /\ pc = "narrated" /\ todo = {}
    /\ pc' = "finished"
    /\ Answer("done", Payload(DOMAIN routes, Place, routes))
    /\ UNCHANGED <<objectives, attempt, access, survey, routes, todo, partial>>

(* An exception nobody expected, out of any call the pipeline makes. *)
Fault ==
    /\ pc \notin {"finished", "drained", "over"}
    /\ Raise
    /\ UNCHANGED <<objectives, attempt, access, survey, routes, todo, partial>>

(* StopAsyncIteration. *)
End ==
    /\ pc \in {"finished", "drained"}
    /\ pc' = "over"
    /\ UNCHANGED <<objectives, attempt, access, survey, routes, todo, partial, answers>>

\* A slip: what was built is taken for what was shown.
UsableBuilt == DOMAIN routes \cap Routed

Usable == {o \in Routed \cap DOMAIN partial : partial[o].geometry}

\* A slip: the return behind the timeout event is missing.
DeadlineFallsThrough ==
    /\ pc \notin {"drained", "over"}
    /\ pc' = IF Usable = {} THEN pc ELSE "drained"
    /\ IF Usable = {}
       THEN Answer("timeout", {}) /\ Len(answers) < 2
       ELSE Answer("truncated", Payload(Usable, Turn, partial))
    /\ UNCHANGED <<objectives, attempt, access, survey, routes, todo, partial>>

(* The deadline: at the head of the loop or at an await, whatever has been *)
(* shown and has geometry becomes a truncated document, in the order shown.*)
Deadline ==
    /\ pc \notin {"drained", "over"}
    /\ pc' = "drained"
    /\ IF Usable = {}
       THEN Answer("timeout", {})
       ELSE Answer("truncated", Payload(Usable, Turn, partial))
    /\ UNCHANGED <<objectives, attempt, access, survey, routes, todo, partial>>

Next ==
    \/ Preflight \/ Baseline \/ RunFastest \/ RunRest
    \/ ShowFirst \/ FirstShown \/ ShowBlocked
    \/ Enrich \/ ShowSecond \/ Narrate \/ ShowNarrated
    \/ Done \/ Fault \/ End \/ Deadline

(* Nothing upstream need ever answer.  Only the deadline and the end of the *)
(* generator are certain.                                                  *)
Spec ==
    /\ Init /\ [][Next]_vars
    /\ WF_vars(Deadline) /\ WF_vars(End)

-----------------------------------------------------------------------------
Documents == {a \in Entries(answers) : a.kind \in {"done", "truncated"}}
Ids(document) == {r.id : r \in document.routes}
Places == {"preflight", "baseline", "fastest", "rest", "first", "blocked",
           "second", "narrated", "finished", "drained", "over"}

TypeOK ==
    /\ objectives \in Requests
    /\ pc \in Places
    /\ attempt \in [Presets -> {"untried", "routed", "noroute", "failed"}]
    /\ access \in [Presets -> Assessments]
    /\ survey \in {"unknown", "absent", "usable"}
    /\ DOMAIN routes \subseteq Asked /\ \A o \in DOMAIN routes : routes[o] \in Card
    /\ DOMAIN partial \subseteq Asked /\ \A o \in DOMAIN partial : partial[o] \in Card
    /\ todo \subseteq Asked
    /\ \A a \in Documents : Ids(a) \subseteq Asked

(* The done document settles what the stream showed: each objective asked  *)
(* for exactly once in the caller's order, routed or blocked, every card   *)
(* equal to the last one shown under its id, and none still pending.       *)
DoneSettlesTheStream ==
    /\ TypeOK
    /\ \A a \in Documents : a.kind = "done" =>
          a.routes = {[place |-> i, id |-> objectives[i],
                       card |-> [partial[objectives[i]] EXCEPT !.pending = FALSE]]
                          : i \in DOMAIN objectives}

(* The deadline loses no line already on the map: whatever was shown with  *)
(* geometry is in the document as it was last shown, and a timeout with    *)
(* nothing in it is only reported when there was nothing to keep.          *)
DeadlineKeepsTheLines ==
    \A a \in Entries(answers) : a.kind \in {"truncated", "timeout"} =>
        LET lines == {o \in DOMAIN partial : partial[o].geometry} IN
        /\ Ids(a) = lines
        /\ a.kind = "timeout" <=> lines = {}
        /\ \A r \in a.routes : r.card = partial[r.id]

(* A route once shown as blocked never comes back as one that can be used, *)
(* whichever of the survey, the engine and the narrator fail later.        *)
BlockedStaysBlocked ==
    [][\A o \in DOMAIN partial :
          partial[o].status = "blocked" => partial'[o].status = "blocked"]_vars

(* Absence of data is not absence of barriers: no card claims that gates   *)
(* and stiles were checked unless a usable survey came back.               *)
AbsenceIsNotClearance ==
    \A o \in DOMAIN partial : partial[o].checked => survey = "usable"

(* The generator keeps the promise both transports build on, including     *)
(* that it ends although nothing upstream need ever answer.                *)
Phase == CASE pc = "finished" -> "answered"
           [] pc = "drained" -> "spent"
           [] pc = "over" -> "ended"
           [] OTHER -> "working"
Given == [i \in DOMAIN answers |-> answers[i].kind]
Source == INSTANCE EventSource WITH phase <- Phase, given <- Given
ImplementsEventSource == Source!Spec

(* The test of the stream: exactly one done event. *)
OneDocument == Cardinality({i \in DOMAIN answers :
                              answers[i].kind \in {"done", "truncated"}}) <= 1

(* docs/API.md: a blocked route still occupies its slot in routes. *)
BlockedKeepsItsSlot ==
    \A a \in Documents : \A o \in DOMAIN partial :
        partial[o].status = "blocked" => o \in Ids(a)

=============================================================================
