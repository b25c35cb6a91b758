-------------------------- MODULE RouteEventsProofs --------------------------
(***************************************************************************)
(* Theorems about RouteEvents, for any presets and any request.            *)
(*                                                                         *)
(* The argument follows the pipeline: what the client has been shown and   *)
(* what has been built are related place by place, and the relation says   *)
(* of every objective that it is either still to be shown by the loop the  *)
(* generator is in, or shown as it was built.  The documents are then what *)
(* the relation says at the place where they are made, and nothing moves   *)
(* behind them.                                                            *)
(***************************************************************************)
EXTENDS RouteEvents, WellFoundedInduction, TLAPS

Kinds == {"done", "truncated", "timeout", "raised"}
AnswersTyped ==
    answers \in Seq([kind : Kinds, routes : SUBSET [place : Nat, id : Asked, card : Card]])

(* Nothing is answered while the generator works, and nothing is shown     *)
(* before the routers have been asked.                                     *)
Unanswered ==
    /\ pc \notin {"finished", "drained", "over"} => answers = << >>
    /\ pc \in {"preflight", "baseline", "fastest", "rest"} => todo = {} /\ DOMAIN partial = {}

(* Every objective asked for is routed or blocked.                         *)
Built ==
    /\ pc \in {"preflight", "baseline", "fastest"} => DOMAIN routes = {}
    /\ pc \in {"preflight", "baseline", "fastest", "rest"} => Routed \cap Rest = {}
    /\ pc = "rest" => DOMAIN routes = (Asked \ Rest) \ Routed
    /\ pc \in {"first", "blocked"} => DOMAIN routes = Asked \ Routed
    /\ pc \in {"rest", "first", "blocked"} => \A o \in DOMAIN routes : routes[o] = BlockedRoute

(* The first pass, and the blocked routes behind it.                       *)
FirstPass ==
    /\ pc = "first" => todo \subseteq Routed /\ DOMAIN partial = Routed \ todo
    /\ pc = "blocked" =>
          /\ todo \subseteq Asked \ Routed /\ DOMAIN partial = Asked \ todo
          /\ \A o \in (Asked \ Routed) \ todo : partial[o] = BlockedRoute
    /\ pc \in {"first", "blocked"} =>
          \A o \in Routed \cap DOMAIN partial : partial[o] = ScoredRoute(o, access[o], TRUE)

(* The second pass: what it has not reached stands as the first left it.   *)
SecondPass ==
    pc = "second" =>
        /\ todo \subseteq Routed /\ DOMAIN partial = Asked /\ DOMAIN routes = Asked \ todo
        /\ \A o \in todo : partial[o] = ScoredRoute(o, access[o], TRUE)
        /\ \A o \in Asked \ todo :
              routes[o] = partial[o] /\ ~routes[o].pending /\ ~routes[o].narrated

(* The narration changes nothing but the narration.                        *)
Narration ==
    pc = "narrated" =>
        /\ todo \subseteq Asked /\ DOMAIN partial = Asked /\ DOMAIN routes = Asked
        /\ \A o \in Asked :
              /\ routes[o] = [partial[o] EXCEPT !.narrated = routes[o].narrated]
              /\ ~routes[o].pending
              /\ o \notin todo => routes[o] = partial[o]

(* A line on the map is a routed objective's, and once a document can be   *)
(* made there is one.                                                      *)
Lines ==
    /\ \A o \in DOMAIN partial : partial[o].geometry => o \in Routed
    /\ pc \in {"first", "blocked", "second", "narrated"} =>
          Routed # {} /\ \A o \in Routed \cap DOMAIN partial : partial[o].geometry
    /\ pc = "finished" => Usable # {}

(* What was checked was surveyed.                                          *)
Surveyed ==
    /\ pc \notin {"second", "narrated", "finished", "drained", "over"} => survey = "unknown"
    /\ pc \in {"second", "narrated"} => survey # "unknown"
    /\ survey # "usable" =>
          /\ \A o \in Presets : ~access[o].checked
          /\ \A o \in DOMAIN partial : ~partial[o].checked
          /\ \A o \in DOMAIN routes : ~routes[o].checked

EventsInv ==
    /\ DoneSettlesTheStream /\ DeadlineKeepsTheLines
    /\ AnswersTyped /\ Unanswered /\ Built /\ FirstPass /\ SecondPass /\ Narration
    /\ Lines /\ Surveyed


-----------------------------------------------------------------------------
(* A request names its objectives once each, so each has one place.        *)
LEMMA AskedOnce ==
    ASSUME objectives \in Requests
    PROVE  /\ Asked \subseteq Presets /\ DOMAIN objectives \subseteq Nat
           /\ Place \in [Asked -> Nat] /\ Turn \in [Asked -> Nat]
           /\ \A i \in DOMAIN objectives :
                 objectives[i] \in Asked /\ Place[objectives[i]] = i
           /\ \A o \in Asked : Place[o] \in DOMAIN objectives /\ objectives[Place[o]] = o
<1>1. PICK n \in 1..MaxObjectives : objectives \in [1..n -> Presets] BY DEF Requests
<1>2. MaxObjectives \in Nat BY PresetAssumption
<1>3. DOMAIN objectives \subseteq Nat BY <1>1, <1>2
<1>4. Asked \subseteq Presets BY <1>1 DEF Asked, Entries
<1>5. \A o \in Asked : \E i \in DOMAIN objectives : objectives[i] = o BY DEF Asked, Entries
<1>6. \A o \in Asked : Place[o] \in DOMAIN objectives /\ objectives[Place[o]] = o
  BY <1>5 DEF Place
<1>7. \A i \in DOMAIN objectives : objectives[i] \in Asked BY DEF Asked, Entries
<1>8. \A i, j \in DOMAIN objectives : objectives[i] = objectives[j] => i = j BY DEF Requests
<1>9. \A i \in DOMAIN objectives : Place[objectives[i]] = i BY <1>6, <1>7, <1>8
<1>10. Place \in [Asked -> Nat]
  <2>1. Place = [o \in Asked |-> Place[o]] BY DEF Place
  <2> QED BY <1>3, <1>6, <2>1
<1>11. Turn \in [Asked -> Nat] BY <1>10 DEF Turn
<1> QED BY <1>3, <1>4, <1>6, <1>7, <1>9, <1>10, <1>11

(* There is a first of the objectives still to be shown.                   *)
LEMMA FirstIsOne ==
    ASSUME objectives \in Requests, todo \subseteq Asked, todo # {}
    PROVE  First \in todo
<1> DEFINE Turns == {Turn[o] : o \in todo}
<1>1. Turn \in [Asked -> Nat] BY AskedOnce
<1>2. Turns \subseteq Nat /\ Turns # {} BY <1>1
<1>3. PICK n \in Turns : \A m \in Turns : <<m, n>> \notin OpToRel(<, Nat)
  BY <1>2, NatLessThanWellFounded, WFMin
<1>4. PICK o \in todo : Turn[o] = n BY <1>3
<1>5. \A p \in todo : Turn[o] <= Turn[p]
  <2> TAKE p \in todo
  <2>1. Turn[p] \in Turns /\ Turn[p] \in Nat /\ n \in Nat BY <1>1, <1>2, <1>3
  <2>2. Turn[p] < n => <<Turn[p], n>> \in OpToRel(<, Nat) BY <2>1, Zenon DEF OpToRel
  <2>3. ~(Turn[p] < n) BY <1>3, <2>1, <2>2, Zenon
  <2> QED BY <1>4, <2>1, <2>3
<1> QED BY <1>5 DEF First

(* What Put, Answer and the two ways of building a card return.            *)
LEMMA PutOne ==
    ASSUME NEW f, NEW o, NEW card
    PROVE  /\ DOMAIN Put(f, o, card) = DOMAIN f \cup {o} /\ Put(f, o, card)[o] = card
           /\ \A x \in DOMAIN f : x # o => Put(f, o, card)[x] = f[x]
BY DEF Put

LEMMA ShowOne ==
    ASSUME NEW o, NEW card, Show(o, card)
    PROVE  /\ DOMAIN partial' = DOMAIN partial \cup {o} /\ partial'[o] = card
           /\ \A p \in DOMAIN partial : p # o => partial'[p] = partial[p]
BY DEF Show, Put

LEMMA AnswerOne ==
    ASSUME NEW T, answers \in Seq(T), NEW kind, NEW payload,
           [kind |-> kind, routes |-> payload] \in T, Answer(kind, payload)
    PROVE  /\ answers' \in Seq(T) /\ Len(answers') = Len(answers) + 1
           /\ Entries(answers') = Entries(answers) \cup {[kind |-> kind, routes |-> payload]}
<1> DEFINE a == [kind |-> kind, routes |-> payload]
<1>1. answers' = Append(answers, a) BY DEF Answer
<1>2. /\ Len(answers) \in Nat /\ DOMAIN answers = 1..Len(answers)
      /\ DOMAIN answers' = 1..(Len(answers) + 1)
      /\ answers'[Len(answers) + 1] = a
      /\ \A i \in 1..Len(answers) : answers'[i] = answers[i]
  BY <1>1
<1>3. \A i \in 1..(Len(answers) + 1) : i \in 1..Len(answers) \/ i = Len(answers) + 1
  BY <1>2
<1>4. Entries(answers') = Entries(answers) \cup {a}
  <2>1. Entries(answers') \subseteq Entries(answers) \cup {a} BY <1>2, <1>3 DEF Entries
  <2>2. Entries(answers) \subseteq Entries(answers') BY <1>2 DEF Entries
  <2>3. a \in Entries(answers') BY <1>2 DEF Entries
  <2> QED BY <2>1, <2>2, <2>3
<1>5. answers' \in Seq(T) /\ Len(answers') = Len(answers) + 1 BY <1>1
<1> QED BY <1>4, <1>5

LEMMA BlockedTyped ==
    /\ BlockedRoute \in Card /\ ~BlockedRoute.checked /\ ~BlockedRoute.geometry
    /\ ~BlockedRoute.pending /\ ~BlockedRoute.narrated
BY DEF BlockedRoute, Card

LEMMA ScoredTyped ==
    ASSUME NEW o, NEW assessment \in Assessments, NEW isPending \in BOOLEAN
    PROVE  /\ ScoredRoute(o, assessment, isPending) \in Card
           /\ ScoredRoute(o, assessment, isPending).checked = assessment.checked
           /\ ScoredRoute(o, assessment, isPending).pending = isPending
           /\ ScoredRoute(o, assessment, isPending).geometry
           /\ ~ScoredRoute(o, assessment, isPending).narrated
BY DEF ScoredRoute, Card, Assessments

-----------------------------------------------------------------------------
(* The part of the type that is not about documents, and of the invariant. *)
StateOK ==
    /\ objectives \in Requests /\ pc \in Places
    /\ attempt \in [Presets -> {"untried", "routed", "noroute", "failed"}]
    /\ access \in [Presets -> Assessments]
    /\ survey \in {"unknown", "absent", "usable"}
    /\ DOMAIN routes \subseteq Asked /\ \A o \in DOMAIN routes : routes[o] \in Card
    /\ DOMAIN partial \subseteq Asked /\ \A o \in DOMAIN partial : partial[o] \in Card
    /\ todo \subseteq Asked

Progress ==
    /\ StateOK /\ Unanswered /\ Built /\ FirstPass /\ SecondPass /\ Narration
    /\ Lines /\ Surveyed

LEMMA StateOfInv == EventsInv => StateOK /\ Progress
BY DEF EventsInv, DoneSettlesTheStream, TypeOK, StateOK, Progress

(* The request raises, in the middle of anything that shows nothing more.  *)
LEMMA RaiseStays ==
    ASSUME Progress, pc' = "over", objectives' = objectives, access' = access,
           survey' = survey, partial' = partial, todo' = todo,
           attempt' \in [Presets -> {"untried", "routed", "noroute", "failed"}],
           attempt' = attempt \/ DOMAIN partial = {},
           DOMAIN routes' \subseteq Asked,
           \A o \in DOMAIN routes' :
               routes'[o] = BlockedRoute \/ (o \in DOMAIN routes /\ routes'[o] = routes[o])
    PROVE  Progress'
<1>0. Asked' = Asked BY DEF Asked, Entries
<1>1. StateOK' BY <1>0, BlockedTyped DEF Progress, StateOK, Places
<1>2. Unanswered' /\ Built' /\ FirstPass' /\ SecondPass' /\ Narration'
  BY DEF Unanswered, Built, FirstPass, SecondPass, Narration
<1>3. Lines'
  <2>1. attempt' = attempt => Routed' = Routed BY <1>0 DEF Routed
  <2> QED BY <2>1 DEF Progress, Lines
<1>4. Surveyed' BY BlockedTyped DEF Progress, Surveyed
<1> QED BY <1>1, <1>2, <1>3, <1>4 DEF Progress

LEMMA PreflightStays == ASSUME Progress, Preflight PROVE Progress'
<1>1. CASE pc' = "over"
  <2>1. DOMAIN routes \subseteq Asked BY DEF Progress, StateOK
  <2> QED BY <1>1, <2>1, RaiseStays DEF Preflight, Progress, StateOK
<1>2. CASE pc' = "baseline"
  <2>0. Asked' = Asked /\ Routed' = Routed BY DEF Preflight, Asked, Entries, Routed
  <2>a. answers' = answers BY <1>2 DEF Preflight, Raise
  <2>1. StateOK' BY <1>2, <2>0 DEF Preflight, Progress, StateOK, Places
  <2>2. Unanswered' BY <1>2, <2>a DEF Preflight, Progress, Unanswered
  <2>3. Built' BY <1>2, <2>0 DEF Preflight, Progress, Built, Rest
  <2>4. FirstPass' /\ SecondPass' /\ Narration' BY <1>2 DEF FirstPass, SecondPass, Narration
  <2>5. Lines' BY <1>2, <2>0 DEF Preflight, Progress, Lines
  <2>6. Surveyed' BY <1>2 DEF Preflight, Progress, Surveyed
  <2> QED BY <2>1, <2>2, <2>3, <2>4, <2>5, <2>6 DEF Progress
<1> QED BY <1>1, <1>2 DEF Preflight, Raise

LEMMA BaselineStays == ASSUME Progress, Baseline PROVE Progress'
<1>0. Asked' = Asked /\ "fastest" \in Presets BY PresetAssumption DEF Baseline, Asked, Entries
<1>1. pc' = "fastest" /\ pc = "baseline" BY DEF Baseline
<1>2. attempt' \in [Presets -> {"untried", "routed", "noroute", "failed"}]
  BY <1>0 DEF Baseline, Progress, StateOK
<1>3. StateOK' BY <1>0, <1>1, <1>2 DEF Baseline, Progress, StateOK, Places
<1>4. Unanswered' BY <1>1 DEF Baseline, Progress, Unanswered
<1>5. Built'
  <2>1. Routed \cap Rest = {} /\ Rest' = Rest /\ "fastest" \notin Rest
    BY <1>0, <1>1 DEF Progress, Built, Rest
  <2>2. \A o \in Rest : attempt'[o] = attempt[o]
    BY <1>0, <2>1, AskedOnce DEF Baseline, Progress, StateOK, Rest
  <2>3. Routed' \cap Rest' = {} BY <1>0, <2>1, <2>2 DEF Routed, Rest
  <2> QED BY <1>1, <2>3 DEF Baseline, Progress, Built
<1>6. FirstPass' /\ SecondPass' /\ Narration' BY <1>1 DEF FirstPass, SecondPass, Narration
<1>7. Lines' BY <1>1 DEF Baseline, Progress, Unanswered, Lines
<1>8. Surveyed' BY <1>1 DEF Baseline, Progress, Surveyed
<1> QED BY <1>3, <1>4, <1>5, <1>6, <1>7, <1>8 DEF Progress

LEMMA RunFastestStays == ASSUME Progress, RunFastest PROVE Progress'
<1>0. Asked' = Asked /\ "fastest" \in Presets BY PresetAssumption DEF RunFastest, Asked, Entries
<1>1. /\ pc = "fastest" /\ DOMAIN partial = {} /\ DOMAIN routes = {} /\ todo = {}
      /\ answers = << >>
      /\ attempt \in [Presets -> {"untried", "routed", "noroute", "failed"}]
  BY DEF RunFastest, Progress, Unanswered, Built, StateOK
<1>2. /\ attempt' \in [Presets -> {"untried", "routed", "noroute", "failed"}]
      /\ DOMAIN routes' \subseteq Asked
      /\ \A o \in DOMAIN routes' : routes'[o] = BlockedRoute
  <2>1. CASE "fastest" \notin Asked BY <1>1, <2>1 DEF RunFastest
  <2>2. CASE "fastest" \in Asked BY <1>0, <1>1, <2>2 DEF RunFastest, Put
  <2> QED BY <2>1, <2>2
<1>3. CASE pc' = "over" BY <1>1, <1>2, <1>3, RaiseStays DEF RunFastest
<1>4. CASE pc' = "rest"
  <2>1. DOMAIN routes' = (Asked' \ Rest') \ Routed'
    <3>1. CASE "fastest" \notin Asked
      BY <1>0, <1>1, <3>1 DEF RunFastest, Rest
    <3>2. CASE "fastest" \in Asked
      <4>1. PICK how \in {"routed", "noroute"} :
              /\ attempt' = [attempt EXCEPT !["fastest"] = how]
              /\ routes' = IF how = "noroute" THEN Put(routes, "fastest", BlockedRoute) ELSE routes
        BY <1>4, <3>2 DEF RunFastest, Raise
      <4>2. DOMAIN routes' = IF how = "noroute" THEN {"fastest"} ELSE {}
        BY <1>1, <4>1 DEF Put
      <4>3. Asked' \ Rest' = {"fastest"} BY <1>0, <3>2 DEF Rest
      <4>4. "fastest" \in Routed' <=> how = "routed" BY <1>0, <1>1, <3>2, <4>1 DEF Routed
      <4> QED BY <4>2, <4>3, <4>4
    <3> QED BY <3>1, <3>2
  <2>2. answers' = answers BY <1>4 DEF RunFastest, Raise
  <2>3. StateOK' BY <1>0, <1>2, <1>4, BlockedTyped DEF RunFastest, Progress, StateOK, Places
  <2>4. Unanswered' BY <1>1, <1>4, <2>2 DEF RunFastest, Progress, Unanswered
  <2>5. Built'
    <3>1. Routed \cap Rest = {} /\ Rest' = Rest /\ "fastest" \notin Rest
      BY <1>0, <1>1 DEF Progress, Built, Rest
    <3>2. \A o \in Rest : attempt'[o] = attempt[o]
      BY <1>1, <3>1, AskedOnce DEF RunFastest, Progress, StateOK, Rest
    <3>3. Routed' \cap Rest' = {} BY <1>0, <3>1, <3>2 DEF Routed, Rest
    <3> QED BY <1>2, <1>4, <2>1, <3>3 DEF Built
  <2>6. FirstPass' /\ SecondPass' /\ Narration' BY <1>4 DEF FirstPass, SecondPass, Narration
  <2>7. Lines' BY <1>1, <1>4 DEF RunFastest, Lines
  <2>8. Surveyed' BY <1>1, <1>2, <1>4, BlockedTyped DEF RunFastest, Progress, Surveyed
  <2> QED BY <2>3, <2>4, <2>5, <2>6, <2>7, <2>8 DEF Progress
<1> QED BY <1>3, <1>4 DEF RunFastest, Raise

LEMMA RunRestStays == ASSUME Progress, RunRest PROVE Progress'
<1>0. Asked' = Asked /\ Rest' = Rest /\ Asked \subseteq Presets
  BY AskedOnce DEF RunRest, Rest, Asked, Entries, Progress, StateOK
<1>1. /\ pc = "rest" /\ DOMAIN partial = {} /\ todo = {} /\ answers = << >>
      /\ DOMAIN routes = (Asked \ Rest) \ Routed
      /\ attempt \in [Presets -> {"untried", "routed", "noroute", "failed"}]
  BY DEF RunRest, Progress, Unanswered, Built, StateOK
<1>2. PICK how \in [Rest -> {"routed", "noroute", "failed"}] :
        LET unrouted == {o \in Rest : how[o] # "routed"}
            someRouted == unrouted # Rest \/ Routed # {}
        IN
        /\ attempt' = [o \in Presets |-> IF o \in Rest THEN how[o] ELSE attempt[o]]
        /\ routes' = [o \in DOMAIN routes \cup unrouted |-> BlockedRoute]
        /\ IF someRouted
           THEN /\ pc' = "first"
                /\ todo' = {o \in Asked : attempt'[o] = "routed"}
                /\ UNCHANGED answers
           ELSE Raise /\ UNCHANGED todo
  BY DEF RunRest
<1>3. attempt' \in [Presets -> {"untried", "routed", "noroute", "failed"}] BY <1>1, <1>2
<1>4. Routed' = (Routed \ Rest) \cup {o \in Rest : how[o] = "routed"}
  BY <1>0, <1>1, <1>2 DEF Routed, Rest
<1>5. DOMAIN routes' = Asked \ Routed' BY <1>1, <1>2, <1>4 DEF Routed, Rest
<1>6. \A o \in DOMAIN routes' : routes'[o] = BlockedRoute BY <1>2
<1>7. CASE pc' = "over"
  <2>1. todo' = todo BY <1>2, <1>7 DEF Raise
  <2>2. DOMAIN routes' \subseteq Asked BY <1>5
  <2> QED BY <1>1, <1>3, <1>6, <1>7, <2>1, <2>2, RaiseStays DEF RunRest
<1>8. CASE pc' = "first"
  <2>1. /\ todo' = Routed' /\ answers' = answers
        /\ {o \in Rest : how[o] # "routed"} # Rest \/ Routed # {}
    BY <1>0, <1>2, <1>8 DEF Raise, Routed
  <2>2. Routed' # {}
    <3>1. Routed \cap Rest = {} BY <1>1 DEF Progress, Built
    <3> QED BY <1>4, <2>1, <3>1
  <2>3. StateOK' BY <1>0, <1>3, <1>5, <1>6, <1>8, <2>1, BlockedTyped
          DEF RunRest, Progress, StateOK, Places, Routed
  <2>4. Unanswered' BY <1>1, <1>8, <2>1 DEF Unanswered
  <2>5. Built' BY <1>0, <1>5, <1>6, <1>8 DEF Built
  <2>6. FirstPass' BY <1>1, <1>8, <2>1 DEF RunRest, FirstPass
  <2>7. SecondPass' /\ Narration' BY <1>8 DEF SecondPass, Narration
  <2>8. Lines' BY <1>1, <1>8, <2>2 DEF RunRest, Lines
  <2>9. Surveyed' BY <1>1, <1>6, <1>8, BlockedTyped DEF RunRest, Progress, Surveyed
  <2> QED BY <2>3, <2>4, <2>5, <2>6, <2>7, <2>8, <2>9 DEF Progress
<1> QED BY <1>2, <1>7, <1>8 DEF Raise


LEMMA ShowFirstStays == ASSUME Progress, ShowFirst PROVE Progress'
<1>0. /\ Asked' = Asked /\ Routed' = Routed /\ Asked \subseteq Presets
      /\ Routed \subseteq Asked
  BY AskedOnce DEF ShowFirst, Asked, Entries, Routed, Progress, StateOK
<1>1. /\ pc = "first" /\ pc' = "first" /\ todo # {} /\ todo \subseteq Routed
      /\ DOMAIN partial = Routed \ todo /\ answers = << >> /\ survey = "unknown"
      /\ access \in [Presets -> Assessments]
  BY DEF ShowFirst, Progress, FirstPass, Unanswered, Surveyed, StateOK
<1>2. First \in todo BY <1>0, <1>1, FirstIsOne DEF Progress, StateOK
<1> DEFINE o == First
<1>3. PICK verdict \in {"none", "clear", "barred"} :
        /\ access' = [access EXCEPT ![o] = [verdict |-> verdict, checked |-> FALSE]]
        /\ Show(o, ScoredRoute(o, access'[o], TRUE))
  BY DEF ShowFirst
<1> HIDE DEF o
<1>4. o \in todo /\ o \in Routed /\ o \in Presets /\ todo' = todo \ {o}
  BY <1>0, <1>1, <1>2 DEF ShowFirst, o
<1>5. /\ access' \in [Presets -> Assessments] /\ ~access'[o].checked
      /\ \A p \in Presets : p # o => access'[p] = access[p]
  BY <1>1, <1>3, <1>4 DEF Assessments
<1>6. /\ DOMAIN partial' = DOMAIN partial \cup {o}
      /\ partial'[o] = ScoredRoute(o, access'[o], TRUE)
      /\ \A p \in DOMAIN partial : p # o => partial'[p] = partial[p]
  BY <1>3, ShowOne
<1>7. partial'[o] \in Card /\ partial'[o].geometry /\ ~partial'[o].checked
  <2>1. access'[o] \in Assessments BY <1>4, <1>5
  <2>2. TRUE \in BOOLEAN OBVIOUS
  <2>3. /\ ScoredRoute(o, access'[o], TRUE) \in Card
        /\ ScoredRoute(o, access'[o], TRUE).geometry
        /\ ScoredRoute(o, access'[o], TRUE).checked = access'[o].checked
    BY <2>1, <2>2, ScoredTyped, Zenon
  <2> QED BY <1>5, <1>6, <2>3
<1>8. StateOK' BY <1>0, <1>1, <1>4, <1>5, <1>6, <1>7 DEF ShowFirst, Progress, StateOK
<1>9. Unanswered' BY <1>1 DEF ShowFirst, Unanswered
<1>10. Built' BY <1>0, <1>1 DEF ShowFirst, Progress, Built
<1>11. FirstPass'
  <2>1. DOMAIN partial' = Routed' \ todo' BY <1>0, <1>1, <1>4, <1>6
  <2>2. \A p \in Routed' \cap DOMAIN partial' : partial'[p] = ScoredRoute(p, access'[p], TRUE)
    <3> TAKE p \in Routed' \cap DOMAIN partial'
    <3>1. CASE p = o BY <1>6, <3>1
    <3>2. CASE p # o
      <4>1. p \in Routed \cap DOMAIN partial /\ p \in Presets BY <1>0, <1>6, <3>2
      <4>2. partial[p] = ScoredRoute(p, access[p], TRUE)
        BY <1>1, <4>1 DEF Progress, FirstPass
      <4> QED BY <1>5, <1>6, <3>2, <4>1, <4>2
    <3> QED BY <3>1, <3>2
  <2> QED BY <1>0, <1>1, <1>4, <2>1, <2>2 DEF FirstPass
<1>12. SecondPass' /\ Narration' BY <1>1 DEF SecondPass, Narration
<1>13. Lines' BY <1>0, <1>1, <1>4, <1>6, <1>7 DEF Progress, Lines
<1>14. Surveyed' BY <1>1, <1>4, <1>5, <1>6, <1>7 DEF ShowFirst, Progress, Surveyed
<1> QED BY <1>8, <1>9, <1>10, <1>11, <1>12, <1>13, <1>14 DEF Progress

LEMMA FirstShownStays == ASSUME Progress, FirstShown PROVE Progress'
<1>0. Asked' = Asked /\ Routed' = Routed BY DEF FirstShown, Asked, Entries, Routed
<1>1. /\ pc = "first" /\ pc' = "blocked" /\ todo = {} /\ DOMAIN partial = Routed
      /\ todo' = DOMAIN routes /\ DOMAIN routes = Asked \ Routed
  BY DEF FirstShown, Progress, FirstPass, Built
<1>2. StateOK' BY <1>0, <1>1 DEF FirstShown, Progress, StateOK, Places
<1>3. Unanswered' BY <1>1 DEF FirstShown, Progress, Unanswered
<1>4. Built' BY <1>0, <1>1 DEF FirstShown, Progress, Built
<1>5. FirstPass'
  <2>1. DOMAIN partial = Asked \ (Asked \ Routed) BY <1>1 DEF Routed
  <2>2. \A o \in Routed \cap DOMAIN partial : partial[o] = ScoredRoute(o, access[o], TRUE)
    BY <1>1 DEF Progress, FirstPass
  <2> QED BY <1>0, <1>1, <2>1, <2>2 DEF FirstShown, FirstPass
<1>6. SecondPass' /\ Narration' BY <1>1 DEF SecondPass, Narration
<1>7. Lines' BY <1>0, <1>1 DEF FirstShown, Progress, Lines
<1>8. Surveyed' BY <1>1 DEF FirstShown, Progress, Surveyed
<1> QED BY <1>2, <1>3, <1>4, <1>5, <1>6, <1>7, <1>8 DEF Progress

LEMMA ShowBlockedStays == ASSUME Progress, ShowBlocked PROVE Progress'
<1>0. Asked' = Asked /\ Routed' = Routed BY DEF ShowBlocked, Asked, Entries, Routed
<1>1. /\ pc = "blocked" /\ pc' = "blocked" /\ todo # {} /\ todo \subseteq Asked \ Routed
      /\ DOMAIN partial = Asked \ todo /\ DOMAIN routes = Asked \ Routed
  BY DEF ShowBlocked, Progress, FirstPass, Built
<1>2. First \in todo BY <1>1, FirstIsOne DEF Progress, StateOK
<1> DEFINE o == First
<1>3. Show(o, routes[o]) /\ todo' = todo \ {o} /\ o \in todo BY <1>2 DEF ShowBlocked
<1> HIDE DEF o
<1>4. routes[o] = BlockedRoute BY <1>1, <1>3 DEF Progress, Built
<1>5. /\ DOMAIN partial' = DOMAIN partial \cup {o} /\ partial'[o] = BlockedRoute
      /\ \A p \in DOMAIN partial : p # o => partial'[p] = partial[p]
  BY <1>3, <1>4, ShowOne
<1>6. StateOK' BY <1>0, <1>1, <1>3, <1>5, BlockedTyped DEF ShowBlocked, Progress, StateOK
<1>7. Unanswered' BY <1>1 DEF ShowBlocked, Progress, Unanswered
<1>8. Built' BY <1>0, <1>1 DEF ShowBlocked, Progress, Built
<1>9. FirstPass'
  <2>1. DOMAIN partial' = Asked' \ todo' /\ todo' \subseteq Asked' \ Routed'
    BY <1>0, <1>1, <1>3, <1>5
  <2>2. \A p \in (Asked' \ Routed') \ todo' : partial'[p] = BlockedRoute
    <3> TAKE p \in (Asked' \ Routed') \ todo'
    <3>1. CASE p = o BY <1>5, <3>1
    <3>2. CASE p # o
      <4>1. p \in (Asked \ Routed) \ todo /\ p \in DOMAIN partial BY <1>0, <1>1, <1>3, <3>2
      <4> QED BY <1>1, <1>5, <3>2, <4>1 DEF Progress, FirstPass
    <3> QED BY <3>1, <3>2
  <2>3. \A p \in Routed' \cap DOMAIN partial' : partial'[p] = ScoredRoute(p, access'[p], TRUE)
    <3> TAKE p \in Routed' \cap DOMAIN partial'
    <3>1. p \in Routed \cap DOMAIN partial /\ p # o BY <1>0, <1>1, <1>3, <1>5
    <3>2. partial[p] = ScoredRoute(p, access[p], TRUE) BY <1>1, <3>1 DEF Progress, FirstPass
    <3>3. access' = access BY DEF ShowBlocked
    <3> QED BY <1>5, <3>1, <3>2, <3>3
  <2> QED BY <1>1, <2>1, <2>2, <2>3 DEF FirstPass
<1>10. SecondPass' /\ Narration' BY <1>1 DEF SecondPass, Narration
<1>11. Lines' BY <1>0, <1>1, <1>3, <1>5, BlockedTyped DEF ShowBlocked, Progress, Lines
<1>12. Surveyed' BY <1>1, <1>5, BlockedTyped DEF ShowBlocked, Progress, Surveyed
<1> QED BY <1>6, <1>7, <1>8, <1>9, <1>10, <1>11, <1>12 DEF Progress

LEMMA EnrichStays == ASSUME Progress, Enrich PROVE Progress'
<1>0. /\ Asked' = Asked /\ Routed' = Routed /\ Routed \subseteq Asked
  BY DEF Enrich, Asked, Entries, Routed
<1>1. /\ pc = "blocked" /\ pc' = "second" /\ todo = {} /\ todo' = Routed
      /\ DOMAIN partial = Asked /\ DOMAIN routes = Asked \ Routed /\ survey = "unknown"
  BY DEF Enrich, Progress, FirstPass, Built, Surveyed
<1>2. /\ \A o \in Asked \ Routed : partial[o] = BlockedRoute /\ routes[o] = BlockedRoute
      /\ \A o \in Routed : partial[o] = ScoredRoute(o, access[o], TRUE)
  BY <1>0, <1>1 DEF Progress, FirstPass, Built
<1>3. StateOK' BY <1>0, <1>1 DEF Enrich, Progress, StateOK, Places
<1>4. Unanswered' BY <1>1 DEF Enrich, Progress, Unanswered
<1>5. Built' /\ FirstPass' /\ Narration' BY <1>1 DEF Built, FirstPass, Narration
<1>6. SecondPass' BY <1>0, <1>1, <1>2, BlockedTyped DEF Enrich, SecondPass
<1>7. Lines' BY <1>0, <1>1 DEF Enrich, Progress, Lines
<1>8. Surveyed' BY <1>1 DEF Enrich, Progress, Surveyed
<1> QED BY <1>3, <1>4, <1>5, <1>6, <1>7, <1>8 DEF Progress


(* The second pass's assessment: checked only if there was a survey, and   *)
(* barred if the first pass's was.                                         *)
LEMMA ReassessedTyped ==
    ASSUME NEW first \in Assessments, NEW engine \in {"none", "clear", "barred"}
    PROVE  /\ Reassessed(first, engine) \in Assessments
           /\ survey = "absent" => Reassessed(first, engine) = first
           /\ first.verdict = "barred" /\ engine # "clear" =>
                 Reassessed(first, engine).verdict = "barred"
BY DEF Reassessed, Assessments

(* The route that the second pass shows next, and its card before and now. *)
LEMMA ShowSecondShows ==
    ASSUME Progress, ShowSecond
    PROVE  \E o \in todo, engine \in {"none", "clear", "barred"} :
              /\ o \in Routed /\ o \in Presets /\ todo' = todo \ {o}
              /\ access[o].verdict = "barred" => engine # "clear"
              /\ access' = [access EXCEPT ![o] = Reassessed(@, engine)]
              /\ access[o] \in Assessments /\ access'[o] = Reassessed(access[o], engine)
              /\ access'[o] \in Assessments
              /\ routes' = Put(routes, o, ScoredRoute(o, access'[o], FALSE))
              /\ Show(o, routes'[o])
              /\ partial[o] = ScoredRoute(o, access[o], TRUE)
              /\ partial'[o] = ScoredRoute(o, access'[o], FALSE)
<1>1. pc = "second" /\ todo # {} /\ todo \subseteq Routed /\ todo \subseteq Asked
  BY DEF ShowSecond, Progress, SecondPass, StateOK
<1>2. First \in todo BY <1>1, FirstIsOne DEF Progress, StateOK
<1> DEFINE o == First
<1>3. PICK engine \in {"none", "clear", "barred"} :
        /\ access[o].verdict = "barred" => engine # "clear"
        /\ access' = [access EXCEPT ![o] = Reassessed(@, engine)]
        /\ routes' = Put(routes, o, ScoredRoute(o, access'[o], FALSE))
        /\ Show(o, routes'[o])
  BY DEF ShowSecond
<1>4. todo' = todo \ {o} BY DEF ShowSecond
<1>5. partial[o] = ScoredRoute(o, access[o], TRUE)
  BY <1>1, <1>2 DEF Progress, SecondPass
<1>6. o \in Routed /\ o \in Presets BY <1>1, <1>2, AskedOnce DEF Progress, StateOK
<1> HIDE DEF o
<1>7. o \in todo BY <1>2 DEF o
<1>8. access \in [Presets -> Assessments] BY DEF Progress, StateOK
<1>9. access[o] \in Assessments /\ access'[o] = Reassessed(access[o], engine)
  BY <1>3, <1>6, <1>8
<1>10. access'[o] \in Assessments BY <1>9, ReassessedTyped
<1>11. partial'[o] = ScoredRoute(o, access'[o], FALSE)
  <2>1. routes'[o] = ScoredRoute(o, access'[o], FALSE) BY <1>3 DEF Put
  <2> QED BY <1>3, <2>1, ShowOne
<1> QED BY <1>3, <1>4, <1>5, <1>6, <1>7, <1>9, <1>10, <1>11

LEMMA ShowSecondStays == ASSUME Progress, ShowSecond PROVE Progress'
<1>0. Asked' = Asked /\ Routed' = Routed BY DEF ShowSecond, Asked, Entries, Routed
<1>1. /\ pc = "second" /\ pc' = "second" /\ todo \subseteq Routed
      /\ DOMAIN partial = Asked /\ DOMAIN routes = Asked \ todo /\ survey' = survey
      /\ Routed \subseteq Asked /\ access \in [Presets -> Assessments] /\ Routed # {}
  BY DEF ShowSecond, Progress, SecondPass, StateOK, Routed, Lines
<1>2. PICK o \in todo, engine \in {"none", "clear", "barred"} :
        /\ o \in Routed /\ o \in Presets /\ todo' = todo \ {o}
        /\ access[o].verdict = "barred" => engine # "clear"
        /\ access' = [access EXCEPT ![o] = Reassessed(@, engine)]
        /\ access[o] \in Assessments /\ access'[o] = Reassessed(access[o], engine)
        /\ access'[o] \in Assessments
        /\ routes' = Put(routes, o, ScoredRoute(o, access'[o], FALSE))
        /\ Show(o, routes'[o])
        /\ partial[o] = ScoredRoute(o, access[o], TRUE)
        /\ partial'[o] = ScoredRoute(o, access'[o], FALSE)
  BY ShowSecondShows
<1> DEFINE card == ScoredRoute(o, access'[o], FALSE)
<1>3. /\ DOMAIN routes' = DOMAIN routes \cup {o} /\ routes'[o] = card
      /\ \A p \in DOMAIN routes : p # o => routes'[p] = routes[p]
  BY <1>2 DEF Put
<1>4. /\ DOMAIN partial' = DOMAIN partial \cup {o} /\ partial'[o] = card
      /\ \A p \in DOMAIN partial : p # o => partial'[p] = partial[p]
  BY <1>2, ShowOne
<1>5. /\ card \in Card /\ card.geometry /\ card.checked = access'[o].checked
      /\ card.pending = FALSE /\ ~card.narrated
  <2>1. FALSE \in BOOLEAN OBVIOUS
  <2> QED BY <1>2, <2>1, ScoredTyped, Zenon
<1>6. \A p \in Presets : p # o => access'[p] = access[p] BY <1>1, <1>2
<1>7. access' \in [Presets -> Assessments] BY <1>1, <1>2
<1> HIDE DEF card
<1>8. StateOK'
  <2>1. /\ DOMAIN routes' \subseteq Asked' /\ \A p \in DOMAIN routes' : routes'[p] \in Card
        /\ DOMAIN partial' \subseteq Asked' /\ \A p \in DOMAIN partial' : partial'[p] \in Card
    BY <1>0, <1>1, <1>2, <1>3, <1>4, <1>5 DEF Progress, StateOK
  <2> QED BY <1>0, <1>1, <1>2, <1>7, <2>1 DEF ShowSecond, Progress, StateOK
<1>9. Unanswered' BY <1>1 DEF ShowSecond, Progress, Unanswered
<1>10. Built' /\ FirstPass' /\ Narration' BY <1>1 DEF Built, FirstPass, Narration
<1>11. SecondPass'
  <2>1. todo' \subseteq Routed' /\ DOMAIN partial' = Asked' /\ DOMAIN routes' = Asked' \ todo'
    BY <1>0, <1>1, <1>2, <1>3, <1>4
  <2>2. \A p \in todo' : partial'[p] = ScoredRoute(p, access'[p], TRUE)
    <3> TAKE p \in todo'
    <3>1. p \in todo /\ p # o /\ p \in Asked /\ p \in Presets
      BY <1>0, <1>1, <1>2, AskedOnce DEF Progress, StateOK
    <3>2. partial[p] = ScoredRoute(p, access[p], TRUE) BY <1>1, <3>1 DEF Progress, SecondPass
    <3> QED BY <1>1, <1>4, <1>6, <3>1, <3>2
  <2>3. \A p \in Asked' \ todo' :
           routes'[p] = partial'[p] /\ ~routes'[p].pending /\ ~routes'[p].narrated
    <3> TAKE p \in Asked' \ todo'
    <3>1. CASE p = o BY <1>3, <1>4, <1>5, <3>1
    <3>2. CASE p # o
      <4>1. p \in Asked \ todo BY <1>0, <1>2, <3>2
      <4>2. routes[p] = partial[p] /\ ~routes[p].pending /\ ~routes[p].narrated
        BY <1>1, <4>1 DEF Progress, SecondPass
      <4> QED BY <1>1, <1>3, <1>4, <3>2, <4>1, <4>2
    <3> QED BY <3>1, <3>2
  <2> QED BY <2>1, <2>2, <2>3 DEF SecondPass
<1>12. Lines' BY <1>0, <1>1, <1>2, <1>4, <1>5 DEF Progress, Lines
<1>13. Surveyed'
  <2>1. ASSUME survey # "usable"
        PROVE  /\ \A p \in Presets : ~access'[p].checked
               /\ \A p \in DOMAIN partial' : ~partial'[p].checked
               /\ \A p \in DOMAIN routes' : ~routes'[p].checked
    <3>1. survey = "absent" BY <1>1, <2>1 DEF ShowSecond, Progress, StateOK, Surveyed
    <3>2. access'[o] = access[o] BY <1>2, <3>1, ReassessedTyped
    <3>3. ~access[o].checked BY <1>2, <2>1 DEF Progress, Surveyed
    <3>4. ~card.checked BY <1>5, <3>2, <3>3
    <3>5. \A p \in Presets : ~access'[p].checked
      <4> TAKE p \in Presets
      <4>1. ~access[p].checked BY <2>1 DEF Progress, Surveyed
      <4>2. access'[p] = access[p] BY <1>6, <3>2
      <4> QED BY <4>1, <4>2
    <3>6. \A p \in DOMAIN partial' : ~partial'[p].checked
      BY <1>4, <2>1, <3>4 DEF Progress, Surveyed
    <3>7. \A p \in DOMAIN routes' : ~routes'[p].checked
      BY <1>3, <2>1, <3>4 DEF Progress, Surveyed
    <3> QED BY <3>5, <3>6, <3>7
  <2>2. survey # "unknown" BY <1>1 DEF Progress, Surveyed
  <2> QED BY <1>1, <2>1, <2>2 DEF Surveyed
<1> QED BY <1>8, <1>9, <1>10, <1>11, <1>12, <1>13 DEF Progress


(* Narrating a card leaves the rest of it alone.                           *)
LEMMA NarratedCard ==
    ASSUME NEW card \in Card, NEW told \in BOOLEAN
    PROVE  /\ [card EXCEPT !.narrated = told] \in Card
           /\ [card EXCEPT !.narrated = told].narrated = told
           /\ [card EXCEPT !.narrated = told].status = card.status
           /\ [card EXCEPT !.narrated = told].geometry = card.geometry
           /\ [card EXCEPT !.narrated = told].pending = card.pending
           /\ [card EXCEPT !.narrated = told].checked = card.checked
           /\ card.narrated = told => [card EXCEPT !.narrated = told] = card
BY DEF Card

LEMMA NarrateStays == ASSUME Progress, Narrate PROVE Progress'
<1>0. Asked' = Asked /\ Routed' = Routed BY DEF Narrate, Asked, Entries, Routed
<1>1. /\ pc = "second" /\ pc' = "narrated" /\ todo = {} /\ survey' = survey
      /\ DOMAIN partial = Asked /\ DOMAIN routes = Asked /\ partial' = partial
      /\ access' = access
      /\ \A o \in Asked :
            routes[o] = partial[o] /\ ~routes[o].pending /\ ~routes[o].narrated
      /\ \A o \in Asked : routes[o] \in Card
  BY DEF Narrate, Progress, SecondPass, StateOK
<1>2. PICK told \in SUBSET Asked :
        /\ routes' = [o \in Asked |-> [routes[o] EXCEPT !.narrated = o \in told]]
        /\ todo' = told
  BY <1>1 DEF Narrate
<1>3. ASSUME NEW o \in Asked
      PROVE  /\ routes'[o] \in Card /\ ~routes'[o].pending
             /\ routes'[o].checked = routes[o].checked
             /\ routes'[o] = [partial[o] EXCEPT !.narrated = routes'[o].narrated]
             /\ o \notin told => routes'[o] = partial[o]
  <2> DEFINE said == o \in told
             card == routes[o]
  <2>1. said \in BOOLEAN /\ card \in Card /\ (o \notin told => said = FALSE) BY <1>1
  <2>2. routes'[o] = [card EXCEPT !.narrated = said] BY <1>2
  <2>3. card = partial[o] /\ ~card.pending /\ ~card.narrated BY <1>1
  <2>4. card.narrated \in BOOLEAN BY <1>1 DEF Card
  <2> HIDE DEF said, card
  <2>5. /\ [card EXCEPT !.narrated = said] \in Card
        /\ [card EXCEPT !.narrated = said].narrated = said
        /\ [card EXCEPT !.narrated = said].pending = card.pending
        /\ [card EXCEPT !.narrated = said].checked = card.checked
        /\ card.narrated = said => [card EXCEPT !.narrated = said] = card
    BY <2>1, NarratedCard
  <2>6. o \notin told => card.narrated = said BY <2>1, <2>3, <2>4
  <2>7. routes[o].checked = card.checked BY DEF card
  <2>8. routes'[o] \in Card /\ ~routes'[o].pending /\ routes'[o].checked = routes[o].checked
    <3>1. ~[card EXCEPT !.narrated = said].pending BY <2>3, <2>5, Zenon
    <3> QED BY <2>2, <2>5, <2>7, <3>1, Zenon
  <2>9. routes'[o].narrated = said BY <2>2, <2>5
  <2>10. routes'[o] = [partial[o] EXCEPT !.narrated = routes'[o].narrated]
    BY <2>2, <2>3, <2>9
  <2>11. o \notin told => routes'[o] = partial[o] BY <2>2, <2>3, <2>5, <2>6
  <2> QED BY <2>8, <2>10, <2>11
<1>4. DOMAIN routes' = Asked BY <1>2
<1>5. StateOK' BY <1>0, <1>1, <1>2, <1>3, <1>4 DEF Narrate, Progress, StateOK, Places
<1>6. Unanswered' BY <1>1 DEF Narrate, Progress, Unanswered
<1>7. Built' /\ FirstPass' /\ SecondPass' BY <1>1 DEF Built, FirstPass, SecondPass
<1>8. Narration' BY <1>0, <1>1, <1>2, <1>3, <1>4 DEF Narration
<1>9. Lines' BY <1>0, <1>1 DEF Progress, Lines
<1>10. Surveyed' BY <1>0, <1>1, <1>3, <1>4 DEF Progress, Surveyed
<1> QED BY <1>5, <1>6, <1>7, <1>8, <1>9, <1>10 DEF Progress

LEMMA ShowNarratedStays == ASSUME Progress, ShowNarrated PROVE Progress'
<1>0. Asked' = Asked /\ Routed' = Routed BY DEF ShowNarrated, Asked, Entries, Routed
<1>1. /\ pc = "narrated" /\ pc' = "narrated" /\ todo # {} /\ todo \subseteq Asked
      /\ DOMAIN partial = Asked /\ DOMAIN routes = Asked /\ routes' = routes
      /\ survey' = survey /\ access' = access
      /\ \A o \in Asked :
            /\ routes[o] = [partial[o] EXCEPT !.narrated = routes[o].narrated]
            /\ ~routes[o].pending /\ routes[o] \in Card /\ partial[o] \in Card
            /\ o \notin todo => routes[o] = partial[o]
  BY DEF ShowNarrated, Progress, Narration, StateOK
<1>2. First \in todo BY <1>1, FirstIsOne DEF Progress, StateOK
<1> DEFINE o == First
<1>3. Show(o, routes[o]) /\ todo' = todo \ {o} /\ o \in todo BY <1>2 DEF ShowNarrated
<1> HIDE DEF o
<1>4. /\ DOMAIN partial' = DOMAIN partial \cup {o} /\ partial'[o] = routes[o]
      /\ \A p \in DOMAIN partial : p # o => partial'[p] = partial[p]
  BY <1>3, ShowOne
<1>5. o \in Asked /\ DOMAIN partial' = Asked BY <1>1, <1>3, <1>4
<1>6. routes[o].geometry = partial[o].geometry BY <1>1, <1>5 DEF Card
<1>7. routes[o] = [routes[o] EXCEPT !.narrated = routes[o].narrated]
  BY <1>1, <1>5 DEF Card
<1>8. StateOK' BY <1>0, <1>1, <1>3, <1>4, <1>5 DEF ShowNarrated, Progress, StateOK
<1>9. Unanswered' BY <1>1 DEF ShowNarrated, Progress, Unanswered
<1>10. Built' /\ FirstPass' /\ SecondPass' BY <1>1 DEF Built, FirstPass, SecondPass
<1>11. Narration'
  <2>1. ASSUME NEW p \in Asked
        PROVE  /\ routes'[p] = [partial'[p] EXCEPT !.narrated = routes'[p].narrated]
               /\ ~routes'[p].pending
               /\ p \notin todo' => routes'[p] = partial'[p]
    <3>1. CASE p = o BY <1>1, <1>4, <1>7, <3>1
    <3>2. CASE p # o BY <1>1, <1>3, <1>4, <3>2
    <3> QED BY <3>1, <3>2
  <2> QED BY <1>0, <1>1, <1>3, <1>5, <2>1 DEF Narration
<1>12. Lines' BY <1>0, <1>1, <1>4, <1>5, <1>6 DEF Progress, Lines
<1>13. Surveyed' BY <1>1, <1>4, <1>5 DEF Progress, Surveyed
<1> QED BY <1>8, <1>9, <1>10, <1>11, <1>12, <1>13 DEF Progress

LEMMA DoneStays == ASSUME Progress, Done PROVE Progress'
<1>0. Asked' = Asked /\ Routed' = Routed BY DEF Done, Asked, Entries, Routed
<1>1. pc = "narrated" /\ pc' = "finished" BY DEF Done
<1>2. StateOK' BY <1>0, <1>1 DEF Done, Progress, StateOK, Places
<1>3. Unanswered' BY <1>1 DEF Unanswered
<1>4. Built' /\ FirstPass' /\ SecondPass' /\ Narration'
  BY <1>1 DEF Built, FirstPass, SecondPass, Narration
<1>5. Usable' # {}
  <2>1. Usable' = Usable BY <1>0 DEF Done, Usable
  <2>2. DOMAIN partial = Asked /\ Routed # {} /\ Routed \subseteq Asked
    BY <1>1 DEF Progress, Narration, Lines, Routed
  <2>3. \A o \in Routed \cap DOMAIN partial : partial[o].geometry
    BY <1>1 DEF Progress, Lines
  <2> QED BY <2>1, <2>2, <2>3 DEF Usable
<1>6. Lines' BY <1>0, <1>1, <1>5 DEF Done, Progress, Lines
<1>7. Surveyed' BY <1>1 DEF Done, Progress, Surveyed
<1> QED BY <1>2, <1>3, <1>4, <1>6, <1>7 DEF Progress

LEMMA OverStays == ASSUME Progress, Fault \/ End \/ Deadline PROVE Progress'
<1>0. /\ Asked' = Asked /\ Routed' = Routed /\ pc' \in {"over", "drained"}
      /\ partial' = partial /\ access' = access /\ survey' = survey /\ routes' = routes
      /\ todo' = todo /\ attempt' = attempt /\ objectives' = objectives
  BY DEF Fault, End, Deadline, Raise, Asked, Entries, Routed
<1>1. StateOK' BY <1>0 DEF Progress, StateOK, Places
<1>2. Unanswered' /\ Built' /\ FirstPass' /\ SecondPass' /\ Narration'
  BY <1>0 DEF Unanswered, Built, FirstPass, SecondPass, Narration
<1>3. Lines' BY <1>0 DEF Progress, Lines
<1>4. Surveyed' BY <1>0 DEF Progress, Surveyed
<1> QED BY <1>1, <1>2, <1>3, <1>4 DEF Progress

LEMMA ProgressStays == ASSUME Progress, [Next]_vars PROVE Progress'
<1>1. CASE Next
  BY <1>1, PreflightStays, BaselineStays, RunFastestStays, RunRestStays, ShowFirstStays,
     FirstShownStays, ShowBlockedStays, EnrichStays, ShowSecondStays, NarrateStays,
     ShowNarratedStays, DoneStays, OverStays DEF Next
<1>2. CASE UNCHANGED vars
  <2> USE <1>2 DEF vars
  <2>0. Asked' = Asked /\ Routed' = Routed /\ Rest' = Rest BY DEF Asked, Entries, Routed, Rest
  <2>1. StateOK' BY <2>0 DEF Progress, StateOK
  <2>2. Unanswered' /\ Built' BY <2>0 DEF Progress, Unanswered, Built
  <2>3. FirstPass' /\ SecondPass' /\ Narration'
    BY <2>0 DEF Progress, FirstPass, SecondPass, Narration
  <2>4. Lines' BY <2>0 DEF Progress, Lines, Usable
  <2>5. Surveyed' BY DEF Progress, Surveyed
  <2> QED BY <2>1, <2>2, <2>3, <2>4, <2>5 DEF Progress
<1> QED BY <1>1, <1>2


-----------------------------------------------------------------------------
(* What the properties say of one answer.                                  *)
Settled == {[place |-> i, id |-> objectives[i],
             card |-> [partial[objectives[i]] EXCEPT !.pending = FALSE]]
                : i \in DOMAIN objectives}
LinesShown == {o \in DOMAIN partial : partial[o].geometry}
Sound(a) ==
    /\ a.kind \in {"done", "truncated"} => Ids(a) \subseteq Asked
    /\ a.kind = "done" => a.routes = Settled
    /\ a.kind \in {"truncated", "timeout"} =>
          /\ Ids(a) = LinesShown /\ (a.kind = "timeout" <=> LinesShown = {})
          /\ \A r \in a.routes : r.card = partial[r.id]

Answers == AnswersTyped /\ \A a \in Entries(answers) : Sound(a)

LEMMA AnswersOfInv == EventsInv => Answers
BY DEF EventsInv, Answers, Sound, Settled, LinesShown, DoneSettlesTheStream,
       DeadlineKeepsTheLines, TypeOK, Documents

LEMMA InvOfAnswers == Progress /\ Answers => EventsInv
<1> SUFFICES ASSUME Progress, Answers PROVE EventsInv OBVIOUS
<1>1. TypeOK BY DEF Progress, StateOK, Answers, Sound, TypeOK, Documents
<1>2. DoneSettlesTheStream
  BY <1>1 DEF Answers, Sound, Settled, DoneSettlesTheStream, Documents
<1>3. DeadlineKeepsTheLines BY DEF Answers, Sound, LinesShown, DeadlineKeepsTheLines
<1> QED BY <1>1, <1>2, <1>3 DEF Progress, Answers, EventsInv

(* Nothing moves behind an answer.                                         *)
LEMMA SoundStays ==
    ASSUME objectives' = objectives, partial' = partial, NEW a, Sound(a)
    PROVE  Sound(a)'
<1>1. Asked' = Asked /\ Settled' = Settled /\ LinesShown' = LinesShown
  BY DEF Asked, Entries, Settled, LinesShown
<1> QED BY <1>1 DEF Sound, Ids

LEMMA SilentStays ==
    ASSUME Answers, answers' = answers, objectives' = objectives,
           answers = << >> \/ partial' = partial
    PROVE  Answers'
<1>1. Asked' = Asked BY DEF Asked, Entries
<1>2. AnswersTyped' BY <1>1 DEF Answers, AnswersTyped
<1>3. ASSUME NEW a \in Entries(answers') PROVE Sound(a)'
  <2>1. a \in Entries(answers) BY DEF Entries
  <2>2. CASE partial' = partial BY <2>1, <2>2, SoundStays DEF Answers
  <2>3. CASE answers = << >> BY <2>1, <2>3 DEF Entries
  <2> QED BY <2>2, <2>3
<1> QED BY <1>2, <1>3 DEF Answers

LEMMA AnsweringStays ==
    ASSUME Answers, objectives' = objectives, partial' = partial,
           NEW kind \in Kinds,
           NEW payload \in SUBSET [place : Nat, id : Asked, card : Card],
           Answer(kind, payload), Sound([kind |-> kind, routes |-> payload])
    PROVE  Answers'
<1> DEFINE T == [kind : Kinds, routes : SUBSET [place : Nat, id : Asked, card : Card]]
           new == [kind |-> kind, routes |-> payload]
<1>1. Asked' = Asked BY DEF Asked, Entries
<1>2. answers \in Seq(T) BY DEF Answers, AnswersTyped
<1>3. new \in T OBVIOUS
<1> HIDE DEF T
<1>4. answers' \in Seq(T) /\ Entries(answers') = Entries(answers) \cup {new}
  BY <1>2, <1>3, AnswerOne
<1>5. AnswersTyped' BY <1>1, <1>4 DEF AnswersTyped, T
<1>6. ASSUME NEW a \in Entries(answers') PROVE Sound(a)'
  <2>1. Sound(a) BY <1>4 DEF Answers
  <2> QED BY <2>1, SoundStays
<1> QED BY <1>5, <1>6 DEF Answers

(* The three ways to answer.                                               *)
LEMMA RaiseAnswers ==
    ASSUME Answers, objectives' = objectives, partial' = partial, Raise PROVE Answers'
<1>1. Sound([kind |-> "raised", routes |-> {}]) BY DEF Sound
<1>2. Answer("raised", {}) /\ "raised" \in Kinds BY DEF Raise, Kinds
<1> QED BY <1>1, <1>2, AnsweringStays

LEMMA DoneAnswers == ASSUME Progress, Answers, Done PROVE Answers'
<1>1. /\ objectives \in Requests /\ todo = {} /\ DOMAIN routes = Asked /\ DOMAIN partial = Asked
      /\ \A o \in Asked :
            routes[o] = partial[o] /\ ~routes[o].pending /\ routes[o] \in Card
  BY DEF Done, Progress, StateOK, Narration
<1> DEFINE payload == Payload(Asked, Place, routes)
<1>2. payload \in SUBSET [place : Nat, id : Asked, card : Card]
  BY <1>1, AskedOnce DEF Payload
<1>3. \A o \in Asked : routes[o] = [partial[o] EXCEPT !.pending = FALSE]
  BY <1>1 DEF Card
<1>4. payload = Settled
  <2>1. \A r \in payload : r \in Settled
    <3> TAKE r \in payload
    <3>1. PICK o \in Asked : r = [place |-> Place[o], id |-> o, card |-> routes[o]]
      BY DEF Payload
    <3>2. Place[o] \in DOMAIN objectives /\ objectives[Place[o]] = o BY <1>1, AskedOnce
    <3> QED BY <1>3, <3>1, <3>2 DEF Settled
  <2>2. \A r \in Settled : r \in payload
    <3> TAKE r \in Settled
    <3>1. PICK i \in DOMAIN objectives :
            r = [place |-> i, id |-> objectives[i],
                 card |-> [partial[objectives[i]] EXCEPT !.pending = FALSE]]
      BY DEF Settled
    <3>2. objectives[i] \in Asked /\ Place[objectives[i]] = i BY <1>1, AskedOnce
    <3> QED BY <1>3, <3>1, <3>2 DEF Payload
  <2> QED BY <2>1, <2>2
<1>5. Sound([kind |-> "done", routes |-> payload])
  BY <1>2, <1>4 DEF Sound, Ids
<1>6. Answer("done", payload) /\ "done" \in Kinds BY <1>1 DEF Done, Kinds
<1> HIDE DEF payload
<1> QED BY <1>2, <1>5, <1>6, AnsweringStays DEF Done

LEMMA DeadlineAnswers == ASSUME Progress, Answers, Deadline PROVE Answers'
<1>1. /\ objectives \in Requests /\ \A o \in DOMAIN partial : partial[o] \in Card
      /\ Usable \subseteq Asked /\ Usable \subseteq DOMAIN partial
  BY DEF Progress, StateOK, Usable, Routed
<1>2. Usable = LinesShown BY DEF Progress, Lines, Usable, LinesShown
<1>3. CASE Usable = {}
  <2>1. Sound([kind |-> "timeout", routes |-> {}]) BY <1>2, <1>3 DEF Sound, Ids
  <2>2. Answer("timeout", {}) /\ "timeout" \in Kinds BY <1>3 DEF Deadline, Kinds
  <2> QED BY <2>1, <2>2, AnsweringStays DEF Deadline
<1>4. CASE Usable # {}
  <2> DEFINE payload == Payload(Usable, Turn, partial)
  <2>1. payload \in SUBSET [place : Nat, id : Asked, card : Card]
    BY <1>1, AskedOnce DEF Payload
  <2>2. {r.id : r \in payload} = Usable
    <3>1. \A r \in payload : r.id \in Usable BY DEF Payload
    <3>2. \A o \in Usable : [place |-> Turn[o], id |-> o, card |-> partial[o]] \in payload
      BY DEF Payload
    <3>3. \A o \in Usable : \E r \in payload : r.id = o BY <3>2
    <3> QED BY <3>1, <3>3
  <2>3. \A r \in payload : r.card = partial[r.id] BY DEF Payload
  <2>4. Answer("truncated", payload) /\ "truncated" \in Kinds BY <1>4 DEF Deadline, Kinds
  <2> HIDE DEF payload
  <2>5. Sound([kind |-> "truncated", routes |-> payload])
    BY <1>1, <1>2, <1>4, <2>2, <2>3 DEF Sound, Ids
  <2> QED BY <2>1, <2>4, <2>5, AnsweringStays DEF Deadline
<1> QED BY <1>3, <1>4

LEMMA AnswersStay == ASSUME Progress, Answers, [Next]_vars PROVE Answers'
<1>1. CASE Preflight \/ RunFastest \/ RunRest
  <2>1. objectives' = objectives /\ partial' = partial /\ (Raise \/ answers' = answers)
    BY <1>1 DEF Preflight, RunFastest, RunRest
  <2> QED BY <2>1, RaiseAnswers, SilentStays
<1>2. CASE Baseline \/ FirstShown \/ Enrich \/ Narrate \/ End
  BY <1>2, SilentStays DEF Baseline, FirstShown, Enrich, Narrate, End
<1>3. CASE ShowFirst \/ ShowBlocked \/ ShowSecond \/ ShowNarrated
  <2>1. answers' = answers /\ answers = << >> /\ objectives' = objectives
    BY <1>3 DEF ShowFirst, ShowBlocked, ShowSecond, ShowNarrated, Progress, Unanswered
  <2> QED BY <2>1, SilentStays
<1>4. CASE Done BY <1>4, DoneAnswers
<1>5. CASE Fault BY <1>5, RaiseAnswers DEF Fault
<1>6. CASE Deadline BY <1>6, DeadlineAnswers
<1>7. CASE UNCHANGED vars BY <1>7, SilentStays DEF vars
<1> QED BY <1>1, <1>2, <1>3, <1>4, <1>5, <1>6, <1>7 DEF Next

LEMMA EventsInvInitially == Init => EventsInv
<1> SUFFICES ASSUME Init PROVE EventsInv OBVIOUS
<1>1. Entries(answers) = {} /\ answers = << >> BY DEF Init, Entries
<1>2. Answers BY <1>1 DEF Answers, AnswersTyped
<1>3. StateOK BY DEF Init, StateOK, Places, Unassessed, Assessments
<1>4. Unanswered /\ FirstPass /\ SecondPass /\ Narration /\ Surveyed
  BY DEF Init, Unanswered, FirstPass, SecondPass, Narration, Surveyed, Unassessed
<1>5. Built /\ Lines BY AskedOnce DEF Init, Built, Lines, Routed, Rest
<1> QED BY <1>2, <1>3, <1>4, <1>5, InvOfAnswers DEF Progress

LEMMA EventsInvHolds == Spec => []EventsInv
<1>1. EventsInv /\ [Next]_vars => EventsInv'
  <2> SUFFICES ASSUME EventsInv, [Next]_vars PROVE EventsInv' OBVIOUS
  <2>1. Progress /\ Answers BY StateOfInv, AnswersOfInv
  <2>2. Progress' /\ Answers' BY <2>1, ProgressStays, AnswersStay
  <2>3. (Progress /\ Answers => EventsInv)' BY InvOfAnswers, PTL
  <2> QED BY <2>2, <2>3
<1> QED BY <1>1, EventsInvInitially, PTL DEF Spec


-----------------------------------------------------------------------------
(* The done document holds every objective asked for, once, in the         *)
(* caller's order and as it was last shown (route_events, the done event). *)
THEOREM EventsDoneSettles == Spec => []DoneSettlesTheStream
<1>1. EventsInv => DoneSettlesTheStream BY DEF EventsInv
<1> QED BY <1>1, EventsInvHolds, PTL

(* A truncated document has exactly the lines on the map, as last shown;   *)
(* a timeout is reported only when there was none                          *)
(* (route_events_with_deadline).                                           *)
THEOREM EventsDeadlineKeeps == Spec => []DeadlineKeepsTheLines
<1>1. EventsInv => DeadlineKeepsTheLines BY DEF EventsInv
<1> QED BY <1>1, EventsInvHolds, PTL

(* No card claims that gates and stiles were checked unless a survey came  *)
(* back (_reassess_with_barriers).                                         *)
THEOREM EventsAbsence == Spec => []AbsenceIsNotClearance
<1>1. EventsInv => AbsenceIsNotClearance
  BY DEF EventsInv, Surveyed, AbsenceIsNotClearance
<1> QED BY <1>1, EventsInvHolds, PTL

(* A route once shown as blocked stays blocked: the second pass keeps a    *)
(* verdict it cannot confirm, and the narration touches no status.         *)
THEOREM EventsBlockedStays == Spec => BlockedStaysBlocked
<1> DEFINE Stays == \A o \in DOMAIN partial :
                      partial[o].status = "blocked" => partial'[o].status = "blocked"
<1>1. EventsInv /\ [Next]_vars => [Stays]_vars
  <2> SUFFICES ASSUME EventsInv, Next PROVE Stays BY DEF vars
  <2>0. Progress BY StateOfInv
  <2>1. CASE partial' = partial BY <2>1
  <2>2. CASE ShowFirst
    <3>1. /\ pc = "first" /\ todo # {} /\ todo \subseteq Asked /\ DOMAIN partial = Routed \ todo
      BY <2>0, <2>2 DEF ShowFirst, Progress, FirstPass, StateOK
    <3>2. First \in todo BY <2>0, <3>1, FirstIsOne DEF Progress, StateOK
    <3>3. \E card : Show(First, card) BY <2>2 DEF ShowFirst
    <3>4. \A p \in DOMAIN partial : p # First => partial'[p] = partial[p] BY <3>3, ShowOne
    <3> QED BY <3>1, <3>2, <3>4
  <2>3. CASE ShowBlocked
    <3>1. /\ pc = "blocked" /\ todo # {} /\ todo \subseteq Asked \ Routed
          /\ DOMAIN partial = Asked \ todo
      BY <2>0, <2>3 DEF ShowBlocked, Progress, FirstPass
    <3>2. First \in todo BY <2>0, <3>1, FirstIsOne DEF Progress, StateOK
    <3>3. Show(First, routes[First]) BY <2>3 DEF ShowBlocked
    <3>4. \A p \in DOMAIN partial : p # First => partial'[p] = partial[p] BY <3>3, ShowOne
    <3> QED BY <3>1, <3>2, <3>4
  <2>4. CASE ShowSecond
    <3>1. PICK o \in todo, engine \in {"none", "clear", "barred"} :
            /\ access[o].verdict = "barred" => engine # "clear"
            /\ access[o] \in Assessments /\ access'[o] = Reassessed(access[o], engine)
            /\ Show(o, routes'[o])
            /\ partial[o] = ScoredRoute(o, access[o], TRUE)
            /\ partial'[o] = ScoredRoute(o, access'[o], FALSE)
      BY <2>0, <2>4, ShowSecondShows
    <3>2. \A p \in DOMAIN partial : p # o => partial'[p] = partial[p] BY <3>1, ShowOne
    <3>3. ASSUME partial[o].status = "blocked" PROVE partial'[o].status = "blocked"
      <4>1. o = "accessible" /\ access[o].verdict = "barred" BY <3>1, <3>3 DEF ScoredRoute
      <4>2. access'[o].verdict = "barred" BY <3>1, <4>1, ReassessedTyped
      <4> QED BY <3>1, <4>1, <4>2 DEF ScoredRoute
    <3> QED BY <3>2, <3>3
  <2>5. CASE ShowNarrated
    <3>1. /\ pc = "narrated" /\ todo # {} /\ todo \subseteq Asked /\ DOMAIN partial = Asked
      BY <2>0, <2>5 DEF ShowNarrated, Progress, Narration
    <3>2. First \in Asked BY <2>0, <3>1, FirstIsOne DEF Progress, StateOK
    <3>3. Show(First, routes[First]) BY <2>5 DEF ShowNarrated
    <3>4. partial'[First] = routes[First] BY <3>3, ShowOne
    <3>5. \A p \in DOMAIN partial : p # First => partial'[p] = partial[p] BY <3>3, ShowOne
    <3>6. /\ routes[First] = [partial[First] EXCEPT !.narrated = routes[First].narrated]
          /\ partial[First] \in Card
      BY <2>0, <3>1, <3>2 DEF Progress, Narration, StateOK
    <3>7. routes[First].status = partial[First].status BY <3>6 DEF Card
    <3> QED BY <3>4, <3>5, <3>7
  <2>6. ShowFirst \/ ShowBlocked \/ ShowSecond \/ ShowNarrated \/ partial' = partial
    BY DEF Next, Preflight, Baseline, RunFastest, RunRest, FirstShown, Enrich, Narrate, Done,
           Fault, End, Deadline
  <2> QED BY <2>1, <2>2, <2>3, <2>4, <2>5, <2>6
<1> QED BY <1>1, EventsInvHolds, PTL DEF Spec, BlockedStaysBlocked

(* What both transports build on: the pipeline's answers come as           *)
(* EventSource allows, one answer or an exception and then the end, with   *)
(* the one truncated document that may follow a done.                      *)
THEOREM EventsKeepTheSource == Spec => Source!Behaviour
<1>1. Init => Source!Init
  BY DEF Init, Source!Init, Phase, Given
<1>2. EventsInv /\ [Next]_vars => [Source!Next]_<<Phase, Given>>
  <2> SUFFICES ASSUME EventsInv, [Next]_vars PROVE [Source!Next]_<<Phase, Given>> OBVIOUS
  <2>0. Progress /\ Answers BY StateOfInv, AnswersOfInv
  <2>1. ASSUME answers' = answers, Phase' = Phase PROVE UNCHANGED <<Phase, Given>>
    BY <2>1 DEF Given
  <2>2. ASSUME NEW kind \in Kinds, NEW payload, Answer(kind, payload)
        PROVE  Given' = Append(Given, kind)
    <3> DEFINE a == [kind |-> kind, routes |-> payload]
               T == [kind : Kinds, routes : SUBSET [place : Nat, id : Asked, card : Card]]
    <3>1. answers \in Seq(T) BY <2>0 DEF Answers, AnswersTyped
    <3>2. answers' = Append(answers, a) BY <2>2 DEF Answer
    <3> HIDE DEF T
    <3>3. /\ Len(answers) \in Nat /\ DOMAIN answers = 1..Len(answers)
          /\ DOMAIN answers' = 1..(Len(answers) + 1) /\ answers'[Len(answers) + 1] = a
          /\ \A i \in 1..Len(answers) : answers'[i] = answers[i]
      BY <3>1, <3>2
    <3>4. /\ Given = [i \in 1..Len(answers) |-> answers[i].kind]
          /\ Given' = [i \in 1..(Len(answers) + 1) |-> answers'[i].kind]
      BY <3>3 DEF Given
    <3>5. Append(Given, kind) = [i \in 1..(Len(answers) + 1) |->
                                   IF i = Len(answers) + 1 THEN kind ELSE answers[i].kind]
      <4>1. \A i \in 1..Len(answers) : answers[i].kind \in Kinds
        <5>1. \A i \in 1..Len(answers) : answers[i] \in T BY <3>1
        <5> QED BY <5>1 DEF T
      <4>2. Given \in Seq(Kinds) /\ Len(Given) = Len(answers) BY <3>3, <3>4, <4>1
      <4> QED BY <3>3, <3>4, <4>2
    <3>6. \A i \in 1..(Len(answers) + 1) :
             answers'[i].kind = IF i = Len(answers) + 1 THEN kind ELSE answers[i].kind
      BY <3>3
    <3> QED BY <3>4, <3>5, <3>6
  <2>3. CASE Raise /\ pc \notin {"finished", "drained", "over"}
    <3>1. Phase = "working" /\ Phase' = "ended" BY <2>3 DEF Raise, Phase
    <3>2. Given' = Append(Given, "raised") BY <2>2, <2>3 DEF Raise, Kinds
    <3>3. [event |-> "raised", next |-> "ended"] \in Source!Pulls(Phase)
      BY <3>1 DEF Source!Pulls
    <3>4. Source!Pull([event |-> "raised", next |-> "ended"])
      BY <3>1, <3>2 DEF Source!Pull, Source!Outcomes
    <3> QED BY <3>3, <3>4 DEF Source!Next
  <2>4. CASE Done
    <3>1. Phase = "working" /\ Phase' = "answered" BY <2>4 DEF Done, Phase
    <3>2. Given' = Append(Given, "done") BY <2>2, <2>4 DEF Done, Kinds
    <3>3. [event |-> "done", next |-> "answered"] \in Source!Pulls(Phase)
      BY <3>1 DEF Source!Pulls
    <3>4. Source!Pull([event |-> "done", next |-> "answered"])
      BY <3>1, <3>2 DEF Source!Pull, Source!Outcomes
    <3> QED BY <3>3, <3>4 DEF Source!Next
  <2>5. CASE End
    <3>1. Phase \in {"answered", "spent"} /\ Phase' = "ended" /\ answers' = answers
      BY <2>5 DEF End, Phase
    <3>2. Given' = Given BY <3>1 DEF Given
    <3>3. [event |-> "end", next |-> "ended"] \in Source!Pulls(Phase)
      BY <3>1 DEF Source!Pulls
    <3>4. Source!Pull([event |-> "end", next |-> "ended"])
      BY <3>1, <3>2 DEF Source!Pull, Source!Outcomes
    <3> QED BY <3>3, <3>4 DEF Source!Next
  <2>6. CASE Deadline
    <3>1. Phase \in {"working", "answered"} /\ Phase' = "spent" BY <2>6 DEF Deadline, Phase
    <3>2. CASE Usable = {}
      <4>1. Phase = "working" BY <2>0, <2>6, <3>2 DEF Deadline, Progress, Lines, Phase
      <4>2. Given' = Append(Given, "timeout") BY <2>2, <2>6, <3>2 DEF Deadline, Kinds
      <4>3. [event |-> "timeout", next |-> "spent"] \in Source!Pulls(Phase)
        BY <4>1 DEF Source!Pulls
      <4>4. Source!Pull([event |-> "timeout", next |-> "spent"])
        BY <3>1, <4>2 DEF Source!Pull, Source!Outcomes
      <4> QED BY <4>3, <4>4 DEF Source!Next
    <3>3. CASE Usable # {}
      <4>1. Given' = Append(Given, "truncated") BY <2>2, <2>6, <3>3 DEF Deadline, Kinds
      <4>2. [event |-> "truncated", next |-> "spent"] \in Source!Pulls(Phase)
        BY <3>1 DEF Source!Pulls
      <4>3. Source!Pull([event |-> "truncated", next |-> "spent"])
        BY <3>1, <4>1 DEF Source!Pull, Source!Outcomes
      <4> QED BY <4>2, <4>3 DEF Source!Next
    <3> QED BY <3>2, <3>3
  <2>7. CASE Preflight \/ RunFastest \/ RunRest
    <3>1. CASE Raise BY <2>3, <2>7, <3>1 DEF Preflight, RunFastest, RunRest
    <3>2. CASE ~Raise
      <4>1. answers' = answers /\ Phase' = Phase
        BY <2>7, <3>2 DEF Preflight, RunFastest, RunRest, Phase
      <4> QED BY <2>1, <4>1
    <3> QED BY <3>1, <3>2
  <2>8. CASE Baseline \/ ShowFirst \/ FirstShown \/ ShowBlocked \/ Enrich
    <3>1. answers' = answers /\ Phase' = Phase
      BY <2>8 DEF Baseline, ShowFirst, FirstShown, ShowBlocked, Enrich, Phase
    <3> QED BY <2>1, <3>1
  <2>9. CASE ShowSecond \/ Narrate \/ ShowNarrated
    <3>1. answers' = answers /\ Phase' = Phase
      BY <2>9 DEF ShowSecond, Narrate, ShowNarrated, Phase
    <3> QED BY <2>1, <3>1
  <2>10. CASE Fault BY <2>3, <2>10 DEF Fault
  <2>11. CASE UNCHANGED vars
    <3>1. answers' = answers /\ Phase' = Phase BY <2>11 DEF vars, Phase
    <3> QED BY <2>1, <3>1
  <2> QED
    BY <2>4, <2>5, <2>6, <2>7, <2>8, <2>9, <2>10, <2>11 DEF Next
<1> QED BY <1>1, <1>2, EventsInvHolds, PTL DEF Spec, Source!Behaviour

==============================================================================
