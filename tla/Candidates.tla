----------------------------- MODULE Candidates -----------------------------
(***************************************************************************)
(* backend/routing.py: how a preset finds its route.  A preset that is one *)
(* request takes what the router says; route_scenic and the loops of       *)
(* _route_preference ask for several candidates and keep the best.  Asking *)
(* a router of one's own is free, so all candidates are asked for at once  *)
(* and settle in any order; the hosted one charges for each, so they are   *)
(* asked for in turn until one will do.                                    *)
(*                                                                         *)
(* `ask` is the objective being routed, `replies` what has come back of    *)
(* each candidate, `answer` what the preset returned and `said` what the   *)
(* stream raises when no objective was routed.                             *)
(***************************************************************************)
EXTENDS GraphHopper

CONSTANTS Requested,      \* the time dial
          Minutes,        \* the durations a candidate may have
          Greens,         \* the scenic scores, in tenths
          LoopCandidates, \* len(SCENIC_LOOP_CANDIDATES); the hosted router gets two
          PreferenceScales \* len(PREFERENCE_LOOP_SCALES); the hosted router gets two

VARIABLES ask, replies, answer, said
vars == <<ask, replies, answer, said>>

Preferences == {"quiet", "shade", "air"}
Nothing == [preset |-> "none"]
Asks == [preset : PresetNames, loop : BOOLEAN, selfHosted : BOOLEAN,
         fastest : {<<>>} \cup {<<Route(m, g)>> : m \in Minutes, g \in Greens}]

Searches == ask.preset = "scenic" \/ (ask.preset \in Preferences /\ ask.loop)
Candidates ==
    1..CASE ~Searches -> 1
         [] ask.preset = "scenic" /\ ~ask.loop -> Len(ScenicLadder)
         [] Searches /\ ask.loop ->
                LET all == IF ask.preset = "scenic" THEN LoopCandidates ELSE PreferenceScales
                IN  IF ask.selfHosted THEN all ELSE 2

(* What the router may answer: to a preset that asks once, anything.       *)
Scores == IF ask.preset = "scenic" THEN Greens ELSE {0}
SearchAnswers ==
    {[how |-> "network"], [how |-> "status", status |-> 400, says |-> {"cannot_find_point"}]}
        \cup {[how |-> "paths", paths |-> <<[vertices |-> 2, minutes |-> m, green |-> g]>>] :
                  m \in Minutes, g \in Scores}
SingleAnswers ==
    {[how |-> h] : h \in {"no_fixture", "budget", "too_large", "unreadable"}}
        \cup {[how |-> "paths", paths |-> p] :
                  p \in {<<>>, <<[vertices |-> 1, minutes |-> 0, green |-> 0]>>}}
        \cup {[how |-> "status", status |-> s, says |-> {a, b}] :
                  s \in {400, 401, 429, 500}, a \in Phrases, b \in Phrases}
        \cup SearchAnswers

-----------------------------------------------------------------------------
Came == {i \in DOMAIN replies : replies[i].kind = "route"}

(* 1.6 times the fastest; without a fastest route nothing is compared.     *)
Within(route) ==
    ask.fastest # <<>> => 10 * route.minutes <= 16 * ask.fastest[1].minutes
\* A slip: as green as the fastest is green enough.
GreenerOrEqual(route) == ask.fastest # <<>> => route.green >= ask.fastest[1].green
Greener(route) == ask.fastest # <<>> => route.green > ask.fastest[1].green
Acceptable(route) == Within(route) /\ Greener(route)

(* How far off the dial, _budget_fit in parts of Requested, and what a     *)
(* candidate is ranked on.                                                 *)
Off(route) ==
    IF route.minutes > Requested THEN route.minutes - Requested ELSE Requested - route.minutes
Fit(route) == IF Off(route) > Requested THEN 0 ELSE Requested - Off(route)
Merit(route) ==
    CASE ask.preset # "scenic" -> Fit(route)
      [] ask.preset = "scenic" /\ ask.loop -> 6 * route.green * Requested + 40 * Fit(route)
      [] OTHER -> route.green

Over(route) == 100 * route.minutes > 135 * Requested
Under(route) == 10 * route.minutes < 7 * Requested
GoodEnough(route) == IF ask.preset = "scenic" THEN Acceptable(route) ELSE ~Over(route)

(* The stable sort in reverse: the first of those with the most merit.     *)
Best(indices) ==
    CHOOSE i \in indices :
        \A j \in indices : IF j < i THEN Merit(replies[j]) < Merit(replies[i])
                                    ELSE Merit(replies[j]) <= Merit(replies[i])

(* The least bad: the first, unless one within the cap beats it.           *)
Fallback ==
    LET first == CHOOSE i \in Came : \A j \in Came : i <= j
        better == {i \in Came : Within(replies[i]) /\ Merit(replies[i]) > Merit(replies[first])}
    IN  IF better = {} THEN first ELSE Best(better)

Noted(i, note) == <<[kind |-> "route", index |-> i, note |-> note]>>
ScenicAnswer ==
    LET acceptable == {i \in Came : Acceptable(replies[i])}
        chosen == IF acceptable # {} THEN Best(acceptable) ELSE Fallback
        route == replies[chosen]
    IN  Noted(chosen,
              CASE acceptable # {} /\ ask.loop /\ Under(route) -> "shorter"
                [] acceptable # {} /\ ~(ask.loop /\ Under(route)) ->
                        IF ask.fastest = <<>> THEN "uncompared" ELSE "none"
                [] OTHER -> IF Within(route) THEN "no_greener" ELSE "over_the_cap")
PreferenceAnswer ==
    LET chosen == Best(Came) IN
    Noted(chosen, CASE Over(replies[chosen]) -> "closest_longer"
                    [] Under(replies[chosen]) -> "closest_shorter"
                    [] OTHER -> "inferred")
Chosen == IF ask.preset = "scenic" THEN ScenicAnswer ELSE PreferenceAnswer

-----------------------------------------------------------------------------
Init == ask = Nothing /\ replies = <<>> /\ answer = <<>> /\ said = <<>>

(* PRESETS[preset](...): only scenic is compared with the fastest route.   *)
Begin ==
    /\ ask = Nothing
    /\ ask' \in Asks
    /\ ask'.preset # "scenic" => ask'.fastest = <<>>
    /\ UNCHANGED <<replies, answer, said>>

Refusals == DOMAIN replies \ Came
Pending == Candidates \ DOMAIN replies

\* A slip: the loop over the candidates has no break.
SettledAll == ask # Nothing /\ (Pending = {} \/ (~ask.selfHosted /\ Refusals # {}))

(* All of them are back, or the hosted router has been asked enough: one   *)
(* that will do ends the loop, and one that raises ends it with its error. *)
Settled ==
    /\ ask # Nothing
    /\ \/ Pending = {}
       \/ /\ ~ask.selfHosted
          /\ \/ Refusals # {}
             \/ \E i \in Came : GoodEnough(replies[i])

(* One candidate's request is answered: any of those gathered, or the next *)
(* in turn.                                                                *)
Settle(i) ==
    /\ ask # Nothing /\ answer = <<>> /\ ~Settled
    /\ IF ask.selfHosted THEN i \in Pending ELSE i = Cardinality(DOMAIN replies) + 1
    /\ \E a \in IF Searches THEN SearchAnswers ELSE SingleAnswers :
          replies' = [j \in DOMAIN replies \cup {i} |-> IF j = i THEN Posted(a) ELSE replies[j]]
    /\ UNCHANGED <<ask, answer, said>>

\* A slip: gather without return_exceptions.
ResultGathered ==
    CASE Refusals # {} -> <<replies[CHOOSE i \in Refusals : TRUE]>>
      [] Refusals = {} /\ ~Searches ->
            Noted(1, IF ask.preset \in Preferences THEN "inferred" ELSE "none")
      [] OTHER -> Chosen

(* Of those gathered a failure costs only itself, and when all fail the    *)
(* first is raised; of those asked for in turn it is raised as it comes,   *)
(* whatever came before it.                                                *)
Result ==
    CASE Came = {} -> <<replies[1]>>
      [] Came # {} /\ ~Searches ->
            Noted(1, IF ask.preset \in Preferences THEN "inferred" ELSE "none")
      [] OTHER -> IF Refusals # {} /\ ~ask.selfHosted
                  THEN <<replies[CHOOSE i \in Refusals : TRUE]>> ELSE Chosen

Choose ==
    /\ answer = <<>> /\ Settled
    /\ answer' = Result
    /\ UNCHANGED <<ask, replies, said>>

(* route_events, when this was the only objective and it failed.           *)
Raise ==
    /\ answer # <<>> /\ answer[1].kind # "route" /\ said = <<>>
    /\ \E finite \in BOOLEAN, region \in {"inside", "outside", "unknown"} :
          said' = <<BestFailure(answer, finite, region)>>
    /\ UNCHANGED <<ask, replies, answer>>

Next == Begin \/ (\E i \in 1..LoopCandidates : Settle(i)) \/ Choose \/ Raise
Spec == Init /\ [][Next]_vars

-----------------------------------------------------------------------------
Answered == answer # <<>>
Routed == Answered /\ answer[1].kind = "route"
TheRoute == replies[answer[1].index]

(* A scenic route without a caveat is inside 1.6 times the fastest and     *)
(* greener than it, and of the candidates that came back inside both none  *)
(* ranks higher; one with a caveat has that caveat.  A preference loop is  *)
(* said to be longer or shorter than asked exactly when it is.             *)
SearchKeepsItsWord ==
    Routed =>
        /\ ask.preset = "scenic" /\ answer[1].note = "none" =>
              /\ ask.fastest # <<>>
              /\ 10 * TheRoute.minutes <= 16 * ask.fastest[1].minutes
              /\ TheRoute.green > ask.fastest[1].green
              /\ \A i \in Came : Acceptable(replies[i]) => Merit(replies[i]) <= Merit(TheRoute)
        /\ answer[1].note = "no_greener" =>
              /\ TheRoute.green <= ask.fastest[1].green
              /\ 10 * TheRoute.minutes <= 16 * ask.fastest[1].minutes
        /\ answer[1].note \in {"no_greener", "over_the_cap"} =>
              ~\E i \in Came : Acceptable(replies[i])
        /\ ask.preset \in Preferences /\ ask.loop =>
              /\ (answer[1].note = "closest_longer") <=> (100 * TheRoute.minutes > 135 * Requested)
              /\ answer[1].note = "closest_shorter" =>
                    \A i \in Came : Fit(replies[i]) <= Fit(TheRoute)

(* Against a router of one's own one candidate that comes back is enough   *)
(* (`return_exceptions=True`); against the hosted one a preset fails only  *)
(* with the last request it made, after none before it would do.           *)
OneReplySuffices ==
    Answered /\ answer[1].kind # "route" =>
        IF ask.selfHosted
        THEN Came = {}
        ELSE /\ answer[1] = replies[Cardinality(DOMAIN replies)]
             /\ \A i \in Came : ~GoodEnough(replies[i])

(* The hosted router is never paid for another candidate after one that    *)
(* would do, and never for more than the preset's share of candidates.     *)
PaysNoMoreThanNeeded ==
    ask # Nothing /\ ~ask.selfHosted =>
        /\ \A i \in Came :
              Searches /\ GoodEnough(replies[i]) => i = Cardinality(DOMAIN replies)
        /\ Cardinality(DOMAIN replies) <= IF ask.loop /\ Searches THEN 2 ELSE Len(ScenicLadder)

(* The model that steers a route and the table that scores it agree on     *)
(* which of two kinds of way is better, for class, surface and environment *)
(* alike, and what every model names the router knows.                     *)
Orders(model, attribute, table) ==
    \A a, b \in DOMAIN table \cap GHValues[attribute] :
        Priority(model, attribute, a) > Priority(model, attribute, b) => table[a] >= table[b]

(* "It is the closest fit to your time budget that could be found near     *)
(* you", the sentence an over-long loop carries.                           *)
ClosestFitIsKept ==
    Routed /\ answer[1].note = "closest_longer" =>
        \A i \in Came : Off(TheRoute) <= Off(replies[i])

=============================================================================
