------------------------------- MODULE Photos -------------------------------
(***************************************************************************)
(* backend/photos.py: photographs along one route.  Places are positions   *)
(* in metres along it; every anchor is asked about at every source that is *)
(* switched on, all at once, and what fails costs its own photographs.     *)
(***************************************************************************)
EXTENDS Integers, FiniteSets, SequencesExt

CONSTANTS Objectives, Blockers,  \* what may be asked, and the barriers a route may have
          Vertices,              \* the vertices of the route, metres from its start
          MaxAnchors,            \* PHOTO_MAX_ANCHORS
          StripSize, MaxPerAnchor,
          Pages                  \* the answers a source may give: sequences of pages

VARIABLES ask, anchors,    \* what is asked, and the places it is asked for
          results, answer, image
vars == <<ask, anchors, results, answer, image>>

Nothing == [objective |-> "none"]
Absent == <<>>
SourceNames == {"wikimedia_commons", "mapillary"}

-----------------------------------------------------------------------------
(* image_ref and resolve_image_ref: a reference is only as good as the     *)
(* place it names.  _image_service knows two places.                       *)
ImageServices == [commons |-> "wikimedia_images", fbcdn |-> "mapillary_images"]
Fetchable(host) == host \in DOMAIN ImageServices
Refusal(status) == [status |-> status, of |-> "error"]
Resolved(ref) ==
    CASE ~ref.signed \/ ref.long \/ ~ref.https \/ ref.port \notin {0, 443} \/ ~Fetchable(ref.host) ->
            Refusal(404)
      [] OTHER -> [status |-> 200, of |-> ImageServices[ref.host]]

(* proxied_image, for what fetch may come to.                              *)
Proxied(ref, reply) ==
    IF Resolved(ref).status # 200 THEN Resolved(ref)
    ELSE CASE reply.how \in {"no_fixture", "budget"} -> Refusal(503)
           [] reply.how \in {"too_large", "network"} -> Refusal(502)
           [] OTHER -> IF reply.status >= 400 \/ ~reply.isImage \/ reply.oversize
                       THEN Refusal(502) ELSE [status |-> 200, of |-> "image"]

(* A set of numbers in order, each at the place that is its rank.          *)
InOrder(S) ==
    [k \in 1..Cardinality(S) |-> CHOOSE n \in S : Cardinality({m \in S : m <= n}) = k]

(* _photo_from_commons_page and _photo_from_mapillary: a page without a    *)
(* thumbnail the proxy may fetch, or without a licence, is no photograph.  *)
Photo(page, source, anchor) == [id |-> page.id, source |-> source, at |-> anchor.at]
Photographs(pages, source, anchor) ==
    LET usable == {i \in DOMAIN pages :
                      /\ Fetchable(pages[i].host)
                      /\ source = "wikimedia_commons" => pages[i].licensed}
    IN  [k \in 1..Cardinality(usable) |-> Photo(pages[InOrder(usable)[k]], source, anchor)]

-----------------------------------------------------------------------------
(* _even_anchors: the vertex nearest the middle of each equal part, once;  *)
(* the first of those equally near.                                        *)
Whole == Vertices[Len(Vertices)]
Distance(a, b) == IF a < b THEN b - a ELSE a - b
NearestVertex(twiceTarget) ==
    Vertices[CHOOSE i \in DOMAIN Vertices :
        \A j \in DOMAIN Vertices :
            LET mine == Distance(2 * Vertices[i], twiceTarget)
                other == Distance(2 * Vertices[j], twiceTarget)
            IN  IF j < i THEN mine < other ELSE mine <= other]
Anchor(at, isBarrier) == [at |-> at, isBarrier |-> isBarrier]
EvenAnchors ==
    LET at == {NearestVertex((Whole * (2 * i - 1)) \div MaxAnchors) : i \in 1..MaxAnchors}
    IN  IF Whole = 0 THEN <<>> ELSE [k \in 1..Cardinality(at) |-> Anchor(InOrder(at)[k], FALSE)]

(* _anchors_for: an accessible route's first barrier takes the place of    *)
(* the last anchor, and goes to the front.                                 *)
AnchorsFor(objective, blockers) ==
    IF objective # "accessible" \/ blockers = {} \/ EvenAnchors = <<>> THEN EvenAnchors
    ELSE LET first == CHOOSE b \in {NearestVertex(2 * b) : b \in blockers} :
                          \A c \in blockers : b <= NearestVertex(2 * c)
         IN  <<Anchor(first, TRUE)>> \o SubSeq(EvenAnchors, 1, Len(EvenAnchors) - 1)
Tasks == {t \in SourceNames \X DOMAIN anchors : t[1] = "mapillary" => ask.mapillary}

\* A slip: an anchor one source failed for is given up.
FoundAtOrNothing(i) ==
    IF \E t \in Tasks : t[2] = i /\ results[t] = Absent THEN <<>>
    ELSE FlattenSeq(SetToSeq({results[t][1] : t \in {u \in Tasks : u[2] = i}}))

(* _dedupe, of what one anchor's sources found: Commons before Mapillary.  *)
FoundAt(i) ==
    LET of(source) == IF <<source, i>> \in Tasks THEN results[<<source, i>>] ELSE Absent
        all == (IF of("wikimedia_commons") = Absent THEN <<>> ELSE of("wikimedia_commons")[1])
                   \o (IF of("mapillary") = Absent THEN <<>> ELSE of("mapillary")[1])
        firsts == {k \in DOMAIN all : \A j \in 1..(k - 1) : all[j].id # all[k].id}
    IN  [k \in 1..Cardinality(firsts) |-> all[InOrder(firsts)[k]]]
Usable == {i \in DOMAIN anchors : FoundAt(i) # <<>>}
AnsweredBy == {source \in SourceNames : \E t \in Tasks : t[1] = source /\ results[t] # Absent}

-----------------------------------------------------------------------------
(* _pick_hero_anchor.                                                      *)
CommonsAt(i) == {k \in DOMAIN FoundAt(i) : FoundAt(i)[k].source = "wikimedia_commons"}
FirstBest(indices, merit) ==
    CHOOSE i \in indices :
        \A j \in indices : IF j < i THEN merit[j] < merit[i] ELSE merit[j] <= merit[i]
HeroAnchor ==
    LET barriers == {i \in Usable : anchors[i].isBarrier}
        commons == [i \in Usable |-> Cardinality(CommonsAt(i))]
        most == FirstBest(Usable, commons)
        midway == FirstBest(Usable, [i \in Usable |-> -Distance(2 * anchors[i].at, Whole)])
        First(indices) == FirstBest(indices, [i \in indices |-> 0])
    IN  CASE ask.objective = "accessible" /\ barriers # {} ->
                <<First(barriers), "first_barrier">>
          [] ask.objective = "fastest" -> <<midway, "midpoint">>
          [] OTHER -> IF commons[most] > 1 THEN <<most, "most_photographed">>
                      ELSE <<First(Usable), "sampled">>

Hero(i) ==
    FoundAt(i)[IF CommonsAt(i) = {} THEN 1 ELSE InOrder(CommonsAt(i))[1]]

(* The strip: by distance along the route, at most two from each anchor,   *)
(* never the hero again.  <<i, n>> is the n-th photograph of anchor i.     *)
Others(i, hero) == {n \in DOMAIN FoundAt(i) : FoundAt(i)[n].id # hero.id}
Offered(hero) ==
    UNION {{<<i, n>> : n \in {m \in Others(i, hero) :
                                 Cardinality(Others(i, hero) \cap 1..m) <= MaxPerAnchor}} :
              i \in DOMAIN anchors}
Sooner(key, p, q) ==
    \/ key[p[1]] < key[q[1]]
    \/ key[p[1]] = key[q[1]] /\ p[1] < q[1]
    \/ p[1] = q[1] /\ p[2] < q[2]
StripIn(key, hero) ==
    LET offered == Offered(hero)
        UpTo(p) == {q \in offered : q = p \/ Sooner(key, q, p)}
        place(k) == CHOOSE p \in offered : Cardinality(UpTo(p)) = k
        size == IF Cardinality(offered) < StripSize THEN Cardinality(offered) ELSE StripSize
    IN  [k \in 1..size |-> FoundAt(place(k)[1])[place(k)[2]]]
\* A slip: the anchors in the order they were asked about, the barrier first.
StripAsAsked(hero) == StripIn([i \in DOMAIN anchors |-> i], hero)
Strip(hero) == StripIn([i \in DOMAIN anchors |-> anchors[i].at], hero)

Note(basis) ==
    CASE ask.objective \in {"scenic", "shade", "quiet", "air"} -> "unmeasured"
      [] ask.objective = "accessible" /\ basis # "first_barrier" -> "no_barrier"
      [] OTHER -> IF ask.mapillary THEN "" ELSE "commons_only"
NoPhotographs(note, sources) ==
    <<[hero |-> Absent, strip |-> <<>>, basis |-> "none", measured |-> FALSE,
       sources |-> sources, note |-> note]>>
Response ==
    LET chosen == HeroAnchor
        hero == Hero(chosen[1])
    IN  IF Usable = {} THEN NoPhotographs(IF anchors # <<>> /\ AnsweredBy = {} THEN "" ELSE "no_photographs",
                           AnsweredBy)
        ELSE <<[hero |-> <<hero>>, strip |-> Strip(hero), basis |-> chosen[2],
                measured |-> chosen[2] \in {"first_barrier", "midpoint"},
                sources |-> AnsweredBy, note |-> Note(chosen[2])]>>

-----------------------------------------------------------------------------
Init == ask = Nothing /\ anchors = <<>> /\ results = <<>> /\ answer = Absent /\ image = Absent

Begin ==
    /\ ask = Nothing /\ image = Absent
    /\ ask' \in [objective : Objectives, blockers : Blockers, mapillary : BOOLEAN]
    /\ anchors' = AnchorsFor(ask'.objective, ask'.blockers)
    /\ UNCHANGED <<results, answer, image>>

(* commons_photos_near and mapillary_photos_near under _degrade: an error, *)
(* a refusal and a synthetic answer are None; an empty answer is a list.   *)
Reply(source, i) ==
    /\ ask # Nothing /\ answer = Absent
    /\ <<source, i>> \in Tasks \ DOMAIN results
    /\ \E reply \in {Absent} \cup {<<Photographs(pages, source, anchors[i])>> : pages \in Pages} :
          results' = [t \in DOMAIN results \cup {<<source, i>>} |->
                         IF t = <<source, i>> THEN reply ELSE results[t]]
    /\ UNCHANGED <<ask, anchors, answer, image>>

Respond ==
    /\ ask # Nothing /\ answer = Absent
    /\ DOMAIN results = Tasks
    /\ answer' = Response
    /\ UNCHANGED <<ask, anchors, results, image>>

(* GET /api/photo/{ref}.                                                   *)
Fetch ==
    /\ ask = Nothing /\ image = Absent
    /\ \E ref \in [signed : BOOLEAN, long : BOOLEAN, https : BOOLEAN, port : {0, 443, 8080},
                   host : {"commons", "fbcdn", "elsewhere"}] :
       \E reply \in {[how |-> h] : h \in {"no_fixture", "budget", "too_large", "network"}}
               \cup [how : {"response"}, status : {200, 404}, isImage : BOOLEAN, oversize : BOOLEAN] :
          image' = <<Proxied(ref, reply)>>
    /\ UNCHANGED <<ask, anchors, results, answer>>

Next ==
    \/ Begin \/ Respond \/ Fetch
    \/ \E source \in SourceNames, i \in 1..MaxAnchors : Reply(source, i)
Spec == Init /\ [][Next]_vars

-----------------------------------------------------------------------------
Found == UNION {ToSet(results[t][1]) : t \in {u \in DOMAIN results : results[u] # Absent}}

(* The strip is in the order a walker meets the places, never repeats the  *)
(* hero, and holds only what a source found at the place it is shown for.  *)
StripAlongTheWay ==
    answer # Absent =>
        LET strip == answer[1].strip IN
        /\ \A i, j \in DOMAIN strip : i < j => strip[i].at <= strip[j].at
        /\ \A i \in DOMAIN strip : strip[i] \in Found /\ strip[i].id # answer[1].hero[1].id

(* One source failing at one place costs only the photographs it would     *)
(* have had: with a photograph from anyone there is a hero, and if there   *)
(* is none the answer says why only when some source answered.  The first  *)
(* barrier is claimed only of a photograph found at a barrier.             *)
FailureCostsItsOwn ==
    answer # Absent =>
        /\ (Found # {}) <=> (answer[1].hero # Absent)
        /\ answer[1].hero # Absent => ToSet(answer[1].hero) \subseteq Found
        /\ answer[1].sources = {t[1] : t \in {u \in DOMAIN results : results[u] # Absent}}
        /\ answer[1].basis = "first_barrier" =>
              answer[1].hero[1].at \in {NearestVertex(2 * b) : b \in ask.blockers}

(* _dedupe: "Same file found from two anchors is one photograph, kept at   *)
(* the earlier one."                                                       *)
OnePhotographOnce ==
    answer # Absent =>
        \A i, j \in DOMAIN answer[1].strip : answer[1].strip[i].id = answer[1].strip[j].id => i = j

=============================================================================
