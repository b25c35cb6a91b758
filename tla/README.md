# A specification of Meander

Meander plans walks: a FastAPI server (`backend/`) asks GraphHopper for several
routes, assesses, enriches and narrates them, and streams them to a React client
(`frontend/`), which shows them, can keep the last set for use without a
network, and follows a walker along one. This directory specifies the parts of
it whose correctness depends on the order in which things happen or on tables that
must agree, checks them
with TLC on small instances, and proves the most important facts with TLAPS for
every size. `PROJECT.json` lists the runs, the source lines behind every
definition, the hazards, and the theorems. Paths below are under `src/`.

- [The system](#the-system): inventory, state, interactions, what is hard
- [The modules](#the-modules): which models what, and how it corresponds
- [The runs](#the-runs): bounds, and what each shows
- [Fairness](#fairness)
- [Proofs](#proofs)
- [Where the code and its words disagree](#where-the-code-and-its-words-disagree)
- [Only model-checked, and not modelled](#only-model-checked-and-not-modelled)
- [Plan](#plan)

## The system

### Server (`backend/`)

| Part | State it keeps | Operations | What is hard | What makes it correct |
|---|---|---|---|---|
| Rate limiter (`ratelimit.py`) | a bucket per client hash, the requests served today | `check`, `refund`, `served_today` | refunds that arrive after an eviction or midnight; a full table; rounding | a client gets no more than its rate, the day no more than its ceiling, `Retry-After` is honest |
| Route pipeline (`main.py` 1050-1449) | the routes shown so far, the deadline | `route_events`, `route_events_with_deadline` | each of some ten stages may fail or be cut; the same route is shown up to three times | the final document agrees with what was streamed; a barrier found is never unfound |
| Route service (`main.py` 199-261, 1465-1730) | `_open_streams`, `_shutting_down`, per stream: its source task, `finished`, `cached` | `POST /api/routes` as stream or document, `lifespan` | clients that hang up at any await or yield, keepalives, SIGTERM | everyone is answered, the drain ends, nothing partial is cached |
| Cache rows (`cache.py`) | two SQLite tables, two counters | `get_*`, `put_*`, `sweep` | statements of several threads interleave; a locked database | tables stay bounded, fresh answers stay, space is reclaimed |
| Cache connections (`cache.py`) | `_local`, `_all`, `_closed` | `conn`, `close` | `close()` on the loop while workers open connections | every connection can be closed |
| Fixtures and live-call budget (`fixtures.py`) | `_budget.json`, a counter per process, fixture files | `fetch`, `try_spend`, `write_fixture` | crashes between counting, saving and calling; two processes | the day's cap holds |
| Routing (`routing.py`) | none | request bodies, candidates, error shapes | candidates gathered or paid for in turn, some of which fail; a model in one file and the table that scores it in another | the note on the card is true, one reply is enough, model and table agree |
| Accessibility (`accessibility.py`) | none | verdict tables, spans, inclines | unknown tags, spans past the end, two passes over one length | unknown is never clear |
| Enrichment (`enrich.py`, `main.py` 801-1007) | none | Overpass, Open-Meteo, departure, the second card | one source failing or cut short; a node between a line's corridors | a missing or partial survey is never presented as complete, none is never nought |
| Geometry, elevation, scoring | none; a CLIP score table | tag tables, weighted means, blends | a missing term, coverage, floating point | what nobody tagged lowers coverage only |
| Photos (`photos.py`) | none | anchors, two sources, the hero, the strip, the image proxy | any source failing at any anchor | a failure costs only its own |
| Geocoding (`main.py` 1746-1821) | a bucket per client, a cache table | `GET /api/geocode` | a token given back while others are in flight; two lifetimes | every search is paid for |
| Narration, barrier reports | none | one upstream call each | answers lost after they took effect | degrade, and say what happened |
| Coverage and health probes (`coverage.py`, `health.py`) | one cached verdict each | `routable_extent`, `check_routing` | the time is read before an await and stored after it; probes overlap and are cancelled | what is served from memory is younger than its lifetime |
| Metrics, logging, configuration, schemas | counters | — | — | — |

A request takes a token from the limiter, looks in the cache on a worker thread,
and on a hit gives the token back. On a miss the pipeline runs under the
deadline; its events go to the client as they come, and the finished document
goes to the cache after the client has it. At SIGTERM uvicorn waits for open
requests for its own grace period and then runs the code after `yield` in
`lifespan`: it sets a flag the streams look at between events, waits for them up
to `DRAIN_TIMEOUT_S` (20 s), closes the HTTP client and the cache.

### Client (`frontend/`)

| Part | State it keeps | Operations | What is hard | What makes it correct |
|---|---|---|---|---|
| Search (`App.jsx`, `api/client.js`) | objectives, routes, phase; one AbortController | toggle, find, the stream, replay | superseded requests that are not aborted everywhere | the answer of the last press wins, the spinner ends |
| Saved routes and consent (`lib/resultsStore.js`, `lib/offlineStore.js`) | a flag and one saved set in CacheStorage, shared by tabs and builds | `saveRoutes`, `readRoutes`, `setSaveResults`, the sweep at boot | any await may see the consent change; tabs die; the quota; deploys rename the bucket | nothing is kept or shown without consent |
| Service worker (`sw.js`) | the shell's bucket | install, activate, fetch | activation deletes buckets while pages use them | — |
| Follow mode (`lib/followTracking.js`, `lib/follow.js`, `lib/useReroute.js`) | the watch, the anchor, the off-route clock, arrival, a retry timer, a request | fixes, reroutes | the line changes under the matcher; timers and answers race Stop | a position leaves the phone only when the walker is lost, and rarely |
| Wake lock (`lib/followTracking.js` 192-236) | the sentinel | acquire, visibility, cleanup | the promise is answered after Stop | the screen may sleep after a walk |
| Place search (`components/PlaceInput.jsx`) | a memory of answers, one request | debounce, abort | answers for text that is gone | the list is for the text |
| Map, screens, permalinks, exports, formats | display state | pure or drawing | — | — |

## The modules

`MC<Module>` instantiates `<Module>` for TLC and declares symmetry. A module's
operators carry the code's names where TLA+ allows. Definitions marked "A slip"
are small bugs of the code's kind; no specification uses them, they exist to show
that each property would notice one.

| Module | Models | Its actions |
|---|---|---|
| `RateLimiter` | `ratelimit.py`, and the check and refund around a route request | `AllowRoute`, `AllowUncounted`, `RefuseClient`, `RefuseAtCeiling`: the four ways out of `check`; `CacheHit` refunds, `CacheMiss` goes to the router; `RollDay`, the clock |
| `EventKinds` | the kinds of outcome shared by the next three | — |
| `EventSource` | what the pipeline promises its consumers: some events, one end | `Pull` |
| `RouteEvents` | `route_events` and its deadline | one per stage, plus `Fault` (an exception), `Deadline`, `End` |
| `RouteServer` | both transports, clients, the cache entry, `lifespan` | `LoopHead`, `Keepalive`, `Forward`, `StreamEvent`, `Store`, `Cancel`/`Save` (hung up at an await), `Abandon` (hung up at a yield), `Sigterm`, `Drained`, `Close` |
| `RouteCache` | the rows, one SQL statement per action | `FindStale`/`Drop`, `Put`/`Write`/`Count`, `Purge`/`Size`/`Evict`/`Reckon`/`Reclaim`, `Raise` |
| `CacheConnections` | the `conn` property and `close()`, one bytecode-level step each | `Check`, `Look`, `Open`, `Register`, `Use`; `Mark`, `Take`, `Shut`, `Reset`; `Retire` by the thread pool |
| `LiveCalls` | `fetch` in record mode | `Reserve`/`SaveTmp`/`SaveRename`, `Exhausted`, `AnswerGood`/`Written`, `AnswerBad`, `Crash`, `Begin`, `Midnight` |
| `SavedRoutes` | the store, the consent, and the worker's install and activate | one per await of each function, `CloseTab` |
| `AppSearch` | the reducer and `fetchRoutes` | the buttons, the timer, each way a stream can go, the replay |
| `FollowSession` | tracking and rerouting | `Fix`, `PoorFix`, `NoFix`, `Attempt`, `Redrawn`, `Failed`, `Start`, `Stop` |
| `WakeLock` | the sentinel and the browser's side of it | `Start`, `Stop`, `Show`, `Hide`, `Granted`, `Refused` |
| `FollowMode` | `FollowSession` and `WakeLock` under the one `active` that starts and stops both effects | `StartBoth`, `StopBoth`, `WalkStep`, `LockStep` |
| `Cache` | the class: `RouteCache` and `CacheConnections` | `RowsStep`, `ConnectionsStep` |
| `Accessibility` | the tag tables, `_span_verdicts`, `incline_findings`, `assess_route`, the sentence and the status note | operators |
| `WayScores` | the tag tables of `geometry.py`, `weighted_tag_score`, `score_geometry` | operators |
| `Presets` | the custom model of each preset | operators |
| `GraphHopper` | one request and what becomes of its reply: `build_request_body`, `_post_route`, `_shape_upstream_error`, `_parse_path`, `_best_failure` | operators |
| `Candidates` | `route_scenic`, `_route_preference` and the presets of one request | `Begin`, `Settle` (one candidate answered), `Choose`, `Raise` |
| `Survey` | `enrich_context` and the two cards a route is shown with | `Begin` (the first cards), `Reply` (one source), `Depart`, `ShowSecond` |
| `Photos` | `route_photos` and the image proxy | `Begin`, `Reply` (one source at one anchor), `Respond`, `Fetch` |
| `Places` | `GET /api/geocode` | `Ask`, `Hit`, `Miss`, `Failed`, `Found`, `Keep` |
| `Probes` | `check_routing` and `routable_extent`, which have one shape | `Ask`, `Hear`, `Store`, `Cancel`, `Change` (the router) |
| `Upstream` | `Probes`, `LiveCalls`, `Candidates`, `Survey`, `Photos`, `Places` side by side | one step each |

`RouteEvents` implements `EventSource` (run `route_events`, property
`ImplementsEventSource`), and `RouteServer` is built on what `EventSource`
promises: each of its requests holds a source that makes only `EventSource`'s
steps (`EventKinds!Pulls`). So the server is checked against the promise and the
pipeline against the same promise, and neither has to carry the other's states.

Two compositions are sums. In `Upstream` and in `Cache` the parts share no variable
in the code that the models keep, so all interleavings of two of them would say
nothing that each does not say alone; a behaviour takes up one part while the
others have not begun. `FollowMode` is a product: one `active` drives both
parts, and everything between a start and a stop interleaves. `Survey` is built on
`Accessibility` and `WayScores`, `Candidates` on `GraphHopper` and `Presets`, and
`TablesAgree` relates the two sides.

What the models decide, where a reader might ask:

- **RateLimiter.** Time and tokens are integers: a token is `TokenTicks` quanta
  and a tick refills one. `pending` is a request between its check and its
  cache lookup. `routed`, `late`, `born`, `spent` and `promised` are history.
- **RouteEvents.** What a router, an assessment, the barrier survey and the
  narrator answer is free; the order, the early returns and the exceptions are
  the code's. An order is kept as each route's place, and a loop takes the
  objectives by their `Turn`. The survey only adds findings (`accessibility.py` 425-507). quiet,
  shade and air take scenic's path.
- **RouteServer.** A generator is suspended at a yield or at an await. A client
  that hangs up cancels it at an await and closes it at a yield, which only
  `finally` sees; Starlette cancels at whichever level the task stands, so the
  handler's own write may be cut off or may finish: both are allowed. Rows do not
  expire here (they do in `RouteCache`). The constants keep the order of
  `KEEPALIVE_S` 15 s < `DRAIN_TIMEOUT_S` 20 s < `REQUEST_DEADLINE_S` 45 s.
- **RouteCache.** sqlite3 opens a transaction at the first write, so a `SELECT`
  and the `DELETE` after it are two steps. A corrupt payload is a miss that
  changes nothing. Rows of older builds have an expiry that cannot be read.
- **SavedRoutes.** Every `await` that reaches storage is a step. Deletions
  succeed; a put may fail. A bucket deleted by name lives on for whoever holds
  its handle, and nothing can find it again. At this commit no screen calls
  `setSaveResults` (`main.jsx` 24-27); the calls modelled come from a tab of an
  earlier build or from tests. The boot's sweep is not awaited, so it is just one
  more task. What React renders of the setting is left out.
- **AppSearch.** An abort ends an await on the network; awaits on storage, on the
  save and on an error's body go on. A JSON reply takes the stream's places.
- **FollowSession.** A callback runs with the renders and effects it causes as
  one step, in the order React runs them; a commit between two of them is not
  modelled. A fix is two facts about the line: off it, or at its end.
- **Accessibility, WayScores.** Metres, decimetres of climb, percent and
  ten-thousandths are integers; scores round down. Tag values are as
  `normalise()` leaves them. Heights come already on the 20 m grid.
- **Candidates.** A reply is a duration and a scenic score, or a failure. Against
  one's own router candidates settle in any order, as under `gather`; against the
  hosted one in turn. A candidate's fit is in parts of the dial, so that merit is
  an integer. `Fallback` states what the loop over the candidates ends with: the
  first, unless better ones are within the cap, and then the best of those.
- **Survey.** The world is a line: a vertex is a position on it, a mapped node is
  beside it. Distances are therefore exact, and a corridor is a disc. Each source
  fails by itself; a hourly series may miss the hour or have no value for it. The
  sun by slot is an input.
- **Photos.** A photograph is what the proxy may fetch and what carries a licence;
  of two sources at an anchor, Commons comes first. The code sorts, and skips what it
  has had; `InOrder` and `StripIn` say of each place which element it has, by the
  number of those up to it, which is what sorting comes to and can be reasoned about.
- **Places.** One client's bucket. Expiry is compared as `get_geocode` does, at
  the reading; a row found stale is deleted in the same step here, since
  `RouteCache` has the two statements apart.
- **Probes.** The time is read before the router is awaited. Closing the HTTP client is
  an await too, so another probe may store between an answer and its storing. A
  preflight may be cancelled by its stream's deadline.
- **LiveCalls.** One metered service. `try_spend` does not await, so within a
  process only a crash comes between its steps. Live mode asks no budget.

## The runs

Passing runs, with their bounds and why these suffice:

| Run | Bounds | Shows |
|---|---|---|
| `limiter` | 3 clients, a table of 2, capacity 2 tokens of 3 quanta, 2 requests in flight, ceiling 1, 5 readings of the clock, 2 days | eviction needs one client more than the table; a refill that is not a whole token needs `TokenTicks` > 1; a refund from yesterday needs a second day |
| `route_events` | every list of up to 3 of fastest, scenic, accessible | every subset and order the default request can name |
| `route_server` | 2 streams and 1 document, no symmetry since it checks liveness too | streams that meet in the cache entry and in the drain; a third adds no new interaction, the proofs cover any number |
| `cache` | rows: 2 threads, 3 keys, ceiling 1, a sweep every 2 writes, 2 readings of the clock; connections: 3 threads, 5 connections | two sweeps overlapping each other and a write; a thread replaced before and during `close()` |
| `saved_routes` | a save, a reading, a no, and a yes or a boot; two builds | all interleavings of the four and of an activation |
| `follow_mode` | sustain 3, cooldown 2, 8 readings of the clock, 2 lines, 3 lock requests | the order 15 s > 12 s of the code; two attempts in a session, and a walk with two lock requests |
| `app_search` | 2 presses, 3 route types, 2 chips | a search superseded at every place |
| `upstream` | probes: 2 callers, lifetime 2, 5 readings of the clock. Calls: 1 process, 2 fetches, cap 4, costs 1 and 3, 2 days, 2 crashes. Candidates: 5 durations on both sides of each threshold (0.7, 1.35, 1.6 and 2 times), 2 scores, up to 3 candidates. Survey: 5 lines (there and back, a repeated vertex, one long enough to be sampled), up to 3 of 6 nodes on, beside and past the corridor, replies cut at 2. Photos: 2 anchors, 2 sources, 4 answers. Places: 2 requests, a bucket of 2, lifetimes 3 and 1 | two probes that overtake each other; a cost that does and does not fit, crash after crash; every order of settling; each source failing alone; a hit beside a search |

Four more runs look for a violation of what the repository says of itself, and
find it: `route_server_partial`, `app_search_speaks`, `closest_fit` and
`photos_once` ([below](#where-the-code-and-its-words-disagree)).

What the properties say is written above each in its module. In short:

- *Limiter*: `BucketConformance` (no more than a full bucket plus the refill
  since), `RetryAfterIsHonest`, `TableBounded`,
  `CeilingHeldUpToLateRefunds`.
- *Pipeline*: `DoneSettlesTheStream`, `DeadlineKeepsTheLines`,
  `BlockedStaysBlocked`, `AbsenceIsNotClearance`, `ImplementsEventSource`.
- *Service*: `OpenStreamsExact`, `NoSilentEnd`, `SentBeforeStored`,
  `OnlyCancelledCachesPartial`, `DrainReachesEveryStream`, `ShutdownCompletes`.
- *Cache*: `CeilingBetweenSweeps` (only a sweep that raised suspends it),
  `SpaceComesBack`, `FreshRowsStay`; `CloseReachesAllButRacers`.
- *Saved routes*: `NothingKeptAfterNo`, `RefusalTakes`, `ReplayedUnderConsent`.
- *Search*: `SettledInOrder`, `LoadingMeansAsking`.
- *Follow mode*: `SentOnlyWhenLost`, `AttemptsSpaced`, `ArrivalWins`;
  `SleepsAfterStop`.
- *Upstream*: `VerdictIsFresh`; `CapHolds`; `SearchKeepsItsWord` (the caveat on
  a scenic or preference card is the true one, and no acceptable candidate ranks
  higher), `OneReplySuffices`, `TablesAgree` (what a custom model prefers, its
  score does not punish); `CheckedMeansComplete` (a route whose barriers were
  checked lists every gate in the box and the corridor, and none passes without
  reserve over untagged ways), `NoneMeansUnmeasured`, `SurveyOnlyAdds`;
  `StripAlongTheWay`, `FailureCostsItsOwn`; `EverySearchIsPaidFor`.

The types of a module are the first conjunct of one of its properties
(`DoneSettlesTheStream`, `CeilingBetweenSweeps`, `CloseReachesAllButRacers`,
`NothingKeptAfterNo`, `LoadingMeansAsking`, `AttemptsSpaced`, `CapHolds`), so that
each run says one thing at a time.

`CHECK_DEADLOCK FALSE` stands where the system really stops: a request or a
process that has ended, calls made once, or a clock at its bound. Every bound on a
clock, a day, a connection or a call (`MaxNow`, `MaxDay`, `MaxOpened`,
`MaxAcquires`, `MaxSearches`, `MaxLines`, `MaxCrash`) is a guard of the action
that would exceed it.

## Fairness

- `RouteEvents` assumes only that the timer of `wait_for` fires (`Deadline`) and
  that a finished generator is resumed (`End`). No upstream need answer.
- `RouteServer` assumes that the loop runs what is ready (`LoopHead`,
  `Keepalive`), that `lifespan` goes on (`Drained`, `Close`) and that time passes
  (`Tick`). No client need read or leave, and no source need produce anything;
  `ShutdownCompletes` holds all the same.
- All other modules state safety only and assume none.

## Proofs

Eight modules hold the proofs. Each inductive invariant TLC can evaluate was first
checked on the run of its component. The results hold for every number of
clients, streams, threads, presses, calls and routes, and for every value of the
constants that the named assumptions allow.

**`RateLimiterProofs`** (`LimiterAssumption`): `TypeCorrect`;
`CeilingUpToLateRefunds` by `CeilingInv`, which relates the counter to the
requests of today that are pending or routed: neither side is inductive without
it, since a refund lowers both; `Conformance` and `RetryAfterHonest` by
`BucketInv`, the ledger of a bucket (tokens plus what was spent never exceed a
full bucket plus the time since it was made) and, for a refused client, that
waiting out its promise refills a token; `TableStaysBounded` from
`EvictionMakesRoom`.

**`RouteEventsProofs`** (`PresetAssumption`) follows the pipeline. `EventsInv`
relates what the client has been shown to what has been built, at every place of
the generator: each objective asked for is either still in the hands of the loop
that is running, or shown as it was built, and how it was built (as routed, as
assessed, as enriched, as narrated) is fixed by the place. The documents are then
what the relation says where they are made, which gives `EventsDoneSettles` and
`EventsDeadlineKeeps`; `EventsAbsence` and `EventsBlockedStays` are about the two
passes over one route. `EventsKeepTheSource` is the safety half of
`ImplementsEventSource`: the initial states map to `EventSource`'s and every step
to one of its steps or to a stutter. The fairness half stays with TLC.

**`RouteServerProofs`** (`ServerAssumption`): `StreamsCountedExactly` by
cardinality lemmas for a request that enters, leaves or stays in the set being
served; `TypeCorrect`, in which the counter's type is a consequence of that;
`NoStreamEndsSilently`; `DrainIsLongEnough` by `DrainInv`, which adds that a
stream unaware of the shutdown has waited at least as long as the drain has
polled, so that with `KeepaliveTicks < DrainTicks` its keepalive comes first;
`FrameBeforeWrite`; `OnlyCancelledWritesPartial` by `Whole`: what is on its way
to a write of its own accord is complete, so that a truncated document is
written only by the handler of a cancellation (the `route_server_partial` run
shows that it is).

**`CacheProofs`** (`CacheAssumption`, `ConnectionsAssumption`).
`CacheHoldsItsCeiling` by `RowsInv`: while no sweep has raised, whatever a table
holds above its ceiling and the writes since the last sweep began is owed by a
sweep under way, which either has yet to count the table or has counted and is
about to delete at least the excess. Two sweeps that overlap may owe the same
rows, which is why the bound is not inductive alone. `CacheGivesSpaceBack` by
`CountKept`; `CacheKeepsFreshRows`. `CacheCloseReaches` by `ConnectionsInv`: each
call past the check of `_closed` when `close()` began leaves at most one
connection that the list does not have, and nobody passes the check later.

**`SavedRoutesProofs`** (`SavedAssumption`). `SavedNothingKept` by `SavedInv`:
without consent, every saved set that can still be found is answered for by a call
under way, which is about to list the names, has it on its list, or wrote it and
is about to look at the consent again. A boot answers for all, and makes good what
a closed tab left. `SavedRefusalTakes`: a refusal past its second reading leaves no
yes behind, whether the no was written or the flag erased. `SavedReplayed`.

**`AppSearchProofs`** (`SearchAssumption`): `AppSearchSpins` and
`AppSearchSettlesInOrder` by `SearchInv`: only the last press can have its timer
running, no search settles that was not the one asking, and while the phase is
loading that one is past its timer and not at an end.

**`FollowModeProofs`** (`FollowAssumption`, `WakeLockAssumption`). The lock:
`WakeLockType`, and `WakeLockSleeps` and `FollowModeSleeps` by `InHand`: while no
request overlapped another, a sentinel that is held is the one in `lock`, and a
request of the walk is pending only while nothing is held. The walk, by `WalkInv`:
a request waits or flies only for a walk that is lost, the timer it waits on was
set a cooldown after the attempt before, and each line after the first was paid
for with an attempt: `FollowModeSpacesAttempts`, `FollowModeArrives`,
`FollowModeSendsOnlyWhenLost`.

**`UpstreamProofs`** lifts six parts into their composition (`OthersLeaveIt`: a
step of another part leaves this one's variables alone).

- *Probes* (`ProbesAssumption`): `ProbesTypeCorrect`, and
  `ServedFromMemoryIsFresh`. What is remembered was told to some probe no earlier
  than the time it is stored under, because the clock is read before the router is
  asked; the same is said of each probe that has been told and has not yet stored
  its verdict, which is what makes the invariant inductive when probes overlap and
  overwrite one another.
- *Places*, for a finite set of requests: `SearchesArePaidFor`. Searches made, tokens
  in the bucket and requests that were let through and have not yet looked anything
  up add up to no more than the bucket had and was filled with; a token moves among
  the three, so neither the searches nor the bucket is inductive alone.
- *Live calls*, for one backend (`CallsAssumption`; two may overshoot, see below):
  `CallsStayUnderTheCap` by `CallsInv`. What a day's calls cost is in the file under
  that day (`OnDisk`), the counter in memory is never behind it (`InMemory`), only
  one fetch is between its steps without an await (`OneAtATime`), and what that one
  reserved still fits and is what the temporary file holds (`Reserved`). A crash
  between any two steps then forgets a reservation only if no call was made on it.
- *Candidates* (`UpstreamAssumption`): `TheCardKeepsItsWord` and `OneReplyIsEnough` by
  `SearchInv`. What came back has a duration and a score; a hosted router's replies are
  numbered in the order they were asked for, and each but the last is a route that
  will not do. A finite set of candidates has a first with the most merit
  (`FirstMost`, by well-founded minima, since `CHOOSE` needs a witness), and the words
  are read off the comparison that made the choice (`ScenicWord`, `PreferenceWord`).
  `TheTablesAgree` depends on no constant; it is worked out by cases: at most one rule
  of a model names a kind of way (`NamedOnce`, `NeverNamed`), and the kinds a rule
  names lie in one range of the table (`QuietClasses` and the five after it).
- *Survey*: `NoneIsUnmeasured` and `TheSurveyOnlyAdds` by `SurveyInv`: a second card is
  shown only once every source has answered or failed, and is then the function of
  those answers that the code computes; `AskingAdds` and `SecondHolds` are what that
  function keeps of the first card. `CheckedIsComplete` (`SurveyAssumption`: nodes are
  finitely many, a route has two vertices, spans count segments) by `LookedInv`, which
  adds that the trip is one that may be made and that barriers which are known are
  *all* that match: a reply is used only when it is shorter than the limit, and then it
  has as many nodes as there are (`UsedIsWhole`). The rest is about the operators. There
  is a nearest segment and, unless the line ends in a repeated vertex, it has a length
  (`NearestIsThere`, `NearestIsASegment`), so the span of a gate on the line covers some
  metres and the assessment finds it (`GateIsFound`). Each span whose tag is judged is
  one whose tag is recorded, so the metres that pass and fail are no more than the
  metres recorded (`JudgedIsRecorded`, `PassIsRecorded`).
- *Photos* (`PhotosAssumption`): `TheStripGoesAlong` and `AFailureCostsItsOwn` by
  `StripInv`. The anchors lie along the route, the barrier's at a barrier
  (`AnchorsAlongTheRoute`), and each reply is what some answer comes to at its anchor;
  what an anchor has is then found there, and it has something iff one of its sources
  had (`FoundAtAnchor`). The strip is stated by rank: the photograph at place k is the
  one with k of those offered up to it. The order is total, so that each rank is taken
  exactly once (`Ranked`, since an injection into as many ranks is onto), and what
  comes first in the strip does not lie further along (`StripSound`).

Totals and priorities are recursive functions on an interval of the naturals. That
the function exists and satisfies its own equation is proved before it is used
(`SumsRun`, `PriorityIs`); what a total is worth is proved by induction, stated of the
set of the indices at which a fact holds, whose complement would have a least member
(`StepByStep`).

Out of the proof system's reach, and checked by TLC only: liveness
(`ShutdownCompletes`, and the fairness `ImplementsEventSource` asks for) and
ENABLED. Every other property of a passing run is stated by a theorem.

## Where the code and its words disagree

Four of them are runs that are expected to find a violation; `PROJECT.json`
quotes the words.

| Run | Property | In short |
|---|---|---|
| `route_server_partial` | `PartialNeverCached` | a stream cancelled after it sent a truncated document writes that document to the cache (`main.py` 1586; 1429 says what is partial is never cached) |
| `app_search_speaks` | `OnlyTheCurrentSearchSpeaks` | a superseded search can still show its replayed routes, or its error, over the search that replaced it (`App.jsx` 396, `client.js` 118) |
| `closest_fit` | `ClosestFitIsKept` | every loop of at least twice the dial has fit 0, so the first asked for is kept and called the closest (`routing.py` 254; 1170 and 1233) |
| `photos_once` | `OnePhotographOnce` | duplicates are dropped within an anchor, not between anchors (`photos.py` 854; 797) |

The others are stated in their modules next to the properties that hold. Check
the module's `Spec` with that property as its invariant, with the constants of the
run it belongs to and those noted, and TLC prints the trace described here.

| Module | Property | Trace | Words it contradicts |
|---|---|---|---|
| `RateLimiter` | `CeilingHeld` | a refund for a charge from before midnight frees a slot of the new day, since buckets outlive the roll | `ratelimit.py` 167-180 |
| `RouteEvents` | `OneDocument` | a budget that runs out while the done event is made adds a second, truncated one (`main.py` 1386) | `tests/test_sse_contract.py` 147 |
| `RouteEvents` | `BlockedKeepsItsSlot` | a truncated document leaves out objectives shown as blocked, which have no geometry (`main.py` 1411) | `docs/API.md` 122 |
| `RouteServer` | `ShuttingDownMeansUnfinished` | a SIGTERM between the done frame and the end sends "was not finished" behind a finished answer (`main.py` 1508) | `docs/API.md` 173 |
| `RouteServer`, with `WritesMayFail = FALSE` | `ComputedAnswerIsKept` | a client that leaves at the yield of the done frame closes the generator, and the answer is not stored (`main.py` 1568) | `main.py` 1584 |
| `RouteCache` | `EvictsDownToCeiling` | rows another thread removes between an eviction's count and its delete are removed twice over (`cache.py` 594) | `cache.py` 586 |
| `CacheConnections` | `NoConnectionOutlivesClose` | a call past the check of `_closed` registers a connection in a list `close()` has replaced (`cache.py` 228) | `cache.py` 703 |
| `CacheConnections` | `OneConnectionPerThread` | connections of threads the pool retires stay open in `_all` (`cache.py` 241) | `cache.py` 174 |
| `SavedRoutes`, with two saves | `ExactlyOneEver` | two saves on either side of an activation hold different names, and each writes after the other's sweep | `resultsStore.js` 288 |
| `FollowSession` | `ReroutingMeansInFlight` | a request aborted because the walker is back on the line leaves `rerouting` set (`useReroute.js` 183) | `useReroute.js` 90 |
| `FollowSession` | `MatchedOnOwnLine` | the first match on a new line is windowed round the anchor of the old one (`followTracking.js` 256) | `followTracking.js` 263 |
| `FollowSession` | `ArrivalCountsWhatWasSent` | a request that was sent and failed is not counted, and the arrival card says nothing was uploaded (`useReroute.js` 173) | `useReroute.js` 92 |
| `WakeLock` | `NothingLeftBehind` | the page is hidden and shown while a request is unanswered; both are granted and Stop releases one (`followTracking.js` 216) | `followTracking.js` 172 |
| `AppSearch` | `ShownForPressedChips` | a search that settles brings back the route of a chip released meanwhile (`App.jsx` 215) | `App.jsx` 196 |
| `AppSearch` | `ReplayedOnlyIfNothingGiven` | a stream that ends without `done` is replayed over what it delivered (`client.js` 260) | `client.js` 238 |
| `Probes` | `NewestIsKept` | of two probes under way the older one ends last and its verdict overwrites the newer, a failed one too, for a whole lifetime (`coverage.py` 115, `health.py` 98) | none: it is a hazard, and bounded by `VerdictIsFresh` |
| `LiveCalls`, with two processes | `OvershootIsSlight` | two processes save over each other's count, and one that restarts loads the smaller (`fixtures.py` 272) | `fixtures.py` 222 |

Reading the code for the pure operators turned up more, which no run states
because the models follow the code in them:

- `routing.py` 257-304 excludes eight surfaces for accessible routes, without
  FINE_GRAVEL, which `accessibility.py` 69 rejects: a route may be steered over what
  its own assessment then blocks.
- `accessibility.py` 289-354: the sustained window is `int(50 / 20)` = 2 grid steps,
  so 40 m, where the sentence says 50 m or more.
- `routing.py` 1097-1101: "preferring one that at least fits the cap" is not so
  when the first candidate is over it and a later one inside it ranks lower. The note
  of the fallback says "the shortest one that is meaningfully better"; it is the
  first one asked for, or one with more merit.
- `routing.py` 1111: the note on a short loop hides that nothing was compared.
- `enrich.py` 660-764: of equally near segments the last is taken, and a line that
  ends in a repeated vertex loses a gate at its end (`CheckedMeansComplete`
  sets it apart).
- `enrich.py` 1056-1060: the box is made of the sampled line, so a node near an
  extreme of a long route may not be asked about. `CheckedMeansComplete` speaks of
  the box.
- `enrich.py` 863-926: the departure asks failed sources a second time, so its
  reason may name an air reading the card does not have.
- `main.py` 1815: a failed write to the cache turns an answer that was computed into
  a 500; and an older empty answer may overwrite a newer found one.
- `osm_report.py` 91: "Nothing was sent" may be untrue after a timeout.

## Only model-checked, and not modelled

Only model-checked: all liveness. Of the pure operators, the theorems say nothing of
what `WayScores` makes of a route's tags, of `InclineFindings`, of the sampling of a
long line (`Sampled` is what it is: a gate outside the box was not asked about), and of
the best departure; the runs exercise them through the cards.

Not modelled, with reasons, are the components `PROJECT.json` marks so: floating
point (haversine, curviness, elevation statistics, the sun, the matching of a fix to
a line), CLIP, drawing (map, screens), offline tools (fixtures, batch scoring, graph
scripts), deployment, narration and barrier reports (one call each, no state),
metrics, and place search in the client.

## Plan

Done, in this order: the limiter, the pipeline over its abstract source, the
service, the cache, the store, follow mode, search, the budget; the probes, the
candidates with their requests and errors, the assessments and scores, the survey, the
photographs and the place endpoint; the proofs of the limiter, the pipeline, the
service, the cache, the store, search, follow mode and its lock, the probes, the
place endpoint, the live-call budget, the candidates and their tables, the survey and
what it promises, and the photographs.

Next modules, should they be wanted: `PlaceSearch` (`PlaceInput.jsx` and its memory
of answers), the worker's fetch handler, the permalink's round trip, the day of
`metrics.py`.

Next proofs: the four `Phases` of `EventSource` as a refinement of the server's view
of it; that a sampled line keeps the ends of the route it was taken from.
