---------------------------- MODULE RouteServer ----------------------------
(***************************************************************************)
(* POST /api/routes as a server (backend/main.py): the cache lookup, the   *)
(* event-stream transport _stream with its keepalive, the JSON transport   *)
(* in post_routes, the client that hangs up, and the shutdown in lifespan  *)
(* that drains both.  All requests here ask for the same route, so they    *)
(* share one cache entry.                                                  *)
(*                                                                         *)
(* A generator is suspended either at a yield, while its frame is being    *)
(* written to the client, or at an await.  A client that hangs up cancels  *)
(* a generator at an await, and closes one at a yield (GeneratorExit),     *)
(* which only its finally clause sees.                                     *)
(*                                                                         *)
(* Time is counted in ticks.  The event loop is prompt: no tick passes     *)
(* while a loop has something to do at once.                               *)
(***************************************************************************)
EXTENDS Integers, FiniteSets, Sequences, EventKinds

CONSTANTS Streams,         \* requests that accept text/event-stream
          Documents,       \* requests that want the whole document at once
          KeepaliveTicks,  \* KEEPALIVE_S
          DrainTicks,      \* DRAIN_TIMEOUT_S
          WritesMayFail    \* whether put_route may raise (database full)

ASSUME ServerAssumption ==
    /\ IsFiniteSet(Streams) /\ IsFiniteSet(Documents)
    /\ Streams \cap Documents = {}
    /\ KeepaliveTicks \in Nat \ {0}
    /\ DrainTicks \in Nat /\ KeepaliveTicks < DrainTicks
    /\ WritesMayFail \in BOOLEAN

VARIABLES loc,       \* where each request's handler or generator is
          phase,     \* its event source, an EventSource
          finished,  \* the payload it holds: none, complete or partial
          cached,    \* cached in _stream: the payload is in the cache
          sent,      \* the outcomes sent to its client, in order
          waited,    \* ticks this asyncio.wait has lasted
          open,      \* _open_streams
          stage,     \* lifespan: serving, draining, closing, closed, stopped
          elapsed,   \* ticks the drain loop has polled for
          entry      \* the cache entry: none, complete or partial

vars == <<loc, phase, finished, cached, sent, waited, open, stage, elapsed, entry>>
lifespan == <<stage, elapsed>>

Requests == Streams \cup Documents
Running == stage # "stopped"
ShuttingDown == stage # "serving"   \* _shutting_down.is_set()
CacheOpen == stage \in {"serving", "draining", "closing"}

Left == {"over", "gone"}
AtYield == {"sending", "sendingDone", "bye"}
Counted == {"head", "pull", "storing", "saving"} \cup AtYield
InService == {r \in Requests : loc[r] \in Counted}

Init ==
    /\ loc = [r \in Requests |-> "idle"]
    /\ phase = [r \in Requests |-> "working"]
    /\ finished = [r \in Requests |-> "none"]
    /\ cached = [r \in Requests |-> FALSE]
    /\ sent = [r \in Requests |-> << >>]
    /\ waited = [r \in Requests |-> 0]
    /\ open = 0
    /\ stage = "serving" /\ elapsed = 0
    /\ entry = "none"

-----------------------------------------------------------------------------
Goto(r, place) == loc' = [loc EXCEPT ![r] = place]
Send(r, outcome) == sent' = [sent EXCEPT ![r] = Append(@, outcome)]
Leave(r, place) == Goto(r, place) /\ open' = open - 1

(* put_route: an upsert, unless the cache is closed or the write fails. *)
Writes == {ok \in BOOLEAN : IF CacheOpen THEN ok \/ WritesMayFail ELSE ~ok}
Written(r, ok) == entry' = IF ok THEN finished[r] ELSE entry

(* post_routes: the entry is looked up while others run.  A hit is         *)
(* answered from it, a stream replaying it outside _stream; a missed       *)
(* stream is counted when its generator first runs, a document at once.    *)
Arrive(r) ==
    /\ stage = "serving" /\ loc[r] = "idle"
    /\ Goto(r, "lookup")
    /\ UNCHANGED <<phase, finished, cached, sent, waited, open, lifespan, entry>>

Lookup(r) ==
    /\ Running /\ loc[r] = "lookup"
    /\ IF entry # "none"
       THEN Goto(r, "over") /\ Send(r, "done") /\ UNCHANGED open
       ELSE /\ Goto(r, IF r \in Streams THEN "queued" ELSE "pull")
            /\ open' = IF r \in Streams THEN open ELSE open + 1
            /\ UNCHANGED sent
    /\ UNCHANGED <<phase, finished, cached, waited, lifespan, entry>>

-----------------------------------------------------------------------------
Start(r) ==
    /\ Running /\ loc[r] = "queued"
    /\ Goto(r, "head") /\ open' = open + 1
    /\ UNCHANGED <<phase, finished, cached, sent, waited, lifespan, entry>>

(* The head of _stream's loop: say goodbye, or wait on the pull in flight. *)
LoopHead(r) ==
    /\ Running /\ loc[r] = "head"
    /\ IF ShuttingDown
       THEN Goto(r, "bye") /\ Send(r, "shutting_down") /\ UNCHANGED waited
       ELSE Goto(r, "pull") /\ waited' = [waited EXCEPT ![r] = 0] /\ UNCHANGED sent
    /\ UNCHANGED <<phase, finished, cached, open, lifespan, entry>>

\* Slips: the keepalive as it was, with wait_for, which cancels the pull; a
\* keepalive that goes on waiting without another look at the flag.
KeepaliveCancels(r) ==
    /\ Running /\ loc[r] = "pull" /\ waited[r] = KeepaliveTicks
    /\ Goto(r, "sending")
    /\ phase' = [phase EXCEPT ![r] = "ended"]
    /\ UNCHANGED <<finished, cached, sent, waited, open, lifespan, entry>>
KeepaliveWaitsOn(r) ==
    /\ Running /\ loc[r] = "pull" /\ waited[r] = KeepaliveTicks
    /\ waited' = [waited EXCEPT ![r] = 0]
    /\ UNCHANGED <<loc, phase, finished, cached, sent, open, lifespan, entry>>

(* Nothing in time: a comment frame, and the pull stays in flight. *)
Keepalive(r) ==
    /\ Running /\ loc[r] = "pull" /\ waited[r] = KeepaliveTicks
    /\ Goto(r, "sending")
    /\ UNCHANGED <<phase, finished, cached, sent, waited, open, lifespan, entry>>

\* A slip, and the order it once had: the write before the frame.
ForwardStored(r, document) ==
    /\ finished' = [finished EXCEPT ![r] =
                      IF document = "done" THEN "complete" ELSE "partial"]
    /\ Goto(r, IF document = "done" THEN "storing" ELSE "sending")
    /\ IF document = "done" THEN UNCHANGED sent ELSE Send(r, document)

(* A document is kept, sent, and only then, if it is complete, written. *)
Forward(r, document) ==
    /\ finished' = [finished EXCEPT ![r] =
                      IF document = "done" THEN "complete" ELSE "partial"]
    /\ Goto(r, IF document = "done" THEN "sendingDone" ELSE "sending")
    /\ Send(r, document)

(* The pull returns; a stream forwards routes and a timeout as they are. *)
StreamEvent(r, p) ==
    /\ Running /\ loc[r] = "pull"
    /\ phase' = [phase EXCEPT ![r] = p.next]
    /\ \/ p.event = "route" /\ Goto(r, "sending") /\ UNCHANGED <<finished, sent, open>>
       \/ p.event = "timeout" /\ Goto(r, "sending") /\ Send(r, "error")
          /\ UNCHANGED <<finished, open>>
       \/ p.event \in {"done", "truncated"} /\ Forward(r, p.event) /\ UNCHANGED open
       \/ p.event = "raised" /\ Goto(r, "bye") /\ Send(r, "error")
          /\ UNCHANGED <<finished, open>>
       \/ p.event = "end" /\ Leave(r, "over") /\ UNCHANGED <<finished, sent>>
    /\ UNCHANGED <<cached, waited, lifespan, entry>>

\* A slip: any document is written, as it was before the partial flag.
SentStoresAny(r) ==
    /\ Running
    /\ \/ loc[r] = "sending" /\ finished[r] # "partial" /\ Goto(r, "head")
          /\ UNCHANGED <<open, cached>>
       \/ /\ \/ loc[r] = "sendingDone"
             \/ loc[r] = "sending" /\ finished[r] = "partial"
          /\ Goto(r, "storing") /\ UNCHANGED <<open, cached>>
       \/ loc[r] = "bye" /\ Leave(r, "over") /\ UNCHANGED cached
    /\ UNCHANGED <<phase, finished, sent, waited, lifespan, entry>>

(* The client has taken the frame and the generator runs on. *)
Sent(r) ==
    /\ Running
    /\ \/ loc[r] = "sending" /\ Goto(r, "head") /\ UNCHANGED open
       \/ loc[r] = "sendingDone" /\ Goto(r, "storing") /\ UNCHANGED open
       \/ loc[r] = "bye" /\ Leave(r, "over")
    /\ UNCHANGED <<phase, finished, cached, sent, waited, lifespan, entry>>

Store(r) ==
    /\ Running /\ loc[r] = "storing"
    /\ \E ok \in Writes :
          Written(r, ok) /\ cached' = [cached EXCEPT ![r] = @ \/ ok]
    /\ Goto(r, "head")
    /\ UNCHANGED <<phase, finished, sent, waited, open, lifespan>>

\* A slip: the finally clause is missing on the way out.
AbandonUncounted(r) ==
    /\ Running /\ loc[r] \in AtYield \cup {"queued"}
    /\ Goto(r, "gone")
    /\ UNCHANGED <<phase, finished, cached, sent, waited, open, lifespan, entry>>

(* The client hangs up while a frame is written, or before the first one:  *)
(* the generator is closed where it stands and keeps nothing.              *)
Abandon(r) ==
    /\ Running /\ loc[r] \in AtYield \cup {"queued"}
    /\ Goto(r, "gone")
    /\ open' = IF loc[r] = "queued" THEN open ELSE open - 1
    /\ UNCHANGED <<phase, finished, cached, sent, waited, lifespan, entry>>

(* The client hangs up while the generator awaits: CancelledError.  A      *)
(* write in flight may land all the same; a payload that is held and not   *)
(* known to be cached is written on the way out.                           *)
Cancel(r) ==
    /\ Running /\ loc[r] \in {"pull", "storing"}
    /\ IF finished[r] # "none" /\ ~cached[r]
       THEN Goto(r, "saving") /\ UNCHANGED open
       ELSE Leave(r, "gone")
    /\ \/ UNCHANGED entry
       \/ loc[r] = "storing" /\ CacheOpen /\ Written(r, TRUE)
    /\ UNCHANGED <<phase, finished, cached, sent, waited, lifespan>>

(* The write of the handler, unless it is cancelled in its turn. *)
Save(r) ==
    /\ Running /\ loc[r] = "saving"
    /\ \E ok \in Writes \cup {FALSE} : Written(r, ok)
    /\ Leave(r, "gone")
    /\ UNCHANGED <<phase, finished, cached, sent, waited, lifespan>>

-----------------------------------------------------------------------------
(* The JSON transport: the flag is read behind each event, and what a      *)
(* document holds at the end is sent after the request is no longer open.  *)
DocumentEvent(r, p) ==
    /\ Running /\ loc[r] = "pull"
    /\ phase' = [phase EXCEPT ![r] = p.next]
    /\ \/ /\ p.event = "raised"
          /\ Leave(r, "over") /\ Send(r, "error") /\ UNCHANGED finished
       \/ /\ p.event = "end"
          /\ Leave(r, IF finished[r] = "complete" THEN "settling" ELSE "over")
          /\ CASE finished[r] = "complete" -> UNCHANGED sent
               [] finished[r] = "partial" -> Send(r, "truncated")
               [] finished[r] = "none" -> Send(r, "error")
          /\ UNCHANGED finished
       \/ /\ p.event \notin {"raised", "end"}
          /\ IF ShuttingDown
             THEN Leave(r, "over") /\ Send(r, "shutting_down") /\ UNCHANGED finished
             ELSE /\ finished' = [finished EXCEPT ![r] =
                                    CASE p.event = "done" -> "complete"
                                      [] p.event = "truncated" -> "partial"
                                      [] OTHER -> @]
                  /\ UNCHANGED <<loc, open, sent>>
    /\ UNCHANGED <<cached, waited, lifespan, entry>>

Settle(r) ==
    /\ Running /\ loc[r] = "settling"
    /\ \E ok \in Writes : Written(r, ok)
    /\ Goto(r, "over") /\ Send(r, "done")
    /\ UNCHANGED <<phase, finished, cached, waited, open, lifespan>>

-----------------------------------------------------------------------------
(* lifespan: the flag, a bounded wait for what is open, the clients, the   *)
(* cache, and the process is gone.                                         *)
Sigterm ==
    /\ stage = "serving" /\ stage' = "draining"
    /\ UNCHANGED <<loc, phase, finished, cached, sent, waited, open, elapsed, entry>>

\* A slip: a drain that waits for whoever is still there.
DrainForever ==
    /\ stage = "draining" /\ open = 0
    /\ stage' = "closing"
    /\ UNCHANGED <<loc, phase, finished, cached, sent, waited, open, elapsed, entry>>

Drained ==
    /\ stage = "draining" /\ (open = 0 \/ elapsed = DrainTicks)
    /\ stage' = "closing"
    /\ UNCHANGED <<loc, phase, finished, cached, sent, waited, open, elapsed, entry>>

Close ==
    /\ \/ stage = "closing" /\ stage' = "closed"
       \/ stage = "closed" /\ stage' = "stopped"
    /\ UNCHANGED <<loc, phase, finished, cached, sent, waited, open, elapsed, entry>>

(* Time passes unless a keepalive, a loop head or the drain is due. *)
Waiting == {r \in Streams : loc[r] = "pull"}
Tick ==
    /\ Running
    /\ \A r \in Streams : loc[r] # "head"
    /\ \A r \in Waiting : waited[r] < KeepaliveTicks
    /\ stage = "draining" => open # 0 /\ elapsed < DrainTicks
    /\ waited' = [r \in Requests |-> IF r \in Waiting THEN waited[r] + 1 ELSE waited[r]]
    /\ elapsed' = IF stage = "draining" THEN elapsed + 1 ELSE elapsed
    /\ UNCHANGED <<loc, phase, finished, cached, sent, open, stage, entry>>

Next ==
    \/ \E r \in Requests : Arrive(r) \/ Lookup(r)
    \/ \E r \in Streams :
          \/ Start(r) \/ LoopHead(r) \/ Keepalive(r)
          \/ \E p \in Pulls(phase[r]) : StreamEvent(r, p)
          \/ Sent(r) \/ Store(r) \/ Abandon(r) \/ Cancel(r) \/ Save(r)
    \/ \E r \in Documents :
          \/ \E p \in Pulls(phase[r]) : DocumentEvent(r, p)
          \/ Settle(r)
    \/ Sigterm \/ Drained \/ Close \/ Tick

(* The event loop and the clock run on.  No client need ever take a frame, *)
(* hang up or send one, and no source need ever produce an event.          *)
Spec ==
    /\ Init /\ [][Next]_vars
    /\ \A r \in Streams : WF_vars(LoopHead(r)) /\ WF_vars(Keepalive(r))
    /\ WF_vars(Drained) /\ WF_vars(Close) /\ WF_vars(Tick)

-----------------------------------------------------------------------------
StreamPlaces == {"idle", "lookup", "queued"} \cup Counted \cup Left
DocumentPlaces == {"idle", "lookup", "pull", "settling", "over"}

(* The types of everything but the counter, whose type is a fact about all *)
(* the ways in and out.                                                    *)
ShapeOK ==
    /\ loc \in [Requests -> StreamPlaces \cup DocumentPlaces]
    /\ \A r \in Streams : loc[r] \in StreamPlaces
    /\ \A r \in Documents : loc[r] \in DocumentPlaces
    /\ phase \in [Requests -> Phases]
    /\ finished \in [Requests -> {"none", "complete", "partial"}]
    /\ cached \in [Requests -> BOOLEAN]
    /\ sent \in [Requests ->
                   Seq({"done", "truncated", "error", "shutting_down"})]
    /\ waited \in [Requests -> 0..KeepaliveTicks]
    /\ stage \in {"serving", "draining", "closing", "closed", "stopped"}
    /\ elapsed \in 0..DrainTicks
    /\ entry \in {"none", "complete", "partial"}
TypeOK == ShapeOK /\ open \in Nat

(* What the drain waits for is exactly what is being answered: every way   *)
(* out of both transports gives its place back once.                       *)
OpenStreamsExact == open = Cardinality(InService)

(* No stream ends without a word: a client that stayed was sent a document *)
(* or an error, whatever keepalives, failing writes and shutdowns came.    *)
NoSilentEnd == \A r \in Requests : loc[r] = "over" => sent[r] # << >>

(* A document is in its client's hands before the cache is written, so a   *)
(* failing cache never costs an answer.                                    *)
SentBeforeStored ==
    \A r \in Streams :
        loc[r] \in {"storing", "saving"} => \E i \in DOMAIN sent[r] :
            sent[r][i] \in {"done", "truncated"}

(* The entry only ever gets a truncated document from a stream that was    *)
(* cancelled after sending one; no stream that runs to its end writes it.  *)
OnlyCancelledCachesPartial ==
    [][entry # "partial" /\ entry' = "partial" =>
          \E r \in Streams : loc[r] = "saving" /\ finished[r] = "partial"]_vars

(* The drain is long enough: when it is over no stream is still waiting on *)
(* its source unaware of the shutdown.                                     *)
DrainReachesEveryStream ==
    stage \in {"closing", "closed", "stopped"} => Waiting = {}

(* The process stops after a SIGTERM, also if no client reads or leaves    *)
(* and no upstream answers.                                                *)
ShutdownCompletes == stage = "draining" ~> stage = "stopped"

(* main.py on the partial flag: a truncated answer is not written to the   *)
(* cache for the next caller.                                              *)
PartialNeverCached == entry # "partial"

(* The message of the frame: your request was not finished. *)
ShuttingDownMeansUnfinished ==
    \A r \in Requests : \A i, j \in DOMAIN sent[r] :
        sent[r][i] = "done" => sent[r][j] # "shutting_down"

(* The CancelledError handler: if the answer was already computed, keep it.*)
ComputedAnswerIsKept ==
    \A r \in Streams :
        loc[r] = "gone" /\ finished[r] = "complete" => entry # "none"

=============================================================================
