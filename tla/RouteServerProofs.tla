------------------------- MODULE RouteServerProofs -------------------------
(***************************************************************************)
(* Theorems about RouteServer, for any number of streams and documents and *)
(* any keepalive shorter than the drain.                                   *)
(***************************************************************************)
EXTENDS RouteServer, FiniteSetTheorems, TLAPS

(* What a pull can return: an end only behind an outcome, a route only     *)
(* before one.                                                             *)
LEMMA PullCases ==
    ASSUME NEW ph \in Phases, NEW p \in Pulls(ph)
    PROVE  /\ p.next \in Phases
           /\ p.event \in {"route", "done", "truncated", "timeout", "raised", "end"}
           /\ p.event = "end" => ph # "working"
           /\ p.event = "route" => p.next = "working"
  BY DEF Phases, Pulls

-----------------------------------------------------------------------------
LEMMA ShapeInit == Init => ShapeOK
  <1> SUFFICES ASSUME Init PROVE ShapeOK
    OBVIOUS
  <1>1. 0 \in 0..KeepaliveTicks /\ 0 \in 0..DrainTicks
    BY ServerAssumption
  <1> QED
    BY <1>1 DEF Init, ShapeOK, Requests, StreamPlaces, DocumentPlaces, Phases

(* The two functions every handler updates stay within their types. *)
LocOK ==
    /\ loc \in [Requests -> StreamPlaces \cup DocumentPlaces]
    /\ \A r \in Streams : loc[r] \in StreamPlaces
    /\ \A r \in Documents : loc[r] \in DocumentPlaces
SentOK == sent \in [Requests -> Seq({"done", "truncated", "error", "shutting_down"})]
RestOK ==
    /\ phase \in [Requests -> Phases]
    /\ finished \in [Requests -> {"none", "complete", "partial"}]
    /\ cached \in [Requests -> BOOLEAN]
    /\ waited \in [Requests -> 0..KeepaliveTicks]
    /\ stage \in {"serving", "draining", "closing", "closed", "stopped"}
    /\ elapsed \in 0..DrainTicks
    /\ entry \in {"none", "complete", "partial"}

LEMMA ShapeParts ==
    /\ ShapeOK <=> LocOK /\ SentOK /\ RestOK
    /\ ShapeOK' <=> LocOK' /\ SentOK' /\ RestOK'
  BY DEF ShapeOK, LocOK, SentOK, RestOK

LEMMA StreamGoes ==
    ASSUME LocOK, NEW r \in Streams, NEW place \in StreamPlaces, Goto(r, place)
    PROVE  LocOK'
  BY ServerAssumption DEF LocOK, Goto, Requests

LEMMA DocumentGoes ==
    ASSUME LocOK, NEW r \in Documents, NEW place \in DocumentPlaces, Goto(r, place)
    PROVE  LocOK'
  BY ServerAssumption DEF LocOK, Goto, Requests

LEMMA Sends ==
    ASSUME SentOK, NEW r \in Requests,
           NEW outcome \in {"done", "truncated", "error", "shutting_down"},
           Send(r, outcome)
    PROVE  SentOK' /\ sent'[r] # << >>
  BY DEF SentOK, Send

LEMMA ShapeStep ==
    ASSUME ShapeOK, [Next]_vars
    PROVE  ShapeOK'
  <1> USE ShapeParts
  <1>p. /\ "over" \in StreamPlaces /\ "gone" \in StreamPlaces
        /\ Counted \subseteq StreamPlaces
        /\ {"lookup", "queued"} \subseteq StreamPlaces
        /\ {"head", "pull", "storing", "saving", "sending", "sendingDone", "bye"}
             \subseteq Counted
        /\ {"lookup", "pull", "settling", "over"} \subseteq DocumentPlaces
        /\ Streams \subseteq Requests /\ Documents \subseteq Requests
    BY DEF StreamPlaces, DocumentPlaces, Counted, AtYield, Left, Requests
  <1>k. KeepaliveTicks \in Nat /\ DrainTicks \in Nat /\ 0 \in 0..KeepaliveTicks
    BY ServerAssumption
  <1>1. ASSUME NEW r \in Requests, Arrive(r) PROVE ShapeOK'
    <2>1. LocOK'
      BY <1>1, <1>p, StreamGoes, DocumentGoes DEF Arrive, Requests
    <2> QED
      BY <1>1, <2>1 DEF Arrive, SentOK, RestOK, lifespan
  <1>2. ASSUME NEW r \in Requests, Lookup(r) PROVE ShapeOK'
    <2>1. LocOK'
      BY <1>2, <1>p, StreamGoes, DocumentGoes, ServerAssumption DEF Lookup, Requests
    <2>2. SentOK'
      BY <1>2, Sends DEF Lookup, SentOK
    <2> QED
      BY <1>2, <2>1, <2>2 DEF Lookup, RestOK, lifespan
  <1>3. ASSUME NEW r \in Streams, Start(r) PROVE ShapeOK'
    <2>1. LocOK'
      BY <1>3, <1>p, StreamGoes DEF Start
    <2> QED
      BY <1>3, <2>1 DEF Start, SentOK, RestOK, lifespan
  <1>4. ASSUME NEW r \in Streams, LoopHead(r) PROVE ShapeOK'
    <2>1. LocOK'
      BY <1>4, <1>p, StreamGoes DEF LoopHead
    <2>2. SentOK'
      BY <1>4, <1>p, Sends DEF LoopHead, SentOK
    <2> QED
      BY <1>4, <1>k, <2>1, <2>2 DEF LoopHead, RestOK, lifespan
  <1>5. ASSUME NEW r \in Streams, Keepalive(r) PROVE ShapeOK'
    <2>1. LocOK'
      BY <1>5, <1>p, StreamGoes DEF Keepalive
    <2> QED
      BY <1>5, <2>1 DEF Keepalive, SentOK, RestOK, lifespan
  <1>6. ASSUME NEW r \in Streams, NEW p \in Pulls(phase[r]), StreamEvent(r, p)
        PROVE  ShapeOK'
    <2>1. p.next \in Phases /\ r \in Requests
      BY <1>p, PullCases DEF RestOK
    <2>2. LocOK'
      BY <1>6, <1>p, StreamGoes DEF StreamEvent, Forward, Leave
    <2>3. SentOK'
      BY <1>6, <2>1, Sends DEF StreamEvent, Forward, SentOK
    <2>4. finished' \in [Requests -> {"none", "complete", "partial"}]
      BY <1>6, <2>1 DEF StreamEvent, Forward, RestOK
    <2>5. phase' \in [Requests -> Phases]
      BY <1>6, <2>1 DEF StreamEvent, RestOK
    <2> QED
      BY <1>6, <2>2, <2>3, <2>4, <2>5 DEF StreamEvent, RestOK, lifespan
  <1>7. ASSUME NEW r \in Streams, Sent(r) PROVE ShapeOK'
    <2>1. LocOK'
      BY <1>7, <1>p, StreamGoes DEF Sent, Leave
    <2> QED
      BY <1>7, <2>1 DEF Sent, SentOK, RestOK, lifespan
  <1>8. ASSUME NEW r \in Streams, Store(r) PROVE ShapeOK'
    <2>1. LocOK'
      BY <1>8, <1>p, StreamGoes DEF Store
    <2> QED
      BY <1>8, <1>p, <2>1 DEF Store, Written, Writes, SentOK, RestOK, lifespan
  <1>9. ASSUME NEW r \in Streams, Abandon(r) PROVE ShapeOK'
    <2>1. LocOK'
      BY <1>9, <1>p, StreamGoes DEF Abandon
    <2> QED
      BY <1>9, <2>1 DEF Abandon, SentOK, RestOK, lifespan
  <1>10. ASSUME NEW r \in Streams, Cancel(r) PROVE ShapeOK'
    <2>1. LocOK'
      BY <1>10, <1>p, StreamGoes DEF Cancel, Leave
    <2> QED
      BY <1>10, <1>p, <2>1 DEF Cancel, Written, SentOK, RestOK, lifespan
  <1>11. ASSUME NEW r \in Streams, Save(r) PROVE ShapeOK'
    <2>1. LocOK'
      BY <1>11, <1>p, StreamGoes DEF Save, Leave
    <2> QED
      BY <1>11, <1>p, <2>1 DEF Save, Written, Writes, SentOK, RestOK, lifespan
  <1>12. ASSUME NEW r \in Documents, NEW p \in Pulls(phase[r]), DocumentEvent(r, p)
         PROVE  ShapeOK'
    <2>1. p.next \in Phases /\ r \in Requests
      BY <1>p, PullCases DEF RestOK
    <2>2. LocOK'
      <3>1. CASE UNCHANGED loc
        BY <3>1 DEF LocOK
      <3>2. CASE Goto(r, "over") \/ Goto(r, "settling")
        BY <3>2, <1>p, DocumentGoes
      <3> QED
        BY <1>12, <3>1, <3>2 DEF DocumentEvent, Leave
    <2>3. SentOK'
      BY <1>12, <2>1, Sends DEF DocumentEvent, SentOK, RestOK
    <2>4. finished' \in [Requests -> {"none", "complete", "partial"}]
      BY <1>12, <2>1 DEF DocumentEvent, RestOK
    <2>5. phase' \in [Requests -> Phases]
      BY <1>12, <2>1 DEF DocumentEvent, RestOK
    <2> QED
      BY <1>12, <2>2, <2>3, <2>4, <2>5 DEF DocumentEvent, RestOK, lifespan
  <1>13. ASSUME NEW r \in Documents, Settle(r) PROVE ShapeOK'
    <2>1. LocOK'
      BY <1>13, <1>p, DocumentGoes DEF Settle
    <2>2. SentOK'
      BY <1>13, <1>p, Sends DEF Settle
    <2> QED
      BY <1>13, <1>p, <2>1, <2>2 DEF Settle, Written, Writes, RestOK, lifespan
  <1>14. CASE Sigterm
    BY <1>14 DEF Sigterm, LocOK, SentOK, RestOK
  <1>15. CASE Drained
    BY <1>15 DEF Drained, LocOK, SentOK, RestOK
  <1>16. CASE Close
    BY <1>16 DEF Close, LocOK, SentOK, RestOK
  <1>17. CASE Tick
    BY <1>17, <1>k DEF Tick, Waiting, LocOK, SentOK, RestOK
  <1>18. CASE UNCHANGED vars
    BY <1>18 DEF vars, LocOK, SentOK, RestOK
  <1> QED
    BY <1>1, <1>2, <1>3, <1>4, <1>5, <1>6, <1>7, <1>8, <1>9, <1>10, <1>11, <1>12,
       <1>13, <1>14, <1>15, <1>16, <1>17, <1>18 DEF Next

-----------------------------------------------------------------------------
(* The requests in service before and after a step: one stays, comes or    *)
(* goes, and the counter with it.                                          *)
LEMMA Stays ==
    ASSUME ShapeOK, NEW r \in Requests, NEW place, Goto(r, place),
           loc[r] \in Counted <=> place \in Counted
    PROVE  InService' = InService
  BY DEF InService, ShapeOK, Goto

LEMMA Comes ==
    ASSUME ShapeOK, OpenStreamsExact, NEW r \in Requests, NEW place \in Counted,
           Goto(r, place), loc[r] \notin Counted, open' = open + 1
    PROVE  OpenStreamsExact'
  <1>1. InService' = InService \cup {r} /\ r \notin InService
    BY DEF InService, ShapeOK, Goto
  <1>2. IsFiniteSet(InService)
    <2>1. IsFiniteSet(Requests)
      BY ServerAssumption, FS_Union DEF Requests
    <2> QED
      BY <2>1, FS_Subset DEF InService
  <1> QED
    BY <1>1, <1>2, FS_AddElement DEF OpenStreamsExact

LEMMA Goes ==
    ASSUME ShapeOK, OpenStreamsExact, NEW r \in Requests, NEW place,
           Leave(r, place), loc[r] \in Counted, place \notin Counted
    PROVE  OpenStreamsExact'
  <1>1. InService' = InService \ {r} /\ r \in InService
    BY DEF InService, ShapeOK, Goto, Leave
  <1>2. IsFiniteSet(InService)
    <2>1. IsFiniteSet(Requests)
      BY ServerAssumption, FS_Union DEF Requests
    <2> QED
      BY <2>1, FS_Subset DEF InService
  <1>3. Cardinality(InService') = Cardinality(InService) - 1
    BY <1>1, <1>2, FS_RemoveElement
  <1> QED
    BY <1>3 DEF OpenStreamsExact, Leave

LEMMA Unmoved ==
    ASSUME OpenStreamsExact, InService' = InService, open' = open
    PROVE  OpenStreamsExact'
  BY DEF OpenStreamsExact

LEMMA ExactInit == Init => OpenStreamsExact
  <1> SUFFICES ASSUME Init PROVE OpenStreamsExact
    OBVIOUS
  <1>1. InService = {}
    BY DEF Init, InService, Counted, AtYield
  <1> QED
    BY <1>1, FS_EmptySet DEF Init, OpenStreamsExact

LEMMA ExactStep ==
    ASSUME ShapeOK, OpenStreamsExact, [Next]_vars
    PROVE  OpenStreamsExact'
  <1>p. /\ {"head", "pull", "storing", "saving", "sending", "sendingDone", "bye"}
             = Counted
        /\ {"idle", "lookup", "queued", "settling", "over", "gone"} \cap Counted = {}
        /\ Streams \subseteq Requests /\ Documents \subseteq Requests
    BY DEF Counted, AtYield, Requests
  <1>1. ASSUME NEW r \in Requests, Arrive(r) PROVE OpenStreamsExact'
    <2>1. InService' = InService
      BY <1>1, <1>p, Stays DEF Arrive
    <2> QED
      BY <1>1, <2>1, Unmoved DEF Arrive
  <1>2. ASSUME NEW r \in Requests, Lookup(r) PROVE OpenStreamsExact'
    <2>1. CASE open' = open /\ (Goto(r, "over") \/ Goto(r, "queued"))
      <3>1. InService' = InService
        BY <1>2, <2>1, <1>p, Stays DEF Lookup
      <3> QED
        BY <2>1, <3>1, Unmoved
    <2>2. CASE open' = open + 1 /\ Goto(r, "pull")
      BY <1>2, <2>2, <1>p, Comes DEF Lookup
    <2> QED
      BY <1>2, <2>1, <2>2 DEF Lookup
  <1>3. ASSUME NEW r \in Streams, Start(r) PROVE OpenStreamsExact'
    BY <1>3, <1>p, Comes DEF Start
  <1>4. ASSUME NEW r \in Streams, LoopHead(r) PROVE OpenStreamsExact'
    <2>1. InService' = InService
      BY <1>4, <1>p, Stays DEF LoopHead
    <2> QED
      BY <1>4, <2>1, Unmoved DEF LoopHead
  <1>5. ASSUME NEW r \in Streams, Keepalive(r) PROVE OpenStreamsExact'
    <2>1. InService' = InService
      BY <1>5, <1>p, Stays DEF Keepalive
    <2> QED
      BY <1>5, <2>1, Unmoved DEF Keepalive
  <1>6. ASSUME NEW r \in Streams, NEW p \in Pulls(phase[r]), StreamEvent(r, p)
        PROVE  OpenStreamsExact'
    <2>1. CASE Leave(r, "over")
      BY <1>6, <2>1, <1>p, Goes DEF StreamEvent
    <2>2. CASE open' = open /\ \E place \in Counted : Goto(r, place)
      <3>1. InService' = InService
        BY <1>6, <2>2, <1>p, Stays DEF StreamEvent
      <3> QED
        BY <2>2, <3>1, Unmoved
    <2> QED
      BY <1>6, <2>1, <2>2, <1>p DEF StreamEvent, Forward
  <1>7. ASSUME NEW r \in Streams, Sent(r) PROVE OpenStreamsExact'
    <2>1. CASE Leave(r, "over")
      BY <1>7, <2>1, <1>p, Goes DEF Sent
    <2>2. CASE open' = open /\ \E place \in Counted : Goto(r, place)
      <3>1. InService' = InService
        BY <1>7, <2>2, <1>p, Stays DEF Sent
      <3> QED
        BY <2>2, <3>1, Unmoved
    <2> QED
      BY <1>7, <2>1, <2>2, <1>p DEF Sent
  <1>8. ASSUME NEW r \in Streams, Store(r) PROVE OpenStreamsExact'
    <2>1. InService' = InService
      BY <1>8, <1>p, Stays DEF Store
    <2> QED
      BY <1>8, <2>1, Unmoved DEF Store
  <1>9. ASSUME NEW r \in Streams, Abandon(r) PROVE OpenStreamsExact'
    <2>1. CASE loc[r] = "queued"
      <3>1. InService' = InService
        BY <1>9, <2>1, <1>p, Stays DEF Abandon
      <3> QED
        BY <1>9, <2>1, <3>1, Unmoved DEF Abandon
    <2>2. CASE loc[r] # "queued"
      <3>1. Leave(r, "gone") /\ loc[r] \in Counted
        BY <1>9, <2>2 DEF Abandon, Leave, Counted
      <3> QED
        BY <3>1, <1>p, Goes
    <2> QED
      BY <2>1, <2>2
  <1>10. ASSUME NEW r \in Streams, Cancel(r) PROVE OpenStreamsExact'
    <2>1. CASE Leave(r, "gone")
      BY <1>10, <2>1, <1>p, Goes DEF Cancel
    <2>2. CASE open' = open /\ Goto(r, "saving")
      <3>1. InService' = InService
        BY <1>10, <2>2, <1>p, Stays DEF Cancel
      <3> QED
        BY <2>2, <3>1, Unmoved
    <2> QED
      BY <1>10, <2>1, <2>2 DEF Cancel
  <1>11. ASSUME NEW r \in Streams, Save(r) PROVE OpenStreamsExact'
    BY <1>11, <1>p, Goes DEF Save
  <1>12. ASSUME NEW r \in Documents, NEW p \in Pulls(phase[r]), DocumentEvent(r, p)
         PROVE  OpenStreamsExact'
    <2>1. CASE Leave(r, "over") \/ Leave(r, "settling")
      BY <1>12, <2>1, <1>p, Goes DEF DocumentEvent
    <2>2. CASE UNCHANGED <<loc, open>>
      BY <2>2, Unmoved DEF InService
    <2> QED
      BY <1>12, <2>1, <2>2 DEF DocumentEvent
  <1>13. ASSUME NEW r \in Documents, Settle(r) PROVE OpenStreamsExact'
    <2>1. InService' = InService
      BY <1>13, <1>p, Stays DEF Settle
    <2> QED
      BY <1>13, <2>1, Unmoved DEF Settle
  <1>14. CASE Sigterm \/ Drained \/ Close \/ Tick \/ UNCHANGED vars
    <2>1. UNCHANGED <<loc, open>>
      BY <1>14 DEF Sigterm, Drained, Close, Tick, vars
    <2> QED
      BY <2>1, Unmoved DEF InService
  <1> QED
    BY <1>1, <1>2, <1>3, <1>4, <1>5, <1>6, <1>7, <1>8, <1>9, <1>10, <1>11, <1>12,
       <1>13, <1>14 DEF Next

(* Every way out of a stream or a document, by its end, an error, a goodbye *)
(* or the client, gives its place in _open_streams back exactly once.      *)
THEOREM StreamsCountedExactly == Spec => []OpenStreamsExact
  <1>1. Init => ShapeOK /\ OpenStreamsExact
    BY ShapeInit, ExactInit
  <1>2. ShapeOK /\ OpenStreamsExact /\ [Next]_vars => (ShapeOK /\ OpenStreamsExact)'
    BY ShapeStep, ExactStep
  <1> QED
    BY <1>1, <1>2, PTL DEF Spec

(* Every variable keeps its type; that the counter never goes below zero   *)
(* rests on its being exact.                                               *)
THEOREM TypeCorrect == Spec => []TypeOK
  <1>1. Init => ShapeOK /\ OpenStreamsExact
    BY ShapeInit, ExactInit
  <1>2. ShapeOK /\ OpenStreamsExact /\ [Next]_vars => (ShapeOK /\ OpenStreamsExact)'
    BY ShapeStep, ExactStep
  <1>3. ShapeOK /\ OpenStreamsExact => TypeOK
    <2>1. IsFiniteSet(Requests)
      BY ServerAssumption, FS_Union DEF Requests
    <2>2. Cardinality(InService) \in Nat
      BY <2>1, FS_Subset, FS_CardinalityType DEF InService
    <2> QED
      BY <2>2 DEF TypeOK, OpenStreamsExact
  <1> QED
    BY <1>1, <1>2, <1>3, PTL DEF Spec

-----------------------------------------------------------------------------
(* Why no stream ends silently: its source has an outcome behind it before *)
(* it ends, that outcome was sent, and a goodbye is a frame too.           *)
Spoken ==
    \A r \in Requests :
        \/ r \in Streams /\ phase[r] # "working"
        \/ loc[r] \in {"bye", "over"}
        => sent[r] # << >>

LEMMA SpokenStep ==
    ASSUME ShapeOK, Spoken, [Next]_vars
    PROVE  Spoken'
  <1>p. Streams \subseteq Requests /\ Documents \subseteq Requests
    BY DEF Requests
  <1>t. LocOK /\ SentOK /\ RestOK
    BY ShapeParts
  <1>a. \A r \in Requests :
           \A o \in {"done", "truncated", "error", "shutting_down"} :
              Send(r, o) => /\ sent'[r] # << >>
                            /\ \A x \in Requests \ {r} : sent'[x] = sent[x]
    BY <1>t, Sends DEF Send, SentOK
  <1>g. \A r \in Requests : \A place :
           Goto(r, place) => /\ loc'[r] = place
                             /\ \A x \in Requests \ {r} : loc'[x] = loc[x]
    BY <1>t DEF Goto, LocOK
  <1>1. ASSUME NEW r \in Requests, Arrive(r) PROVE Spoken'
    BY <1>1, <1>g DEF Arrive, Spoken
  <1>2. ASSUME NEW r \in Requests, Lookup(r) PROVE Spoken'
    BY <1>2, <1>a, <1>g DEF Lookup, Spoken
  <1>3. ASSUME NEW r \in Streams, Start(r) PROVE Spoken'
    BY <1>3, <1>p, <1>g DEF Start, Spoken
  <1>4. ASSUME NEW r \in Streams, LoopHead(r) PROVE Spoken'
    BY <1>4, <1>p, <1>a, <1>g DEF LoopHead, Spoken
  <1>5. ASSUME NEW r \in Streams, Keepalive(r) PROVE Spoken'
    BY <1>5, <1>p, <1>g DEF Keepalive, Spoken
  <1>6. ASSUME NEW r \in Streams, NEW p \in Pulls(phase[r]), StreamEvent(r, p)
        PROVE  Spoken'
    <2>1. /\ phase'[r] = p.next
          /\ \A x \in Requests \ {r} : phase'[x] = phase[x]
      BY <1>6, <1>p, <1>t DEF StreamEvent, RestOK
    <2>2. /\ p.event \in {"route", "done", "truncated", "timeout", "raised", "end"}
          /\ p.event = "end" => phase[r] # "working"
          /\ p.event = "route" => p.next = "working"
      BY <1>p, <1>t, PullCases DEF RestOK
    <2>3. CASE p.event = "route"
      BY <1>6, <1>p, <1>g, <2>1, <2>2, <2>3 DEF StreamEvent, Spoken
    <2>4. CASE p.event = "end"
      BY <1>6, <1>p, <1>g, <2>1, <2>2, <2>4 DEF StreamEvent, Leave, Spoken
    <2>5. CASE p.event \in {"done", "truncated", "timeout", "raised"}
      <3>1. /\ sent'[r] # << >>
            /\ \A x \in Requests \ {r} : sent'[x] = sent[x]
        BY <1>6, <1>p, <1>a, <2>5 DEF StreamEvent, Forward
      <3>2. \A x \in Requests \ {r} : loc'[x] = loc[x]
        BY <1>6, <1>p, <1>g, <2>5 DEF StreamEvent, Forward
      <3> QED
        BY <2>1, <3>1, <3>2 DEF Spoken
    <2> QED
      BY <2>2, <2>3, <2>4, <2>5
  <1>7. ASSUME NEW r \in Streams, Sent(r) PROVE Spoken'
    BY <1>7, <1>p, <1>g DEF Sent, Leave, Spoken
  <1>8. ASSUME NEW r \in Streams, Store(r) PROVE Spoken'
    BY <1>8, <1>p, <1>g DEF Store, Spoken
  <1>9. ASSUME NEW r \in Streams, Abandon(r) PROVE Spoken'
    BY <1>9, <1>p, <1>g DEF Abandon, Spoken
  <1>10. ASSUME NEW r \in Streams, Cancel(r) PROVE Spoken'
    BY <1>10, <1>p, <1>g DEF Cancel, Leave, Spoken
  <1>11. ASSUME NEW r \in Streams, Save(r) PROVE Spoken'
    BY <1>11, <1>p, <1>g DEF Save, Leave, Spoken
  <1>12. ASSUME NEW r \in Documents, NEW p \in Pulls(phase[r]), DocumentEvent(r, p)
         PROVE  Spoken'
    <2>1. \A x \in Streams : phase'[x] = phase[x]
      BY <1>12, <1>p, <1>t, ServerAssumption DEF DocumentEvent, RestOK
    <2>2. CASE UNCHANGED <<loc, sent>>
      BY <2>1, <2>2 DEF Spoken
    <2>3. CASE Goto(r, "settling") /\ UNCHANGED sent
      BY <1>p, <1>g, <2>1, <2>3, ServerAssumption DEF Spoken
    <2>4. CASE /\ Goto(r, "over")
               /\ \E o \in {"done", "truncated", "error", "shutting_down"} : Send(r, o)
      BY <1>p, <1>a, <1>g, <2>1, <2>4 DEF Spoken
    <2>5. finished[r] \in {"none", "complete", "partial"}
      BY <1>p, <1>t DEF RestOK
    <2> QED
      BY <1>12, <2>2, <2>3, <2>4, <2>5 DEF DocumentEvent, Leave
  <1>13. ASSUME NEW r \in Documents, Settle(r) PROVE Spoken'
    BY <1>13, <1>p, <1>a, <1>g DEF Settle, Spoken
  <1>14. CASE Sigterm \/ Drained \/ Close \/ Tick \/ UNCHANGED vars
    BY <1>14 DEF Sigterm, Drained, Close, Tick, vars, Spoken
  <1> QED
    BY <1>1, <1>2, <1>3, <1>4, <1>5, <1>6, <1>7, <1>8, <1>9, <1>10, <1>11, <1>12,
       <1>13, <1>14 DEF Next

(* No client that stays is left without a document or an error, whatever   *)
(* keepalives, failing writes and shutdowns its request lives through.     *)
THEOREM NoStreamEndsSilently == Spec => []NoSilentEnd
  <1>1. Init => ShapeOK /\ Spoken
    BY ShapeInit DEF Init, Spoken, Requests
  <1>2. ShapeOK /\ Spoken /\ [Next]_vars => (ShapeOK /\ Spoken)'
    BY ShapeStep, SpokenStep
  <1>3. Spoken => NoSilentEnd
    BY DEF Spoken, NoSilentEnd
  <1> QED
    BY <1>1, <1>2, <1>3, PTL DEF Spec

-----------------------------------------------------------------------------
(* Why the drain is long enough: no stream enters a wait once the flag is  *)
(* set, so those still waiting have waited at least as long as the drain   *)
(* has, and no wait outlasts a keepalive.                                  *)
Unaware ==
    /\ stage = "serving" => elapsed = 0
    /\ stage = "draining" => \A r \in Waiting : waited[r] >= elapsed

DrainInv == ShapeOK /\ OpenStreamsExact /\ Unaware /\ DrainReachesEveryStream

(* A step of a request never adds to those that wait once the flag is set, *)
(* and leaves the others' clocks alone.                                    *)
LEMMA NobodyNewWaits ==
    ASSUME ShapeOK, Unaware, DrainReachesEveryStream,
           UNCHANGED <<stage, elapsed>>,
           stage # "serving" =>
              /\ Waiting' \subseteq Waiting
              /\ \A x \in Waiting' : waited'[x] = waited[x]
    PROVE  Unaware' /\ DrainReachesEveryStream'
  BY DEF Unaware, DrainReachesEveryStream

LEMMA DrainStep ==
    ASSUME DrainInv, [Next]_vars
    PROVE  Unaware' /\ DrainReachesEveryStream'
  <1> USE DEF DrainInv
  <1>t. LocOK /\ RestOK
    BY ShapeParts
  <1>k. /\ KeepaliveTicks \in Nat /\ DrainTicks \in Nat
        /\ KeepaliveTicks < DrainTicks /\ Streams \cap Documents = {}
        /\ Streams \subseteq Requests /\ Documents \subseteq Requests
    BY ServerAssumption DEF Requests
  <1>w. ASSUME NEW r \in Requests, NEW place, Goto(r, place),
               place # "pull" \/ r \in Documents, UNCHANGED waited
        PROVE  /\ Waiting' \subseteq Waiting
               /\ \A x \in Waiting' : waited'[x] = waited[x]
    BY <1>w, <1>t, <1>k DEF Waiting, Goto, LocOK
  <1>r. ASSUME UNCHANGED <<stage, elapsed, waited>>,
               \/ UNCHANGED loc
               \/ \E r \in Requests : \E place :
                     Goto(r, place) /\ (place # "pull" \/ r \in Documents)
        PROVE  Unaware' /\ DrainReachesEveryStream'
    <2>1. /\ Waiting' \subseteq Waiting
          /\ \A x \in Waiting' : waited'[x] = waited[x]
      BY <1>r, <1>w DEF Waiting
    <2> QED
      BY <1>r, <2>1, NobodyNewWaits
  <1>1. ASSUME NEW r \in Requests, Arrive(r) \/ Lookup(r)
        PROVE  Unaware' /\ DrainReachesEveryStream'
    BY <1>1, <1>r, <1>k DEF Arrive, Lookup, lifespan, Requests
  <1>2. ASSUME NEW r \in Streams, LoopHead(r)
        PROVE  Unaware' /\ DrainReachesEveryStream'
    <2>1. CASE ShuttingDown
      BY <1>2, <2>1, <1>r, <1>k DEF LoopHead, lifespan
    <2>2. CASE ~ShuttingDown
      BY <1>2, <2>2, NobodyNewWaits DEF LoopHead, lifespan, ShuttingDown
    <2> QED
      BY <2>1, <2>2
  <1>3. ASSUME NEW r \in Streams, NEW p \in Pulls(phase[r]), StreamEvent(r, p)
        PROVE  Unaware' /\ DrainReachesEveryStream'
    <2>1. \E place \in {"sending", "sendingDone", "bye", "over"} : Goto(r, place)
      BY <1>3 DEF StreamEvent, Forward, Leave
    <2> QED
      BY <1>3, <1>r, <1>k, <2>1 DEF StreamEvent, lifespan
  <1>4. ASSUME NEW r \in Streams,
               \/ Start(r) \/ Keepalive(r) \/ Sent(r) \/ Store(r)
               \/ Abandon(r) \/ Cancel(r) \/ Save(r)
        PROVE  Unaware' /\ DrainReachesEveryStream'
    <2>1. UNCHANGED <<stage, elapsed, waited>>
      BY <1>4 DEF Start, Keepalive, Sent, Store, Abandon, Cancel, Save, lifespan
    <2>2. \E place \in {"head", "sending", "storing", "saving", "over", "gone"} :
             Goto(r, place)
      BY <1>4 DEF Start, Keepalive, Sent, Store, Abandon, Cancel, Save, Leave
    <2> QED
      BY <1>r, <1>k, <2>1, <2>2
  <1>5. ASSUME NEW r \in Documents, NEW p \in Pulls(phase[r]), DocumentEvent(r, p)
        PROVE  Unaware' /\ DrainReachesEveryStream'
    <2>1. UNCHANGED loc \/ Goto(r, "over") \/ Goto(r, "settling")
      BY <1>5 DEF DocumentEvent, Leave
    <2>2. UNCHANGED <<stage, elapsed, waited>>
      BY <1>5 DEF DocumentEvent, lifespan
    <2> QED
      BY <1>r, <1>k, <2>1, <2>2
  <1>6. ASSUME NEW r \in Documents, Settle(r)
        PROVE  Unaware' /\ DrainReachesEveryStream'
    BY <1>6, <1>r, <1>k DEF Settle, lifespan
  <1>7. CASE Sigterm
    BY <1>7, <1>t, <1>k DEF Sigterm, Unaware, DrainReachesEveryStream, Waiting, RestOK
  <1>8. CASE Drained
    <2>1. CASE open = 0
      <3>1. IsFiniteSet(InService)
        <4>1. IsFiniteSet(Requests)
          BY ServerAssumption, FS_Union DEF Requests
        <4> QED
          BY <4>1, FS_Subset DEF InService
      <3>2. InService = {}
        BY <2>1, <3>1, FS_EmptySet DEF OpenStreamsExact
      <3>3. Waiting = {}
        BY <3>2, <1>k DEF InService, Waiting, Counted
      <3> QED
        BY <1>8, <3>3 DEF Drained, Unaware, DrainReachesEveryStream, Waiting
    <2>2. CASE elapsed = DrainTicks
      <3>1. \A r \in Waiting : waited[r] >= DrainTicks
        BY <1>8, <2>2 DEF Drained, Unaware
      <3>2. \A r \in Waiting : waited[r] \in 0..KeepaliveTicks
        BY <1>t, <1>k DEF RestOK, Waiting
      <3>3. Waiting = {}
        BY <3>1, <3>2, <1>k
      <3> QED
        BY <1>8, <3>3 DEF Drained, Unaware, DrainReachesEveryStream, Waiting
    <2> QED
      BY <1>8, <2>1, <2>2 DEF Drained
  <1>9. CASE Close
    BY <1>9 DEF Close, Unaware, DrainReachesEveryStream, Waiting
  <1>10. CASE Tick
    <2>1. Waiting' = Waiting /\ UNCHANGED stage
      BY <1>10 DEF Tick, Waiting
    <2>2. \A r \in Waiting : waited'[r] = waited[r] + 1 /\ waited[r] \in Nat
      BY <1>10, <1>t, <1>k DEF Tick, RestOK, Waiting
    <2>3. elapsed \in Nat /\ elapsed' = IF stage = "draining" THEN elapsed + 1 ELSE elapsed
      BY <1>10, <1>t, <1>k DEF Tick, RestOK
    <2> QED
      BY <2>1, <2>2, <2>3 DEF Unaware, DrainReachesEveryStream
  <1>11. CASE UNCHANGED vars
    BY <1>11 DEF vars, Unaware, DrainReachesEveryStream, Waiting
  <1> QED
    BY <1>1, <1>2, <1>3, <1>4, <1>5, <1>6, <1>7, <1>8, <1>9, <1>10, <1>11 DEF Next

(* Because a keepalive is shorter than the drain, no stream still waits on *)
(* its source, unaware of the shutdown, when the drain is over.            *)
THEOREM DrainIsLongEnough == Spec => []DrainReachesEveryStream
  <1>1. Init => DrainInv
    BY ShapeInit, ExactInit
       DEF Init, DrainInv, Unaware, DrainReachesEveryStream, Waiting
  <1>2. DrainInv /\ [Next]_vars => DrainInv'
    BY ShapeStep, ExactStep, DrainStep DEF DrainInv
  <1>3. DrainInv => DrainReachesEveryStream
    BY DEF DrainInv
  <1> QED
    BY <1>1, <1>2, <1>3, PTL DEF Spec

-----------------------------------------------------------------------------
(* Why a write follows its frame: a stream that holds a document has sent  *)
(* one, and only a stream that holds one gets to a write.                  *)
HasDocument(outcomes) ==
    \E i \in DOMAIN outcomes : outcomes[i] \in {"done", "truncated"}
Held ==
    \A r \in Streams :
        /\ finished[r] # "none" => HasDocument(sent[r])
        /\ loc[r] \in {"sendingDone", "storing", "saving"} => finished[r] # "none"

LEMMA Appended ==
    ASSUME SentOK, NEW r \in Requests,
           NEW outcome \in {"done", "truncated", "error", "shutting_down"},
           Send(r, outcome)
    PROVE  /\ HasDocument(sent[r]) \/ outcome \in {"done", "truncated"}
                => HasDocument(sent'[r])
           /\ \A x \in Requests \ {r} : sent'[x] = sent[x]
  <1>1. sent'[r] = Append(sent[r], outcome)
    BY DEF SentOK, Send
  <1>2. sent[r] \in Seq({"done", "truncated", "error", "shutting_down"})
    BY DEF SentOK
  <1>3. /\ Len(sent'[r]) = Len(sent[r]) + 1
        /\ sent'[r][Len(sent[r]) + 1] = outcome
        /\ \A i \in 1..Len(sent[r]) : sent'[r][i] = sent[r][i]
        /\ DOMAIN sent'[r] = 1..(Len(sent[r]) + 1)
        /\ DOMAIN sent[r] = 1..Len(sent[r]) /\ Len(sent[r]) \in Nat
    BY <1>1, <1>2
  <1>4. outcome \in {"done", "truncated"} => HasDocument(sent'[r])
    BY <1>3 DEF HasDocument
  <1>5. HasDocument(sent[r]) => HasDocument(sent'[r])
    BY <1>3 DEF HasDocument
  <1> QED
    BY <1>4, <1>5 DEF Send, SentOK

LEMMA HeldStep ==
    ASSUME ShapeOK, Held, [Next]_vars
    PROVE  Held'
  <1>p. Streams \subseteq Requests /\ Documents \subseteq Requests
        /\ Streams \cap Documents = {}
    BY ServerAssumption DEF Requests
  <1>t. LocOK /\ SentOK /\ RestOK
    BY ShapeParts
  <1>a. \A r \in Requests :
           \A o \in {"done", "truncated", "error", "shutting_down"} :
              Send(r, o) => /\ HasDocument(sent[r]) => HasDocument(sent'[r])
                            /\ o \in {"done", "truncated"} => HasDocument(sent'[r])
                            /\ \A x \in Requests \ {r} : sent'[x] = sent[x]
    BY <1>t, Appended
  <1>g. \A r \in Requests : \A place :
           Goto(r, place) => /\ loc'[r] = place
                             /\ \A x \in Requests \ {r} : loc'[x] = loc[x]
    BY <1>t DEF Goto, LocOK
  <1>o. ASSUME UNCHANGED <<finished, sent>>,
               \/ UNCHANGED loc
               \/ \E r \in Requests : \E place :
                     /\ Goto(r, place)
                     /\ place \in {"sendingDone", "storing", "saving"} /\ r \in Streams
                          => finished[r] # "none"
        PROVE  Held'
    <2>1. CASE UNCHANGED loc
      BY <1>o, <2>1 DEF Held
    <2>2. ASSUME NEW r \in Requests, NEW place, Goto(r, place),
                 place \in {"sendingDone", "storing", "saving"} /\ r \in Streams
                   => finished[r] # "none"
          PROVE  Held'
      <3>1. ASSUME NEW x \in Streams,
                   loc'[x] \in {"sendingDone", "storing", "saving"}
            PROVE  finished[x] # "none"
        BY <1>g, <1>p, <2>2, <3>1 DEF Held
      <3> QED
        BY <1>o, <3>1 DEF Held
    <2> QED
      BY <1>o, <2>1, <2>2
  <1>1. ASSUME NEW r \in Requests, Arrive(r) PROVE Held'
    <2>1. UNCHANGED <<finished, sent>> /\ Goto(r, "lookup")
      BY <1>1 DEF Arrive
    <2> QED
      BY <2>1, <1>o
  <1>2. ASSUME NEW r \in Requests, Lookup(r) PROVE Held'
    <2>1. CASE UNCHANGED sent
      <3>1. UNCHANGED finished
            /\ \E place \in {"over", "queued", "pull"} : Goto(r, place)
        BY <1>2 DEF Lookup
      <3> QED
        BY <2>1, <3>1, <1>o
    <2>2. CASE Goto(r, "over") /\ Send(r, "done")
      <3>1. UNCHANGED finished
        BY <1>2 DEF Lookup
      <3> QED
        BY <2>2, <3>1, <1>p, <1>a, <1>g DEF Held
    <2> QED
      BY <1>2, <2>1, <2>2 DEF Lookup
  <1>3. ASSUME NEW r \in Streams, LoopHead(r) PROVE Held'
    <2>1. CASE Goto(r, "bye") /\ Send(r, "shutting_down")
      <3>1. UNCHANGED finished
        BY <1>3 DEF LoopHead
      <3> QED
        BY <2>1, <3>1, <1>p, <1>a, <1>g DEF Held
    <2>2. CASE Goto(r, "pull") /\ UNCHANGED sent
      <3>1. UNCHANGED finished
        BY <1>3 DEF LoopHead
      <3> QED
        BY <2>2, <3>1, <1>p, <1>o
    <2> QED
      BY <1>3, <2>1, <2>2 DEF LoopHead
  <1>4. ASSUME NEW r \in Streams, NEW p \in Pulls(phase[r]), StreamEvent(r, p)
        PROVE  Held'
    <2>1. CASE p.event \in {"done", "truncated"}
      <3>1. /\ HasDocument(sent'[r])
            /\ \A x \in Streams \ {r} : UNCHANGED <<sent[x], loc[x], finished[x]>>
        BY <1>4, <1>p, <1>t, <1>a, <1>g, <2>1 DEF StreamEvent, Forward, RestOK
      <3>2. finished'[r] # "none"
        BY <1>4, <1>p, <1>t, <2>1 DEF StreamEvent, Forward, RestOK
      <3> QED
        BY <3>1, <3>2 DEF Held
    <2>2. CASE p.event \in {"timeout", "raised"}
      <3>1. /\ UNCHANGED finished /\ Send(r, "error")
            /\ Goto(r, "sending") \/ Goto(r, "bye")
        BY <1>4, <2>2 DEF StreamEvent
      <3> QED
        BY <3>1, <1>p, <1>a, <1>g DEF Held
    <2>3. CASE p.event \notin {"done", "truncated", "timeout", "raised"}
      <3>1. /\ UNCHANGED <<finished, sent>>
            /\ Goto(r, "sending") \/ Goto(r, "over")
        BY <1>4, <2>3 DEF StreamEvent, Leave
      <3> QED
        BY <3>1, <1>p, <1>o
    <2> QED
      BY <2>1, <2>2, <2>3
  <1>5. ASSUME NEW r \in Streams,
               Start(r) \/ Keepalive(r) \/ Store(r) \/ Abandon(r) \/ Save(r)
        PROVE  Held'
    <2>1. /\ UNCHANGED <<finished, sent>>
          /\ \E place \in {"head", "sending", "gone"} : Goto(r, place)
      BY <1>5 DEF Start, Keepalive, Store, Abandon, Save, Leave
    <2> QED
      BY <2>1, <1>p, <1>o
  <1>6. ASSUME NEW r \in Streams, Sent(r) PROVE Held'
    BY <1>6, <1>p, <1>g DEF Sent, Leave, Held
  <1>7. ASSUME NEW r \in Streams, Cancel(r) PROVE Held'
    BY <1>7, <1>p, <1>g DEF Cancel, Leave, Held
  <1>8. ASSUME NEW r \in Documents, NEW p \in Pulls(phase[r]), DocumentEvent(r, p)
        PROVE  Held'
    <2>1. \A x \in Streams : loc'[x] = loc[x]
      <3>1. UNCHANGED loc \/ Goto(r, "over") \/ Goto(r, "settling")
        BY <1>8 DEF DocumentEvent, Leave
      <3> QED
        BY <3>1, <1>p, <1>g
    <2>2. \A x \in Streams : finished'[x] = finished[x]
      BY <1>8, <1>p, <1>t DEF DocumentEvent, RestOK
    <2>3. \A x \in Streams : sent'[x] = sent[x]
      <3>1. \/ UNCHANGED sent
            \/ \E o \in {"done", "truncated", "error", "shutting_down"} : Send(r, o)
        <4>1. finished[r] \in {"none", "complete", "partial"}
          BY <1>p, <1>t DEF RestOK
        <4> QED
          BY <1>8, <4>1 DEF DocumentEvent
      <3> QED
        BY <3>1, <1>p, <1>a
    <2> QED
      BY <2>1, <2>2, <2>3 DEF Held
  <1>9. ASSUME NEW r \in Documents, Settle(r) PROVE Held'
    BY <1>9, <1>p, <1>a, <1>g DEF Settle, Held
  <1>10. CASE Sigterm \/ Drained \/ Close \/ Tick \/ UNCHANGED vars
    BY <1>10, <1>o DEF Sigterm, Drained, Close, Tick, vars
  <1> QED
    BY <1>1, <1>2, <1>3, <1>4, <1>5, <1>6, <1>7, <1>8, <1>9, <1>10 DEF Next

(* A document is in its client's hands before the cache is written. *)
THEOREM FrameBeforeWrite == Spec => []SentBeforeStored
  <1>1. Init => ShapeOK /\ Held
    BY ShapeInit DEF Init, Held, Requests
  <1>2. ShapeOK /\ Held /\ [Next]_vars => (ShapeOK /\ Held)'
    BY ShapeStep, HeldStep
  <1>3. Held => SentBeforeStored
    BY DEF Held, HasDocument, SentBeforeStored
  <1> QED
    BY <1>1, <1>2, <1>3, PTL DEF Spec

-----------------------------------------------------------------------------
(* Why a truncated document reaches the entry one way only: what is on its *)
(* way to a write of its own accord is complete.                           *)
Whole ==
    /\ \A r \in Streams :
          loc[r] \in {"sendingDone", "storing"} => finished[r] = "complete"
    /\ \A r \in Documents : loc[r] = "settling" => finished[r] = "complete"

LEMMA WholeStep ==
    ASSUME ShapeOK, Whole, [Next]_vars
    PROVE  Whole'
  <1>p. Streams \subseteq Requests /\ Documents \subseteq Requests
        /\ Streams \cap Documents = {} /\ Requests = Streams \cup Documents
    BY ServerAssumption DEF Requests
  <1>t. LocOK /\ RestOK
    BY ShapeParts
  <1>g. \A r \in Requests : \A place :
           Goto(r, place) => /\ loc'[r] = place
                             /\ \A x \in Requests \ {r} : loc'[x] = loc[x]
    BY <1>t DEF Goto, LocOK
  (* A step that holds what it held and takes a request no further than *)
  (* a complete document allows.                                        *)
  <1>o. ASSUME UNCHANGED finished,
               \/ UNCHANGED loc
               \/ \E r \in Requests : \E place :
                     /\ Goto(r, place)
                     /\ place \in {"sendingDone", "storing", "settling"}
                          => finished[r] = "complete"
        PROVE  Whole'
    <2>1. CASE UNCHANGED loc
      BY <1>o, <2>1 DEF Whole
    <2>2. ASSUME NEW r \in Requests, NEW place, Goto(r, place),
                 place \in {"sendingDone", "storing", "settling"}
                   => finished[r] = "complete"
          PROVE  Whole'
      <3>1. ASSUME NEW x \in Streams, loc'[x] \in {"sendingDone", "storing"}
            PROVE  finished[x] = "complete"
        BY <1>g, <1>p, <2>2, <3>1 DEF Whole
      <3>2. ASSUME NEW x \in Documents, loc'[x] = "settling"
            PROVE  finished[x] = "complete"
        BY <1>g, <1>p, <2>2, <3>2 DEF Whole
      <3> QED
        BY <1>o, <3>1, <3>2 DEF Whole
    <2> QED
      BY <1>o, <2>1, <2>2
  <1>1. ASSUME NEW r \in Requests, Arrive(r) \/ Lookup(r) PROVE Whole'
    <2>1. /\ UNCHANGED finished
          /\ \E place \in {"lookup", "over", "queued", "pull"} : Goto(r, place)
      BY <1>1 DEF Arrive, Lookup
    <2> QED
      BY <2>1, <1>o
  <1>2. ASSUME NEW r \in Streams,
               \/ Start(r) \/ LoopHead(r) \/ Keepalive(r) \/ Store(r) \/ Abandon(r)
               \/ Cancel(r) \/ Save(r)
        PROVE  Whole'
    <2>1. /\ UNCHANGED finished
          /\ \E place \in {"head", "bye", "pull", "sending", "gone", "saving"} :
                Goto(r, place)
      BY <1>2 DEF Start, LoopHead, Keepalive, Store, Abandon, Cancel, Save, Leave
    <2> QED
      BY <2>1, <1>p, <1>o
  <1>3. ASSUME NEW r \in Streams, NEW p \in Pulls(phase[r]), StreamEvent(r, p)
        PROVE  Whole'
    <2>1. CASE p.event \in {"done", "truncated"}
      <3>1. /\ \A x \in Requests \ {r} : UNCHANGED <<loc[x], finished[x]>>
            /\ loc'[r] = IF p.event = "done" THEN "sendingDone" ELSE "sending"
            /\ finished'[r] = IF p.event = "done" THEN "complete" ELSE "partial"
        BY <1>3, <1>p, <1>t, <1>g, <2>1 DEF StreamEvent, Forward, RestOK
      <3> QED
        BY <3>1, <1>p DEF Whole
    <2>2. CASE p.event \notin {"done", "truncated"}
      <3>1. /\ UNCHANGED finished
            /\ \E place \in {"sending", "bye", "over"} : Goto(r, place)
        BY <1>3, <2>2 DEF StreamEvent, Leave
      <3> QED
        BY <3>1, <1>p, <1>o
    <2> QED
      BY <2>1, <2>2
  <1>4. ASSUME NEW r \in Streams, Sent(r) PROVE Whole'
    <2>1. UNCHANGED finished
      BY <1>4 DEF Sent
    <2>2. \/ \E place \in {"head", "over"} : Goto(r, place)
          \/ loc[r] = "sendingDone" /\ Goto(r, "storing")
      BY <1>4 DEF Sent, Leave
    <2>3. loc[r] = "sendingDone" => finished[r] = "complete"
      BY DEF Whole
    <2> QED
      BY <2>1, <2>2, <2>3, <1>p, <1>o
  <1>5. ASSUME NEW r \in Documents, NEW p \in Pulls(phase[r]), DocumentEvent(r, p)
        PROVE  Whole'
    <2>1. CASE p.event \in {"raised", "end"}
      <3>1. /\ UNCHANGED finished
            /\ \/ Goto(r, "over")
               \/ finished[r] = "complete" /\ Goto(r, "settling")
        BY <1>5, <2>1 DEF DocumentEvent, Leave
      <3> QED
        BY <3>1, <1>p, <1>o
    <2>2. CASE p.event \notin {"raised", "end"}
      <3>1. CASE ShuttingDown
        <4>1. UNCHANGED finished /\ Goto(r, "over")
          BY <1>5, <2>2, <3>1 DEF DocumentEvent, Leave
        <4> QED
          BY <4>1, <1>p, <1>o
      <3>2. CASE ~ShuttingDown
        <4>1. /\ UNCHANGED loc /\ loc[r] = "pull"
              /\ \A x \in Requests \ {r} : finished'[x] = finished[x]
          BY <1>5, <2>2, <3>2, <1>p, <1>t DEF DocumentEvent, RestOK
        <4> QED
          BY <4>1, <1>p DEF Whole
      <3> QED
        BY <3>1, <3>2
    <2> QED
      BY <2>1, <2>2
  <1>6. ASSUME NEW r \in Documents, Settle(r) PROVE Whole'
    BY <1>6, <1>p, <1>o DEF Settle
  <1>7. CASE Sigterm \/ Drained \/ Close \/ Tick \/ UNCHANGED vars
    BY <1>7, <1>o DEF Sigterm, Drained, Close, Tick, vars
  <1> QED
    BY <1>1, <1>2, <1>3, <1>4, <1>5, <1>6, <1>7 DEF Next

(* Only the write on the way out of a cancelled stream can leave a         *)
(* truncated document in the entry.                                        *)
THEOREM OnlyCancelledWritesPartial == Spec => OnlyCancelledCachesPartial
  <1> DEFINE Keeps == entry # "partial" /\ entry' = "partial" =>
                \E r \in Streams : loc[r] = "saving" /\ finished[r] = "partial"
  <1>1. Init => ShapeOK /\ Whole
    BY ShapeInit DEF Init, Whole, Requests
  <1>2. ShapeOK /\ Whole /\ [Next]_vars => (ShapeOK /\ Whole)'
    BY ShapeStep, WholeStep
  <1>3. ShapeOK /\ Whole /\ [Next]_vars => Keeps
    <2> SUFFICES ASSUME ShapeOK, Whole, Next, entry # "partial", entry' = "partial"
                 PROVE  \E r \in Streams : loc[r] = "saving" /\ finished[r] = "partial"
      BY DEF vars
    <2>1. ASSUME NEW r \in Requests, NEW ok \in BOOLEAN, Written(r, ok)
          PROVE  finished[r] = "partial"
      BY <2>1 DEF Written
    <2>2. Streams \subseteq Requests /\ Documents \subseteq Requests
      BY DEF Requests
    <2>3. PICK r \in Requests :
             \/ r \in Streams /\ (Store(r) \/ Cancel(r) \/ Save(r))
             \/ r \in Documents /\ Settle(r)
      <3>1. \A x \in Requests : ~Arrive(x) /\ ~Lookup(x)
        BY DEF Arrive, Lookup
      <3>2. \A x \in Streams : ~Start(x) /\ ~LoopHead(x) /\ ~Keepalive(x) /\ ~Sent(x)
                               /\ ~Abandon(x)
        BY DEF Start, LoopHead, Keepalive, Sent, Abandon
      <3>3. \A x \in Streams : \A p : ~StreamEvent(x, p)
        BY DEF StreamEvent
      <3>4. \A x \in Documents : \A p : ~DocumentEvent(x, p)
        BY DEF DocumentEvent
      <3>5. ~Sigterm /\ ~Drained /\ ~Close /\ ~Tick
        BY DEF Sigterm, Drained, Close, Tick
      <3> QED
        BY <2>2, <3>1, <3>2, <3>3, <3>4, <3>5 DEF Next
    <2>4. CASE r \in Streams /\ Save(r)
      BY <2>1, <2>4 DEF Save, Writes
    <2>5. CASE r \in Streams /\ (Store(r) \/ Cancel(r))
      <3>1. loc[r] = "storing" /\ \E ok \in BOOLEAN : Written(r, ok)
        BY <2>5 DEF Store, Cancel, Writes
      <3> QED
        BY <2>1, <2>5, <3>1 DEF Whole
    <2>6. CASE r \in Documents /\ Settle(r)
      <3>1. loc[r] = "settling" /\ \E ok \in BOOLEAN : Written(r, ok)
        BY <2>6 DEF Settle, Writes
      <3> QED
        BY <2>1, <2>6, <3>1 DEF Whole
    <2> QED
      BY <2>3, <2>4, <2>5, <2>6
  <1> QED
    BY <1>1, <1>2, <1>3, PTL DEF Spec, OnlyCancelledCachesPartial

=============================================================================
