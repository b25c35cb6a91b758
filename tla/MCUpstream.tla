----------------------------- MODULE MCUpstream -----------------------------
(* Upstream on small services: a few verdicts, calls, durations, vertices, *)
(* mapped nodes and photographs.                                           *)
EXTENDS Upstream, Sequences

(* Routes of three or four segments, one way over, there and back, with a  *)
(* repeated vertex, and with a segment long enough to be sampled.          *)
Span(from, to, value) == [from |-> from, to |-> to, value |-> value, at |-> <<>>]
Untagged == [lengths |-> <<>>, heights |-> <<>>, roadClass |-> <<>>, surface |-> <<>>,
             smoothness |-> <<>>, environment |-> <<>>]
MCTags ==
    { Untagged,
      [Untagged EXCEPT !.roadClass = <<Span(0, 2, "FOOTWAY")>>,
                       !.surface = <<Span(0, 1, "ASPHALT"), Span(1, 2, "MISSING")>>],
      [Untagged EXCEPT !.surface = <<Span(0, 2, "GRAVEL")>>,
                       !.environment = <<Span(0, 1, "BRIDGE")>>,
                       !.heights = <<0, 12, 24, 24>>] }
MCLines == {<<0, 100, 200>>, <<0, 100, 100>>, <<0, 200, 0>>, <<0, 60, 130, 400>>, <<0, 90, 300, 0>>}
Routed(objective, positions, tags) ==
    [objective |-> objective, positions |-> positions, tags |-> tags]

(* Nodes on the line, beside it within a corridor, and past it.            *)
Node(value, place, off) == [value |-> value, at |-> place, off |-> off]
MCNodes == {Node("GATE", 100, 0), Node("GATE", 150, 8), Node("STILE", 120, 12),
            Node("ENTRANCE", 50, 0), Node("bench", 90, 30), Node("GATE", 300, 0)}
Slot(need, light, risen, dark) == [need |-> need, light |-> light, up |-> risen, dark |-> dark]
MCSun == <<Slot(5000, 0, TRUE, FALSE), Slot(2000, 8000, TRUE, FALSE), Slot(0, 0, FALSE, TRUE)>>
MCTrips ==
    [routes : {<<Routed("accessible", line, tags)>> : line \in MCLines, tags \in MCTags}
                 \cup {<<Routed("fastest", <<0, 100>>, Untagged),
                         Routed("accessible", line, Untagged)>> : line \in MCLines},
     nodes : {nodes \in SUBSET MCNodes : Cardinality(nodes) <= 3},
     slots : {MCSun}]

Page(i) == [id |-> i, host |-> "commons", licensed |-> TRUE]
MCPages == {<<>>, <<Page(1)>>, <<Page(2), Page(1)>>,
            <<Page(3), [Page(4) EXCEPT !.licensed = FALSE], [Page(5) EXCEPT !.host = "elsewhere"]>>}
MCBlockers == {{}, {90}, {40, 10}}
MCVertices == <<0, 25, 50, 75, 100>>

=============================================================================
