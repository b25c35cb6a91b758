------------------------------ MODULE MCPhotos ------------------------------
(* Photos on a route of a hundred metres with two anchors.                 *)
EXTENDS Photos

Page(i) == [id |-> i, host |-> "commons", licensed |-> TRUE]
MCPages == {<<>>, <<Page(1)>>, <<Page(2), Page(1)>>}
MCBlockers == {{}, {90}, {40, 10}}
MCVertices == <<0, 25, 50, 75, 100>>

=============================================================================
