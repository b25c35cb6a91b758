--------------------------- MODULE MCRouteServer ---------------------------
(* RouteServer with two requests that stream and one that does not. *)
EXTENDS RouteServer, TLC

Symmetry == Permutations(Streams)

=============================================================================
