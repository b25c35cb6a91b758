--------------------------- MODULE MCRouteEvents ---------------------------
(* RouteEvents on the default three objectives.  quiet, shade and air take *)
(* the same path through the pipeline as a second route that is neither    *)
(* fastest nor accessible, which scenic already is.                        *)
EXTENDS RouteEvents

ThreePresets == {"fastest", "scenic", "accessible"}

=============================================================================
