---------------------------- MODULE MCSavedRoutes ----------------------------
(* SavedRoutes on a save, a reading, a no, and a yes or a boot, with two   *)
(* builds.                                                                 *)
EXTENDS SavedRoutes, TLC

CONSTANTS s1, r1, yes1, no1

=============================================================================
