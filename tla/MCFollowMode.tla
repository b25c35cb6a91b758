---------------------------- MODULE MCFollowMode ----------------------------
(* FollowMode over a few ticks of the clock and calls of acquire().        *)
EXTENDS FollowMode

=============================================================================
