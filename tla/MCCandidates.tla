---------------------------- MODULE MCCandidates ----------------------------
(* Candidates by itself, with loops from half to three times the dial.     *)
EXTENDS Candidates

=============================================================================
