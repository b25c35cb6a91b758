---------------------------- MODULE MCAppSearch ----------------------------
(* AppSearch with a few presses over a few route types.                    *)
EXTENDS AppSearch

CONSTANTS fastest, quiet, scenic

=============================================================================
