------------------------------ MODULE MCCache ------------------------------
(* Cache on two worker threads for the rows and three for the connections. *)
EXTENDS Cache, TLC

Symmetry == Permutations(Workers) \cup Permutations(Keys) \cup Permutations(Threads)

=============================================================================
