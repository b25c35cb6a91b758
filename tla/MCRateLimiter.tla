--------------------------- MODULE MCRateLimiter ---------------------------
(* RateLimiter on three clients and two request slots; the table holds two *)
(* buckets, so the third client evicts.                                    *)
EXTENDS RateLimiter, TLC

Symmetry == Permutations(Clients) \cup Permutations(Requests)

=============================================================================
