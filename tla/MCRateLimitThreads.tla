------------------------- MODULE MCRateLimitThreads -------------------------
(* Instances of RateLimitThreads for TLC. *)
EXTENDS RateLimitThreads, TLC

Symmetry == Permutations(Threads) \cup Permutations(Clients)

=============================================================================
