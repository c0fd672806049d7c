---------------------------- MODULE MCRateLimiter ----------------------------
EXTENDS RateLimiter, TLC

Symmetry == Permutations(Calls) \cup Permutations(Replicas)
=============================================================================
