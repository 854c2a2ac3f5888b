--------------------------- MODULE MCRateLimiter ---------------------------
(* A burst of two tokens, refilled well within the staleness window.       *)
EXTENDS RateLimiter, TLC

Symmetry == Permutations(Client) \cup Permutations(Call) \cup Permutations(Limiter)
=============================================================================
