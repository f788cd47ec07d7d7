--------------------------- MODULE MCRateLimiter ---------------------------
(***************************************************************************)
(* Small instances of RateLimiter for TLC.  steady: one token per second,  *)
(* half-second ticks, a burst of two and a half tokens.  slow: 0.4 tokens  *)
(* per second, second ticks, a burst of one token.                         *)
(***************************************************************************)
EXTENDS RateLimiter, TLC

\* Environments and keys are interchangeable.
Symmetry == Permutations(Envs) \cup Permutations(Keys)
=============================================================================
