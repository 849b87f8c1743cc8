---------------------------- MODULE MCRateLimiter ----------------------------
(***************************************************************************)
(* A small instance of RateLimiter for the model checker.                  *)
(***************************************************************************)
EXTENDS RateLimiter

CONSTANTS a, b, c            \* goroutines

MCCallers == {a, b, c}
=============================================================================
