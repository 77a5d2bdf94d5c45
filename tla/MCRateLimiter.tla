----------------------------- MODULE MCRateLimiter -----------------------------
(***************************************************************************)
(* A small instance of RateLimiter: two processes whose clocks may differ  *)
(* share the window of a client.                                           *)
(***************************************************************************)
EXTENDS RateLimiter
=============================================================================
