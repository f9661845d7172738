---------------------------- MODULE MCRateLimiters ----------------------------
(* Instances of RateLimiters for TLC.                                      *)
EXTENDS RateLimiters, TLC

=============================================================================
