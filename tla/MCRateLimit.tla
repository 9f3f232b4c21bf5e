---------------------------- MODULE MCRateLimit ----------------------------
(* RateLimit on small instances; requests and instances are interchangeable. *)
EXTENDS RateLimit, TLC

Symmetry == Permutations(Requests) \cup Permutations(Instances)
=============================================================================
