---------------------------- MODULE MCNasaAccess ----------------------------
(* NasaAccess on small instances; the workers are interchangeable. *)
EXTENDS NasaAccess, TLC

Symmetry == Permutations(Workers)
=============================================================================
