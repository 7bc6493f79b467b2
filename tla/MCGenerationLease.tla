-------------------------- MODULE MCGenerationLease --------------------------
(* Model values and bounds for GenerationLease.                             *)
EXTENDS GenerationLease, TLC

CONSTANTS p1, p2

Perms == Permutations({p1, p2})
=============================================================================
