-------------------------- MODULE MCRegistryCache --------------------------
(***************************************************************************)
(* An instance of RegistryCache for TLC: callers are interchangeable.      *)
(***************************************************************************)
EXTENDS RegistryCache, TLC

CONSTANTS s1, c1, c2

CallerSymmetry == Permutations(Caller)
=============================================================================
