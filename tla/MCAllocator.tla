---------------------------- MODULE MCAllocator ----------------------------
(***************************************************************************)
(* Instances of Allocator for TLC.                                         *)
(***************************************************************************)
EXTENDS Allocator

CONSTANTS h1, h2, m1, m2
=============================================================================
