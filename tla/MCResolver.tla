----------------------------- MODULE MCResolver -----------------------------
(***************************************************************************)
(* Instances of Resolver for TLC: a near allocator within the soft         *)
(* requirement and a far one beyond it.                                    *)
(***************************************************************************)
EXTENDS Resolver

CONSTANTS r1, r2, near, far

NearAndFar == [a \in Alloc |-> IF a = near THEN 1 ELSE 2]
=============================================================================
