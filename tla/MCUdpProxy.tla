----------------------------- MODULE MCUdpProxy -----------------------------
(***************************************************************************)
(* Instances of UdpProxy for TLC.                                          *)
(***************************************************************************)
EXTENDS UdpProxy, TLC

CONSTANTS r1, r2, c1, c2

\* No action tells one request or one client from another.
Symmetry == Permutations(Req) \cup Permutations(Client)
=============================================================================
