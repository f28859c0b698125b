--------------------------- MODULE MCChainForward ---------------------------
(***************************************************************************)
(* Instances of ChainForward for TLC.                                      *)
(***************************************************************************)
EXTENDS ChainForward
=============================================================================
