---------------------------- MODULE MCPeerCache ----------------------------
(***************************************************************************)
(* Instances of PeerCache for TLC.                                         *)
(***************************************************************************)
EXTENDS PeerCache

CONSTANTS p1, p2, p3, s1

\* One service: at most 1 is good, 2 misses the soft requirement only.
MCSoftReq == [s \in Serv |-> 1]
MCHardReq == [s \in Serv |-> 2]

\* p1 always answers well, p2 never, the others well, badly, too late or not.
MixedReply ==
  [p \in Peer |-> CASE p = p1 -> {1} [] p = p2 -> {0} [] OTHER -> 0 .. 3]

\* Every peer always meets the hard requirement.
FitReply == [p \in Peer |-> 1 .. 2]
=============================================================================
