----------------------------- MODULE PeerStore -----------------------------
(***************************************************************************)
(* What the peer cache promises the requests that use it                   *)
(* (pcache/pcache.go), without levels, counts and order: which peers are   *)
(* cached for which service.                                               *)
(*                                                                         *)
(* AddPeer makes a peer known.  RemovePeer touches one service of one peer *)
(* at most, and may leave the peer cached, for it removes one entry and    *)
(* there can be several.  Every other removal happens during an update,    *)
(* which holds cache.mux: no request is served meanwhile, and an update    *)
(* never makes a peer known.                                               *)
(***************************************************************************)
CONSTANTS Peer, Serv

VARIABLES
  present,    \* the pairs of a peer and a service with an entry
  updating    \* does updateCache hold cache.mux?

vars == <<present, updating>>

Init ==
  /\ present = {}
  /\ updating = FALSE

AddPeer(p, s) ==
  /\ ~ updating
  /\ present' = present \cup {<<p, s>>}
  /\ UNCHANGED updating

RemovePeer(p) ==
  /\ ~ updating
  /\ \/ \E s \in Serv : present' = present \ {<<p, s>>}
     \/ UNCHANGED present
  /\ UNCHANGED updating

\* The peers that GetPeer may return for service s; none: the error.
GetPeer(s) == { p \in Peer : <<p, s>> \in present }

BeginUpdate ==
  /\ ~ updating
  /\ updating' = TRUE
  /\ UNCHANGED present

Evict ==
  /\ updating
  /\ present' \in SUBSET present
  /\ UNCHANGED updating

EndUpdate ==
  /\ updating
  /\ present' \in SUBSET present
  /\ updating' = FALSE

Next ==
  \/ \E p \in Peer, s \in Serv : AddPeer(p, s)
  \/ \E p \in Peer : RemovePeer(p)
  \/ BeginUpdate \/ Evict \/ EndUpdate

Spec == Init /\ [][Next]_vars
=============================================================================
