----------------------------- MODULE ChainReady -----------------------------
(***************************************************************************)
(* What a chain setup promises the source (l4-proxy/chain-setup.go),       *)
(* without hops, streams and messages: the services of the specification   *)
(* acknowledge once each, from the last to the first, and setupChain       *)
(* returns without an error only when all of them have.                    *)
(***************************************************************************)
EXTENDS Naturals, Sequences

CONSTANTS Service, Specs

VARIABLES
  spec,     \* the chain specification
  ready,    \* the services whose proxies have acknowledged
  outcome   \* of setupChain: pending, established or failed

vars == <<spec, ready, outcome>>

Init ==
  /\ spec \in Specs
  /\ ready = {}
  /\ outcome = "pending"

\* Are all services after the first n tokens ready?
ReadyAfter(n) ==
  \A i \in n + 1 .. Len(spec) : spec[i] \in Service => spec[i] \in ready

\* A proxy acknowledges also when the source has given up meanwhile.
Acknowledge(n) ==
  /\ spec[n] \in Service \ ready
  /\ ReadyAfter(n)
  /\ ready' = ready \cup {spec[n]}
  /\ UNCHANGED <<spec, outcome>>

Establish ==
  /\ outcome = "pending"
  /\ ReadyAfter(0)
  /\ outcome' = "established"
  /\ UNCHANGED <<spec, ready>>

Fail ==
  /\ outcome = "pending"
  /\ outcome' = "failed"
  /\ UNCHANGED <<spec, ready>>

Next ==
  \/ \E n \in 1 .. Len(spec) : Acknowledge(n)
  \/ Establish
  \/ Fail

Spec == Init /\ [][Next]_vars
=============================================================================
