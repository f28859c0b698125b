---------------------------- MODULE MCChainSetup ----------------------------
(***************************************************************************)
(* Instances of ChainSetup for TLC.  The token comment of                  *)
(* chainSetupHandler allows a service only once in a specification.        *)
(***************************************************************************)
EXTENDS ChainSetup

CONSTANTS a, b, c, tcp, udp

\* All specifications of two to four tokens that start with a protocol and a
\* service, up to the names of services and protocols, a longer one in which a
\* protocol is inherited and another is not, and those that setupChain refuses.
ShortSpecs ==
  { s \in UNION { [1 .. n -> Service \cup Proto] : n \in 2 .. 4 } :
      /\ s[1] = tcp /\ s[2] = a /\ OneOfEach(s)
      /\ \A i \in DOMAIN s : s[i] = c => \E j \in 1 .. i - 1 : s[j] = b }
    \cup { <<tcp, a, b, udp, c>>, <<tcp>>, <<a, b>>, <<tcp, udp, a>> }

\* Chains of one, two and three services.
LongSpecs == { <<tcp, a>>, <<tcp, a, udp, b>>, <<tcp, a, b, udp, c>> }
=============================================================================
