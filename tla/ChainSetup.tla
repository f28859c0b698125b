----------------------------- MODULE ChainSetup -----------------------------
(***************************************************************************)
(* Setting up a service chain: setupChain at the source proxy and          *)
(* chainSetupHandler at the proxy of every service on the way              *)
(* (l4-proxy/chain-setup.go).                                              *)
(*                                                                         *)
(* Hop 0 is the source, hop k the handler that the stream opened by hop    *)
(* k - 1 started.  Link k is that stream between hop k and hop k + 1, with *)
(* one reliable ordered queue per direction: down[k] to hop k + 1, up[k]   *)
(* to hop k.  A SetupRequest travels down hop by hop; the hop whose        *)
(* service is the last of the chain specification answers with a SetupACK, *)
(* which travels up; a hop that has sent its ACK connects to its service   *)
(* and forwards data.                                                      *)
(*                                                                         *)
(* chainSetupHandler ends on every error with a log message and a return:  *)
(* it neither resets its streams nor sends an Error message, so the other  *)
(* end of its streams learns nothing.  That is pc = "returned" here.       *)
(* What the data forwarders do to an established chain is not part of this *)
(* module, except that their data follows the setup messages on the same   *)
(* streams.                                                                *)
(***************************************************************************)
EXTENDS Integers, Sequences, FiniteSets

CONSTANTS
  Service,    \* names of registered services
  Proto,      \* the transport protocol tokens, "udp" and "tcp"
  None,       \* the empty string: no service, no protocol
  Specs,      \* the chain specifications clients ask for
  MaxHops,    \* bound of the model: handlers of one chain
  MaxData     \* bound of the model: data messages of one chain

ASSUME TokenAssumption ==
  /\ None \notin Service \cup Proto
  /\ Service \cap Proto = {}
  /\ Specs \subseteq Seq(Service \cup Proto)

ASSUME BoundAssumption == MaxHops \in Nat \ {0} /\ MaxData \in Nat

Hop     == 0 .. MaxHops
Handler == 1 .. MaxHops
Link    == 0 .. MaxHops - 1

VARIABLES
  spec,    \* chainSpec, the same at every hop: requests carry it unchanged
  at,      \* at[k]: the service whose proxy runs hop k
  pc,      \* where setupChain and the handlers are
  link,    \* link[k]: none, open, or reset (also by closing its connection)
  down,    \* queue from hop k to hop k + 1
  up,      \* queue from hop k + 1 to hop k
  mon,     \* connQualMonitor of hop k: off, on, or fired
  budget,  \* data messages that may still be sent
  acked    \* history: hops that sent a SetupACK

vars == <<spec, at, pc, link, down, up, mon, budget, acked>>

\* ChainMsg, by type.  Of the contents only a SetupRequest's matters, and it
\* is always spec.  Nobody sends an Error message.
Message == {"request", "ack", "data"}

expectType(m, t) == m = t

----------------------------------------------------------------------------
(* The token scan of chainSetupHandler.                                    *)

ScanStart ==
  [tpProto |-> None, foundMe |-> FALSE, tpProtoThis |-> None, nextServ |-> None]

\* Fault: a service token after this one is taken for the next service even
\* before this one was found.
ScanTokenAnyNext(st, token, me) ==
  CASE token \in Proto -> [st EXCEPT !.tpProto = token]
    [] token = me      -> [st EXCEPT !.foundMe = TRUE, !.tpProtoThis = st.tpProto]
    [] OTHER           -> [st EXCEPT !.nextServ = token]

\* Fault: the loop does not end at the next service.
ScanTokenNoBreak(st, token, me) ==
  CASE token \in Proto -> [st EXCEPT !.tpProto = token]
    [] token = me      -> [st EXCEPT !.foundMe = TRUE, !.tpProtoThis = st.tpProto]
    [] OTHER           -> IF st.foundMe THEN [st EXCEPT !.nextServ = token] ELSE st

\* One iteration of the loop; once nextServ is set the loop has ended.
ScanToken(st, token, me) ==
  CASE st.nextServ # None -> st
    [] st.nextServ = None /\ token \in Proto -> [st EXCEPT !.tpProto = token]
    [] st.nextServ = None /\ token = me ->
         [st EXCEPT !.foundMe = TRUE, !.tpProtoThis = st.tpProto]
    [] OTHER -> IF st.foundMe THEN [st EXCEPT !.nextServ = token] ELSE st

Scan(s, me) ==
  LET after[k \in 0 .. Len(s)] ==
        IF k = 0 THEN ScanStart ELSE ScanToken(after[k - 1], s[k], me)
  IN  after[Len(s)]

Found(k)    == Scan(spec, at[k]).foundMe
NextServ(k) == Scan(spec, at[k]).nextServ
TpProto(k)  == Scan(spec, at[k]).tpProtoThis
IsEnd(k)    == NextServ(k) = None

----------------------------------------------------------------------------
Init ==
  /\ spec \in Specs
  /\ at = [k \in Hop |-> None]
  /\ pc = [k \in Hop |-> IF k = 0 THEN "start" ELSE "none"]
  /\ link = [k \in Link |-> "none"]
  /\ down = [k \in Link |-> << >>]
  /\ up = [k \in Link |-> << >>]
  /\ mon = [k \in Hop |-> "off"]
  /\ budget = MaxData
  /\ acked = {}

\* Fault: what was sent before the reset can still be read.
ResetKeepsQueues(k) ==
  /\ link' = [link EXCEPT ![k] = "reset"]
  /\ UNCHANGED <<down, up>>

\* Reset of a stream, or Close of its connection: what is under way is lost.
ResetLink(k) ==
  /\ link' = [link EXCEPT ![k] = "reset"]
  /\ down' = [down EXCEPT ![k] = << >>]
  /\ up' = [up EXCEPT ![k] = << >>]

\* Fault: setupChain waits on after an error.
GiveUpNever(k) == IF k = 0 THEN "wait" ELSE "returned"

\* setupChain returns an error, a handler just returns.
GiveUp(k) == IF k = 0 THEN "failed" ELSE "returned"

----------------------------------------------------------------------------
(* Steps that setupChain and a middle hop's handler have in common.        *)

\* setupChain checks the specification.
SetupChain ==
  /\ pc[0] = "start"
  /\ pc' = [pc EXCEPT ![0] = IF Len(spec) < 2 \/ spec[1] \notin Proto
                             THEN "failed" ELSE "resolve"]
  /\ UNCHANGED <<spec, at, link, down, up, mon, budget, acked>>

\* The service to resolve: the second token at the source.
Target(k) == IF k = 0 THEN spec[2] ELSE NextServ(k)

\* resolveService finds a peer (only a registered service has one) or fails.
ResolveService(k) ==
  /\ pc[k] = "resolve"
  /\ \/ pc' = [pc EXCEPT ![k] = GiveUp(k)]
     \/ /\ Target(k) \in Service
        /\ pc' = [pc EXCEPT ![k] = "open"]
  /\ UNCHANGED <<spec, at, link, down, up, mon, budget, acked>>

\* createStream opens the link, which starts the next hop's handler, and the
\* connection monitor is started.
CreateStream(k) ==
  /\ pc[k] = "open"
  /\ k < MaxHops
  /\ pc' = [pc EXCEPT ![k] = "request", ![k + 1] = "receive"]
  /\ at' = [at EXCEPT ![k + 1] = Target(k)]
  /\ link' = [link EXCEPT ![k] = "open"]
  /\ mon' = [mon EXCEPT ![k] = "on"]
  /\ UNCHANGED <<spec, down, up, budget, acked>>

CreateStreamFails(k) ==
  /\ pc[k] = "open"
  /\ pc' = [pc EXCEPT ![k] = GiveUp(k)]
  /\ UNCHANGED <<spec, at, link, down, up, mon, budget, acked>>

\* Fault: a middle hop acknowledges without waiting for downstream.
AckWithoutWaiting(k) == IF k = 0 THEN "wait" ELSE "ack"

AfterRequest(k) == "wait"

\* Send the SetupRequest.  setupChain ignores a send error and goes on to
\* wait, chainSetupHandler returns.
SendRequest(k) ==
  /\ pc[k] = "request"
  /\ \/ /\ link[k] = "open"
        /\ down' = [down EXCEPT ![k] = Append(@, "request")]
        /\ pc' = [pc EXCEPT ![k] = AfterRequest(k)]
     \/ /\ link[k] = "reset"
        /\ pc' = [pc EXCEPT ![k] = IF k = 0 THEN AfterRequest(k) ELSE "returned"]
        /\ UNCHANGED down
  /\ UNCHANGED <<spec, at, link, up, mon, budget, acked>>

\* receiveSetupACK: any other message, or a reset stream, is an error.
ReceiveAck(k) ==
  /\ pc[k] = "wait"
  /\ \/ /\ link[k] = "open"
        /\ up[k] # << >>
        /\ up' = [up EXCEPT ![k] = Tail(@)]
        /\ pc' = [pc EXCEPT ![k] =
                    CASE ~ expectType(Head(up[k]), "ack") -> GiveUp(k)
                      [] k = 0                            -> "run"
                      [] OTHER                            -> "ack"]
     \/ /\ link[k] = "reset"
        /\ pc' = [pc EXCEPT ![k] = GiveUp(k)]
        /\ UNCHANGED up
  /\ UNCHANGED <<spec, at, link, down, mon, budget, acked>>

----------------------------------------------------------------------------
(* The other steps of chainSetupHandler, at hop k > 0.                     *)

\* receiveSetupRequest, the scan, and the decision what this hop is.
ReceiveRequest(k) ==
  /\ pc[k] = "receive"
  /\ \/ /\ link[k - 1] = "open"
        /\ down[k - 1] # << >>
        /\ down' = [down EXCEPT ![k - 1] = Tail(@)]
        /\ pc' = [pc EXCEPT ![k] =
                    CASE ~ expectType(Head(down[k - 1]), "request") -> "returned"
                      [] ~ Found(k)                                 -> "returned"
                      [] IsEnd(k)                                   -> "ack"
                      [] OTHER                                      -> "resolve"]
     \/ /\ link[k - 1] = "reset"
        /\ pc' = [pc EXCEPT ![k] = "returned"]
        /\ UNCHANGED down
  /\ UNCHANGED <<spec, at, link, up, mon, budget, acked>>

\* sendSetupACK.  On an error the last hop returns, a middle hop goes on.
SendAck(k) ==
  /\ pc[k] = "ack"
  /\ \/ /\ link[k - 1] = "open"
        /\ up' = [up EXCEPT ![k - 1] = Append(@, "ack")]
        /\ acked' = acked \cup {k}
        /\ pc' = [pc EXCEPT ![k] = "dial"]
     \/ /\ link[k - 1] = "reset"
        /\ pc' = [pc EXCEPT ![k] = IF IsEnd(k) THEN "returned" ELSE "dial"]
        /\ UNCHANGED <<up, acked>>
  /\ UNCHANGED <<spec, at, link, down, mon, budget>>

\* The End and Mid chain handlers: connect to the local service, start the
\* forwarders.  If that fails, or the protocol is unknown, they return.
DialService(k) ==
  /\ pc[k] = "dial"
  /\ \/ /\ TpProto(k) \in Proto
        /\ pc' = [pc EXCEPT ![k] = "tunnel"]
     \/ pc' = [pc EXCEPT ![k] = "returned"]
  /\ UNCHANGED <<spec, at, link, down, up, mon, budget, acked>>

----------------------------------------------------------------------------
(* Data on the streams of hops that are done with setup.                   *)

\* The client's data at the source, or the output of a middle hop's service.
SendDataDown(k) ==
  /\ pc[k] \in {"run", "tunnel"}
  /\ k < MaxHops
  /\ k = 0 \/ ~ IsEnd(k)
  /\ link[k] = "open"
  /\ budget > 0
  /\ budget' = budget - 1
  /\ down' = [down EXCEPT ![k] = Append(@, "data")]
  /\ UNCHANGED <<spec, at, pc, link, up, mon, acked>>

\* The output of the last hop's service.
SendDataUp(k) ==
  /\ pc[k] = "tunnel"
  /\ IsEnd(k)
  /\ link[k - 1] = "open"
  /\ budget > 0
  /\ budget' = budget - 1
  /\ up' = [up EXCEPT ![k - 1] = Append(@, "data")]
  /\ UNCHANGED <<spec, at, pc, link, down, mon, acked>>

\* receiveData on a hop's incoming stream, for its service.
ReceiveDataDown(k) ==
  /\ pc[k] = "tunnel"
  /\ link[k - 1] = "open"
  /\ down[k - 1] # << >>
  /\ expectType(Head(down[k - 1]), "data")
  /\ down' = [down EXCEPT ![k - 1] = Tail(@)]
  /\ UNCHANGED <<spec, at, pc, link, up, mon, budget, acked>>

\* receiveData on a hop's outgoing stream: a middle hop sends it on up.
ReceiveDataUp(k) ==
  /\ pc[k] \in {"run", "tunnel"}
  /\ k < MaxHops
  /\ link[k] = "open"
  /\ up[k] # << >>
  /\ expectType(Head(up[k]), "data")
  /\ up' = [j \in Link |->
              IF j = k THEN Tail(up[k])
              ELSE IF j = k - 1 /\ link[j] = "open" THEN Append(up[j], "data")
              ELSE up[j]]
  /\ UNCHANGED <<spec, at, pc, link, down, mon, budget, acked>>

----------------------------------------------------------------------------
(* Failures.                                                               *)

\* Fault: the monitor of the source closes a connection further down.
MonitoredLinkBeyond(k) == k + 1

\* The stream whose connection the monitor closes: setupChain passes the
\* stream it opened, chainSetupHandler its incoming one.
MonitoredLink(k) == IF k = 0 THEN 0 ELSE k - 1

\* connQualMonitor: a ping to the next hop's peer fails or is too slow.
MonitorFires(k) ==
  /\ mon[k] = "on"
  /\ mon' = [mon EXCEPT ![k] = "fired"]
  /\ ResetLink(MonitoredLink(k))
  /\ UNCHANGED <<spec, at, pc, budget, acked>>

\* A connection breaks: the peer dies or the network fails.
ConnFails(k) ==
  /\ link[k] = "open"
  /\ ResetLink(k)
  /\ UNCHANGED <<spec, at, pc, mon, budget, acked>>

----------------------------------------------------------------------------
SourceStep ==
  \/ SetupChain
  \/ ResolveService(0)
  \/ CreateStream(0) \/ CreateStreamFails(0)
  \/ SendRequest(0) \/ ReceiveAck(0)

HandlerStep(k) ==
  \/ ReceiveRequest(k)
  \/ ResolveService(k)
  \/ CreateStream(k) \/ CreateStreamFails(k)
  \/ SendRequest(k) \/ ReceiveAck(k)
  \/ SendAck(k) \/ DialService(k)

DataStep ==
  \/ SendDataDown(0) \/ ReceiveDataUp(0)
  \/ \E k \in Handler :
       SendDataDown(k) \/ SendDataUp(k) \/ ReceiveDataDown(k) \/ ReceiveDataUp(k)

Failure ==
  \/ \E k \in Hop : MonitorFires(k)
  \/ \E k \in Link : ConnFails(k)

Next ==
  \/ SourceStep
  \/ \E k \in Handler : HandlerStep(k)
  \/ DataStep
  \/ Failure

Spec == Init /\ [][Next]_vars

(***************************************************************************)
(* Every goroutine that can take a step takes one: registry lookups,       *)
(* dialling and stream opening end, and a message that was sent or a reset *)
(* reaches the reader.  No failure is bound to happen.                     *)
(***************************************************************************)
FairSpec ==
  /\ Spec
  /\ WF_vars(SourceStep)
  /\ \A k \in Handler : WF_vars(HandlerStep(k))

----------------------------------------------------------------------------
(* Properties.                                                             *)

\* The variables have their types, and messages are only in open streams.
TypeOK ==
  /\ spec \in Specs
  /\ at \in [Hop -> Service \cup {None}]
  /\ pc \in [Hop -> {"none", "start", "resolve", "open", "request", "wait",
                     "receive", "ack", "dial", "tunnel", "run", "failed",
                     "returned"}]
  /\ link \in [Link -> {"none", "open", "reset"}]
  /\ down \in [Link -> Seq(Message)]
  /\ up \in [Link -> Seq(Message)]
  /\ mon \in [Hop -> {"off", "on", "fired"}]
  /\ budget \in 0 .. MaxData
  /\ acked \subseteq Handler
  /\ \A k \in Link : link[k] # "open" => down[k] = << >> /\ up[k] = << >>

\* A SetupACK that reaches the source comes from the whole chain: the first
\* hop has sent one, and whoever has sent one is the last service of the
\* specification or was sent one by the hop of its next service.
AckFromWholeChain ==
  /\ pc[0] = "run" => 1 \in acked /\ at[1] = spec[2]
  /\ \A k \in acked :
       IsEnd(k) \/ (k + 1 \in acked /\ at[k + 1] = NextServ(k))

\* "Right now we assume a service is specified ONLY ONCE in the chain", says
\* the comment of the scan.
OneOfEach(s) ==
  \A j, k \in 1 .. Len(s) : j # k /\ s[j] \in Service => s[j] # s[k]

ServicesUpTo(s, n) == { j \in 1 .. n : s[j] \in Service }

\* The protocol a specification gives a service: the nearest one before it.
ProtoIn(s, t) ==
  LET here == CHOOSE k \in 1 .. Len(s) : s[k] = t
      before == { k \in 1 .. here : s[k] \in Proto }
  IN  s[CHOOSE k \in before : \A j \in before : j <= k]

\* The chain follows its specification although every hop works out its place
\* by itself: hop k runs at the k-th service, with that service's protocol.
PathFollowsSpec ==
  \A k \in Handler : at[k] # None =>
    /\ \E n \in 1 .. Len(spec) :
         spec[n] = at[k] /\ Cardinality(ServicesUpTo(spec, n)) = k
    /\ Found(k) /\ TpProto(k) = ProtoIn(spec, at[k])

\* When setupChain returns without an error, every service of the
\* specification has a hop that has sent its SetupACK.
EveryServiceAcked ==
  pc[0] = "run" => \A j \in 1 .. Len(spec) :
    spec[j] \in Service => \E k \in acked : at[k] = spec[j]

\* The chain setup as the source and the services see it.
Ready == INSTANCE ChainReady WITH
  ready   <- { at[k] : k \in acked },
  outcome <- CASE pc[0] = "run"    -> "established"
               [] pc[0] = "failed" -> "failed"
               [] OTHER            -> "pending"

\* Whatever breaks meanwhile, services acknowledge once each and from the last
\* to the first, and setupChain decides once: a ChainReady.
ReadySpec == Ready!Spec

\* No hop ever finds a message of another type than the one it expects on a
\* stream: no ACK or data overtakes what must come before it.
NoUnexpectedMessage ==
  \A k \in Link :
    /\ up[k] # << >> =>
         CASE pc[k] = "wait"              -> Head(up[k]) = "ack"
           [] pc[k] \in {"run", "tunnel"} -> Head(up[k]) = "data"
           [] OTHER                       -> Head(up[k]) # "request"
    /\ down[k] # << >> =>
         CASE pc[k + 1] = "receive" -> Head(down[k]) = "request"
           [] OTHER                 -> Head(down[k]) = "data"

\* The hops never all wait for each other: below the source and the handlers
\* that wait for an ACK there is one that can go on, with the answer, request
\* or reset it waits for at hand, or one that has returned without a word.
NotAllWaiting ==
  pc[0] = "wait" => \E k \in Hop :
    /\ \A j \in 0 .. k - 1 : pc[j] = "wait"
    /\ \/ pc[k] \in {"resolve", "open", "request", "ack", "returned"}
       \/ pc[k] = "wait" /\ (link[k] = "reset" \/ up[k] # << >>)
       \/ pc[k] = "receive" /\ (link[k - 1] = "reset" \/ down[k - 1] # << >>)

\* The source's setupChain ends, unless a handler returned without a word.
SetupEndsOrSomeoneReturned ==
  pc[0] = "start" ~> \/ pc[0] \in {"run", "failed"}
                     \/ \E k \in Handler : pc[k] = "returned"

\* The monitor of the source gets it out of waiting for an ACK that does not
\* come.
SourceMonitorUnblocks == mon[0] = "fired" ~> pc[0] # "wait"

\* "Run background goroutine to monitor outgoing connection quality": a middle
\* hop's monitor does as much for the hop's wait for the ACK on its outgoing
\* stream.
HandlerMonitorUnblocks ==
  \A k \in Handler : mon[k] = "fired" ~> pc[k] # "wait"
=============================================================================
