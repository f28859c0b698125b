---------------------------- MODULE ChainForward ----------------------------
(***************************************************************************)
(* Data on a chain that has been set up: the handlers that connect a hop   *)
(* to its service and the goroutines that copy between its streams and     *)
(* connections (l4-proxy/tcp-proxy.go, l4-proxy/udp-proxy.go and           *)
(* fwdStream2Stream of l4-proxy/chain-setup.go).                           *)
(*                                                                         *)
(* Position 0 is the source proxy with its TCP client, 1 .. N are the      *)
(* hops.  A position has up to three endpoints: the stream from upstream   *)
(* (in), the stream to downstream (out) and the local connection (conn).   *)
(*                                                                         *)
(*    client        service 1         service N                            *)
(*      |               |                 |                                *)
(*     conn            conn              conn                              *)
(*      0  out ---- in  1  out ----  in   N                                *)
(*                                                                         *)
(* Reset closes one end of a stream at once, and the other when the notice *)
(* arrives; data not read by then is lost.  Services answer every message  *)
(* that reaches them with one message, in order.  Hops may reach their     *)
(* services by TCP or by UDP: the goroutines are the same, but a datagram  *)
(* may be lost, and its sender never waits.  Streams and TCP connections   *)
(* hold their writer up while they are full.                               *)
(***************************************************************************)
EXTENDS Integers, Sequences

CONSTANTS
  N,        \* hops of the chain
  Udp,      \* the hops that reach their services by UDP
  MaxMsgs,  \* bound of the model: messages that the client sends
  MaxBuf    \* bound of the model: messages in a buffer

ASSUME ForwardAssumption ==
  /\ N \in Nat \ {0}
  /\ Udp \subseteq 1 .. N
  /\ {MaxMsgs, MaxBuf} \subseteq Nat \ {0}

Position == 0 .. N
Endpoint == ({"in"} \X (1 .. N)) \cup ({"out"} \X (0 .. N - 1)) \cup ({"conn"} \X Position)

\* The goroutines: down copies from the connection to the downstream stream,
\* serve from the upstream stream to the connection, up towards the client.
Forwarder ==
  ({"down"} \X (0 .. N - 1)) \cup ({"serve"} \X (1 .. N)) \cup ({"up"} \X Position)

At(p) == { f \in Forwarder : f[2] = p }

VARIABLES
  chain,  \* chain[p]: pending, ok or failed: setupChain at 0, the dial at a hop
  state,  \* state[e]: open, closed, or eof: the local program has closed it
  buf,    \* buf[e]: messages to be read at e
  serv,   \* serv[p]: messages that service p has not read
  pc,     \* pc[f]: off, run, closing or done
  hand,   \* hand[f]: what f has read and not written yet, one message or none
  sent,   \* messages sent by the client
  got,    \* messages received by the client
  lost    \* history: was a datagram lost?

vars == <<chain, state, buf, serv, pc, hand, sent, got, lost>>

\* The hops have sent their ACKs; none has dialled its service yet.
Init ==
  /\ chain = [p \in Position |-> "pending"]
  /\ state = [e \in Endpoint |-> "open"]
  /\ buf = [e \in Endpoint |-> << >>]
  /\ serv = [p \in 1 .. N |-> << >>]
  /\ pc = [f \in Forwarder |-> "off"]
  /\ hand = [f \in Forwarder |-> << >>]
  /\ sent = 0
  /\ got = << >>
  /\ lost = FALSE

IsConn(e) == e[1] = "conn"

\* The other end of a stream.
Peer(e) == IF e[1] = "in" THEN <<"out", e[2] - 1>> ELSE <<"in", e[2] + 1>>

----------------------------------------------------------------------------
(* tcpFwdConnToServ, and the handlers at the end and in the middle.        *)

\* Fault: the goroutine of fwdStream2Stream is not started.
StartNoReturn(p) ==
  pc' = [f \in Forwarder |->
           IF f \in At(p) /\ ~ (f[1] = "up" /\ p \in 1 .. N - 1) THEN "run" ELSE pc[f]]

Start(p) == pc' = [f \in Forwarder |-> IF f \in At(p) THEN "run" ELSE pc[f]]

\* setupChain returns the stream.
SetupChain ==
  /\ chain[0] = "pending"
  /\ state[<<"out", 0>>] = "open"
  /\ chain' = [chain EXCEPT ![0] = "ok"]
  /\ Start(0)
  /\ UNCHANGED <<state, buf, serv, hand, sent, got, lost>>

\* The stream ended before the ACK was read.  The client's connection is left
\* as it is.
SetupFails ==
  /\ chain[0] = "pending"
  /\ state[<<"out", 0>>] = "closed"
  /\ chain' = [chain EXCEPT ![0] = "failed"]
  /\ UNCHANGED <<state, buf, serv, pc, hand, sent, got, lost>>

Dial(p) ==
  /\ chain[p] = "pending"
  /\ chain' = [chain EXCEPT ![p] = "ok"]
  /\ Start(p)
  /\ UNCHANGED <<state, buf, serv, hand, sent, got, lost>>

\* Fault: no return after the error.
DialFailsGoesOn(p) ==
  /\ chain[p] = "pending"
  /\ chain' = [chain EXCEPT ![p] = "failed"]
  /\ Start(p)
  /\ UNCHANGED <<state, buf, serv, hand, sent, got, lost>>

\* The handler returns.  The streams are left as they are.
DialFails(p) ==
  /\ chain[p] = "pending"
  /\ chain' = [chain EXCEPT ![p] = "failed"]
  /\ UNCHANGED <<state, buf, serv, pc, hand, sent, got, lost>>

----------------------------------------------------------------------------
(* The forwarders.                                                         *)

Src(f) ==
  CASE f[1] = "down"  -> <<"conn", f[2]>>
    [] f[1] = "serve" -> <<"in", f[2]>>
    [] f[1] = "up"    -> IF f[2] = N THEN <<"conn", N>> ELSE <<"out", f[2]>>

\* Fault: in the middle the service's output goes to inStream.
DstTurnedBack(f) ==
  CASE f[1] = "down"  -> IF f[2] = 0 THEN <<"out", 0>> ELSE <<"in", f[2]>>
    [] f[1] = "serve" -> <<"conn", f[2]>>
    [] f[1] = "up"    -> IF f[2] = 0 THEN <<"conn", 0>> ELSE <<"in", f[2]>>

Dst(f) ==
  CASE f[1] = "down"  -> <<"out", f[2]>>
    [] f[1] = "serve" -> <<"conn", f[2]>>
    [] f[1] = "up"    -> IF f[2] = 0 THEN <<"conn", 0>> ELSE <<"in", f[2]>>

\* *FwdStream2Conn closes its source first, the others their destination.
ClosedFirst(f) == IF IsConn(Dst(f)) THEN Src(f) ELSE Dst(f)
ClosedLast(f)  == IF IsConn(Dst(f)) THEN Dst(f) ELSE Src(f)

\* src.Read or receiveData returns a message.
Reads(f) ==
  /\ pc[f] = "run"
  /\ hand[f] = << >>
  /\ state[Src(f)] # "closed"
  /\ buf[Src(f)] # << >>
  /\ hand' = [hand EXCEPT ![f] = <<Head(buf[Src(f)])>>]
  /\ buf' = [buf EXCEPT ![Src(f)] = Tail(@)]
  /\ UNCHANGED <<chain, state, serv, pc, sent, got, lost>>

\* Send into a stream, when there is room in it; what its other end no longer
\* reads is lost.
SendData(f) ==
  LET far == Peer(Dst(f)) IN
    /\ \/ /\ state[far] = "open"
          /\ Len(buf[far]) < MaxBuf
          /\ buf' = [buf EXCEPT ![far] = Append(@, Head(hand[f]))]
       \/ /\ state[far] = "closed"
          /\ UNCHANGED buf
    /\ UNCHANGED <<serv, got, lost>>

\* Write to the client.
WriteClient(f) ==
  /\ got' = Append(got, Head(hand[f]))
  /\ UNCHANGED <<buf, serv, lost>>

\* Write to the service: a connection that is full holds the writer up, a
\* datagram too many is dropped.
WriteService(f) ==
  /\ \/ /\ Len(serv[f[2]]) < MaxBuf
        /\ serv' = [serv EXCEPT ![f[2]] = Append(@, Head(hand[f]))]
        /\ UNCHANGED lost
     \/ /\ f[2] \in Udp
        /\ Len(serv[f[2]]) = MaxBuf
        /\ lost' = TRUE
        /\ UNCHANGED serv
  /\ UNCHANGED <<buf, got>>

\* The write of a message returns without an error.
Writes(f) ==
  /\ hand[f] # << >>
  /\ state[Dst(f)] = "open"
  /\ \/ ~ IsConn(Dst(f)) /\ SendData(f)
     \/ Dst(f) = <<"conn", 0>> /\ WriteClient(f)
     \/ IsConn(Dst(f)) /\ f[2] > 0 /\ WriteService(f)
  /\ hand' = [hand EXCEPT ![f] = << >>]
  /\ UNCHANGED <<chain, state, pc, sent>>

\* Close endpoint e: nothing is read from it any more, and a service whose
\* connection is closed gives up what it had not read.
Close(e) ==
  /\ state' = [state EXCEPT ![e] = "closed"]
  /\ buf' = [buf EXCEPT ![e] = << >>]
  /\ serv' = [p \in 1 .. N |-> IF e = <<"conn", p>> THEN << >> ELSE serv[p]]

\* The read, or the write, that the goroutine is in fails; the deferred
\* function begins.
Fails(f) ==
  /\ pc[f] = "run"
  /\ state[IF hand[f] = << >> THEN Src(f) ELSE Dst(f)] # "open"
  /\ pc' = [pc EXCEPT ![f] = "closing"]
  /\ hand' = [hand EXCEPT ![f] = << >>]
  /\ Close(ClosedFirst(f))
  /\ UNCHANGED <<chain, sent, got, lost>>

\* Fault: as if the connection were shared, it is not closed.
FinishesShared(f) ==
  /\ pc[f] = "closing"
  /\ pc' = [pc EXCEPT ![f] = "done"]
  /\ UNCHANGED <<chain, state, buf, serv, hand, sent, got, lost>>

Finishes(f) ==
  /\ pc[f] = "closing"
  /\ pc' = [pc EXCEPT ![f] = "done"]
  /\ Close(ClosedLast(f))
  /\ UNCHANGED <<chain, hand, sent, got, lost>>

ForwarderStep(f) == Reads(f) \/ Writes(f) \/ Fails(f) \/ Finishes(f)

----------------------------------------------------------------------------
(* The network, the services and the client.                               *)

\* The notice of a reset arrives.
Notice(e) ==
  /\ ~ IsConn(e)
  /\ state[e] = "open"
  /\ state[Peer(e)] = "closed"
  /\ Close(e)
  /\ UNCHANGED <<chain, pc, hand, sent, got, lost>>

\* The connection under the stream to hop p is lost, or closed: by
\* connQualMonitor, or on account of another chain between the two peers.
ConnectionLost(p) ==
  /\ state[<<"in", p>>] = "open"
  /\ state' = [state EXCEPT ![<<"in", p>>] = "closed", ![<<"out", p - 1>>] = "closed"]
  /\ buf' = [buf EXCEPT ![<<"in", p>>] = << >>, ![<<"out", p - 1>>] = << >>]
  /\ UNCHANGED <<chain, serv, pc, hand, sent, got, lost>>

\* Service p answers its next message.
Answers(p) ==
  /\ serv[p] # << >>
  /\ state[<<"conn", p>>] = "open"
  /\ Len(buf[<<"conn", p>>]) < MaxBuf
  /\ serv' = [serv EXCEPT ![p] = Tail(@)]
  /\ LET m == Head(serv[p]) IN
       buf' = [buf EXCEPT ![<<"conn", p>>] = Append(@, [m EXCEPT !.via = Append(@, p)])]
  /\ UNCHANGED <<chain, state, pc, hand, sent, got, lost>>

Loses(p) ==
  /\ p \in Udp
  /\ serv[p] # << >>
  /\ serv' = [serv EXCEPT ![p] = Tail(@)]
  /\ lost' = TRUE
  /\ UNCHANGED <<chain, state, buf, pc, hand, sent, got>>

ClientSends ==
  /\ sent < MaxMsgs
  /\ state[<<"conn", 0>>] = "open"
  /\ Len(buf[<<"conn", 0>>]) < MaxBuf
  /\ sent' = sent + 1
  /\ buf' = [buf EXCEPT ![<<"conn", 0>>] = Append(@, [n |-> sent + 1, via |-> << >>])]
  /\ UNCHANGED <<chain, state, serv, pc, hand, got, lost>>

\* The client or a service closes its connection.  What it sent can still be
\* read, unless the connection was aborted.
ProgramCloses(p) ==
  /\ state[<<"conn", p>>] = "open"
  /\ p > 0 => chain[p] = "ok"
  /\ state' = [state EXCEPT ![<<"conn", p>>] = "eof"]
  /\ serv' = [q \in 1 .. N |-> IF q = p THEN << >> ELSE serv[q]]
  /\ UNCHANGED <<chain, buf, pc, hand, sent, got, lost>>

----------------------------------------------------------------------------
\* What the proxies, the network and the services do by themselves.
Progress ==
  \/ SetupChain \/ SetupFails
  \/ \E p \in 1 .. N : Dial(p) \/ DialFails(p) \/ Answers(p)
  \/ \E f \in Forwarder : ForwarderStep(f)
  \/ \E e \in Endpoint : Notice(e)

Next ==
  \/ Progress
  \/ ClientSends
  \/ \E p \in Position : ProgramCloses(p)
  \/ \E p \in 1 .. N : ConnectionLost(p) \/ Loses(p)

Spec == Init /\ [][Next]_vars

(***************************************************************************)
(* Goroutines run, dials and setups end, the network delivers notices, and *)
(* services read and answer.  Nobody has to send or to close anything.     *)
(* Fairness for all of them together is enough: between two steps of the   *)
(* client, a program that closes or a connection that is lost they take    *)
(* finitely many steps.                                                    *)
(***************************************************************************)
FairSpec == Spec /\ WF_vars(Progress)

----------------------------------------------------------------------------
(* Properties.                                                             *)

Message == [n : 1 .. MaxMsgs, via : Seq(1 .. N)]

\* The variables have their types; a position has goroutines only if its handler
\* succeeded, and only one that runs is in the middle of a write.
TypeOK ==
  /\ chain \in [Position -> {"pending", "ok", "failed"}]
  /\ state \in [Endpoint -> {"open", "eof", "closed"}]
  /\ buf \in [Endpoint -> Seq(Message)]
  /\ serv \in [1 .. N -> Seq(Message)]
  /\ pc \in [Forwarder -> {"off", "run", "closing", "done"}]
  /\ hand \in [Forwarder -> Seq(Message)]
  /\ sent \in 0 .. MaxMsgs
  /\ got \in Seq(Message)
  /\ lost \in BOOLEAN
  /\ \A f \in Forwarder :
       /\ pc[f] # "off" => chain[f[2]] = "ok"
       /\ hand[f] # << >> => pc[f] = "run" /\ Len(hand[f]) = 1

\* The client sees the chain it asked for, whatever breaks and whenever: each
\* reply has passed every service of the chain, once and in the order of the
\* specification; replies come in the order of the messages, none twice; and
\* unless a datagram was lost none is missing between them.
RepliesInOrder ==
  \A k \in 1 .. Len(got) :
    /\ got[k].via = [p \in 1 .. N |-> p]
    /\ k > 1 => got[k - 1].n < got[k].n
    /\ ~ lost => got[k].n = k

AllDone(p) == \A f \in At(p) : pc[f] = "done"
SomeDone(p) == \E f \in At(p) : pc[f] = "done"

\* A hop beyond p could not dial its service and left its streams open; nobody
\* reads them, and the goroutine that writes to that hop waits.  Through full
\* buffers everybody on the way from p may come to wait too.
WaitsForFailedHop(p) ==
  \E q \in p .. N - 1 :
    /\ chain[q + 1] = "failed"
    /\ hand[<<"down", q>>] # << >>
    /\ state[<<"out", q>>] = "open" /\ state[<<"in", q + 1>>] = "open"

\* When one goroutine of a position has ended, all of them end in the end, and
\* so do those of its neighbours, as far as the chain goes: each is freed from
\* the read, or the write, that it is in by what the deferred functions close.
\* Excepted are hops that failed to dial their service, and positions that wait
\* for such a hop for ever.
EndingSpreads ==
  <>[](\A p, q \in Position :
         SomeDone(p) /\ q - p \in {-1, 0, 1} =>
           AllDone(q) \/ chain[q] = "failed" \/ WaitsForFailedHop(q))

\* "Performs bi-directional close at the end (ending one will end the other)":
\* when one goroutine of a position has ended, the others end.
EndingEndsTheOther == \A p \in Position : SomeDone(p) ~> AllDone(p)

Broken ==
  (\E e \in Endpoint : state[e] # "open") \/ (\E p \in Position : chain[p] = "failed")

\* Everything the client sends is answered unless something breaks or is lost: messages
\* that go round the chain at the same time do not block one another, though
\* every buffer on the way is bounded.
EverythingAnswered ==
  Len(got) < sent ~> Len(got) = sent \/ Broken \/ lost
=============================================================================
