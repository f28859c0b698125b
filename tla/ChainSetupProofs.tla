-------------------------- MODULE ChainSetupProofs --------------------------
(***************************************************************************)
(* Proofs, for any services, specifications and number of hops, that a     *)
(* SetupACK reaches the source only from the whole chain, that no stream   *)
(* delivers a message nobody expects, that the hops follow the             *)
(* specification, that the setup implements ChainReady, and that its hops  *)
(* never all wait for each other.                                          *)
(*                                                                         *)
(* AckFromWholeChain speaks of acked hops and of the source.  To carry it  *)
(* through a step one needs to know that an ACK in a queue was sent by the *)
(* hop at the other end, that a hop about to send one has got one or is    *)
(* the last, and that a hop's service, once it runs, never changes: the    *)
(* handler above it opens no second stream.  The other invariants have a   *)
(* section each and build on this one.                                     *)
(***************************************************************************)
EXTENDS ChainSetup, SequenceTheorems, FiniteSetTheorems, NaturalsInduction,
        WellFoundedInduction, TLAPS

\* Where a hop is before it opens its stream, and after it has sent an ACK.
Early == {"none", "start", "receive", "resolve", "open"}

Done == {"dial", "tunnel", "returned"}

\* Before a hop opens its stream there is no next hop.
NothingBelow ==
  \A k \in Link : pc[k] \in Early =>
    link[k] = "none" /\ pc[k + 1] = "none" /\ up[k] = << >>

\* A hop that waits has the hop of its target below it.
TargetBelow ==
  \A k \in Link : pc[k] \in {"request", "wait"} => at[k + 1] = Target(k)

TargetKnown == \A k \in Hop : pc[k] = "open" => Target(k) \in Service

\* An ACK in a stream was sent by the hop below.
AckWasSent ==
  \A k \in Link : \A j \in 1 .. Len(up[k]) : up[k][j] = "ack" => k + 1 \in acked

\* A hop that is about to acknowledge may do so.
MayAck ==
  \A k \in Handler : pc[k] = "ack" =>
    IsEnd(k) \/ (k + 1 \in acked /\ at[k + 1] = NextServ(k))

AckedIsDone == \A k \in acked : pc[k] \in Done

\* A hop's monitor is started with its stream.
MonitorAfterOpen == \A k \in Hop : mon[k] = "on" => pc[k] \notin Early

\* The places only the source or only a handler can be at.
SourceOrHandler ==
  /\ pc[0] \notin {"none", "receive", "ack", "dial", "tunnel", "returned"}
  /\ \A k \in Handler : pc[k] \notin {"start", "run", "failed"}

\* No hop beyond the bound of the model is waited for.
LastHopStops == pc[MaxHops] \notin {"request", "wait"}

IndInv ==
  /\ TypeOK
  /\ NothingBelow
  /\ TargetBelow
  /\ TargetKnown
  /\ AckWasSent
  /\ MayAck
  /\ AckedIsDone
  /\ MonitorAfterOpen
  /\ SourceOrHandler
  /\ LastHopStops
  /\ AckFromWholeChain

LEMMA Indices ==
  /\ Hop = 0 .. MaxHops /\ Handler = 1 .. MaxHops /\ Link = 0 .. MaxHops - 1
  /\ MaxHops \in Nat \ {0}
BY BoundAssumption DEF Hop, Handler, Link

LEMMA InitInd == Init => IndInv
<1> SUFFICES ASSUME Init PROVE IndInv
  OBVIOUS
<1>1. TypeOK
  BY BoundAssumption DEF Init, TypeOK
<1>2. NothingBelow /\ TargetBelow /\ TargetKnown /\ AckWasSent
  BY Indices DEF Init, NothingBelow, TargetBelow, TargetKnown, AckWasSent, Early
<1>3. MayAck /\ AckedIsDone /\ MonitorAfterOpen /\ SourceOrHandler /\ LastHopStops
  BY Indices DEF Init, MayAck, AckedIsDone, MonitorAfterOpen,
     SourceOrHandler, LastHopStops
<1>4. AckFromWholeChain
  BY Indices DEF Init, AckFromWholeChain
<1> QED
  BY <1>1, <1>2, <1>3, <1>4 DEF IndInv

----------------------------------------------------------------------------
\* A step that leaves the services of the hops alone leaves what a hop works
\* out from the specification alone.
LEMMA SameScan ==
  ASSUME UNCHANGED <<spec, at>>
  PROVE  \A k : /\ NextServ(k)' = NextServ(k) /\ Target(k)' = Target(k)
                /\ IsEnd(k)' = IsEnd(k)
BY DEF NextServ, Target, IsEnd

\* What a step must respect that opens no stream and moves at most hop k, to
\* x.  Every action but CreateStream is shown to be such a step.
StepOf(k, x) ==
  /\ UNCHANGED <<spec, at>>
  /\ \A j \in Hop : pc'[j] = IF j = k THEN x ELSE pc[j]
  /\ \A j \in Link : pc[j] \in Early /\ link[j] = "none" => link'[j] = "none"
  /\ \A j \in Hop : mon'[j] = "on" => mon[j] = "on"
  /\ x \in Early => pc[k] \in Early
  /\ pc[k] = "none" => x = "none"
  /\ x \in {"request", "wait"} => pc[k] \in {"request", "wait"}
  /\ x = "open" => Target(k) \in Service
  /\ x = "ack" => IsEnd(k) \/ (k + 1 \in acked /\ at[k + 1] = NextServ(k))
  /\ k \in acked' => x \in Done
  /\ acked \subseteq acked'
  /\ \A j \in acked' : j \in acked \/ (j = k /\ pc[k] = "ack")
  /\ IF k = 0 THEN x \notin {"none", "receive", "ack", "dial", "tunnel", "returned"}
              ELSE x \notin {"start", "run", "failed"}
  /\ k = 0 /\ x = "run" => 1 \in acked /\ at[1] = spec[2]

LEMMA StepInd ==
  ASSUME IndInv, TypeOK', AckWasSent', NEW k \in Hop, NEW x, StepOf(k, x)
  PROVE  IndInv'
<1> USE Indices
<1>1. UNCHANGED <<spec, at>>
  BY DEF StepOf
<1>2. \A j : /\ NextServ(j)' = NextServ(j) /\ Target(j)' = Target(j)
             /\ IsEnd(j)' = IsEnd(j)
  BY <1>1, SameScan
<1>3. \A j \in Hop : pc'[j] = IF j = k THEN x ELSE pc[j]
  BY DEF StepOf
<1>4. NothingBelow'
  <2>1. ASSUME NEW j \in Link, pc'[j] \in Early
        PROVE  link'[j] = "none" /\ pc'[j + 1] = "none" /\ up'[j] = << >>
    <3>1. j \in Hop /\ j + 1 \in Hop
      OBVIOUS
    <3>2. pc[j] \in Early
      BY <1>3, <2>1, <3>1 DEF StepOf
    <3>3. link[j] = "none" /\ pc[j + 1] = "none"
      BY <3>2 DEF IndInv, NothingBelow
    <3>4. link'[j] = "none"
      BY <3>2, <3>3 DEF StepOf
    <3>5. up'[j] = << >>
      BY <3>4 DEF TypeOK
    <3>6. pc'[j + 1] = "none"
      BY <1>3, <3>1, <3>3 DEF StepOf
    <3> QED
      BY <3>4, <3>5, <3>6
  <2> QED
    BY <2>1 DEF NothingBelow
<1>5. TargetBelow'
  <2>1. \A j \in Link : pc'[j] \in {"request", "wait"} =>
                          pc[j] \in {"request", "wait"}
    BY <1>3 DEF StepOf
  <2> QED
    BY <1>1, <1>2, <2>1 DEF IndInv, TargetBelow
<1>6. TargetKnown'
  <2>1. \A j \in Hop : pc'[j] = "open" => Target(j) \in Service
    BY <1>3 DEF StepOf, IndInv, TargetKnown
  <2> QED
    BY <1>2, <2>1 DEF TargetKnown
<1>7. MayAck'
  <2>1. \A j \in Handler : pc'[j] = "ack" =>
          IsEnd(j) \/ (j + 1 \in acked' /\ at[j + 1] = NextServ(j))
    BY <1>3 DEF StepOf, IndInv, MayAck
  <2> QED
    BY <1>1, <1>2, <2>1 DEF MayAck
<1>8. AckedIsDone'
  <2>1. \A j \in acked' : pc'[j] \in Done
    <3>1. acked' \subseteq Hop
      BY DEF TypeOK
    <3> QED
      BY <1>3, <3>1 DEF StepOf, IndInv, AckedIsDone
  <2> QED
    BY <2>1 DEF AckedIsDone
<1>9. SourceOrHandler'
  BY <1>3 DEF StepOf, IndInv, SourceOrHandler
<1>10. AckFromWholeChain'
  <2>1. pc'[0] = "run" => 1 \in acked' /\ at[1] = spec[2]
    BY <1>3 DEF StepOf, IndInv, AckFromWholeChain
  <2>2. ASSUME NEW j \in acked'
        PROVE  IsEnd(j) \/ (j + 1 \in acked' /\ at[j + 1] = NextServ(j))
    <3>1. CASE j \in acked
      BY <3>1 DEF StepOf, IndInv, AckFromWholeChain
    <3>2. CASE j = k /\ pc[k] = "ack"
      <4>1. j \in Handler
        BY DEF TypeOK
      <4> QED
        BY <3>2, <4>1 DEF StepOf, IndInv, MayAck
    <3> QED
      BY <3>1, <3>2 DEF StepOf
  <2> QED
    BY <1>1, <1>2, <2>1, <2>2 DEF AckFromWholeChain
<1>11. MonitorAfterOpen'
  BY <1>3 DEF StepOf, IndInv, MonitorAfterOpen
<1>12. LastHopStops'
  <2>1. MaxHops \in Hop /\ pc[MaxHops] \notin {"request", "wait"}
    BY DEF IndInv, LastHopStops
  <2> QED
    BY <1>3, <2>1 DEF StepOf, LastHopStops
<1> QED
  BY <1>4, <1>5, <1>6, <1>7, <1>8, <1>9, <1>10, <1>11, <1>12 DEF IndInv

----------------------------------------------------------------------------
(* The actions.                                                            *)

\* Checking the specification, resolving, failing to open a stream and
\* connecting to the service only move pc[k].
LEMMA MoveOnInd ==
  ASSUME IndInv, NEW k \in Hop,
         \/ k = 0 /\ SetupChain
         \/ ResolveService(k)
         \/ CreateStreamFails(k)
         \/ k \in Handler /\ DialService(k)
  PROVE  IndInv'
<1> USE Indices
<1>1. UNCHANGED <<spec, at, link, down, up, mon, budget, acked>>
  BY DEF SetupChain, ResolveService, CreateStreamFails, DialService
<1>2. PICK x : pc' = [pc EXCEPT ![k] = x] /\
        \/ k = 0 /\ pc[k] = "start" /\ x \in {"failed", "resolve"}
        \/ pc[k] = "resolve" /\ x = GiveUp(k)
        \/ pc[k] = "resolve" /\ x = "open" /\ Target(k) \in Service
        \/ pc[k] = "open" /\ x = GiveUp(k)
        \/ k \in Handler /\ pc[k] = "dial" /\ x \in {"tunnel", "returned"}
  BY DEF SetupChain, ResolveService, CreateStreamFails, DialService
<1>3. x \in {"failed", "resolve", "returned", "open", "tunnel"}
      /\ (k = 0 => x \in {"failed", "resolve", "open"})
      /\ (k \in Handler => x \in {"returned", "open", "tunnel"})
  BY <1>2 DEF GiveUp, IndInv, SourceOrHandler
<1>5. TypeOK'
  BY <1>1, <1>2, <1>3 DEF IndInv, TypeOK
<1>6. StepOf(k, x)
  <2>1. \A j \in Hop : pc'[j] = IF j = k THEN x ELSE pc[j]
    BY <1>2 DEF IndInv, TypeOK
  <2>2. x \in Early => pc[k] \in Early
    BY <1>2, <1>3 DEF Early, GiveUp
  <2>3. k \in acked => pc[k] \in Done /\ x \in Done
    BY <1>2, <1>3 DEF IndInv, AckedIsDone, Done
  <2> QED
    BY <1>1, <1>2, <1>3, <2>1, <2>2, <2>3 DEF StepOf, GiveUp
<1>7. AckWasSent'
  BY <1>1 DEF IndInv, AckWasSent
<1> QED
  BY <1>5, <1>6, <1>7, StepInd

LEMMA SendRequestInd ==
  ASSUME IndInv, NEW k \in Link, SendRequest(k)
  PROVE  IndInv'
<1> USE Indices
<1>1. UNCHANGED <<spec, at, link, up, mon, budget, acked>>
  BY DEF SendRequest
<1>2. PICK x : /\ pc' = [pc EXCEPT ![k] = x] /\ pc[k] = "request"
               /\ x = "wait" \/ (k # 0 /\ x = "returned")
  BY DEF SendRequest, AfterRequest
<1>3. down' = down \/ (link[k] = "open" /\ down' = [down EXCEPT ![k] = Append(down[k], "request")])
  BY DEF SendRequest
<1>4. TypeOK'
  <2>1. down' \in [Link -> Seq(Message)]
    <3>1. down[k] \in Seq(Message) /\ "request" \in Message
      BY DEF IndInv, TypeOK, Message
    <3>2. Append(down[k], "request") \in Seq(Message)
      BY <3>1
    <3> QED
      BY <1>3, <3>2 DEF IndInv, TypeOK
  <2>2. \A j \in Link : link[j] # "open" => down'[j] = << >>
    BY <1>3 DEF IndInv, TypeOK
  <2> QED
    BY <1>1, <1>2, <2>1, <2>2 DEF IndInv, TypeOK
<1>5. StepOf(k, x)
  <2>1. \A j \in Hop : pc'[j] = IF j = k THEN x ELSE pc[j]
    BY <1>2 DEF IndInv, TypeOK
  <2>2. k \notin acked
    BY <1>2 DEF IndInv, AckedIsDone, Done
  <2> QED
    BY <1>1, <1>2, <2>1, <2>2 DEF StepOf, Early
<1>6. AckWasSent'
  BY <1>1 DEF IndInv, AckWasSent
<1> QED
  BY <1>4, <1>5, <1>6, StepInd

\* An ACK that is received was sent by the hop below.
LEMMA ReceiveAckInd ==
  ASSUME IndInv, NEW k \in Link, ReceiveAck(k)
  PROVE  IndInv'
<1> USE Indices
<1>1. UNCHANGED <<spec, at, link, down, mon, budget, acked>>
  BY DEF ReceiveAck
<1>2. /\ up[k] \in Seq(Message) /\ up \in [Link -> Seq(Message)]
      /\ pc[k] = "wait" /\ at[k + 1] = Target(k) /\ k \in Hop
  BY DEF ReceiveAck, IndInv, TypeOK, TargetBelow
<1>3. up' = up \/ (up[k] # << >> /\ up' = [up EXCEPT ![k] = Tail(up[k])])
  BY DEF ReceiveAck
<1>4. \A j \in Link : \A n \in 1 .. Len(up'[j]) :
        \E m \in 1 .. Len(up[j]) : up'[j][n] = up[j][m]
  <2>1. CASE up' = up
    BY <2>1
  <2>2. CASE up[k] # << >> /\ up' = [up EXCEPT ![k] = Tail(up[k])]
    <3> SUFFICES ASSUME NEW j \in Link, NEW n \in 1 .. Len(up'[j])
                 PROVE  \E m \in 1 .. Len(up[j]) : up'[j][n] = up[j][m]
      OBVIOUS
    <3>1. CASE j # k
      BY <1>2, <2>2, <3>1
    <3>2. CASE j = k
      <4>1. up'[k] = Tail(up[k]) /\ Len(up[k]) \in Nat
        BY <1>2, <2>2
      <4>2. n + 1 \in 1 .. Len(up[k]) /\ Tail(up[k])[n] = up[k][n + 1]
        BY <1>2, <2>2, <3>2, <4>1
      <4> QED
        BY <3>2, <4>1, <4>2
    <3> QED
      BY <3>1, <3>2
  <2> QED
    BY <1>3, <2>1, <2>2
<1>5. PICK x : /\ pc' = [pc EXCEPT ![k] = x]
               /\ \/ x = GiveUp(k)
                  \/ /\ x = IF k = 0 THEN "run" ELSE "ack"
                     /\ up[k] # << >> /\ Head(up[k]) = "ack"
  <2> DEFINE goal(x) == /\ pc' = [pc EXCEPT ![k] = x]
                        /\ \/ x = GiveUp(k)
                           \/ /\ x = IF k = 0 THEN "run" ELSE "ack"
                              /\ up[k] # << >> /\ Head(up[k]) = "ack"
  <2>1. CASE pc' = [pc EXCEPT ![k] = GiveUp(k)]
    <3>1. goal(GiveUp(k))
      BY <2>1
    <3> QED
      BY <3>1
  <2>2. CASE pc' # [pc EXCEPT ![k] = GiveUp(k)]
    <3>1. up[k] # << >> /\ Head(up[k]) = "ack"
      BY <2>2 DEF ReceiveAck, expectType
    <3>2. pc' = [pc EXCEPT ![k] = IF k = 0 THEN "run" ELSE "ack"]
      BY <2>2, <3>1 DEF ReceiveAck, expectType
    <3>3. goal(IF k = 0 THEN "run" ELSE "ack")
      BY <3>1, <3>2
    <3> QED
      BY <3>3
  <2> QED
    BY <2>1, <2>2
<1>6. x # GiveUp(k) => k + 1 \in acked
  <2>1. up[k] # << >> => 1 \in 1 .. Len(up[k]) /\ Head(up[k]) = up[k][1]
    BY <1>2
  <2> QED
    BY <1>5, <2>1 DEF IndInv, AckWasSent
<1>7. TypeOK'
  <2>1. up' \in [Link -> Seq(Message)]
    <3>1. up[k] # << >> => Tail(up[k]) \in Seq(Message)
      BY <1>2
    <3> QED
      BY <1>2, <1>3, <3>1
  <2>2. \A j \in Link : link[j] # "open" => up'[j] = << >>
    <3>1. \A j \in Link : link[j] # "open" => up[j] = << >>
      BY DEF IndInv, TypeOK
    <3> QED
      BY <1>2, <1>3, <3>1
  <2> QED
    BY <1>1, <1>5, <2>1, <2>2 DEF IndInv, TypeOK, GiveUp
<1>8. StepOf(k, x)
  <2>1. \A j \in Hop : pc'[j] = IF j = k THEN x ELSE pc[j]
    BY <1>2, <1>5 DEF IndInv, TypeOK
  <2>2. k \notin acked
    BY <1>2 DEF IndInv, AckedIsDone, Done
  <2>3. k = 0 => Target(k) = spec[2]
    BY DEF Target
  <2>4. k # 0 => Target(k) = NextServ(k)
    BY DEF Target
  <2> QED
    BY <1>1, <1>2, <1>5, <1>6, <2>1, <2>2, <2>3, <2>4 DEF StepOf, Early, GiveUp
<1>9. AckWasSent'
  <2>1. ASSUME NEW j \in Link, NEW n \in 1 .. Len(up'[j]), up'[j][n] = "ack"
        PROVE  j + 1 \in acked
    <3>1. PICK m \in 1 .. Len(up[j]) : up'[j][n] = up[j][m]
      BY ONLY <1>4, <2>1, j \in Link, n \in 1 .. Len(up'[j])
    <3>2. up[j][m] = "ack"
      BY <2>1, <3>1
    <3> QED
      BY <3>2 DEF IndInv, AckWasSent
  <2> QED
    BY <1>1, <2>1 DEF AckWasSent
<1> QED
  BY <1>2, <1>7, <1>8, <1>9, StepInd

\* Queues after a message was added or taken.
LEMMA QueueAppend ==
  ASSUME NEW q \in Seq(Message), NEW m \in Message
  PROVE  /\ Append(q, m) \in Seq(Message)
         /\ \A n \in 1 .. Len(Append(q, m)) :
              Append(q, m)[n] = m \/ \E j \in 1 .. Len(q) : Append(q, m)[n] = q[j]
<1>1. /\ Append(q, m) \in Seq(Message) /\ Len(q) \in Nat
      /\ Len(Append(q, m)) = Len(q) + 1
      /\ Append(q, m)[Len(q) + 1] = m
      /\ \A j \in 1 .. Len(q) : Append(q, m)[j] = q[j]
  OBVIOUS
<1>2. ASSUME NEW n \in 1 .. Len(Append(q, m))
      PROVE  Append(q, m)[n] = m \/ \E j \in 1 .. Len(q) : Append(q, m)[n] = q[j]
  <2>1. n = Len(q) + 1 \/ n \in 1 .. Len(q)
    BY <1>1
  <2> QED
    BY <1>1, <2>1
<1> QED
  BY <1>1, <1>2

LEMMA QueueTail ==
  ASSUME NEW q \in Seq(Message), q # << >>
  PROVE  /\ Tail(q) \in Seq(Message)
         /\ \A n \in 1 .. Len(Tail(q)) : \E j \in 1 .. Len(q) : Tail(q)[n] = q[j]
<1>1. /\ Tail(q) \in Seq(Message) /\ Len(q) \in Nat
      /\ Len(Tail(q)) = Len(q) - 1
      /\ \A n \in 1 .. Len(Tail(q)) : Tail(q)[n] = q[n + 1]
  OBVIOUS
<1>2. ASSUME NEW n \in 1 .. Len(Tail(q))
      PROVE  \E j \in 1 .. Len(q) : Tail(q)[n] = q[j]
  <2>1. n + 1 \in 1 .. Len(q)
    BY <1>1
  <2> QED
    BY <1>1, <2>1
<1> QED
  BY <1>1, <1>2

LEMMA ReceiveRequestInd ==
  ASSUME IndInv, NEW k \in Handler, ReceiveRequest(k)
  PROVE  IndInv'
<1> USE Indices
<1>1. UNCHANGED <<spec, at, link, up, mon, budget, acked>>
  BY DEF ReceiveRequest
<1>2. k - 1 \in Link /\ k \in Hop
  OBVIOUS
<1>3. PICK x : /\ pc' = [pc EXCEPT ![k] = x] /\ pc[k] = "receive"
               /\ \/ x = "returned"
                  \/ x = "ack" /\ IsEnd(k)
                  \/ x = "resolve"
  BY DEF ReceiveRequest
<1>4. \/ down' = down
      \/ down[k - 1] # << >> /\ down' = [down EXCEPT ![k - 1] = Tail(down[k - 1])]
  BY DEF ReceiveRequest
<1>5. TypeOK'
  <2>1. down[k - 1] \in Seq(Message) /\ down \in [Link -> Seq(Message)]
    BY <1>2 DEF IndInv, TypeOK
  <2>2. down[k - 1] # << >> => Tail(down[k - 1]) \in Seq(Message)
    BY <2>1, QueueTail
  <2>3. down' \in [Link -> Seq(Message)]
    BY <1>4, <2>1, <2>2
  <2>4. \A j \in Link : link[j] # "open" => down[j] = << >>
    BY DEF IndInv, TypeOK
  <2>5. \A j \in Link : link[j] # "open" => down'[j] = << >>
    BY <1>4, <2>1, <2>4
  <2> QED
    BY <1>1, <1>3, <2>3, <2>5 DEF IndInv, TypeOK
<1>6. StepOf(k, x)
  <2>1. \A j \in Hop : pc'[j] = IF j = k THEN x ELSE pc[j]
    BY <1>2, <1>3 DEF IndInv, TypeOK
  <2>2. k \notin acked
    BY <1>3 DEF IndInv, AckedIsDone, Done
  <2> QED
    BY <1>1, <1>3, <2>1, <2>2 DEF StepOf, Early
<1>7. AckWasSent'
  BY <1>1 DEF IndInv, AckWasSent
<1> QED
  BY <1>2, <1>5, <1>6, <1>7, StepInd

\* The hop that sends an ACK is in acked from then on.
LEMMA SendAckInd ==
  ASSUME IndInv, NEW k \in Handler, SendAck(k)
  PROVE  IndInv'
<1> USE Indices
<1>1. UNCHANGED <<spec, at, link, down, mon, budget>>
  BY DEF SendAck
<1>2. /\ k - 1 \in Link /\ k \in Hop /\ (k - 1) + 1 = k
      /\ up \in [Link -> Seq(Message)] /\ up[k - 1] \in Seq(Message)
      /\ "ack" \in Message
  BY DEF IndInv, TypeOK, Message
<1>3. PICK x : /\ pc' = [pc EXCEPT ![k] = x] /\ pc[k] = "ack"
               /\ x \in {"dial", "returned"}
  BY DEF SendAck
<1>4. \/ up' = up /\ acked' = acked
      \/ /\ link[k - 1] = "open" /\ acked' = acked \cup {k}
         /\ up' = [up EXCEPT ![k - 1] = Append(up[k - 1], "ack")]
  BY DEF SendAck
<1>5. /\ Append(up[k - 1], "ack") \in Seq(Message)
      /\ \A n \in 1 .. Len(Append(up[k - 1], "ack")) :
           \/ Append(up[k - 1], "ack")[n] = "ack"
           \/ \E j \in 1 .. Len(up[k - 1]) : Append(up[k - 1], "ack")[n] = up[k - 1][j]
  BY <1>2, QueueAppend
<1>6. TypeOK'
  <2>1. up' \in [Link -> Seq(Message)] /\ acked' \subseteq Handler
    BY <1>2, <1>4, <1>5 DEF IndInv, TypeOK
  <2>2. \A j \in Link : link[j] # "open" => up[j] = << >>
    BY DEF IndInv, TypeOK
  <2>3. \A j \in Link : link[j] # "open" => up'[j] = << >>
    BY <1>2, <1>4, <2>2
  <2> QED
    BY <1>1, <1>3, <2>1, <2>3 DEF IndInv, TypeOK
<1>7. StepOf(k, x)
  <2>1. \A j \in Hop : pc'[j] = IF j = k THEN x ELSE pc[j]
    BY <1>2, <1>3 DEF IndInv, TypeOK
  <2> QED
    BY <1>1, <1>3, <1>4, <2>1 DEF StepOf, Early, Done
<1>8. AckWasSent'
  <2>1. CASE up' = up /\ acked' = acked
    BY <2>1 DEF IndInv, AckWasSent
  <2>2. CASE /\ acked' = acked \cup {k}
             /\ up' = [up EXCEPT ![k - 1] = Append(up[k - 1], "ack")]
    <3>1. \A j \in Link : j # k - 1 => up'[j] = up[j]
      BY <1>2, <2>2
    <3>2. \A j \in Link : j # k - 1 =>
            \A n \in 1 .. Len(up'[j]) : up'[j][n] = "ack" => j + 1 \in acked'
      BY <2>2, <3>1 DEF IndInv, AckWasSent
    <3> QED
      BY <1>2, <2>2, <3>2 DEF AckWasSent
  <2> QED
    BY <1>4, <2>1, <2>2
<1> QED
  BY <1>2, <1>6, <1>7, <1>8, StepInd

\* A step that moves no hop and adds no ACK.
LEMMA QueueStepInd ==
  ASSUME IndInv, TypeOK', UNCHANGED <<spec, at, pc, acked>>,
         \A j \in Link : pc[j] \in Early /\ link[j] = "none" => link'[j] = "none",
         \A j \in Hop : mon'[j] = "on" => mon[j] = "on",
         \A j \in Link : \A n \in 1 .. Len(up'[j]) : up'[j][n] = "ack" =>
           \E m \in 1 .. Len(up[j]) : up[j][m] = "ack"
  PROVE  IndInv'
<1> USE Indices
<1>1. AckWasSent'
  BY DEF IndInv, AckWasSent
<1>2. 0 \in Hop /\ 0 \notin acked
  BY DEF IndInv, TypeOK
<1>3. pc[0] \notin {"none", "receive", "ack", "dial", "tunnel", "returned"}
  BY DEF IndInv, SourceOrHandler
<1>4. pc[0] = "open" => Target(0) \in Service
  BY <1>2 DEF IndInv, TargetKnown
<1>5. pc[0] = "run" => 1 \in acked /\ at[1] = spec[2]
  BY DEF IndInv, AckFromWholeChain
<1>6. StepOf(0, pc[0])
  BY <1>2, <1>3, <1>4, <1>5 DEF StepOf
<1> QED
  BY <1>1, <1>2, <1>6, StepInd

\* Data into or out of one open stream's queue to the next hop.
LEMMA DownQueueInd ==
  ASSUME IndInv, NEW j \in Link, NEW q \in Seq(Message), link[j] = "open",
         down' = [down EXCEPT ![j] = q], budget' \in 0 .. MaxData,
         UNCHANGED <<spec, at, pc, link, up, mon, acked>>
  PROVE  IndInv'
<1>1. down' \in [Link -> Seq(Message)]
  BY DEF IndInv, TypeOK
<1>2. \A n \in Link : link[n] # "open" => down'[n] = down[n]
  BY DEF IndInv, TypeOK
<1>3. TypeOK'
  BY <1>1, <1>2 DEF IndInv, TypeOK
<1> QED
  BY <1>3, QueueStepInd

LEMMA SendDataDownInd ==
  ASSUME IndInv, NEW k \in Hop, SendDataDown(k)
  PROVE  IndInv'
<1>1. k \in Link
  BY Indices DEF SendDataDown
<1>2. /\ link[k] = "open" /\ down' = [down EXCEPT ![k] = Append(down[k], "data")]
      /\ UNCHANGED <<spec, at, pc, link, up, mon, acked>>
  BY DEF SendDataDown
<1>3. budget' \in 0 .. MaxData
  BY BoundAssumption DEF IndInv, TypeOK, SendDataDown
<1>4. down[k] \in Seq(Message) /\ "data" \in Message
  BY <1>1 DEF IndInv, TypeOK, Message
<1>5. Append(down[k], "data") \in Seq(Message)
  BY <1>4, QueueAppend
<1> QED
  BY <1>1, <1>2, <1>3, <1>5, DownQueueInd

LEMMA ReceiveDataDownInd ==
  ASSUME IndInv, NEW k \in Handler, ReceiveDataDown(k)
  PROVE  IndInv'
<1>1. k - 1 \in Link
  BY Indices
<1>2. /\ link[k - 1] = "open" /\ down[k - 1] # << >>
      /\ down' = [down EXCEPT ![k - 1] = Tail(down[k - 1])]
      /\ UNCHANGED <<spec, at, pc, link, up, mon, budget, acked>>
  BY DEF ReceiveDataDown
<1>3. budget' \in 0 .. MaxData
  BY <1>2 DEF IndInv, TypeOK
<1>4. down[k - 1] \in Seq(Message)
  BY <1>1 DEF IndInv, TypeOK
<1>5. Tail(down[k - 1]) \in Seq(Message)
  BY <1>2, <1>4, QueueTail
<1> QED
  BY <1>1, <1>2, <1>3, <1>5, DownQueueInd

LEMMA SendDataUpInd ==
  ASSUME IndInv, NEW k \in Handler, SendDataUp(k)
  PROVE  IndInv'
<1> USE Indices
<1>1. /\ UNCHANGED <<spec, at, pc, link, down, mon, acked>>
      /\ up' = [up EXCEPT ![k - 1] = Append(up[k - 1], "data")]
      /\ link[k - 1] = "open"
  BY DEF SendDataUp
<1>2. /\ k - 1 \in Link /\ up \in [Link -> Seq(Message)]
      /\ up[k - 1] \in Seq(Message) /\ "data" \in Message
  BY DEF IndInv, TypeOK, Message
<1>3. /\ Append(up[k - 1], "data") \in Seq(Message)
      /\ \A n \in 1 .. Len(Append(up[k - 1], "data")) :
           \/ Append(up[k - 1], "data")[n] = "data"
           \/ \E j \in 1 .. Len(up[k - 1]) : Append(up[k - 1], "data")[n] = up[k - 1][j]
  BY <1>2, QueueAppend
<1>4. /\ up' \in [Link -> Seq(Message)] /\ up'[k - 1] = Append(up[k - 1], "data")
      /\ \A j \in Link : j # k - 1 => up'[j] = up[j]
  BY <1>1, <1>2, <1>3
<1>5. budget' \in 0 .. MaxData
  BY BoundAssumption DEF IndInv, TypeOK, SendDataUp
<1>6. TypeOK'
  BY <1>1, <1>4, <1>5 DEF IndInv, TypeOK
<1>7. \A j \in Link : \A n \in 1 .. Len(up'[j]) : up'[j][n] = "ack" =>
        \E m \in 1 .. Len(up[j]) : up[j][m] = "ack"
  <2>1. \A n \in 1 .. Len(up'[k - 1]) : up'[k - 1][n] = "ack" =>
          \E m \in 1 .. Len(up[k - 1]) : up[k - 1][m] = "ack"
    BY <1>3, <1>4
  <2> QED
    BY <1>4, <2>1
<1> QED
  BY <1>1, <1>6, <1>7, QueueStepInd

\* A middle hop's backward forwarder: the data it takes is data when it comes
\* out on the stream above.
LEMMA ReceiveDataUpInd ==
  ASSUME IndInv, NEW k \in Hop, ReceiveDataUp(k)
  PROVE  IndInv'
<1> USE Indices
<1>1. /\ UNCHANGED <<spec, at, pc, link, down, mon, budget, acked>>
      /\ k \in Link /\ up[k] # << >>
      /\ up' = [j \in Link |->
                  IF j = k THEN Tail(up[k])
                  ELSE IF j = k - 1 /\ link[j] = "open" THEN Append(up[j], "data")
                  ELSE up[j]]
  BY DEF ReceiveDataUp
<1>2. /\ up \in [Link -> Seq(Message)] /\ "data" \in Message
      /\ link[k] = "open" /\ \A j \in Link : link[j] # "open" => up[j] = << >>
  BY DEF IndInv, TypeOK, Message, ReceiveDataUp
<1>3. ASSUME NEW j \in Link
      PROVE  /\ up'[j] \in Seq(Message)
             /\ \A n \in 1 .. Len(up'[j]) : up'[j][n] = "ack" =>
                  \E m \in 1 .. Len(up[j]) : up[j][m] = "ack"
             /\ link[j] # "open" => up'[j] = << >>
  <2>1. CASE j = k
    <3>1. /\ Tail(up[k]) \in Seq(Message)
          /\ \A n \in 1 .. Len(Tail(up[k])) :
               \E m \in 1 .. Len(up[k]) : Tail(up[k])[n] = up[k][m]
      BY <1>1, <1>2, QueueTail
    <3> QED
      BY <1>1, <1>2, <2>1, <3>1
  <2>2. CASE j # k /\ j = k - 1 /\ link[j] = "open"
    <3>1. /\ Append(up[j], "data") \in Seq(Message)
          /\ \A n \in 1 .. Len(Append(up[j], "data")) :
               \/ Append(up[j], "data")[n] = "data"
               \/ \E m \in 1 .. Len(up[j]) : Append(up[j], "data")[n] = up[j][m]
      BY <1>2, QueueAppend
    <3>2. up'[j] = Append(up[j], "data")
      BY <1>1, <2>2
    <3> QED
      BY <2>2, <3>1, <3>2, SMTT(30)
  <2>3. CASE j # k /\ ~ (j = k - 1 /\ link[j] = "open")
    <3>1. up'[j] = up[j]
      BY <1>1, <2>3
    <3> QED
      BY <1>2, <3>1
  <2> QED
    BY <2>1, <2>2, <2>3
<1>4. up' \in [Link -> Seq(Message)]
  <2>1. DOMAIN up' = Link /\ up' = [j \in Link |-> up'[j]]
    BY <1>1
  <2> QED
    BY <1>3, <2>1
<1>5. TypeOK'
  BY <1>1, <1>3, <1>4 DEF IndInv, TypeOK
<1> QED
  BY <1>1, <1>3, <1>5, QueueStepInd

\* A monitor or a broken connection resets a stream that was open once.
LEMMA FailureInd ==
  ASSUME IndInv, Failure
  PROVE  IndInv'
<1> USE Indices
<1>1. /\ UNCHANGED <<spec, at, pc, budget, acked>>
      /\ mon' \in [Hop -> {"off", "on", "fired"}]
      /\ \A j \in Hop : mon'[j] = "on" => mon[j] = "on"
  BY DEF Failure, MonitorFires, ConnFails, IndInv, TypeOK
<1>2. PICK n \in Link : ResetLink(n) /\ (pc[n] \notin Early \/ link[n] = "open")
  <2>1. ASSUME NEW k \in Hop, MonitorFires(k)
        PROVE  \E n \in Link : ResetLink(n) /\ pc[n] \notin Early
    <3>1. ResetLink(MonitoredLink(k)) /\ pc[k] \notin Early
      BY <2>1 DEF MonitorFires, IndInv, MonitorAfterOpen
    <3>2. CASE k = 0
      BY <3>1, <3>2 DEF MonitoredLink
    <3>3. CASE k # 0
      <4>1. k - 1 \in Link /\ (k - 1) + 1 = k /\ MonitoredLink(k) = k - 1
        BY <3>3 DEF MonitoredLink
      <4>2. pc[k - 1] \notin Early
        BY <3>1, <4>1 DEF IndInv, NothingBelow, Early
      <4> QED
        BY <3>1, <4>1, <4>2
    <3> QED
      BY <3>2, <3>3
  <2>2. ASSUME NEW k \in Link, ConnFails(k)
        PROVE  ResetLink(k) /\ link[k] = "open"
    BY <2>2 DEF ConnFails
  <2> QED
    BY <2>1, <2>2 DEF Failure
<1>3. /\ link \in [Link -> {"none", "open", "reset"}]
      /\ down \in [Link -> Seq(Message)] /\ up \in [Link -> Seq(Message)]
      /\ \A j \in Link : link[j] # "open" => down[j] = << >> /\ up[j] = << >>
  BY DEF IndInv, TypeOK
<1>4. /\ link' = [link EXCEPT ![n] = "reset"]
      /\ down' = [down EXCEPT ![n] = << >>]
      /\ up' = [up EXCEPT ![n] = << >>]
  BY <1>2 DEF ResetLink
<1>5. /\ link' \in [Link -> {"none", "open", "reset"}]
      /\ down' \in [Link -> Seq(Message)] /\ up' \in [Link -> Seq(Message)]
  BY <1>3, <1>4
<1>6. \A j \in Link : link'[j] # "open" => down'[j] = << >> /\ up'[j] = << >>
  BY <1>3, <1>4
<1>7. TypeOK'
  BY <1>1, <1>5, <1>6 DEF IndInv, TypeOK
<1>8. \A j \in Link : pc[j] \in Early /\ link[j] = "none" => link'[j] = "none"
  BY <1>2, <1>3, <1>4
<1>9. \A j \in Link : \A m \in 1 .. Len(up'[j]) : up'[j][m] = "ack" =>
        \E q \in 1 .. Len(up[j]) : up[j][q] = "ack"
  BY <1>3, <1>4
<1> QED
  BY <1>1, <1>7, <1>8, <1>9, QueueStepInd

----------------------------------------------------------------------------
\* The one step that starts a hop: the hop was not there before, so nothing
\* that is known of other hops was about it.
LEMMA CreateStreamInd ==
  ASSUME IndInv, NEW k \in Hop, CreateStream(k)
  PROVE  IndInv'
<1> USE Indices
<1>1. /\ UNCHANGED <<spec, down, up, budget, acked>>
      /\ pc' = [pc EXCEPT ![k] = "request", ![k + 1] = "receive"]
      /\ at' = [at EXCEPT ![k + 1] = Target(k)]
      /\ link' = [link EXCEPT ![k] = "open"]
      /\ mon' = [mon EXCEPT ![k] = "on"]
      /\ pc[k] = "open" /\ k \in Link /\ k + 1 \in Hop
  BY DEF CreateStream
<1>2. /\ link[k] = "none" /\ pc[k + 1] = "none" /\ up[k] = << >>
      /\ Target(k) \in Service
  BY <1>1 DEF IndInv, NothingBelow, TargetKnown, Early
<1>3. \A j \in Hop : pc'[j] = IF j = k + 1 THEN "receive"
                              ELSE IF j = k THEN "request" ELSE pc[j]
  BY <1>1 DEF IndInv, TypeOK
<1>4. \A j \in Hop : at'[j] = IF j = k + 1 THEN Target(k) ELSE at[j]
  BY <1>1 DEF IndInv, TypeOK
<1>5. \A j \in Hop : j # k + 1 => /\ NextServ(j)' = NextServ(j)
                                  /\ Target(j)' = Target(j) /\ IsEnd(j)' = IsEnd(j)
  BY <1>1, <1>4 DEF NextServ, Target, IsEnd
<1>6. TypeOK'
  <2>1. pc' \in [Hop -> {"none", "start", "resolve", "open", "request", "wait",
                     "receive", "ack", "dial", "tunnel", "run", "failed",
                     "returned"}]
    BY <1>1 DEF IndInv, TypeOK
  <2>2. at' \in [Hop -> Service \cup {None}]
    BY <1>1, <1>2 DEF IndInv, TypeOK
  <2>3. /\ link' \in [Link -> {"none", "open", "reset"}]
        /\ mon' \in [Hop -> {"off", "on", "fired"}]
    BY <1>1 DEF IndInv, TypeOK
  <2>4. \A j \in Link : link'[j] # "open" => down'[j] = << >> /\ up'[j] = << >>
    BY <1>1 DEF IndInv, TypeOK
  <2> QED
    BY <1>1, <2>1, <2>2, <2>3, <2>4 DEF IndInv, TypeOK
<1>7. NothingBelow'
  <2>1. ASSUME NEW j \in Link, pc'[j] \in Early
        PROVE  link'[j] = "none" /\ pc'[j + 1] = "none" /\ up'[j] = << >>
    <3>1. j # k
      BY <1>3, <2>1 DEF Early
    <3>2. pc[j] \in Early
      BY <1>2, <1>3, <2>1, <3>1 DEF Early
    <3>3. link[j] = "none" /\ pc[j + 1] = "none" /\ up[j] = << >>
      BY <3>2 DEF IndInv, NothingBelow
    <3>4. j + 1 # k /\ j + 1 # k + 1 /\ j + 1 \in Hop
      BY <1>1, <3>1, <3>3
    <3>5. link'[j] = "none"
      BY <1>1, <3>1, <3>3 DEF IndInv, TypeOK
    <3> QED
      BY <1>1, <1>3, <3>3, <3>4, <3>5
  <2> QED
    BY <2>1 DEF NothingBelow
<1>8. TargetBelow'
  <2>1. ASSUME NEW j \in Link, pc'[j] \in {"request", "wait"}
        PROVE  at'[j + 1] = Target(j)'
    <3>1. j # k + 1 /\ j \in Hop /\ j + 1 \in Hop
      BY <1>3, <2>1
    <3>2. Target(j)' = Target(j)
      BY <1>5, <3>1
    <3>3. CASE j = k
      BY <1>4, <3>1, <3>2, <3>3
    <3>4. CASE j # k
      <4>1. pc[j] \in {"request", "wait"}
        BY <1>3, <2>1, <3>1, <3>4
      <4>2. at[j + 1] = Target(j)
        BY <4>1 DEF IndInv, TargetBelow
      <4> QED
        BY <1>4, <3>1, <3>2, <3>4, <4>2
    <3> QED
      BY <3>3, <3>4
  <2> QED
    BY <2>1 DEF TargetBelow
<1>9. TargetKnown'
  <2>1. ASSUME NEW j \in Hop, pc'[j] = "open"
        PROVE  Target(j)' \in Service
    <3>1. j # k + 1 /\ pc[j] = "open"
      BY <1>3, <2>1
    <3> QED
      BY <1>5, <3>1 DEF IndInv, TargetKnown
  <2> QED
    BY <2>1 DEF TargetKnown
<1>10. AckWasSent'
  BY <1>1 DEF IndInv, AckWasSent
<1>11. MayAck'
  <2>1. ASSUME NEW j \in Handler, pc'[j] = "ack"
        PROVE  IsEnd(j)' \/ (j + 1 \in acked' /\ at'[j + 1] = NextServ(j)')
    <3>1. j # k /\ j # k + 1 /\ pc[j] = "ack" /\ j \in Hop
      BY <1>3, <2>1
    <3>2. IsEnd(j) \/ (j + 1 \in acked /\ at[j + 1] = NextServ(j))
      BY <3>1 DEF IndInv, MayAck
    <3>3. j + 1 \in acked => j + 1 \in Hop
      BY DEF IndInv, TypeOK
    <3> QED
      BY <1>1, <1>4, <1>5, <3>1, <3>2, <3>3
  <2> QED
    BY <2>1 DEF MayAck
<1>12. \A j \in acked : j \in Hop /\ j # k /\ j # k + 1 /\ pc[j] \in Done
  <2>1. \A j \in acked : j \in Hop /\ pc[j] \in Done
    BY DEF IndInv, AckedIsDone, TypeOK
  <2>2. pc[k] \notin Done /\ pc[k + 1] \notin Done
    BY <1>1, <1>2 DEF Done
  <2> QED
    BY <2>1, <2>2
<1>13. AckedIsDone'
  BY <1>1, <1>3, <1>12 DEF AckedIsDone
<1>14. MonitorAfterOpen'
  <2>1. ASSUME NEW j \in Hop, mon'[j] = "on"
        PROVE  pc'[j] \notin Early
    <3>1. CASE j = k
      BY <1>3, <3>1 DEF Early
    <3>2. CASE j # k
      <4>1. mon[j] = "on"
        BY <1>1, <2>1, <3>2 DEF IndInv, TypeOK
      <4>2. pc[j] \notin Early
        BY <4>1 DEF IndInv, MonitorAfterOpen
      <4> QED
        BY <1>2, <1>3, <3>2, <4>2 DEF Early
    <3> QED
      BY <3>1, <3>2
  <2> QED
    BY <2>1 DEF MonitorAfterOpen
<1>15. SourceOrHandler' /\ LastHopStops'
  <2>1. /\ k # MaxHops /\ 0 # k + 1 /\ 0 \in Hop /\ MaxHops \in Hop
        /\ \A j \in Handler : j \in Hop
    BY <1>1
  <2>2. /\ pc[0] \notin {"none", "receive", "ack", "dial", "tunnel", "returned"}
        /\ \A j \in Handler : pc[j] \notin {"start", "run", "failed"}
        /\ pc[MaxHops] \notin {"request", "wait"}
    BY DEF IndInv, SourceOrHandler, LastHopStops
  <2>3. SourceOrHandler'
    BY <1>3, <2>1, <2>2 DEF SourceOrHandler
  <2>4. LastHopStops'
    BY <1>3, <2>1, <2>2 DEF LastHopStops
  <2> QED
    BY <2>3, <2>4
<1>16. AckFromWholeChain'
  <2>1. pc'[0] = "run" => 1 \in acked' /\ at'[1] = spec'[2]
    <3>1. ASSUME pc'[0] = "run"
          PROVE  pc[0] = "run" /\ k # 0
      BY <1>3, <3>1
    <3> QED
      BY <1>1, <1>4, <3>1 DEF IndInv, AckFromWholeChain
  <2>2. ASSUME NEW j \in acked'
        PROVE  IsEnd(j)' \/ (j + 1 \in acked' /\ at'[j + 1] = NextServ(j)')
    <3>1. j \in acked
      BY <1>1, <2>2
    <3>2. IsEnd(j) \/ (j + 1 \in acked /\ at[j + 1] = NextServ(j))
      BY <3>1 DEF IndInv, AckFromWholeChain
    <3> QED
      BY <1>1, <1>4, <1>5, <1>12, <3>1, <3>2
  <2> QED
    BY <2>1, <2>2 DEF AckFromWholeChain
<1> QED
  BY <1>6, <1>7, <1>8, <1>9, <1>10, <1>11, <1>13, <1>14, <1>15, <1>16 DEF IndInv

\* The steps setupChain and a handler share keep the invariant.
LEMMA SharedStepInd ==
  ASSUME IndInv, NEW k \in Hop,
         \/ ResolveService(k) \/ CreateStream(k) \/ CreateStreamFails(k)
         \/ SendRequest(k) \/ ReceiveAck(k)
  PROVE  IndInv'
<1>1. CASE ResolveService(k) \/ CreateStreamFails(k)
  BY <1>1, MoveOnInd
<1>2. CASE CreateStream(k)
  BY <1>2, CreateStreamInd
<1>3. CASE SendRequest(k)
  <2>1. k \in Link
    BY <1>3, Indices DEF SendRequest, IndInv, LastHopStops
  <2> QED
    BY <1>3, <2>1, SendRequestInd
<1>4. CASE ReceiveAck(k)
  <2>1. k \in Link
    BY <1>4, Indices DEF ReceiveAck, IndInv, LastHopStops
  <2> QED
    BY <1>4, <2>1, ReceiveAckInd
<1> QED
  BY <1>1, <1>2, <1>3, <1>4

LEMMA NextInd == IndInv /\ [Next]_vars => IndInv'
<1> SUFFICES ASSUME IndInv, [Next]_vars PROVE IndInv'
  OBVIOUS
<1>1. 0 \in Hop /\ \A k \in Handler : k \in Hop
  BY Indices
<1>2. CASE SourceStep
  BY <1>1, <1>2, MoveOnInd, SharedStepInd DEF SourceStep
<1>3. ASSUME NEW k \in Handler, HandlerStep(k) PROVE IndInv'
  <2>1. CASE ReceiveRequest(k)
    BY <2>1, ReceiveRequestInd
  <2>2. CASE SendAck(k)
    BY <2>2, SendAckInd
  <2>3. CASE DialService(k)
    BY <1>1, <2>3, MoveOnInd
  <2> QED
    BY <1>1, <1>3, <2>1, <2>2, <2>3, SharedStepInd DEF HandlerStep
<1>4. CASE DataStep
  <2>1. CASE SendDataDown(0) \/ ReceiveDataUp(0)
    BY <1>1, <2>1, SendDataDownInd, ReceiveDataUpInd
  <2>2. ASSUME NEW k \in Handler,
               \/ SendDataDown(k) \/ SendDataUp(k)
               \/ ReceiveDataDown(k) \/ ReceiveDataUp(k)
        PROVE  IndInv'
    BY <1>1, <2>2, SendDataDownInd, SendDataUpInd, ReceiveDataDownInd,
       ReceiveDataUpInd
  <2> QED
    BY <1>4, <2>1, <2>2 DEF DataStep
<1>5. CASE Failure
  BY <1>5, FailureInd
<1>6. CASE UNCHANGED vars
  <2>1. TypeOK'
    BY <1>6 DEF vars, IndInv, TypeOK
  <2> QED
    BY <1>6, <2>1, QueueStepInd DEF vars
<1> QED
  BY <1>2, <1>3, <1>4, <1>5, <1>6 DEF Next

\* The variables of a chain setup keep their types, and a stream that is not
\* open holds no message, in chains of any length.
THEOREM ChainTypeCorrect == Spec => []TypeOK
<1>1. IndInv => TypeOK
  BY DEF IndInv
<1> QED
  BY <1>1, InitInd, NextInd, PTL DEF Spec

\* setupChain returns to the source only on an ACK that every handler up to
\* the last service of the specification has sent.
THEOREM AckComesFromWholeChain == Spec => []AckFromWholeChain
<1>1. IndInv => AckFromWholeChain
  BY DEF IndInv
<1> QED
  BY <1>1, InitInd, NextInd, PTL DEF Spec

----------------------------------------------------------------------------
(* No message is unexpected.                                               *)
(*                                                                         *)
(* What can be in a stream depends on where the hops at its two ends are,  *)
(* and every step changes the stream, one of the two, or the membership of *)
(* the lower one in acked.  So the invariant is a predicate of these six   *)
(* values, and its preservation a lemma for each way they change together. *)

\* Where a hop is that has received its ACK or needs none.
Passed == {"run", "ack", "dial", "tunnel"}

\* u and d are the queues towards and from hop k of link k, st is its state,
\* a and b are where hops k and k + 1 are, ak says that k + 1 has acknowledged.
MsgOK(u, d, a, b, st, ak) ==
  /\ \A n \in 1 .. Len(u) : u[n] \in {"ack", "data"}
  /\ \A n \in 1 .. Len(u) : n > 1 => u[n] = "data"
  /\ a \in Passed => \A n \in 1 .. Len(u) : u[n] = "data"
  /\ a \in Passed => ak \/ b = "none"
  /\ a \in {"request", "wait"} /\ u # << >> => u[1] = "ack"
  /\ a \in {"request", "wait"} /\ ak /\ st = "open" => u # << >>
  /\ ~ ak => u = << >>
  /\ ak => b \in Done
  /\ b \in {"dial", "tunnel"} /\ st = "open" => ak
  /\ \A n \in 1 .. Len(d) : n > 1 => d[n] = "data"
  /\ b # "receive" => \A n \in 1 .. Len(d) : d[n] = "data"
  /\ b = "receive" /\ d # << >> => d[1] = "request"
  /\ a = "request" /\ st = "open" => b = "receive" /\ d = << >>
  /\ st # "open" => u = << >> /\ d = << >>

MsgInv ==
  \A k \in Link :
    MsgOK(up[k], down[k], pc[k], pc[k + 1], link[k], k + 1 \in acked)

LEMMA QueueFacts ==
  ASSUME NEW q \in Seq(Message)
  PROVE  /\ Len(q) \in Nat /\ (q = << >> <=> Len(q) = 0)
         /\ q # << >> => /\ Tail(q) \in Seq(Message) /\ Len(Tail(q)) = Len(q) - 1
                         /\ \A n \in 1 .. Len(q) - 1 : Tail(q)[n] = q[n + 1]
                         /\ Head(q) = q[1] /\ 1 \in 1 .. Len(q)
         /\ \A m \in Message :
              /\ Append(q, m) \in Seq(Message) /\ Len(Append(q, m)) = Len(q) + 1
              /\ \A n \in 1 .. Len(q) : Append(q, m)[n] = q[n]
              /\ Append(q, m)[Len(q) + 1] = m
              /\ Append(q, m) # << >>
<1>1. Len(q) \in Nat /\ (q = << >> <=> Len(q) = 0)
  OBVIOUS
<1>2. ASSUME q # << >>
      PROVE  /\ Tail(q) \in Seq(Message) /\ Len(Tail(q)) = Len(q) - 1
             /\ \A n \in 1 .. Len(q) - 1 : Tail(q)[n] = q[n + 1]
             /\ Head(q) = q[1] /\ 1 \in 1 .. Len(q)
  BY <1>1, <1>2
<1>3. ASSUME NEW m \in Message
      PROVE  /\ Append(q, m) \in Seq(Message) /\ Len(Append(q, m)) = Len(q) + 1
             /\ \A n \in 1 .. Len(q) : Append(q, m)[n] = q[n]
             /\ Append(q, m)[Len(q) + 1] = m
             /\ Append(q, m) # << >>
  BY <1>1
<1> QED
  BY <1>1, <1>2, <1>3

\* The hop above may move from a to x: to a place where it expects nothing,
\* from one place past its ACK to another, or to such a place while there is
\* no hop below.
UpperMay(u, a, b, x) ==
  \/ x \notin Passed \cup {"request", "wait"}
  \/ x \in Passed /\ a \in Passed
  \/ x \in Passed /\ b = "none" /\ u = << >>

LEMMA UpperMoves ==
  ASSUME NEW u \in Seq(Message), NEW d \in Seq(Message), NEW a, NEW b, NEW st,
         NEW ak \in BOOLEAN, MsgOK(u, d, a, b, st, ak), NEW x, UpperMay(u, a, b, x)
  PROVE  MsgOK(u, d, x, b, st, ak)
<1>1. Len(u) \in Nat /\ Len(d) \in Nat /\ (u = << >> => Len(u) = 0)
  OBVIOUS
<1>2. CASE x \notin Passed \cup {"request", "wait"}
  BY <1>2 DEF MsgOK
<1>3. CASE x \in Passed /\ a \in Passed
  BY <1>3 DEF MsgOK, Passed
<1>4. CASE x \in Passed /\ b = "none" /\ u = << >>
  BY <1>1, <1>4 DEF MsgOK, Passed
<1> QED
  BY <1>2, <1>3, <1>4 DEF UpperMay

\* The hop below may move from b to x without touching the stream, past its
\* "receive" if the stream is broken.
LowerMay(b, st, ak, x) ==
  /\ b # "none"
  /\ b # "receive" \/ st # "open"
  /\ x # "receive"
  /\ x \in {"dial", "tunnel"} => b \in {"dial", "tunnel"} \/ st # "open"
  /\ ak => x \in Done

LEMMA LowerMoves ==
  ASSUME NEW u \in Seq(Message), NEW d \in Seq(Message), NEW a, NEW b, NEW st,
         NEW ak \in BOOLEAN, MsgOK(u, d, a, b, st, ak), NEW x, LowerMay(b, st, ak, x)
  PROVE  MsgOK(u, d, a, x, st, ak)
<1>1. Len(u) \in Nat /\ Len(d) \in Nat /\ (d = << >> => Len(d) = 0)
  OBVIOUS
<1>2. \A n \in 1 .. Len(d) : d[n] = "data"
  BY <1>1 DEF MsgOK, LowerMay
<1>3. a = "request" => st # "open"
  BY DEF MsgOK, LowerMay
<1> QED
  BY <1>1, <1>2, <1>3 DEF MsgOK, LowerMay

\* The stream is reset.
LEMMA StreamReset ==
  ASSUME NEW u \in Seq(Message), NEW d \in Seq(Message), NEW a, NEW b, NEW st,
         NEW ak \in BOOLEAN, MsgOK(u, d, a, b, st, ak)
  PROVE  MsgOK(<< >>, << >>, a, b, "reset", ak)
<1>1. Len(<< >>) = 0
  OBVIOUS
<1> QED
  BY <1>1 DEF MsgOK

\* createStream.
LEMMA StreamOpened == MsgOK(<< >>, << >>, "request", "receive", "open", FALSE)
<1>1. Len(<< >>) = 0
  OBVIOUS
<1> QED
  BY <1>1 DEF MsgOK, Passed, Done

\* The SetupRequest is sent, or setupChain ignores that it could not be.
LEMMA RequestSent ==
  ASSUME NEW u \in Seq(Message), NEW d \in Seq(Message), NEW b, NEW st,
         NEW ak \in BOOLEAN, MsgOK(u, d, "request", b, st, ak)
  PROVE  /\ st = "open" => MsgOK(u, Append(d, "request"), "wait", b, st, ak)
         /\ st # "open" => MsgOK(u, d, "wait", b, st, ak)
<1>1. "request" \in Message
  BY DEF Message
<1>2. ASSUME st = "open" PROVE MsgOK(u, Append(d, "request"), "wait", b, st, ak)
  <2>1. b = "receive" /\ d = << >>
    BY <1>2 DEF MsgOK
  <2>2. Len(Append(d, "request")) = 1 /\ Append(d, "request")[1] = "request"
    BY <2>1
  <2> HIDE DEF Message
  <2> DEFINE e == Append(d, "request")
  <2>3. /\ \A n \in 1 .. Len(e) : n > 1 => e[n] = "data"
        /\ e[1] = "request"
    BY <2>2
  <2> HIDE DEF e
  <2> QED
    BY <1>2, <2>1, <2>3 DEF MsgOK, Passed
<1>3. ASSUME st # "open" PROVE MsgOK(u, d, "wait", b, st, ak)
  BY <1>3 DEF MsgOK, Passed
<1> QED
  BY <1>2, <1>3

\* The SetupACK is received: it is one, and only data follows.
LEMMA AckReceived ==
  ASSUME NEW u \in Seq(Message), NEW d \in Seq(Message), NEW b, NEW st,
         NEW ak \in BOOLEAN, MsgOK(u, d, "wait", b, st, ak), u # << >>,
         NEW x \in {"run", "ack"}
  PROVE  Head(u) = "ack" /\ MsgOK(Tail(u), d, x, b, st, ak)
<1>1. /\ Len(u) \in Nat /\ Len(Tail(u)) = Len(u) - 1 /\ Head(u) = u[1]
      /\ \A n \in 1 .. Len(u) - 1 : Tail(u)[n] = u[n + 1]
  BY QueueFacts
<1>2. u[1] = "ack" /\ ak /\ st = "open"
  BY DEF MsgOK
<1> DEFINE t == Tail(u)
<1>3. \A n \in 1 .. Len(t) : t[n] = "data"
  <2> SUFFICES ASSUME NEW n \in 1 .. Len(t) PROVE t[n] = "data"
    OBVIOUS
  <2>1. n + 1 \in 1 .. Len(u) /\ n + 1 > 1 /\ t[n] = u[n + 1]
    BY <1>1
  <2> QED
    BY <2>1 DEF MsgOK
<1> HIDE DEF t
<1>4. MsgOK(t, d, x, b, st, ak)
  BY <1>2, <1>3 DEF MsgOK
<1> QED
  BY <1>1, <1>2, <1>4 DEF t

\* The SetupRequest is received: it is one, and only data follows.
LEMMA RequestReceived ==
  ASSUME NEW u \in Seq(Message), NEW d \in Seq(Message), NEW a, NEW st,
         NEW ak \in BOOLEAN, MsgOK(u, d, a, "receive", st, ak), d # << >>,
         NEW x \in {"returned", "ack", "resolve"}
  PROVE  Head(d) = "request" /\ MsgOK(u, Tail(d), a, x, st, ak)
<1>1. /\ Len(d) \in Nat /\ Len(Tail(d)) = Len(d) - 1 /\ Head(d) = d[1]
      /\ \A n \in 1 .. Len(d) - 1 : Tail(d)[n] = d[n + 1]
  BY QueueFacts
<1>2. d[1] = "request" /\ st = "open" /\ a # "request" /\ ~ ak
  BY DEF MsgOK, Done
<1>3. a \notin Passed
  BY <1>2 DEF MsgOK
<1> DEFINE t == Tail(d)
<1>4. \A n \in 1 .. Len(t) : t[n] = "data"
  <2> SUFFICES ASSUME NEW n \in 1 .. Len(t) PROVE t[n] = "data"
    OBVIOUS
  <2>1. n + 1 \in 1 .. Len(d) /\ n + 1 > 1 /\ t[n] = d[n + 1]
    BY <1>1
  <2> QED
    BY <2>1 DEF MsgOK
<1> HIDE DEF t
<1>5. MsgOK(u, t, a, x, st, ak)
  BY <1>2, <1>3, <1>4 DEF MsgOK
<1> QED
  BY <1>1, <1>2, <1>5 DEF t

\* The SetupACK is sent: it is the first message upwards.
LEMMA AckSent ==
  ASSUME NEW u \in Seq(Message), NEW d \in Seq(Message), NEW a,
         NEW ak \in BOOLEAN, MsgOK(u, d, a, "ack", "open", ak)
  PROVE  MsgOK(Append(u, "ack"), d, a, "dial", "open", TRUE)
<1>1. ~ ak /\ a \notin Passed /\ a # "request" /\ u = << >>
  BY DEF MsgOK, Done
<1> DEFINE v == Append(u, "ack")
<1>2. Len(v) = 1 /\ v[1] = "ack" /\ v # << >>
  BY <1>1
<1> HIDE DEF v
<1>3. \A n \in 1 .. Len(v) : n = 1
  BY <1>2
<1>4. MsgOK(v, d, a, "dial", "open", TRUE)
  BY <1>1, <1>2, <1>3 DEF MsgOK, Done
<1> QED
  BY <1>4 DEF v

\* Data is sent down.
LEMMA DataSentDown ==
  ASSUME NEW u \in Seq(Message), NEW d \in Seq(Message), NEW a \in {"run", "tunnel"},
         NEW b, NEW ak \in BOOLEAN, MsgOK(u, d, a, b, "open", ak)
  PROVE  MsgOK(u, Append(d, "data"), a, b, "open", ak)
<1>1. b # "receive" /\ a # "request"
  BY DEF MsgOK, Done, Passed
<1> DEFINE e == Append(d, "data")
<1>2. /\ Len(d) \in Nat /\ Len(e) = Len(d) + 1 /\ e[Len(d) + 1] = "data"
      /\ \A n \in 1 .. Len(d) : e[n] = d[n]
  BY QueueFacts DEF Message
<1> HIDE DEF e
<1>3. \A n \in 1 .. Len(e) : e[n] = "data"
  BY <1>1, <1>2 DEF MsgOK
<1>4. MsgOK(u, e, a, b, "open", ak)
  BY <1>1, <1>3 DEF MsgOK
<1> QED
  BY <1>4 DEF e

\* Data is sent up, or forwarded.
LEMMA DataSentUp ==
  ASSUME NEW u \in Seq(Message), NEW d \in Seq(Message), NEW a,
         NEW ak \in BOOLEAN, MsgOK(u, d, a, "tunnel", "open", ak)
  PROVE  MsgOK(Append(u, "data"), d, a, "tunnel", "open", ak)
<1>1. ak
  BY DEF MsgOK
<1> DEFINE v == Append(u, "data")
<1>2. /\ Len(u) \in Nat /\ Len(v) = Len(u) + 1 /\ v[Len(u) + 1] = "data"
      /\ \A n \in 1 .. Len(u) : v[n] = u[n]
      /\ v # << >> /\ (u # << >> => 1 \in 1 .. Len(u))
  BY QueueFacts DEF Message
<1> HIDE DEF v
<1>3. \A n \in 1 .. Len(v) : n \in 1 .. Len(u) \/ v[n] = "data"
  BY <1>2
<1>4. a \in {"request", "wait"} => v[1] = "ack"
  BY <1>1, <1>2 DEF MsgOK
<1>5. \A n \in 1 .. Len(v) : /\ v[n] \in {"ack", "data"}
                             /\ n > 1 => v[n] = "data"
                             /\ a \in Passed => v[n] = "data"
  BY <1>2, <1>3 DEF MsgOK
<1>6. MsgOK(v, d, a, "tunnel", "open", ak)
  BY <1>1, <1>2, <1>4, <1>5 DEF MsgOK
<1> QED
  BY <1>6 DEF v

\* Data is received.
LEMMA DataReceivedDown ==
  ASSUME NEW u \in Seq(Message), NEW d \in Seq(Message), NEW a, NEW st,
         NEW ak \in BOOLEAN, MsgOK(u, d, a, "tunnel", st, ak), d # << >>
  PROVE  MsgOK(u, Tail(d), a, "tunnel", st, ak)
<1> DEFINE t == Tail(d)
<1>1. /\ Len(d) \in Nat /\ Len(t) = Len(d) - 1
      /\ \A n \in 1 .. Len(d) - 1 : t[n] = d[n + 1]
  BY QueueFacts
<1>2. \A n \in 1 .. Len(t) : t[n] = "data"
  <2> SUFFICES ASSUME NEW n \in 1 .. Len(t) PROVE t[n] = "data"
    OBVIOUS
  <2>1. n + 1 \in 1 .. Len(d) /\ t[n] = d[n + 1]
    BY <1>1
  <2> QED
    BY <2>1 DEF MsgOK
<1> HIDE DEF t
<1>3. st = "open"
  BY DEF MsgOK
<1>4. MsgOK(u, t, a, "tunnel", st, ak)
  BY <1>2, <1>3 DEF MsgOK
<1> QED
  BY <1>4 DEF t

LEMMA DataReceivedUp ==
  ASSUME NEW u \in Seq(Message), NEW d \in Seq(Message), NEW a \in {"run", "tunnel"},
         NEW b, NEW st, NEW ak \in BOOLEAN, MsgOK(u, d, a, b, st, ak), u # << >>
  PROVE  MsgOK(Tail(u), d, a, b, st, ak)
<1> DEFINE t == Tail(u)
<1>1. /\ Len(u) \in Nat /\ Len(t) = Len(u) - 1
      /\ \A n \in 1 .. Len(u) - 1 : t[n] = u[n + 1]
  BY QueueFacts
<1>2. a \in Passed /\ a \notin {"request", "wait"}
  BY DEF Passed
<1>3. \A n \in 1 .. Len(t) : t[n] = "data"
  <2> SUFFICES ASSUME NEW n \in 1 .. Len(t) PROVE t[n] = "data"
    OBVIOUS
  <2>1. n + 1 \in 1 .. Len(u) /\ t[n] = u[n + 1]
    BY <1>1
  <2> QED
    BY <1>2, <2>1 DEF MsgOK
<1> HIDE DEF t
<1>4. st = "open" /\ ak
  BY DEF MsgOK
<1>5. MsgOK(t, d, a, b, st, ak)
  BY <1>2, <1>3, <1>4 DEF MsgOK
<1> QED
  BY <1>5 DEF t

----------------------------------------------------------------------------
(* The actions, again: what each does to the stream above and below.       *)

Msg(k) == MsgOK(up[k], down[k], pc[k], pc[k + 1], link[k], k + 1 \in acked)

LEMMA LinkTypes ==
  ASSUME IndInv, NEW k \in Link
  PROVE  /\ up[k] \in Seq(Message) /\ down[k] \in Seq(Message)
         /\ (k + 1 \in acked) \in BOOLEAN
         /\ k \in Hop /\ k + 1 \in Hop /\ k + 1 \in Handler
BY Indices DEF IndInv, TypeOK

\* A step that moves hop k to x and touches no stream keeps MsgInv if it keeps
\* the invariants of the streams below and above hop k.
LEMMA HopStep ==
  ASSUME IndInv, MsgInv, NEW k \in Hop, NEW x, pc' = [pc EXCEPT ![k] = x],
         \A j \in Link : j # k /\ j # k - 1 =>
           up'[j] = up[j] /\ down'[j] = down[j] /\ link'[j] = link[j],
         \A j \in Link : j # k - 1 => (j + 1 \in acked' <=> j + 1 \in acked),
         k \in Link =>
           MsgOK(up'[k], down'[k], x, pc[k + 1], link'[k], k + 1 \in acked),
         k - 1 \in Link =>
           MsgOK(up'[k - 1], down'[k - 1], pc[k - 1], x, link'[k - 1], k \in acked')
  PROVE  MsgInv'
<1> SUFFICES ASSUME NEW j \in Link PROVE Msg(j)'
  BY DEF MsgInv, Msg
<1>1. j \in Hop /\ j + 1 \in Hop /\ j \in Int /\ k \in Int
  BY Indices
<1>2. /\ pc'[j] = IF j = k THEN x ELSE pc[j]
      /\ pc'[j + 1] = IF j + 1 = k THEN x ELSE pc[j + 1]
  BY <1>1 DEF IndInv, TypeOK
<1>3. CASE j = k
  <2>1. j + 1 # k /\ j # k - 1
    BY <1>1, <1>3
  <2>2. pc'[j] = x /\ pc'[j + 1] = pc[j + 1] /\ ((j + 1 \in acked') = (j + 1 \in acked))
    BY <1>2, <1>3, <2>1
  <2>3. MsgOK(up'[j], down'[j], x, pc[j + 1], link'[j], j + 1 \in acked)
    BY <1>3
  <2> QED
    BY <2>2, <2>3 DEF Msg
<1>4. CASE j = k - 1
  <2>1. j + 1 = k /\ j # k
    BY <1>1, <1>4
  <2>2. pc'[j] = pc[j] /\ pc'[j + 1] = x
    BY <1>2, <2>1
  <2>3. MsgOK(up'[j], down'[j], pc[j], x, link'[j], k \in acked')
    BY <1>4
  <2> QED
    BY <2>1, <2>2, <2>3 DEF Msg
<1>5. CASE j # k /\ j # k - 1
  <2>1. j + 1 # k
    BY <1>1, <1>5
  <2>2. /\ pc'[j] = pc[j] /\ pc'[j + 1] = pc[j + 1]
        /\ up'[j] = up[j] /\ down'[j] = down[j] /\ link'[j] = link[j]
        /\ ((j + 1 \in acked') = (j + 1 \in acked))
    BY <1>2, <1>5, <2>1
  <2>3. Msg(j)
    BY DEF MsgInv, Msg
  <2> QED
    BY <2>2, <2>3 DEF Msg
<1> QED
  BY <1>3, <1>4, <1>5

LEMMA MoveOnMsg ==
  ASSUME IndInv, MsgInv, NEW k \in Hop,
         \/ k = 0 /\ SetupChain
         \/ ResolveService(k)
         \/ CreateStreamFails(k)
         \/ k \in Handler /\ DialService(k)
  PROVE  MsgInv'
<1>1. UNCHANGED <<link, down, up, acked>>
  BY DEF SetupChain, ResolveService, CreateStreamFails, DialService
<1>2. PICK x : pc' = [pc EXCEPT ![k] = x] /\
        \/ pc[k] \in {"start", "resolve", "open"}
             /\ x \in {"failed", "resolve", "open", "returned"}
        \/ pc[k] = "dial" /\ x \in {"tunnel", "returned"}
  BY DEF SetupChain, ResolveService, CreateStreamFails, DialService, GiveUp
<1>3. ASSUME k \in Link
      PROVE  MsgOK(up[k], down[k], x, pc[k + 1], link[k], k + 1 \in acked)
  <2>1. UpperMay(up[k], pc[k], pc[k + 1], x)
    BY <1>2 DEF Passed, UpperMay
  <2>2. /\ MsgOK(up[k], down[k], pc[k], pc[k + 1], link[k], k + 1 \in acked)
        /\ up[k] \in Seq(Message) /\ down[k] \in Seq(Message)
        /\ (k + 1 \in acked) \in BOOLEAN
    BY <1>3, LinkTypes DEF MsgInv
  <2> QED
    BY <2>1, <2>2, UpperMoves
<1>4. ASSUME k - 1 \in Link
      PROVE  MsgOK(up[k - 1], down[k - 1], pc[k - 1], x, link[k - 1], k \in acked)
  <2>1. k - 1 + 1 = k
    BY Indices
  <2>2. MsgOK(up[k - 1], down[k - 1], pc[k - 1], pc[k], link[k - 1], k \in acked)
    BY <1>4, <2>1 DEF MsgInv
  <2>3. k \in acked => x \in Done
    BY <1>2 DEF IndInv, AckedIsDone, Done
  <2>4. LowerMay(pc[k], link[k - 1], k \in acked, x)
    BY <1>2, <2>3 DEF LowerMay
  <2>5. /\ up[k - 1] \in Seq(Message) /\ down[k - 1] \in Seq(Message)
        /\ (k \in acked) \in BOOLEAN
    BY <1>4, LinkTypes
  <2> QED
    BY <2>2, <2>4, <2>5, LowerMoves
<1> QED
  BY <1>1, <1>2, <1>3, <1>4, HopStep

LEMMA SendRequestMsg ==
  ASSUME IndInv, MsgInv, NEW k \in Link, SendRequest(k)
  PROVE  MsgInv'
<1>1. UNCHANGED <<link, up, acked>> /\ pc[k] = "request" /\ k \in Hop
  BY LinkTypes DEF SendRequest
<1>2. PICK x : /\ pc' = [pc EXCEPT ![k] = x]
               /\ \/ link[k] = "open" /\ x = "wait"
                     /\ down' = [down EXCEPT ![k] = Append(down[k], "request")]
                  \/ link[k] = "reset" /\ x \in {"wait", "returned"} /\ down' = down
  BY DEF SendRequest, AfterRequest
<1>3. \A j \in Link : j # k => down'[j] = down[j]
  BY <1>2 DEF IndInv, TypeOK
<1>4. MsgOK(up[k], down'[k], x, pc[k + 1], link[k], k + 1 \in acked)
  <2>1. /\ MsgOK(up[k], down[k], "request", pc[k + 1], link[k], k + 1 \in acked)
        /\ up[k] \in Seq(Message) /\ down[k] \in Seq(Message)
        /\ (k + 1 \in acked) \in BOOLEAN
    BY <1>1, LinkTypes DEF MsgInv
  <2>2. CASE link[k] = "open"
    <3>1. x = "wait" /\ down'[k] = Append(down[k], "request")
      BY <1>2, <2>2 DEF IndInv, TypeOK
    <3> QED
      BY <2>1, <2>2, <3>1, RequestSent
  <2>3. CASE link[k] # "open" /\ x = "wait"
    <3>1. down'[k] = down[k]
      BY <1>2, <2>3
    <3> QED
      BY <2>1, <2>3, <3>1, RequestSent
  <2>4. CASE link[k] # "open" /\ x = "returned"
    <3>1. down'[k] = down[k] /\ UpperMay(up[k], "request", pc[k + 1], x)
      BY <1>2, <2>4 DEF Passed, UpperMay
    <3> QED
      BY <2>1, <3>1, UpperMoves
  <2> QED
    BY <1>2, <2>2, <2>3, <2>4
<1>5. ASSUME k - 1 \in Link
      PROVE  MsgOK(up[k - 1], down'[k - 1], pc[k - 1], x, link[k - 1], k \in acked)
  <2>1. k - 1 + 1 = k /\ k - 1 # k
    BY Indices
  <2>2. MsgOK(up[k - 1], down[k - 1], pc[k - 1], pc[k], link[k - 1], k \in acked)
    BY <1>5, <2>1 DEF MsgInv
  <2>3. k \notin acked
    BY <1>1 DEF IndInv, AckedIsDone, Done
  <2>4. x \in {"wait", "returned"}
    BY <1>2
  <2>5. /\ up[k - 1] \in Seq(Message) /\ down[k - 1] \in Seq(Message)
        /\ (k \in acked) \in BOOLEAN
    BY <1>5, <2>1, LinkTypes
  <2>6. MsgOK(up[k - 1], down[k - 1], pc[k - 1], x, link[k - 1], k \in acked)
    <3>1. LowerMay(pc[k], link[k - 1], k \in acked, x)
      BY <1>1, <2>3, <2>4 DEF LowerMay
    <3> QED
      BY <2>2, <2>5, <3>1, LowerMoves
  <2> QED
    BY <1>3, <1>5, <2>1, <2>6
<1> QED
  BY <1>1, <1>2, <1>3, <1>4, <1>5, HopStep

LEMMA ReceiveAckMsg ==
  ASSUME IndInv, MsgInv, NEW k \in Link, ReceiveAck(k)
  PROVE  MsgInv'
<1>1. UNCHANGED <<link, down, acked>> /\ pc[k] = "wait" /\ k \in Hop
  BY LinkTypes DEF ReceiveAck
<1>2. /\ MsgOK(up[k], down[k], "wait", pc[k + 1], link[k], k + 1 \in acked)
      /\ up[k] \in Seq(Message) /\ down[k] \in Seq(Message)
      /\ (k + 1 \in acked) \in BOOLEAN
  BY <1>1, LinkTypes DEF MsgInv
<1>3. up[k] # << >> => Head(up[k]) = "ack"
  BY <1>2, AckReceived
<1>4. PICK x : /\ pc' = [pc EXCEPT ![k] = x]
               /\ \/ /\ up[k] # << >> /\ x \in {"run", "ack"}
                     /\ up' = [up EXCEPT ![k] = Tail(up[k])]
                  \/ x \in {"failed", "returned"} /\ up' = up
  <2>1. CASE up' = up /\ pc' = [pc EXCEPT ![k] = GiveUp(k)]
    <3>1. GiveUp(k) \in {"failed", "returned"}
      BY DEF GiveUp
    <3> QED
      BY <2>1, <3>1
  <2>2. CASE ~ (up' = up /\ pc' = [pc EXCEPT ![k] = GiveUp(k)])
    <3>1. up[k] # << >> /\ up' = [up EXCEPT ![k] = Tail(up[k])]
      BY <2>2 DEF ReceiveAck
    <3>2. pc' = [pc EXCEPT ![k] = IF k = 0 THEN "run" ELSE "ack"]
      BY <1>3, <2>2, <3>1 DEF ReceiveAck, expectType
    <3>3. (IF k = 0 THEN "run" ELSE "ack") \in {"run", "ack"}
      OBVIOUS
    <3> QED
      BY <3>1, <3>2, <3>3
  <2> QED
    BY <2>1, <2>2
<1>5. \A j \in Link : j # k => up'[j] = up[j]
  BY <1>4 DEF IndInv, TypeOK
<1>6. MsgOK(up'[k], down[k], x, pc[k + 1], link[k], k + 1 \in acked)
  <2>1. CASE /\ up[k] # << >> /\ x \in {"run", "ack"}
             /\ up' = [up EXCEPT ![k] = Tail(up[k])]
    <3>1. up'[k] = Tail(up[k])
      BY <2>1 DEF IndInv, TypeOK
    <3> QED
      BY <1>2, <2>1, <3>1, AckReceived
  <2>2. CASE x \in {"failed", "returned"} /\ up' = up
    <3>1. UpperMay(up[k], "wait", pc[k + 1], x)
      BY <2>2 DEF Passed, UpperMay
    <3> QED
      BY <1>2, <2>2, <3>1, UpperMoves
  <2> QED
    BY <1>4, <2>1, <2>2
<1>7. ASSUME k - 1 \in Link
      PROVE  MsgOK(up'[k - 1], down[k - 1], pc[k - 1], x, link[k - 1], k \in acked)
  <2>1. k - 1 + 1 = k /\ k - 1 # k
    BY Indices
  <2>2. MsgOK(up[k - 1], down[k - 1], pc[k - 1], pc[k], link[k - 1], k \in acked)
    BY <1>7, <2>1 DEF MsgInv
  <2>3. k \notin acked
    BY <1>1 DEF IndInv, AckedIsDone, Done
  <2>4. x \in {"run", "ack", "failed", "returned"}
    BY <1>4
  <2>5. /\ up[k - 1] \in Seq(Message) /\ down[k - 1] \in Seq(Message)
        /\ (k \in acked) \in BOOLEAN
    BY <1>7, <2>1, LinkTypes
  <2>6. MsgOK(up[k - 1], down[k - 1], pc[k - 1], x, link[k - 1], k \in acked)
    <3>1. LowerMay(pc[k], link[k - 1], k \in acked, x)
      BY <1>1, <2>3, <2>4 DEF LowerMay
    <3> QED
      BY <2>2, <2>5, <3>1, LowerMoves
  <2> QED
    BY <1>5, <1>7, <2>1, <2>6
<1> QED
  BY <1>1, <1>4, <1>5, <1>6, <1>7, HopStep

LEMMA ReceiveRequestMsg ==
  ASSUME IndInv, MsgInv, NEW k \in Handler, ReceiveRequest(k)
  PROVE  MsgInv'
<1>1. /\ UNCHANGED <<link, up, acked>> /\ pc[k] = "receive"
      /\ k \in Hop /\ k - 1 \in Link /\ k - 1 + 1 = k /\ k - 1 # k
  BY Indices DEF ReceiveRequest
<1>2. /\ MsgOK(up[k - 1], down[k - 1], pc[k - 1], "receive", link[k - 1], k \in acked)
      /\ up[k - 1] \in Seq(Message) /\ down[k - 1] \in Seq(Message)
      /\ (k \in acked) \in BOOLEAN
  BY <1>1, LinkTypes DEF MsgInv
<1>3. PICK x : /\ pc' = [pc EXCEPT ![k] = x]
               /\ x \in {"returned", "ack", "resolve"}
               /\ \/ /\ down[k - 1] # << >>
                     /\ down' = [down EXCEPT ![k - 1] = Tail(down[k - 1])]
                  \/ link[k - 1] = "reset" /\ x = "returned" /\ down' = down
  <2>1. CASE down' = down /\ link[k - 1] = "reset" /\ pc' = [pc EXCEPT ![k] = "returned"]
    BY <2>1
  <2>2. CASE ~ (down' = down /\ link[k - 1] = "reset"
                /\ pc' = [pc EXCEPT ![k] = "returned"])
    <3> DEFINE x == CASE ~ expectType(Head(down[k - 1]), "request") -> "returned"
                      [] ~ Found(k)                                 -> "returned"
                      [] IsEnd(k)                                   -> "ack"
                      [] OTHER                                      -> "resolve"
    <3>1. /\ down[k - 1] # << >> /\ down' = [down EXCEPT ![k - 1] = Tail(down[k - 1])]
          /\ pc' = [pc EXCEPT ![k] = x]
      BY <2>2 DEF ReceiveRequest
    <3>2. x \in {"returned", "ack", "resolve"}
      OBVIOUS
    <3> HIDE DEF x
    <3> QED
      BY <3>1, <3>2
  <2> QED
    BY <2>1, <2>2
<1>4. \A j \in Link : j # k - 1 => down'[j] = down[j]
  BY <1>3 DEF IndInv, TypeOK
<1>5. MsgOK(up[k - 1], down'[k - 1], pc[k - 1], x, link[k - 1], k \in acked)
  <2>1. CASE down[k - 1] # << >> /\ down' = [down EXCEPT ![k - 1] = Tail(down[k - 1])]
    <3>1. down'[k - 1] = Tail(down[k - 1])
      BY <1>1, <2>1 DEF IndInv, TypeOK
    <3>2. x \in {"returned", "ack", "resolve"}
      BY <1>3
    <3>3. MsgOK(up[k - 1], Tail(down[k - 1]), pc[k - 1], x, link[k - 1], k \in acked)
      BY <1>2, <2>1, <3>2, RequestReceived
    <3> QED
      BY <3>1, <3>3
  <2>2. CASE link[k - 1] = "reset" /\ x = "returned" /\ down' = down
    <3>1. k \notin acked
      BY <1>1 DEF IndInv, AckedIsDone, Done
    <3>2. LowerMay("receive", link[k - 1], k \in acked, x)
      BY <2>2, <3>1 DEF LowerMay
    <3>3. MsgOK(up[k - 1], down[k - 1], pc[k - 1], x, link[k - 1], k \in acked)
      BY <1>2, <3>2, LowerMoves
    <3> QED
      BY <2>2, <3>3
  <2> QED
    BY <1>3, <2>1, <2>2
<1>6. ASSUME k \in Link
      PROVE  MsgOK(up[k], down'[k], x, pc[k + 1], link[k], k + 1 \in acked)
  <2>1. /\ MsgOK(up[k], down[k], pc[k], pc[k + 1], link[k], k + 1 \in acked)
        /\ up[k] \in Seq(Message) /\ down[k] \in Seq(Message)
        /\ (k + 1 \in acked) \in BOOLEAN
    BY <1>6, LinkTypes DEF MsgInv
  <2>2. pc[k + 1] = "none" /\ up[k] = << >>
    BY <1>1, <1>6 DEF IndInv, NothingBelow, Early
  <2>3. UpperMay(up[k], pc[k], pc[k + 1], x)
    BY <1>3, <2>2 DEF Passed, UpperMay
  <2>4. down'[k] = down[k]
    BY <1>1, <1>4, <1>6
  <2> QED
    BY <2>1, <2>3, <2>4, UpperMoves
<1> QED
  BY <1>1, <1>3, <1>4, <1>5, <1>6, HopStep

LEMMA SendAckMsg ==
  ASSUME IndInv, MsgInv, NEW k \in Handler, SendAck(k)
  PROVE  MsgInv'
<1>1. /\ UNCHANGED <<link, down>> /\ pc[k] = "ack"
      /\ k \in Hop /\ k - 1 \in Link /\ k - 1 + 1 = k /\ k - 1 # k
  BY Indices DEF SendAck
<1>2. /\ MsgOK(up[k - 1], down[k - 1], pc[k - 1], "ack", link[k - 1], k \in acked)
      /\ up[k - 1] \in Seq(Message) /\ down[k - 1] \in Seq(Message)
      /\ (k \in acked) \in BOOLEAN
  BY <1>1, LinkTypes DEF MsgInv
<1>3. PICK x : /\ pc' = [pc EXCEPT ![k] = x]
               /\ \/ /\ link[k - 1] = "open" /\ x = "dial"
                     /\ up' = [up EXCEPT ![k - 1] = Append(up[k - 1], "ack")]
                     /\ acked' = acked \cup {k}
                  \/ /\ link[k - 1] = "reset" /\ x \in {"dial", "returned"}
                     /\ up' = up /\ acked' = acked
  BY DEF SendAck
<1>4. /\ \A j \in Link : j # k - 1 => up'[j] = up[j]
      /\ \A j \in Link : j # k - 1 => (j + 1 \in acked' <=> j + 1 \in acked)
  <2>1. \A j \in Link : j # k - 1 => up'[j] = up[j]
    BY <1>3 DEF IndInv, TypeOK
  <2>2. \A j \in Link : j # k - 1 => j + 1 # k
    BY Indices
  <2> QED
    BY <1>3, <2>1, <2>2
<1>5. MsgOK(up'[k - 1], down[k - 1], pc[k - 1], x, link[k - 1], k \in acked')
  <2>1. CASE link[k - 1] = "open"
    <3>1. /\ up'[k - 1] = Append(up[k - 1], "ack") /\ x = "dial"
          /\ (k \in acked') = TRUE
      BY <1>1, <1>3, <2>1 DEF IndInv, TypeOK
    <3>2. MsgOK(up[k - 1], down[k - 1], pc[k - 1], "ack", "open", k \in acked)
      BY <1>2, <2>1
    <3>3. MsgOK(Append(up[k - 1], "ack"), down[k - 1], pc[k - 1], "dial", "open", TRUE)
      BY <1>2, <3>2, AckSent
    <3> QED
      BY <2>1, <3>1, <3>3
  <2>2. CASE link[k - 1] # "open"
    <3>1. k \notin acked
      BY <1>1 DEF IndInv, AckedIsDone, Done
    <3>2. up' = up /\ acked' = acked
      BY <1>3, <2>2
    <3>3. LowerMay("ack", link[k - 1], k \in acked, x)
      BY <1>3, <2>2, <3>1 DEF LowerMay
    <3>4. MsgOK(up[k - 1], down[k - 1], pc[k - 1], x, link[k - 1], k \in acked)
      BY <1>2, <3>3, LowerMoves
    <3> QED
      BY <3>2, <3>4
  <2> QED
    BY <2>1, <2>2
<1>6. ASSUME k \in Link
      PROVE  MsgOK(up'[k], down[k], x, pc[k + 1], link[k], k + 1 \in acked)
  <2>1. /\ MsgOK(up[k], down[k], pc[k], pc[k + 1], link[k], k + 1 \in acked)
        /\ up[k] \in Seq(Message) /\ down[k] \in Seq(Message)
        /\ (k + 1 \in acked) \in BOOLEAN
    BY <1>6, LinkTypes DEF MsgInv
  <2>2. UpperMay(up[k], pc[k], pc[k + 1], x)
    BY <1>1, <1>3 DEF Passed, UpperMay
  <2>3. up'[k] = up[k]
    BY <1>1, <1>4, <1>6
  <2> QED
    BY <2>1, <2>2, <2>3, UpperMoves
<1> QED
  BY <1>1, <1>3, <1>4, <1>5, <1>6, HopStep

\* The steps that move no hop change streams only.
LEMMA StreamStep ==
  ASSUME IndInv, MsgInv, UNCHANGED <<pc, acked>>,
         NEW S \in SUBSET Link,
         \A j \in Link \ S :
           up'[j] = up[j] /\ down'[j] = down[j] /\ link'[j] = link[j],
         \A j \in S :
           MsgOK(up'[j], down'[j], pc[j], pc[j + 1], link'[j], j + 1 \in acked)
  PROVE  MsgInv'
<1> SUFFICES ASSUME NEW j \in Link PROVE Msg(j)'
  BY DEF MsgInv, Msg
<1>1. pc' = pc /\ acked' = acked
  OBVIOUS
<1>2. CASE j \in S
  BY <1>1, <1>2 DEF Msg
<1>3. CASE j \notin S
  <2>1. MsgOK(up[j], down[j], pc[j], pc[j + 1], link[j], j + 1 \in acked)
    BY DEF MsgInv
  <2>2. up'[j] = up[j] /\ down'[j] = down[j] /\ link'[j] = link[j]
    BY <1>3
  <2> QED
    BY <1>1, <2>1, <2>2 DEF Msg
<1> QED
  BY <1>2, <1>3

LEMMA DataDownMsg ==
  ASSUME IndInv, MsgInv, NEW k \in Hop,
         SendDataDown(k) \/ (k \in Handler /\ ReceiveDataDown(k))
  PROVE  MsgInv'
<1>1. UNCHANGED <<pc, acked, up, link>>
  BY DEF SendDataDown, ReceiveDataDown
<1>2. CASE SendDataDown(k)
  <2>1. /\ k \in Link /\ link[k] = "open" /\ pc[k] \in {"run", "tunnel"}
        /\ down' = [down EXCEPT ![k] = Append(down[k], "data")]
    BY <1>2, Indices DEF SendDataDown
  <2>2. /\ down'[k] = Append(down[k], "data")
        /\ \A j \in Link \ {k} : down'[j] = down[j]
    BY <2>1 DEF IndInv, TypeOK
  <2>3. /\ MsgOK(up[k], down[k], pc[k], pc[k + 1], "open", k + 1 \in acked)
        /\ up[k] \in Seq(Message) /\ down[k] \in Seq(Message)
        /\ (k + 1 \in acked) \in BOOLEAN
    BY <2>1, LinkTypes DEF MsgInv
  <2>4. MsgOK(up[k], Append(down[k], "data"), pc[k], pc[k + 1], "open", k + 1 \in acked)
    BY <2>1, <2>3, DataSentDown
  <2>5. \A j \in {k} :
          MsgOK(up'[j], down'[j], pc[j], pc[j + 1], link'[j], j + 1 \in acked)
    BY <1>1, <2>1, <2>2, <2>4
  <2>6. {k} \in SUBSET Link
    BY <2>1
  <2> QED
    BY <1>1, <2>2, <2>5, <2>6, StreamStep
<1>3. CASE k \in Handler /\ ReceiveDataDown(k)
  <2> DEFINE m == k - 1
  <2>1. /\ m \in Link /\ m + 1 = k /\ pc[k] = "tunnel" /\ down[m] # << >>
        /\ down' = [down EXCEPT ![m] = Tail(down[m])]
    BY <1>3, Indices DEF ReceiveDataDown
  <2> HIDE DEF m
  <2>2. /\ down'[m] = Tail(down[m])
        /\ \A j \in Link \ {m} : down'[j] = down[j]
    BY <2>1 DEF IndInv, TypeOK
  <2>3. /\ MsgOK(up[m], down[m], pc[m], "tunnel", link[m], m + 1 \in acked)
        /\ up[m] \in Seq(Message) /\ down[m] \in Seq(Message)
        /\ (m + 1 \in acked) \in BOOLEAN
    BY <2>1, LinkTypes DEF MsgInv
  <2>4. MsgOK(up[m], Tail(down[m]), pc[m], "tunnel", link[m], m + 1 \in acked)
    BY <2>1, <2>3, DataReceivedDown
  <2>5. \A j \in {m} :
          MsgOK(up'[j], down'[j], pc[j], pc[j + 1], link'[j], j + 1 \in acked)
    BY <1>1, <2>1, <2>2, <2>4
  <2>6. {m} \in SUBSET Link
    BY <2>1
  <2> QED
    BY <1>1, <2>2, <2>5, <2>6, StreamStep
<1> QED
  BY <1>2, <1>3

LEMMA DataUpMsg ==
  ASSUME IndInv, MsgInv, NEW k \in Hop,
         ReceiveDataUp(k) \/ (k \in Handler /\ SendDataUp(k))
  PROVE  MsgInv'
<1>1. UNCHANGED <<pc, acked, down, link>>
  BY DEF SendDataUp, ReceiveDataUp
<1>2. ASSUME NEW m \in Link, m + 1 = k, link[m] = "open", pc[k] = "tunnel",
             up'[m] = Append(up[m], "data")
      PROVE  MsgOK(up'[m], down'[m], pc[m], pc[m + 1], link'[m], m + 1 \in acked)
  <2>1. /\ MsgOK(up[m], down[m], pc[m], "tunnel", "open", m + 1 \in acked)
        /\ up[m] \in Seq(Message) /\ down[m] \in Seq(Message)
        /\ (m + 1 \in acked) \in BOOLEAN
    BY <1>2, LinkTypes DEF MsgInv
  <2>2. MsgOK(Append(up[m], "data"), down[m], pc[m], "tunnel", "open", m + 1 \in acked)
    BY <2>1, DataSentUp
  <2> QED
    BY <1>1, <1>2, <2>2
<1>3. CASE ReceiveDataUp(k)
  <2>1. /\ k \in Link /\ pc[k] \in {"run", "tunnel"} /\ up[k] # << >>
        /\ up' = [j \in Link |->
                    IF j = k THEN Tail(up[k])
                    ELSE IF j = k - 1 /\ link[j] = "open" THEN Append(up[j], "data")
                    ELSE up[j]]
    BY <1>3, Indices DEF ReceiveDataUp
  <2> DEFINE S == { j \in Link : j = k \/ (j = k - 1 /\ link[j] = "open") }
  <2>2. \A j \in Link \ S : up'[j] = up[j]
    BY <2>1
  <2>3. up'[k] = Tail(up[k])
    BY <2>1
  <2>4. /\ MsgOK(up[k], down[k], pc[k], pc[k + 1], link[k], k + 1 \in acked)
        /\ up[k] \in Seq(Message) /\ down[k] \in Seq(Message)
        /\ (k + 1 \in acked) \in BOOLEAN
    BY <2>1, LinkTypes DEF MsgInv
  <2>5. MsgOK(up'[k], down'[k], pc[k], pc[k + 1], link'[k], k + 1 \in acked)
    BY <1>1, <2>1, <2>3, <2>4, DataReceivedUp
  <2>6. ASSUME NEW j \in S, j # k
        PROVE  MsgOK(up'[j], down'[j], pc[j], pc[j + 1], link'[j], j + 1 \in acked)
    <3>1. j \in Link /\ j = k - 1 /\ j + 1 = k /\ link[j] = "open"
      BY <2>6, Indices
    <3>2. k # 0
      BY <3>1, Indices
    <3>3. pc[k] = "tunnel"
      BY <2>1, <3>2, Indices DEF IndInv, SourceOrHandler
    <3>4. up'[j] = Append(up[j], "data")
      BY <2>1, <2>6, <3>1
    <3> QED
      BY <1>2, <3>1, <3>3, <3>4
  <2>7. \A j \in S :
          MsgOK(up'[j], down'[j], pc[j], pc[j + 1], link'[j], j + 1 \in acked)
    BY <2>5, <2>6
  <2>8. S \in SUBSET Link
    OBVIOUS
  <2> HIDE DEF S
  <2> QED
    BY <1>1, <2>2, <2>7, <2>8, StreamStep
<1>4. CASE k \in Handler /\ SendDataUp(k)
  <2> DEFINE m == k - 1
  <2>1. /\ m \in Link /\ m + 1 = k /\ pc[k] = "tunnel" /\ link[m] = "open"
        /\ up' = [up EXCEPT ![m] = Append(up[m], "data")]
    BY <1>4, Indices DEF SendDataUp
  <2> HIDE DEF m
  <2>2. /\ up'[m] = Append(up[m], "data")
        /\ \A j \in Link \ {m} : up'[j] = up[j]
    BY <2>1 DEF IndInv, TypeOK
  <2>3. \A j \in {m} :
          MsgOK(up'[j], down'[j], pc[j], pc[j + 1], link'[j], j + 1 \in acked)
    BY <1>2, <2>1, <2>2
  <2>4. {m} \in SUBSET Link
    BY <2>1
  <2> QED
    BY <1>1, <2>2, <2>3, <2>4, StreamStep
<1> QED
  BY <1>3, <1>4

LEMMA FailureMsg ==
  ASSUME IndInv, MsgInv, Failure
  PROVE  MsgInv'
<1>1. UNCHANGED <<pc, acked>>
  BY DEF Failure, MonitorFires, ConnFails
<1>2. PICK m : ResetLink(m)
  BY DEF Failure, MonitorFires, ConnFails
<1>3. \A j \in Link : IF j = m THEN /\ up'[j] = << >> /\ down'[j] = << >>
                                    /\ link'[j] = "reset"
                      ELSE up'[j] = up[j] /\ down'[j] = down[j] /\ link'[j] = link[j]
  BY <1>2 DEF ResetLink, IndInv, TypeOK
<1> DEFINE S == { j \in Link : j = m }
<1>4. ASSUME NEW j \in S
      PROVE  MsgOK(up'[j], down'[j], pc[j], pc[j + 1], link'[j], j + 1 \in acked)
  <2>1. /\ MsgOK(up[j], down[j], pc[j], pc[j + 1], link[j], j + 1 \in acked)
        /\ up[j] \in Seq(Message) /\ down[j] \in Seq(Message)
        /\ (j + 1 \in acked) \in BOOLEAN
    BY LinkTypes DEF MsgInv
  <2>2. MsgOK(<< >>, << >>, pc[j], pc[j + 1], "reset", j + 1 \in acked)
    BY <2>1, StreamReset
  <2> QED
    BY <1>3, <2>2
<1>5. \A j \in Link \ S : up'[j] = up[j] /\ down'[j] = down[j] /\ link'[j] = link[j]
  BY <1>3
<1>6. S \in SUBSET Link
  OBVIOUS
<1> HIDE DEF S
<1> QED
  BY <1>1, <1>4, <1>5, <1>6, StreamStep

LEMMA CreateStreamMsg ==
  ASSUME IndInv, MsgInv, NEW k \in Hop, CreateStream(k)
  PROVE  MsgInv'
<1>1. /\ UNCHANGED <<up, down, acked>> /\ k \in Link /\ pc[k] = "open"
      /\ pc' = [pc EXCEPT ![k] = "request", ![k + 1] = "receive"]
      /\ link' = [link EXCEPT ![k] = "open"]
  BY Indices DEF CreateStream
<1>2. /\ link[k] = "none" /\ pc[k + 1] = "none" /\ up[k] = << >> /\ down[k] = << >>
      /\ k + 1 \notin acked /\ k \notin acked
  <2>1. link[k] = "none" /\ pc[k + 1] = "none" /\ up[k] = << >>
    BY <1>1 DEF IndInv, NothingBelow, Early
  <2>2. down[k] = << >>
    BY <1>1, <2>1 DEF IndInv, TypeOK
  <2> QED
    BY <1>1, <2>1, <2>2 DEF IndInv, AckedIsDone, Done
<1>3. /\ \A j \in Hop : pc'[j] = IF j = k + 1 THEN "receive"
                                 ELSE IF j = k THEN "request" ELSE pc[j]
      /\ \A j \in Link : link'[j] = IF j = k THEN "open" ELSE link[j]
  BY <1>1, Indices DEF IndInv, TypeOK
<1> SUFFICES ASSUME NEW j \in Link PROVE Msg(j)'
  BY DEF MsgInv, Msg
<1>4. /\ MsgOK(up[j], down[j], pc[j], pc[j + 1], link[j], j + 1 \in acked)
      /\ up[j] \in Seq(Message) /\ down[j] \in Seq(Message)
      /\ (j + 1 \in acked) \in BOOLEAN
      /\ j \in Hop /\ j + 1 \in Hop /\ j \in Int /\ k \in Int
  BY LinkTypes, Indices DEF MsgInv
<1> SUFFICES MsgOK(up[j], down[j], pc'[j], pc'[j + 1], link'[j], j + 1 \in acked)
  BY <1>1 DEF Msg
<1>5. CASE j = k
  <2>1. k + 1 # k
    BY <1>4
  <2>2. pc'[j] = "request" /\ pc'[j + 1] = "receive" /\ link'[j] = "open"
    BY <1>3, <1>4, <1>5, <2>1
  <2>3. up[j] = << >> /\ down[j] = << >> /\ (j + 1 \in acked) = FALSE
    BY <1>2, <1>5
  <2> QED
    BY <2>2, <2>3, StreamOpened
<1>6. CASE j + 1 = k
  <2>1. j # k /\ j # k + 1 /\ k # k + 1
    BY <1>4, <1>6
  <2>2. pc'[j] = pc[j] /\ pc'[j + 1] = "request" /\ link'[j] = link[j]
    BY <1>3, <1>4, <1>6, <2>1
  <2>3. pc[j + 1] = "open" /\ j + 1 \notin acked
    BY <1>1, <1>2, <1>6
  <2>4. LowerMay(pc[j + 1], link[j], j + 1 \in acked, "request")
    BY <2>3 DEF LowerMay
  <2>5. MsgOK(up[j], down[j], pc[j], "request", link[j], j + 1 \in acked)
    BY <1>4, <2>4, LowerMoves
  <2> QED
    BY <2>2, <2>5
<1>7. CASE j = k + 1
  <2>1. j + 1 # k /\ j + 1 # k + 1 /\ j # k
    BY <1>4, <1>7
  <2>2. pc'[j] = "receive" /\ pc'[j + 1] = pc[j + 1] /\ link'[j] = link[j]
    BY <1>3, <1>4, <1>7, <2>1
  <2>3. UpperMay(up[j], pc[j], pc[j + 1], "receive")
    BY DEF UpperMay, Passed
  <2>4. MsgOK(up[j], down[j], "receive", pc[j + 1], link[j], j + 1 \in acked)
    BY <1>4, <2>3, UpperMoves
  <2> QED
    BY <2>2, <2>4
<1>8. CASE j # k /\ j + 1 # k /\ j # k + 1
  <2>1. j + 1 # k + 1
    BY <1>4, <1>8
  <2>2. pc'[j] = pc[j] /\ pc'[j + 1] = pc[j + 1] /\ link'[j] = link[j]
    BY <1>3, <1>4, <1>8, <2>1
  <2> QED
    BY <1>4, <2>2
<1> QED
  BY <1>5, <1>6, <1>7, <1>8

LEMMA SharedStepMsg ==
  ASSUME IndInv, MsgInv, NEW k \in Hop,
         \/ ResolveService(k) \/ CreateStream(k) \/ CreateStreamFails(k)
         \/ SendRequest(k) \/ ReceiveAck(k)
  PROVE  MsgInv'
<1>1. CASE ResolveService(k) \/ CreateStreamFails(k)
  BY <1>1, MoveOnMsg
<1>2. CASE CreateStream(k)
  BY <1>2, CreateStreamMsg
<1>3. CASE SendRequest(k)
  <2>1. k \in Link
    BY <1>3, Indices DEF SendRequest, IndInv, LastHopStops
  <2> QED
    BY <1>3, <2>1, SendRequestMsg
<1>4. CASE ReceiveAck(k)
  <2>1. k \in Link
    BY <1>4, Indices DEF ReceiveAck, IndInv, LastHopStops
  <2> QED
    BY <1>4, <2>1, ReceiveAckMsg
<1> QED
  BY <1>1, <1>2, <1>3, <1>4

LEMMA MsgNext == IndInv /\ MsgInv /\ [Next]_vars => MsgInv'
<1> SUFFICES ASSUME IndInv, MsgInv, [Next]_vars PROVE MsgInv'
  OBVIOUS
<1>1. 0 \in Hop /\ \A k \in Handler : k \in Hop
  BY Indices
<1>2. CASE SourceStep
  BY <1>1, <1>2, MoveOnMsg, SharedStepMsg DEF SourceStep
<1>3. ASSUME NEW k \in Handler, HandlerStep(k) PROVE MsgInv'
  <2>1. CASE ReceiveRequest(k)
    BY <2>1, ReceiveRequestMsg
  <2>2. CASE SendAck(k)
    BY <2>2, SendAckMsg
  <2>3. CASE DialService(k)
    BY <1>1, <2>3, MoveOnMsg
  <2> QED
    BY <1>1, <1>3, <2>1, <2>2, <2>3, SharedStepMsg DEF HandlerStep
<1>4. CASE DataStep
  <2>1. CASE SendDataDown(0) \/ ReceiveDataUp(0)
    BY <1>1, <2>1, DataDownMsg, DataUpMsg
  <2>2. ASSUME NEW k \in Handler,
               \/ SendDataDown(k) \/ SendDataUp(k)
               \/ ReceiveDataDown(k) \/ ReceiveDataUp(k)
        PROVE  MsgInv'
    BY <1>1, <2>2, DataDownMsg, DataUpMsg
  <2> QED
    BY <1>4, <2>1, <2>2 DEF DataStep
<1>5. CASE Failure
  BY <1>5, FailureMsg
<1>6. CASE UNCHANGED vars
  BY <1>6 DEF vars, MsgInv
<1> QED
  BY <1>2, <1>3, <1>4, <1>5, <1>6 DEF Next

LEMMA MsgInit == Init => MsgInv
<1>1. Len(<< >>) = 0
  OBVIOUS
<1>2. ASSUME Init, NEW k \in Link
      PROVE  /\ up[k] = << >> /\ down[k] = << >> /\ link[k] = "none"
             /\ pc[k] \in {"start", "none"} /\ pc[k + 1] = "none"
             /\ k + 1 \notin acked
  BY <1>2, Indices DEF Init
<1> QED
  BY <1>1, <1>2 DEF MsgInv, MsgOK, Passed, Done

\* receiveSetupRequest, receiveSetupACK and receiveData never meet a message of
\* another type, whatever breaks in between: in a stream the request comes
\* first downwards and the ACK first upwards, once each, and a hop that goes on
\* with a broken stream cannot put data where an ACK is expected.
THEOREM MessagesAreExpected == Spec => []NoUnexpectedMessage
<1>1. Init => MsgInv
  BY MsgInit
<1>2. IndInv /\ MsgInv => NoUnexpectedMessage
  <2> SUFFICES ASSUME IndInv, MsgInv, NEW k \in Link
               PROVE  /\ up[k] # << >> =>
                           CASE pc[k] = "wait"              -> Head(up[k]) = "ack"
                             [] pc[k] \in {"run", "tunnel"} -> Head(up[k]) = "data"
                             [] OTHER                       -> Head(up[k]) # "request"
                      /\ down[k] # << >> =>
                           CASE pc[k + 1] = "receive" -> Head(down[k]) = "request"
                             [] OTHER                 -> Head(down[k]) = "data"
    BY DEF NoUnexpectedMessage
  <2>1. /\ MsgOK(up[k], down[k], pc[k], pc[k + 1], link[k], k + 1 \in acked)
        /\ up[k] \in Seq(Message) /\ down[k] \in Seq(Message)
    BY LinkTypes DEF MsgInv
  <2>2. ASSUME up[k] # << >>
        PROVE  /\ Head(up[k]) \in {"ack", "data"}
               /\ pc[k] = "wait" => Head(up[k]) = "ack"
               /\ pc[k] \in {"run", "tunnel"} => Head(up[k]) = "data"
    <3>1. Head(up[k]) = up[k][1] /\ 1 \in 1 .. Len(up[k])
      BY <2>1, <2>2, QueueFacts
    <3> QED
      BY <2>1, <2>2, <3>1 DEF MsgOK, Passed
  <2>3. ASSUME down[k] # << >>
        PROVE  IF pc[k + 1] = "receive" THEN Head(down[k]) = "request"
                                        ELSE Head(down[k]) = "data"
    <3>1. Head(down[k]) = down[k][1] /\ 1 \in 1 .. Len(down[k])
      BY <2>1, <2>3, QueueFacts
    <3> QED
      BY <2>1, <2>3, <3>1 DEF MsgOK
  <2> QED
    BY <2>2, <2>3
<1> QED
  BY <1>1, <1>2, InitInd, NextInd, MsgNext, PTL DEF Spec

----------------------------------------------------------------------------
(***************************************************************************)
(* The scan.  Scan is defined by a recursive function, which TLA+ takes to *)
(* be some function that satisfies the recursion.  That there is one, and  *)
(* what its last value says of the specification, is shown by looking at   *)
(* the smallest number of tokens for which it would fail.                  *)
(***************************************************************************)

\* A set of numbers has a smallest one.
LEMMA Least ==
  ASSUME NEW T \in SUBSET Nat, T # {}
  PROVE  \E x \in T : \A y \in T : x <= y
<1> DEFINE R == OpToRel(<, Nat)
<1>1. IsWellFoundedOn(R, Nat)
  BY NatLessThanWellFounded
<1>2. \A x, y \in Nat : x < y => <<x, y>> \in R
  BY DEF OpToRel
<1> HIDE DEF R
<1>3. PICK x \in T : \A y \in T : ~ (<<y, x>> \in R)
  BY <1>1, WFMin, Zenon
<1>4. x \in Nat /\ \A y \in T : y \in Nat /\ ~ (y < x)
  BY <1>2, <1>3
<1>5. \A y \in T : x <= y
  BY <1>4
<1> QED
  BY <1>5

\* f holds the variables of the loop after each of the first n tokens.
ScanRun(f, s, me, n) ==
  f = [k \in 0 .. n |->
         IF k = 0 THEN ScanStart ELSE ScanToken(f[k - 1], s[k], me)]

LEMMA ScanExists ==
  ASSUME NEW s, NEW me, NEW n \in Nat
  PROVE  \E f : ScanRun(f, s, me, n)
<1> DEFINE T == { m \in Nat : ~ \E f : ScanRun(f, s, me, m) }
<1>1. SUFFICES ASSUME T # {} PROVE FALSE
  OBVIOUS
<1>2. PICK m \in T : \A y \in T : m <= y
  BY <1>1, Least
<1>3. m \in Nat /\ ~ \E f : ScanRun(f, s, me, m)
  OBVIOUS
<1>4. CASE m = 0
  <2> DEFINE f == [k \in 0 .. 0 |-> ScanStart]
  <2>1. ScanRun(f, s, me, 0)
    BY DEF ScanRun
  <2> QED
    BY <1>3, <1>4, <2>1
<1>5. CASE m # 0
  <2>1. m - 1 \in Nat /\ ~ (m <= m - 1)
    BY <1>3, <1>5
  <2>2. PICK g : ScanRun(g, s, me, m - 1)
    BY <1>2, <2>1
  <2> DEFINE f == [k \in 0 .. m |->
                     IF k = m THEN ScanToken(g[m - 1], s[m], me) ELSE g[k]]
             h == [k \in 0 .. m |->
                     IF k = 0 THEN ScanStart ELSE ScanToken(f[k - 1], s[k], me)]
  <2>3. \A k \in 0 .. m - 1 :
          g[k] = IF k = 0 THEN ScanStart ELSE ScanToken(g[k - 1], s[k], me)
    BY <2>2 DEF ScanRun
  <2>4. \A k \in 0 .. m : f[k] = h[k]
    <3>1. \A k \in 0 .. m - 1 : f[k] = g[k]
      BY <2>1
    <3> SUFFICES ASSUME NEW k \in 0 .. m
                 PROVE  f[k] = h[k]
      OBVIOUS
    <3>2. CASE k = m
      BY <1>5, <2>1, <3>1, <3>2
    <3>3. CASE k # m /\ k # 0
      <4>1. k \in 0 .. m - 1 /\ k - 1 \in 0 .. m - 1
        BY <2>1, <3>3
      <4>2. f[k - 1] = g[k - 1] /\ f[k] = g[k]
        BY <3>1, <4>1
      <4>3. g[k] = ScanToken(g[k - 1], s[k], me)
        BY <2>3, <3>3, <4>1
      <4>4. h[k] = ScanToken(f[k - 1], s[k], me)
        BY <3>3
      <4> QED
        BY <4>2, <4>3, <4>4
    <3>4. CASE k = 0
      BY <1>5, <2>1, <2>3, <3>1, <3>4
    <3> QED
      BY <3>2, <3>3, <3>4
  <2>5. f = h
    <3> HIDE DEF h, f
    <3>1. f = [k \in 0 .. m |-> f[k]] /\ h = [k \in 0 .. m |-> h[k]]
      BY DEF f, h
    <3> QED
      BY <2>4, <3>1
  <2>6. ScanRun(f, s, me, m)
    BY <2>5 DEF ScanRun
  <2> QED
    BY <1>3, <2>6
<1> QED
  BY <1>4, <1>5

\* Scan is the last value of such an f.
LEMMA ScanIs ==
  ASSUME NEW s \in Seq(Service \cup Proto), NEW me
  PROVE  \E f : ScanRun(f, s, me, Len(s)) /\ Scan(s, me) = f[Len(s)]
<1> DEFINE g == CHOOSE f : ScanRun(f, s, me, Len(s))
<1>1. \E f : ScanRun(f, s, me, Len(s))
  <2>1. Len(s) \in Nat
    OBVIOUS
  <2> QED
    BY <2>1, ScanExists, Zenon
<1>2. ScanRun(g, s, me, Len(s))
  BY <1>1
<1>3. Scan(s, me) = g[Len(s)]
  BY Zenon DEF Scan, ScanRun
<1> QED
  BY <1>2, <1>3

\* p is the protocol in force after the first k tokens.
ProtoAfter(s, k, p) ==
  \/ p = None /\ \A i \in 1 .. k : s[i] \notin Proto
  \/ \E i \in 1 .. k : /\ s[i] \in Proto /\ p = s[i]
                       /\ \A h \in i + 1 .. k : s[h] \notin Proto

\* x is the first service after token j, as far as the first k tokens tell.
ServiceAfter(s, j, k, x) ==
  \/ x = None /\ \A i \in j + 1 .. k : s[i] \notin Service
  \/ \E i \in j + 1 .. k : /\ s[i] \in Service /\ x = s[i]
                           /\ \A h \in j + 1 .. i - 1 : s[h] \notin Service

\* The variables of the loop after k tokens, at the service of token j: before
\* token j, and from there on.
Before(st, s, k) ==
  \E p : /\ ProtoAfter(s, k, p)
         /\ st = [tpProto |-> p, foundMe |-> FALSE, tpProtoThis |-> None,
                  nextServ |-> None]

Since(st, s, j, k) ==
  \E p, q, x :
    /\ ProtoAfter(s, j, q) /\ ServiceAfter(s, j, k, x)
    /\ st = [tpProto |-> p, foundMe |-> TRUE, tpProtoThis |-> q, nextServ |-> x]

LEMMA ProtoStep ==
  ASSUME NEW s, NEW k \in Nat, NEW p, ProtoAfter(s, k, p)
  PROVE  /\ s[k + 1] \in Proto => ProtoAfter(s, k + 1, s[k + 1])
         /\ s[k + 1] \notin Proto => ProtoAfter(s, k + 1, p)
<1>1. ASSUME s[k + 1] \in Proto PROVE ProtoAfter(s, k + 1, s[k + 1])
  BY <1>1 DEF ProtoAfter
<1>2. ASSUME s[k + 1] \notin Proto PROVE ProtoAfter(s, k + 1, p)
  <2>1. CASE p = None /\ \A i \in 1 .. k : s[i] \notin Proto
    BY <1>2, <2>1 DEF ProtoAfter
  <2>2. CASE \E i \in 1 .. k : /\ s[i] \in Proto /\ p = s[i]
                               /\ \A h \in i + 1 .. k : s[h] \notin Proto
    <3>1. PICK i \in 1 .. k : /\ s[i] \in Proto /\ p = s[i]
                              /\ \A h \in i + 1 .. k : s[h] \notin Proto
      BY <2>2
    <3>2. i \in 1 .. k + 1 /\ \A h \in i + 1 .. k + 1 : s[h] \notin Proto
      BY <1>2, <3>1
    <3> QED
      BY <3>1, <3>2 DEF ProtoAfter
  <2> QED
    BY <2>1, <2>2 DEF ProtoAfter
<1> QED
  BY <1>1, <1>2

LEMMA ServiceStep ==
  ASSUME NEW s, NEW j \in Nat, NEW k \in Nat, j <= k, NEW x, ServiceAfter(s, j, k, x)
  PROVE  /\ x # None => ServiceAfter(s, j, k + 1, x)
         /\ s[k + 1] \notin Service => ServiceAfter(s, j, k + 1, x)
         /\ x = None /\ s[k + 1] \in Service => ServiceAfter(s, j, k + 1, s[k + 1])
<1>1. CASE x = None /\ \A i \in j + 1 .. k : s[i] \notin Service
  BY <1>1 DEF ServiceAfter
<1>2. CASE x # None
  <2>1. PICK i \in j + 1 .. k : /\ s[i] \in Service /\ x = s[i]
                                /\ \A h \in j + 1 .. i - 1 : s[h] \notin Service
    BY <1>2 DEF ServiceAfter
  <2>2. i \in j + 1 .. k + 1
    BY <2>1
  <2>3. ServiceAfter(s, j, k + 1, x)
    BY <2>1, <2>2 DEF ServiceAfter
  <2> QED
    BY <1>2, <2>3
<1>3. CASE x = None /\ ~ \A i \in j + 1 .. k : s[i] \notin Service
  BY <1>3, TokenAssumption DEF ServiceAfter
<1> QED
  BY <1>1, <1>2, <1>3

\* One iteration before the hop's own service, at it, and after it.
LEMMA BeforeStep ==
  ASSUME NEW s, NEW me, NEW k \in Nat, NEW st, Before(st, s, k), s[k + 1] # me
  PROVE  Before(ScanToken(st, s[k + 1], me), s, k + 1)
<1>1. PICK p : /\ ProtoAfter(s, k, p)
               /\ st = [tpProto |-> p, foundMe |-> FALSE, tpProtoThis |-> None,
                        nextServ |-> None]
  BY DEF Before
<1>2. CASE s[k + 1] \in Proto
  <2>1. ScanToken(st, s[k + 1], me) =
          [tpProto |-> s[k + 1], foundMe |-> FALSE, tpProtoThis |-> None,
           nextServ |-> None]
    BY <1>1, <1>2 DEF ScanToken
  <2>2. ProtoAfter(s, k + 1, s[k + 1])
    BY <1>1, <1>2, ProtoStep
  <2> QED
    BY <2>1, <2>2 DEF Before
<1>3. CASE s[k + 1] \notin Proto
  <2>1. ScanToken(st, s[k + 1], me) = st
    BY <1>1, <1>3 DEF ScanToken
  <2>2. ProtoAfter(s, k + 1, p)
    BY <1>1, <1>3, ProtoStep
  <2> QED
    BY <1>1, <2>1, <2>2 DEF Before
<1> QED
  BY <1>2, <1>3

LEMMA FoundStep ==
  ASSUME NEW s, NEW me \in Service, NEW k \in Nat, NEW st, Before(st, s, k),
         s[k + 1] = me
  PROVE  Since(ScanToken(st, s[k + 1], me), s, k + 1, k + 1)
<1>1. PICK p : /\ ProtoAfter(s, k, p)
               /\ st = [tpProto |-> p, foundMe |-> FALSE, tpProtoThis |-> None,
                        nextServ |-> None]
  BY DEF Before
<1>2. s[k + 1] \notin Proto
  BY TokenAssumption
<1>3. ScanToken(st, s[k + 1], me) =
        [tpProto |-> p, foundMe |-> TRUE, tpProtoThis |-> p, nextServ |-> None]
  BY <1>1, <1>2 DEF ScanToken
<1>4. ProtoAfter(s, k + 1, p)
  BY <1>1, <1>2, ProtoStep
<1>5. ServiceAfter(s, k + 1, k + 1, None)
  BY DEF ServiceAfter
<1> QED
  BY <1>3, <1>4, <1>5 DEF Since

LEMMA SinceStep ==
  ASSUME NEW s, NEW me, NEW j \in Nat, NEW k \in Nat, j <= k, NEW st,
         Since(st, s, j, k), s[k + 1] # me, s[k + 1] \in Service \cup Proto
  PROVE  Since(ScanToken(st, s[k + 1], me), s, j, k + 1)
<1>1. PICK p, q, x :
        /\ ProtoAfter(s, j, q) /\ ServiceAfter(s, j, k, x)
        /\ st = [tpProto |-> p, foundMe |-> TRUE, tpProtoThis |-> q, nextServ |-> x]
  BY DEF Since
<1>2. CASE x # None
  <2>1. ScanToken(st, s[k + 1], me) = st
    BY <1>1, <1>2 DEF ScanToken
  <2>2. ServiceAfter(s, j, k + 1, x)
    BY <1>1, <1>2, ServiceStep
  <2> QED
    BY <1>1, <2>1, <2>2 DEF Since
<1>3. CASE x = None /\ s[k + 1] \in Proto
  <2>1. ScanToken(st, s[k + 1], me) =
          [tpProto |-> s[k + 1], foundMe |-> TRUE, tpProtoThis |-> q, nextServ |-> x]
    BY <1>1, <1>3 DEF ScanToken
  <2>2. s[k + 1] \notin Service
    BY <1>3, TokenAssumption
  <2>3. ServiceAfter(s, j, k + 1, x)
    BY <1>1, <2>2, ServiceStep
  <2> QED
    BY <1>1, <2>1, <2>3 DEF Since
<1>4. CASE x = None /\ s[k + 1] \in Service
  <2>1. s[k + 1] \notin Proto
    BY <1>4, TokenAssumption
  <2>2. ScanToken(st, s[k + 1], me) =
          [tpProto |-> p, foundMe |-> TRUE, tpProtoThis |-> q, nextServ |-> s[k + 1]]
    BY <1>1, <1>4, <2>1 DEF ScanToken
  <2>3. ServiceAfter(s, j, k + 1, s[k + 1])
    BY <1>1, <1>4, ServiceStep
  <2> QED
    BY <1>1, <2>2, <2>3 DEF Since
<1> QED
  BY <1>2, <1>3, <1>4

\* What the loop knows after k tokens, at the service of token j.
Scanned(st, s, j, k) == IF k < j THEN Before(st, s, k) ELSE Since(st, s, j, k)

LEMMA ScannedStep ==
  ASSUME NEW s \in Seq(Service \cup Proto), OneOfEach(s), NEW j \in 1 .. Len(s),
         s[j] \in Service, NEW k \in 0 .. Len(s) - 1, NEW st, Scanned(st, s, j, k)
  PROVE  Scanned(ScanToken(st, s[k + 1], s[j]), s, j, k + 1)
<1>1. Len(s) \in Nat /\ j \in Nat /\ k \in Nat /\ k + 1 \in 1 .. Len(s)
  OBVIOUS
<1>2. s[k + 1] \in Service \cup Proto
  BY <1>1
<1>3. k + 1 # j => s[k + 1] # s[j]
  BY <1>1 DEF OneOfEach
<1>4. CASE k + 1 < j
  <2>1. Before(st, s, k)
    BY <1>1, <1>4 DEF Scanned
  <2>2. s[k + 1] # s[j]
    BY <1>1, <1>3, <1>4
  <2>3. Before(ScanToken(st, s[k + 1], s[j]), s, k + 1)
    BY <1>1, <2>1, <2>2, BeforeStep, Zenon
  <2> QED
    BY <1>4, <2>3 DEF Scanned
<1>5. CASE k + 1 = j
  <2>1. Before(st, s, k)
    BY <1>1, <1>5 DEF Scanned
  <2>2. Since(ScanToken(st, s[k + 1], s[j]), s, k + 1, k + 1)
    BY <1>1, <1>5, <2>1, FoundStep
  <2> QED
    BY <1>1, <1>5, <2>2 DEF Scanned
<1>6. CASE j <= k
  <2>1. Since(st, s, j, k)
    BY <1>1, <1>6 DEF Scanned
  <2>2. k + 1 # j /\ ~ (k + 1 < j)
    BY <1>1, <1>6
  <2>3. Since(ScanToken(st, s[k + 1], s[j]), s, j, k + 1)
    BY <1>1, <1>2, <1>3, <1>6, <2>1, <2>2, SinceStep
  <2> QED
    BY <2>2, <2>3 DEF Scanned
<1> QED
  BY <1>1, <1>4, <1>5, <1>6

\* The scan at the service of token j finds it, and returns the protocol in
\* force there and the next service.
LEMMA ScanMeans ==
  ASSUME NEW s \in Seq(Service \cup Proto), OneOfEach(s), NEW j \in 1 .. Len(s),
         s[j] \in Service
  PROVE  /\ Scan(s, s[j]).foundMe
         /\ ProtoAfter(s, j, Scan(s, s[j]).tpProtoThis)
         /\ ServiceAfter(s, j, Len(s), Scan(s, s[j]).nextServ)
<1>1. PICK f : ScanRun(f, s, s[j], Len(s)) /\ Scan(s, s[j]) = f[Len(s)]
  BY ScanIs
<1>2. Len(s) \in Nat /\ j \in Nat /\ 0 \in 0 .. Len(s) /\ Len(s) \in 0 .. Len(s)
  OBVIOUS
<1>3. \A k \in 0 .. Len(s) :
        f[k] = IF k = 0 THEN ScanStart ELSE ScanToken(f[k - 1], s[k], s[j])
  BY <1>1 DEF ScanRun
<1> DEFINE T == { k \in 0 .. Len(s) : ~ Scanned(f[k], s, j, k) }
<1>4. T = {}
  <2>1. SUFFICES ASSUME T # {} PROVE FALSE
    OBVIOUS
  <2>2. PICK m \in T : \A y \in T : m <= y
    <3>1. T \in SUBSET Nat
      BY <1>2
    <3> HIDE DEF T
    <3> QED
      BY <2>1, <3>1, Least
  <2>3. m \in 0 .. Len(s) /\ ~ Scanned(f[m], s, j, m)
    OBVIOUS
  <2>4. CASE m = 0
    <3>1. f[0] = ScanStart
      BY <1>2, <1>3
    <3>2. ProtoAfter(s, 0, None)
      BY DEF ProtoAfter
    <3>3. Before(ScanStart, s, 0)
      BY <3>2 DEF Before, ScanStart
    <3> QED
      BY <2>3, <2>4, <3>1, <3>3 DEF Scanned
  <2>5. CASE m # 0
    <3>1. /\ m - 1 \in 0 .. Len(s) - 1 /\ m - 1 \in 0 .. Len(s)
          /\ ~ (m <= m - 1) /\ (m - 1) + 1 = m
      BY <1>2, <2>3, <2>5
    <3>2. Scanned(f[m - 1], s, j, m - 1)
      BY <2>2, <3>1
    <3>3. Scanned(ScanToken(f[m - 1], s[(m - 1) + 1], s[j]), s, j, (m - 1) + 1)
      BY <3>1, <3>2, ScannedStep
    <3>4. f[m] = ScanToken(f[m - 1], s[m], s[j])
      BY <1>3, <2>3, <2>5
    <3> QED
      BY <2>3, <3>1, <3>3, <3>4
  <2> QED
    BY <2>4, <2>5
<1>5. Scanned(f[Len(s)], s, j, Len(s))
  BY <1>2, <1>4
<1>6. Since(Scan(s, s[j]), s, j, Len(s))
  BY <1>1, <1>2, <1>5 DEF Scanned
<1> QED
  BY <1>6 DEF Since

\* With a protocol as first token, the protocol in force at a service is the
\* one the specification gives it.
LEMMA ProtoMeans ==
  ASSUME NEW s \in Seq(Service \cup Proto), OneOfEach(s), NEW j \in 1 .. Len(s),
         s[j] \in Service, s[1] \in Proto, NEW p, ProtoAfter(s, j, p)
  PROVE  p = ProtoIn(s, s[j])
<1> DEFINE here == CHOOSE k \in 1 .. Len(s) : s[k] = s[j]
           before == { k \in 1 .. here : s[k] \in Proto }
<1>1. here = j
  <2>1. \A k \in 1 .. Len(s) : s[k] = s[j] => k = j
    BY DEF OneOfEach
  <2>2. here \in 1 .. Len(s) /\ s[here] = s[j]
    OBVIOUS
  <2> QED
    BY <2>1, <2>2
<1>2. Len(s) \in Nat /\ j \in Nat /\ 1 \in 1 .. j
  OBVIOUS
<1>3. PICK i \in 1 .. j : /\ s[i] \in Proto /\ p = s[i]
                          /\ \A h \in i + 1 .. j : s[h] \notin Proto
  BY <1>2 DEF ProtoAfter
<1>4. before = { k \in 1 .. j : s[k] \in Proto }
  BY <1>1
<1>5. i \in before /\ \A k \in before : k <= i /\ k \in Nat
  BY <1>2, <1>3, <1>4
<1>6. ProtoIn(s, s[j]) = s[CHOOSE k \in before : \A h \in before : h <= k]
  BY Zenon DEF ProtoIn
<1> HIDE DEF before
<1>7. (CHOOSE k \in before : \A h \in before : h <= k) = i
  <2> DEFINE m == CHOOSE k \in before : \A h \in before : h <= k
  <2>1. m \in before /\ \A h \in before : h <= m
    BY <1>5
  <2> HIDE DEF m
  <2>2. m = i
    BY <1>5, <2>1
  <2> QED
    BY <2>2 DEF m
<1> QED
  BY <1>3, <1>6, <1>7

\* The next service is one service further.
LEMMA NextCount ==
  ASSUME NEW s, NEW j \in Nat, NEW i \in Nat, j < i, s[i] \in Service,
         \A h \in j + 1 .. i - 1 : s[h] \notin Service
  PROVE  /\ Cardinality(ServicesUpTo(s, j)) \in Nat
         /\ Cardinality(ServicesUpTo(s, i)) = Cardinality(ServicesUpTo(s, j)) + 1
<1>1. IsFiniteSet(ServicesUpTo(s, j))
  <2>1. IsFiniteSet(1 .. j)
    BY FS_Interval
  <2>2. ServicesUpTo(s, j) \subseteq 1 .. j
    BY DEF ServicesUpTo
  <2> QED
    BY <2>1, <2>2, FS_Subset
<1>2. ServicesUpTo(s, i) = ServicesUpTo(s, j) \cup {i}
  BY DEF ServicesUpTo
<1>3. i \notin ServicesUpTo(s, j)
  BY DEF ServicesUpTo
<1> QED
  BY <1>1, <1>2, <1>3, FS_AddElement, FS_CardinalityType

----------------------------------------------------------------------------
(* The path of the request.                                                *)

\* Token n names the k-th service.
KthService(s, n, k) ==
  n \in 1 .. Len(s) /\ s[n] \in Service /\ Cardinality(ServicesUpTo(s, n)) = k

\* Hop k runs at the k-th service.  To carry it through CreateStream one needs
\* that the hop that opens a stream has a place itself, and that setupChain
\* has checked the specification before there is any hop.
PathInv ==
  /\ \A k \in Handler : at[k] # None =>
       \E n \in 1 .. Len(spec) : spec[n] = at[k] /\ KthService(spec, n, k)
  /\ \A k \in Handler : pc[k] # "none" => at[k] # None
  /\ \A k \in Handler : at[k] # None => Len(spec) >= 2 /\ spec[1] \in Proto
  /\ pc[0] \notin {"start", "failed"} => Len(spec) >= 2 /\ spec[1] \in Proto

LEMMA PathInit == Init => PathInv
<1> SUFFICES ASSUME Init PROVE PathInv
  OBVIOUS
<1>1. \A k \in Handler : k \in Hop /\ k # 0
  BY Indices
<1>2. \A k \in Handler : at[k] = None /\ pc[k] = "none"
  BY <1>1 DEF Init
<1>3. pc[0] = "start"
  BY Indices DEF Init
<1> QED
  BY <1>2, <1>3 DEF PathInv

\* A step that starts no hop.
LEMMA PathKept ==
  ASSUME PathInv, UNCHANGED <<spec, at>>,
         \A k \in Handler : pc'[k] # "none" => pc[k] # "none",
         pc'[0] \notin {"start", "failed"} =>
           pc[0] \notin {"start", "failed"} \/ (Len(spec) >= 2 /\ spec[1] \in Proto)
  PROVE  PathInv'
BY DEF PathInv

\* A step that moves one hop which is running already.
MovesHop(k) ==
  /\ UNCHANGED <<spec, at>>
  /\ pc[k] \notin {"none", "start", "run", "failed"}
  /\ \A j \in Hop : j # k => pc'[j] = pc[j]

LEMMA MovesHopPath ==
  ASSUME IndInv, PathInv, NEW k \in Hop, MovesHop(k)
  PROVE  PathInv'
<1>1. 0 \in Hop /\ \A j \in Handler : j \in Hop
  BY Indices
<1>2. \A j \in Handler : pc'[j] # "none" => pc[j] # "none"
  BY <1>1 DEF MovesHop
<1>3. pc'[0] \notin {"start", "failed"} => pc[0] \notin {"start", "failed"}
  BY <1>1 DEF MovesHop
<1>4. UNCHANGED <<spec, at>>
  BY DEF MovesHop
<1> QED
  BY <1>2, <1>3, <1>4, PathKept

LEMMA MovesOne ==
  ASSUME IndInv, NEW k \in Hop,
         \/ ResolveService(k) \/ CreateStreamFails(k)
         \/ SendRequest(k) \/ ReceiveAck(k)
         \/ ReceiveRequest(k) \/ SendAck(k) \/ DialService(k)
  PROVE  MovesHop(k)
<1>1. pc = [j \in Hop |-> pc[j]]
  BY DEF IndInv, TypeOK
<1>2. UNCHANGED <<spec, at>> /\ pc[k] \notin {"none", "start", "run", "failed"}
  BY DEF ResolveService, CreateStreamFails, SendRequest, ReceiveAck,
     ReceiveRequest, SendAck, DialService
<1>3. \E x : pc' = [pc EXCEPT ![k] = x]
  <2>1. CASE ResolveService(k)
    BY <2>1 DEF ResolveService
  <2>2. CASE CreateStreamFails(k)
    BY <2>2 DEF CreateStreamFails
  <2>3. CASE SendRequest(k)
    BY <2>3 DEF SendRequest
  <2>4. CASE ReceiveAck(k)
    BY <2>4, Zenon DEF ReceiveAck
  <2>5. CASE ReceiveRequest(k)
    BY <2>5, Zenon DEF ReceiveRequest
  <2>6. CASE SendAck(k)
    BY <2>6 DEF SendAck
  <2>7. CASE DialService(k)
    BY <2>7 DEF DialService
  <2> QED
    BY <2>1, <2>2, <2>3, <2>4, <2>5, <2>6, <2>7
<1>4. PICK x : pc' = [pc EXCEPT ![k] = x]
  BY <1>3
<1>5. \A j \in Hop : j # k => pc'[j] = pc[j]
  BY <1>1, <1>4
<1> QED
  BY <1>2, <1>5 DEF MovesHop

\* The service for which a hop opens its stream is the one after its own.
LEMMA TargetPlace ==
  ASSUME IndInv, PathInv, OneOfEach(spec), NEW k \in Hop, pc[k] = "open"
  PROVE  \E n \in 1 .. Len(spec) :
           spec[n] = Target(k) /\ KthService(spec, n, k + 1)
<1>1. /\ spec \in Seq(Service \cup Proto) /\ Target(k) \in Service
      /\ Len(spec) \in Nat
  BY TokenAssumption DEF IndInv, TypeOK, TargetKnown
<1>2. CASE k = 0
  <2>1. /\ Len(spec) >= 2 /\ spec[1] \in Proto /\ spec[2] = Target(0)
        /\ spec[2] \in Service
    BY <1>1, <1>2 DEF PathInv, Target
  <2>2. spec[1] \notin Service
    BY <2>1, TokenAssumption
  <2>3. \A h \in 0 + 1 .. 2 - 1 : spec[h] \notin Service
    BY <2>2
  <2>4. Cardinality(ServicesUpTo(spec, 2)) = Cardinality(ServicesUpTo(spec, 0)) + 1
    BY <2>1, <2>3, NextCount
  <2>5. Cardinality(ServicesUpTo(spec, 0)) = 0
    <3>1. ServicesUpTo(spec, 0) = {}
      BY DEF ServicesUpTo
    <3> QED
      BY <3>1, FS_EmptySet
  <2>6. 2 \in 1 .. Len(spec)
    BY <1>1, <2>1
  <2> QED
    BY <1>2, <2>1, <2>4, <2>5, <2>6 DEF KthService
<1>3. CASE k # 0
  <2>1. k \in Handler /\ k \in Nat
    BY <1>3, Indices
  <2>2. PICK n \in 1 .. Len(spec) : spec[n] = at[k] /\ KthService(spec, n, k)
    BY <2>1 DEF PathInv
  <2>3. ServiceAfter(spec, n, Len(spec), Scan(spec, spec[n]).nextServ)
    BY <1>1, <2>2, ScanMeans DEF KthService
  <2>4. Scan(spec, spec[n]).nextServ = Target(k) /\ Target(k) # None
    BY <1>1, <1>3, <2>2, TokenAssumption DEF Target, NextServ
  <2>5. PICK i \in n + 1 .. Len(spec) :
          /\ spec[i] \in Service /\ Target(k) = spec[i]
          /\ \A h \in n + 1 .. i - 1 : spec[h] \notin Service
    BY <2>3, <2>4 DEF ServiceAfter
  <2>6. i \in Nat /\ n \in Nat /\ n < i /\ i \in 1 .. Len(spec)
    BY <1>1, <2>5
  <2>7. Cardinality(ServicesUpTo(spec, i)) = Cardinality(ServicesUpTo(spec, n)) + 1
    BY <2>5, <2>6, NextCount
  <2> QED
    BY <2>2, <2>5, <2>6, <2>7 DEF KthService
<1> QED
  BY <1>2, <1>3

LEMMA CreateStreamPath ==
  ASSUME IndInv, PathInv, OneOfEach(spec), NEW k \in Hop, CreateStream(k)
  PROVE  PathInv'
<1>1. /\ spec' = spec /\ pc[k] = "open" /\ k + 1 \in Handler /\ k \in Nat
      /\ pc' = [pc EXCEPT ![k] = "request", ![k + 1] = "receive"]
      /\ at' = [at EXCEPT ![k + 1] = Target(k)]
      /\ \A j \in Handler : j \in Hop
      /\ 0 \in Hop /\ 0 # k + 1
  BY Indices DEF CreateStream
<1>2. PICK n \in 1 .. Len(spec) : spec[n] = Target(k) /\ KthService(spec, n, k + 1)
  BY <1>1, TargetPlace
<1>3. /\ \A j \in Hop : at'[j] = IF j = k + 1 THEN Target(k) ELSE at[j]
      /\ \A j \in Hop : pc'[j] = IF j = k + 1 THEN "receive"
                                 ELSE IF j = k THEN "request" ELSE pc[j]
  BY <1>1 DEF IndInv, TypeOK
<1>4. Target(k) # None
  BY <1>1, TokenAssumption DEF IndInv, TargetKnown
<1>5. Len(spec) >= 2 /\ spec[1] \in Proto
  <2>1. CASE k = 0
    BY <1>1, <2>1 DEF PathInv
  <2>2. CASE k # 0
    <3>1. k \in Handler
      BY <2>2, Indices
    <3> QED
      BY <1>1, <3>1 DEF PathInv
  <2> QED
    BY <2>1, <2>2
<1>6. ASSUME NEW j \in Handler, at'[j] # None
      PROVE  \E m \in 1 .. Len(spec) : spec[m] = at'[j] /\ KthService(spec, m, j)
  <2>1. CASE j = k + 1
    BY <1>1, <1>2, <1>3, <2>1
  <2>2. CASE j # k + 1
    BY <1>1, <1>3, <1>6, <2>2 DEF PathInv
  <2> QED
    BY <2>1, <2>2
<1>7. ASSUME NEW j \in Handler, pc'[j] # "none" PROVE at'[j] # None
  <2>1. CASE j = k + 1
    BY <1>1, <1>3, <1>4, <2>1
  <2>2. CASE j # k + 1
    <3>1. pc[j] # "none"
      BY <1>1, <1>3, <1>7, <2>2
    <3> QED
      BY <1>1, <1>3, <2>2, <3>1 DEF PathInv
  <2> QED
    BY <2>1, <2>2
<1> QED
  BY <1>1, <1>5, <1>6, <1>7 DEF PathInv

LEMMA PathNext ==
  ASSUME IndInv, PathInv, OneOfEach(spec), [Next]_vars
  PROVE  PathInv'
<1>1. 0 \in Hop /\ \A k \in Handler : k \in Hop
  BY Indices
<1>2. CASE SourceStep
  <2>1. CASE SetupChain
    <3>1. pc'[0] # "failed" => Len(spec) >= 2 /\ spec[1] \in Proto
      <4>1. /\ pc = [j \in Hop |-> pc[j]]
            /\ pc' = [pc EXCEPT ![0] = IF Len(spec) < 2 \/ spec[1] \notin Proto
                                       THEN "failed" ELSE "resolve"]
        BY <2>1 DEF SetupChain, IndInv, TypeOK
      <4>2. Len(spec) \in Nat
        BY TokenAssumption DEF IndInv, TypeOK
      <4> QED
        BY <1>1, <4>1, <4>2
    <3>2. \A k \in Handler : pc'[k] = pc[k]
      BY <1>1, <2>1, Indices DEF SetupChain, IndInv, TypeOK
    <3>3. UNCHANGED <<spec, at>>
      BY <2>1 DEF SetupChain
    <3> QED
      BY <3>1, <3>2, <3>3, PathKept
  <2>2. CASE CreateStream(0)
    BY <1>1, <2>2, CreateStreamPath
  <2>3. CASE \/ ResolveService(0) \/ CreateStreamFails(0)
             \/ SendRequest(0) \/ ReceiveAck(0)
    <3>1. MovesHop(0)
      BY <1>1, <2>3, MovesOne
    <3> QED
      BY <1>1, <3>1, MovesHopPath
  <2> QED
    BY <1>2, <2>1, <2>2, <2>3 DEF SourceStep
<1>3. ASSUME NEW k \in Handler, HandlerStep(k) PROVE PathInv'
  <2>1. CASE CreateStream(k)
    BY <1>1, <2>1, CreateStreamPath
  <2>2. CASE ~ CreateStream(k)
    <3>1. MovesHop(k)
      BY <1>1, <1>3, <2>2, MovesOne DEF HandlerStep
    <3> QED
      BY <1>1, <3>1, MovesHopPath
  <2> QED
    BY <2>1, <2>2
<1>4. CASE DataStep \/ Failure \/ UNCHANGED vars
  <2>1. UNCHANGED <<spec, at, pc>>
    BY <1>4 DEF DataStep, SendDataDown, SendDataUp, ReceiveDataDown,
       ReceiveDataUp, Failure, MonitorFires, ConnFails, vars
  <2> QED
    BY <2>1, PathKept
<1> QED
  BY <1>2, <1>3, <1>4 DEF Next

\* The nearest service before a service.
LEMMA ServiceBefore ==
  ASSUME NEW s, NEW m \in Nat, NEW j \in 1 .. m - 1, s[j] \in Service
  PROVE  \E i \in 1 .. m - 1 :
           s[i] \in Service /\ \A h \in i + 1 .. m - 1 : s[h] \notin Service
<1> DEFINE D == { d \in 1 .. m - 1 : s[m - d] \in Service }
<1>1. D \in SUBSET Nat
  OBVIOUS
<1>2. m - j \in D
  <2>1. m - j \in 1 .. m - 1 /\ m - (m - j) = j
    OBVIOUS
  <2> QED
    BY <2>1
<1>3. PICK d \in D : \A y \in D : d <= y
  <2> HIDE DEF D
  <2> QED
    BY <1>1, <1>2, Least
<1>4. m - d \in 1 .. m - 1 /\ s[m - d] \in Service /\ d \in Nat
  OBVIOUS
<1>5. ASSUME NEW h \in (m - d) + 1 .. m - 1, s[h] \in Service PROVE FALSE
  <2>1. m - h \in 1 .. m - 1 /\ m - (m - h) = h /\ ~ (d <= m - h)
    BY <1>4
  <2>2. m - h \in D
    BY <1>5, <2>1
  <2> QED
    BY <1>3, <2>1, <2>2
<1> QED
  BY <1>4, <1>5

\* Once a service has acknowledged, so have all after it: there is no first one
\* without an ACK.
LEMMA AckedSuffix ==
  ASSUME IndInv, PathInv, OneOfEach(spec),
         NEW i \in 1 .. Len(spec), spec[i] \in Service,
         \E k \in acked : at[k] = spec[i],
         NEW j \in i + 1 .. Len(spec), spec[j] \in Service
  PROVE  \E k \in acked : at[k] = spec[j]
<1> DEFINE T == { n \in i + 1 .. Len(spec) :
                    spec[n] \in Service /\ ~ \E k \in acked : at[k] = spec[n] }
<1>1. SUFFICES ASSUME T # {} PROVE FALSE
  OBVIOUS
<1>2. spec \in Seq(Service \cup Proto) /\ Len(spec) \in Nat
  BY TokenAssumption DEF IndInv, TypeOK
<1>3. PICK m \in T : \A y \in T : m <= y
  <2>1. T \in SUBSET Nat
    BY <1>2
  <2> HIDE DEF T
  <2> QED
    BY <1>1, <2>1, Least
<1>4. /\ m \in i + 1 .. Len(spec) /\ m \in Nat /\ spec[m] \in Service
      /\ ~ \E k \in acked : at[k] = spec[m]
  BY <1>2
<1>5. PICK b \in 1 .. m - 1 :
        spec[b] \in Service /\ \A h \in b + 1 .. m - 1 : spec[h] \notin Service
  <2>1. i \in 1 .. m - 1
    BY <1>2, <1>4
  <2> QED
    BY <1>4, <2>1, ServiceBefore
<1>6. b \in 1 .. Len(spec) /\ b \in Nat /\ ~ (m <= b) /\ m \in b + 1 .. Len(spec)
  BY <1>2, <1>4, <1>5
<1>7. PICK k \in acked : at[k] = spec[b]
  <2>1. b = i \/ b \in i + 1 .. Len(spec)
    BY <1>2, <1>4, <1>5, <1>6
  <2> QED
    BY <1>3, <1>5, <1>6, <2>1
<1>8. ServiceAfter(spec, b, Len(spec), Scan(spec, spec[b]).nextServ)
  BY <1>2, <1>5, <1>6, ScanMeans
<1>9. ServiceAfter(spec, b, Len(spec), NextServ(k))
  BY <1>7, <1>8 DEF NextServ
<1>10. PICK n \in b + 1 .. Len(spec) :
         /\ spec[n] \in Service /\ NextServ(k) = spec[n]
         /\ \A h \in b + 1 .. n - 1 : spec[h] \notin Service
  BY <1>4, <1>6, <1>9 DEF ServiceAfter
<1>11. n = m
  <2>1. n \in Nat /\ ~ (n \in b + 1 .. m - 1) /\ ~ (m \in b + 1 .. n - 1)
    BY <1>2, <1>4, <1>5, <1>6, <1>10
  <2> QED
    BY <1>2, <1>4, <1>6, <1>10, <2>1
<1>12. NextServ(k) # None
  BY <1>10, TokenAssumption
<1>13. k + 1 \in acked /\ at[k + 1] = NextServ(k)
  BY <1>7, <1>12 DEF IndInv, AckFromWholeChain, IsEnd
<1> QED
  BY <1>4, <1>10, <1>11, <1>13

\* The source has its ACK from the hop of the first service.
LEMMA AcksCoverSpec ==
  ASSUME IndInv, PathInv, OneOfEach(spec)
  PROVE  EveryServiceAcked
<1>1. SUFFICES ASSUME pc[0] = "run", NEW j \in 1 .. Len(spec), spec[j] \in Service
               PROVE  \E k \in acked : at[k] = spec[j]
  BY DEF EveryServiceAcked
<1>2. Len(spec) \in Nat
  BY TokenAssumption DEF IndInv, TypeOK
<1>3. /\ Len(spec) >= 2 /\ spec[1] \in Proto /\ 1 \in acked /\ at[1] = spec[2]
  BY <1>1 DEF IndInv, AckFromWholeChain, PathInv
<1>4. spec[2] \in Service
  <2>1. 1 \in Handler /\ 1 \in Hop /\ pc[1] # "none"
    BY <1>3, Indices DEF IndInv, AckedIsDone, Done
  <2> QED
    BY <1>3, <2>1 DEF PathInv, IndInv, TypeOK
<1>5. j # 1
  BY <1>1, <1>3, TokenAssumption
<1>6. CASE j = 2
  BY <1>3, <1>6
<1>7. CASE j # 2
  <2>1. 2 \in 1 .. Len(spec) /\ j \in 2 + 1 .. Len(spec)
    BY <1>2, <1>3, <1>5, <1>7
  <2>2. \E k \in acked : at[k] = spec[2]
    BY <1>3
  <2> QED
    BY <1>1, <1>4, <2>1, <2>2, AckedSuffix
<1> QED
  BY <1>6, <1>7

\* PathInv says where the hops are, ScanMeans what they find there.
LEMMA PathMeans ==
  ASSUME IndInv, PathInv, OneOfEach(spec)
  PROVE  PathFollowsSpec
<1>1. spec \in Seq(Service \cup Proto)
  BY TokenAssumption DEF IndInv, TypeOK
<1> SUFFICES ASSUME NEW k \in Handler, at[k] # None
             PROVE  /\ \E n \in 1 .. Len(spec) :
                         spec[n] = at[k] /\ Cardinality(ServicesUpTo(spec, n)) = k
                    /\ Found(k) /\ TpProto(k) = ProtoIn(spec, at[k])
  BY DEF PathFollowsSpec
<1>2. PICK n \in 1 .. Len(spec) : spec[n] = at[k] /\ KthService(spec, n, k)
  BY DEF PathInv
<1>3. spec[1] \in Proto
  BY DEF PathInv
<1>4. spec[n] \in Service /\ Cardinality(ServicesUpTo(spec, n)) = k
  BY <1>2 DEF KthService
<1>5. /\ Scan(spec, spec[n]).foundMe
      /\ ProtoAfter(spec, n, Scan(spec, spec[n]).tpProtoThis)
  BY <1>1, <1>4, ScanMeans
<1>6. Scan(spec, spec[n]).tpProtoThis = ProtoIn(spec, spec[n])
  BY <1>1, <1>3, <1>4, <1>5, ProtoMeans
<1>7. Found(k)
  BY <1>2, <1>5, Zenon DEF Found
<1>8. TpProto(k) = ProtoIn(spec, at[k])
  BY <1>2, <1>6 DEF TpProto
<1> QED
  BY <1>2, <1>4, <1>7, <1>8

LEMMA PathStep ==
  ASSUME \A s \in Specs : OneOfEach(s)
  PROVE  IndInv /\ PathInv /\ [Next]_vars => PathInv'
<1> SUFFICES ASSUME IndInv, PathInv, [Next]_vars
             PROVE  PathInv'
  OBVIOUS
<1>1. OneOfEach(spec)
  BY DEF IndInv, TypeOK
<1> QED
  BY <1>1, PathNext

\* When no specification names a service twice, as chainSetupHandler assumes,
\* the hop that the k-th stream starts runs at the k-th service of the
\* specification, finds itself in it and uses the protocol the specification
\* gives it: however many services and protocol tokens there are.
THEOREM PathIsTheSpecs ==
  ASSUME \A s \in Specs : OneOfEach(s)
  PROVE  Spec => []PathFollowsSpec
<1>1. IndInv /\ PathInv => PathFollowsSpec
  BY PathMeans DEF IndInv, TypeOK
<1>2. IndInv /\ PathInv /\ [Next]_vars => PathInv'
  BY PathStep
<1> QED
  BY <1>1, <1>2, InitInd, NextInd, PathInit, PTL DEF Spec

\* Under the same assumption, the ACK with which setupChain returns means that
\* the proxy of every service of the specification has sent one.
THEOREM AckMeansAllServices ==
  ASSUME \A s \in Specs : OneOfEach(s)
  PROVE  Spec => []EveryServiceAcked
<1>1. IndInv /\ PathInv => EveryServiceAcked
  BY AcksCoverSpec DEF IndInv, TypeOK
<1>2. IndInv /\ PathInv /\ [Next]_vars => PathInv'
  BY PathStep
<1> QED
  BY <1>1, <1>2, InitInd, NextInd, PathInit, PTL DEF Spec

----------------------------------------------------------------------------
(***************************************************************************)
(* The setup of a chain implements ChainReady.  SendAck is Acknowledge,    *)
(* the steps that end setupChain are Establish and Fail, and every other   *)
(* step changes nothing that ChainReady speaks of.                         *)
(***************************************************************************)
ReadyNow == { at[k] : k \in acked }

OutcomeOf(p) ==
  CASE p = "run" -> "established" [] p = "failed" -> "failed" [] OTHER -> "pending"

\* A hop acknowledges when all services after its own have.
LEMMA LaterReady ==
  ASSUME IndInv, PathInv, OneOfEach(spec), NEW k \in Handler, pc[k] = "ack",
         NEW n \in 1 .. Len(spec), spec[n] = at[k], spec[n] \in Service,
         NEW i \in n + 1 .. Len(spec), spec[i] \in Service
  PROVE  spec[i] \in ReadyNow
<1>1. spec \in Seq(Service \cup Proto) /\ Len(spec) \in Nat
  BY TokenAssumption DEF IndInv, TypeOK
<1>2. ServiceAfter(spec, n, Len(spec), Scan(spec, spec[n]).nextServ)
  BY <1>1, ScanMeans
<1>3. ServiceAfter(spec, n, Len(spec), NextServ(k))
  BY <1>2 DEF NextServ
<1>4. PICK m \in n + 1 .. Len(spec) :
        /\ spec[m] \in Service /\ NextServ(k) = spec[m]
        /\ \A h \in n + 1 .. m - 1 : spec[h] \notin Service
  BY <1>3 DEF ServiceAfter
<1>5. NextServ(k) # None
  BY <1>4, TokenAssumption
<1>6. k + 1 \in acked /\ at[k + 1] = spec[m]
  BY <1>4, <1>5 DEF IndInv, MayAck, IsEnd
<1>7. i = m \/ i \in m + 1 .. Len(spec)
  <2>1. ~ (i \in n + 1 .. m - 1)
    BY <1>4
  <2> QED
    BY <1>1, <1>4, <2>1
<1>8. \E h \in acked : at[h] = spec[i]
  <2>1. CASE i = m
    BY <1>6, <2>1
  <2>2. CASE i \in m + 1 .. Len(spec)
    <3>1. m \in 1 .. Len(spec) /\ \E h \in acked : at[h] = spec[m]
      BY <1>1, <1>4, <1>6
    <3> QED
      BY <1>4, <2>2, <3>1, AckedSuffix
  <2> QED
    BY <1>7, <2>1, <2>2
<1> QED
  BY <1>8 DEF ReadyNow

\* No other hop has acknowledged for the same service.
LEMMA NotYetReady ==
  ASSUME IndInv, PathInv, OneOfEach(spec), NEW k \in Handler, pc[k] = "ack"
  PROVE  at[k] \notin ReadyNow
<1>1. SUFFICES ASSUME NEW h \in acked, at[h] = at[k] PROVE FALSE
  BY DEF ReadyNow
<1>2. h \in Handler /\ pc[h] \in Done
  BY DEF IndInv, TypeOK, AckedIsDone
<1>3. at[h] # None /\ at[k] # None
  BY <1>2 DEF PathInv, Done
<1>4. PICK m \in 1 .. Len(spec) : spec[m] = at[h] /\ KthService(spec, m, h)
  BY <1>2, <1>3 DEF PathInv
<1>5. PICK n \in 1 .. Len(spec) : spec[n] = at[k] /\ KthService(spec, n, k)
  BY <1>3 DEF PathInv
<1>6. m = n
  BY <1>1, <1>4, <1>5 DEF OneOfEach, KthService
<1>7. h = k
  BY <1>4, <1>5, <1>6 DEF KthService
<1> QED
  BY <1>2, <1>7 DEF Done

\* A step without an ACK: at most setupChain ends.
LEMMA ReadyDecides ==
  ASSUME spec' = spec, ReadyNow' = ReadyNow, EveryServiceAcked',
         pc[0] \in {"run", "failed"} => pc'[0] = pc[0]
  PROVE  [Ready!Next]_(Ready!vars)
<1>1. CASE OutcomeOf(pc'[0]) = OutcomeOf(pc[0])
  BY <1>1 DEF Ready!vars, ReadyNow, OutcomeOf
<1>2. CASE OutcomeOf(pc'[0]) # OutcomeOf(pc[0])
  <2>1. OutcomeOf(pc[0]) = "pending" /\ pc'[0] \in {"run", "failed"}
    BY <1>2 DEF OutcomeOf
  <2>2. CASE pc'[0] = "failed"
    <3>1. OutcomeOf(pc[0])' = "failed"
      BY <2>2 DEF OutcomeOf
    <3>2. Ready!Fail
      BY <2>1, <3>1 DEF Ready!Fail, ReadyNow, OutcomeOf
    <3> QED
      BY <3>2 DEF Ready!Next
  <2>3. CASE pc'[0] = "run"
    <3>1. OutcomeOf(pc[0])' = "established"
      BY <2>3 DEF OutcomeOf
    <3>2. \A i \in 1 .. Len(spec) : spec[i] \in Service => spec[i] \in ReadyNow
      <4>1. \A i \in 1 .. Len(spec) : spec[i] \in Service => spec[i] \in ReadyNow'
        BY <2>3 DEF EveryServiceAcked, ReadyNow
      <4> QED
        BY <4>1
    <3>3. Ready!ReadyAfter(0)
      BY <3>2 DEF Ready!ReadyAfter, ReadyNow
    <3>4. Ready!Establish
      BY <2>1, <3>1, <3>3 DEF Ready!Establish, ReadyNow, OutcomeOf
    <3> QED
      BY <3>4 DEF Ready!Next
  <2> QED
    BY <2>1, <2>2, <2>3
<1> QED
  BY <1>1, <1>2

LEMMA SendAckReady ==
  ASSUME IndInv, PathInv, OneOfEach(spec), EveryServiceAcked',
         NEW k \in Handler, SendAck(k)
  PROVE  [Ready!Next]_(Ready!vars)
<1>1. /\ UNCHANGED <<spec, at>> /\ pc[k] = "ack"
      /\ acked' = acked \/ acked' = acked \cup {k}
  BY DEF SendAck
<1>2. pc'[0] = pc[0]
  BY Indices DEF SendAck, IndInv, TypeOK
<1>3. CASE acked' = acked
  <2>1. ReadyNow' = ReadyNow
    BY <1>1, <1>3 DEF ReadyNow
  <2> QED
    BY <1>1, <1>2, <2>1, ReadyDecides
<1>4. CASE acked' = acked \cup {k}
  <2>1. ReadyNow' = ReadyNow \cup {at[k]}
    BY <1>1, <1>4 DEF ReadyNow
  <2>2. at[k] # None
    BY <1>1 DEF PathInv
  <2>3. PICK n \in 1 .. Len(spec) : spec[n] = at[k] /\ KthService(spec, n, k)
    BY <2>2 DEF PathInv
  <2>4. spec[n] \in Service /\ spec[n] \notin ReadyNow
    BY <1>1, <2>3, NotYetReady DEF KthService
  <2>5. \A i \in n + 1 .. Len(spec) : spec[i] \in Service => spec[i] \in ReadyNow
    BY <1>1, <2>3, <2>4, LaterReady
  <2>6. Ready!ReadyAfter(n)
    BY <2>5 DEF Ready!ReadyAfter, ReadyNow
  <2>7. Ready!Acknowledge(n)
    BY <1>1, <1>2, <2>1, <2>3, <2>4, <2>6 DEF Ready!Acknowledge, ReadyNow
  <2> QED
    BY <2>7 DEF Ready!Next
<1> QED
  BY <1>1, <1>3, <1>4

LEMMA CreateStreamReady ==
  ASSUME IndInv, NEW k \in Hop, CreateStream(k)
  PROVE  /\ spec' = spec /\ ReadyNow' = ReadyNow
         /\ pc[0] \in {"run", "failed"} => pc'[0] = pc[0]
<1> USE Indices
<1>1. /\ spec' = spec /\ acked' = acked /\ pc[k] = "open" /\ k \in Link
      /\ pc' = [pc EXCEPT ![k] = "request", ![k + 1] = "receive"]
      /\ at' = [at EXCEPT ![k + 1] = Target(k)]
  BY DEF CreateStream
<1>2. k + 1 \notin acked
  <2>1. pc[k + 1] = "none"
    BY <1>1 DEF IndInv, NothingBelow, Early
  <2> QED
    BY <2>1 DEF IndInv, AckedIsDone, Done
<1>3. \A j \in acked : at'[j] = at[j]
  <2>1. acked \subseteq Hop /\ at = [j \in Hop |-> at[j]]
    BY DEF IndInv, TypeOK
  <2> QED
    BY <1>1, <1>2, <2>1
<1>4. ReadyNow' = ReadyNow
  BY <1>1, <1>3 DEF ReadyNow
<1>5. pc[0] \in {"run", "failed"} => pc'[0] = pc[0]
  BY <1>1 DEF IndInv, TypeOK
<1> QED
  BY <1>1, <1>4, <1>5

LEMMA ReadyNext ==
  ASSUME IndInv, PathInv, OneOfEach(spec), EveryServiceAcked', [Next]_vars
  PROVE  [Ready!Next]_(Ready!vars)
<1>1. 0 \in Hop /\ \A k \in Handler : k \in Hop /\ k # 0
  BY Indices
<1>2. CASE SourceStep
  <2>1. CASE CreateStream(0)
    BY <1>1, <2>1, CreateStreamReady, ReadyDecides
  <2>2. CASE ~ CreateStream(0)
    <3>1. UNCHANGED <<spec, at, acked>> /\ pc[0] \notin {"run", "failed"}
      BY <1>2, <2>2 DEF SourceStep, SetupChain, ResolveService, CreateStreamFails,
         SendRequest, ReceiveAck
    <3>2. ReadyNow' = ReadyNow
      BY <3>1 DEF ReadyNow
    <3> QED
      BY <3>1, <3>2, ReadyDecides
  <2> QED
    BY <2>1, <2>2
<1>3. ASSUME NEW k \in Handler, HandlerStep(k) PROVE [Ready!Next]_(Ready!vars)
  <2>1. CASE CreateStream(k)
    BY <1>1, <2>1, CreateStreamReady, ReadyDecides
  <2>2. CASE SendAck(k)
    BY <2>2, SendAckReady
  <2>3. CASE ~ CreateStream(k) /\ ~ SendAck(k)
    <3>1. MovesHop(k)
      BY <1>1, <1>3, <2>3, MovesOne DEF HandlerStep
    <3>2. UNCHANGED <<spec, at>> /\ pc'[0] = pc[0]
      BY <1>1, <3>1 DEF MovesHop
    <3>3. acked' = acked
      BY <1>3, <2>3 DEF HandlerStep, ReceiveRequest, ResolveService,
         CreateStreamFails, SendRequest, ReceiveAck, DialService
    <3>4. ReadyNow' = ReadyNow
      BY <3>2, <3>3 DEF ReadyNow
    <3> QED
      BY <3>2, <3>4, ReadyDecides
  <2> QED
    BY <2>1, <2>2, <2>3
<1>4. CASE DataStep \/ Failure \/ UNCHANGED vars
  <2>1. UNCHANGED <<spec, at, pc, acked>>
    BY <1>4 DEF DataStep, SendDataDown, SendDataUp, ReceiveDataDown,
       ReceiveDataUp, Failure, MonitorFires, ConnFails, vars
  <2>2. ReadyNow' = ReadyNow
    BY <2>1 DEF ReadyNow
  <2> QED
    BY <2>1, <2>2, ReadyDecides
<1> QED
  BY <1>2, <1>3, <1>4 DEF Next

\* Under the same assumption, ChainSetup implements ChainReady: whatever fails
\* or breaks meanwhile, the proxies of a chain of any length acknowledge once
\* each, a service only after all services behind it, and setupChain returns
\* without an error only after all of them.
THEOREM SetupImplementsReady ==
  ASSUME \A s \in Specs : OneOfEach(s)
  PROVE  Spec => ReadySpec
<1>1. Init => Ready!Init
  BY Indices DEF Init, Ready!Init
<1>2. IndInv /\ PathInv /\ EveryServiceAcked' /\ [Next]_vars
        => [Ready!Next]_(Ready!vars)
  BY ReadyNext DEF IndInv, TypeOK
<1>3. IndInv /\ PathInv /\ [Next]_vars => PathInv'
  BY PathStep
<1>4. Spec => []EveryServiceAcked
  BY AckMeansAllServices
<1> QED
  BY <1>1, <1>2, <1>3, <1>4, InitInd, NextInd, PathInit, PTL
     DEF Spec, ReadySpec, Ready!Spec

----------------------------------------------------------------------------
(***************************************************************************)
(* Nobody waits for nobody.  MsgInv knows that a hop past its ACK has left *)
(* it in the stream; what is missing is that a hop which waits has a hop   *)
(* below it, and has sent it its request.                                  *)
(***************************************************************************)
WaitInv ==
  \A k \in Link :
    /\ pc[k] \in {"request", "wait"} => pc[k + 1] # "none" /\ link[k] # "none"
    /\ pc[k] = "wait" /\ pc[k + 1] = "receive" /\ link[k] = "open" => down[k] # << >>

\* A step that moves hop k to x and touches no other hop's requests.
LEMMA HopWait ==
  ASSUME IndInv, WaitInv, NEW k \in Hop, NEW x, pc' = [pc EXCEPT ![k] = x],
         link' = link, pc[k] # "none", x \notin {"none", "receive", "request"},
         x = "wait" => pc[k] = "request" /\ (link[k] = "open" => down'[k] # << >>),
         \A j \in Link : j # k /\ j + 1 # k => down'[j] = down[j]
  PROVE  WaitInv'
<1> SUFFICES ASSUME NEW j \in Link
             PROVE  /\ pc'[j] \in {"request", "wait"} =>
                         pc'[j + 1] # "none" /\ link'[j] # "none"
                    /\ pc'[j] = "wait" /\ pc'[j + 1] = "receive" /\ link'[j] = "open" =>
                         down'[j] # << >>
  BY DEF WaitInv
<1>1. j \in Hop /\ j + 1 \in Hop /\ j # j + 1
  BY Indices
<1>2. /\ pc'[j] = IF j = k THEN x ELSE pc[j]
      /\ pc'[j + 1] = IF j + 1 = k THEN x ELSE pc[j + 1]
  BY <1>1 DEF IndInv, TypeOK
<1>3. /\ pc[j] \in {"request", "wait"} => pc[j + 1] # "none" /\ link[j] # "none"
      /\ pc[j] = "wait" /\ pc[j + 1] = "receive" /\ link[j] = "open" =>
           down[j] # << >>
  BY DEF WaitInv
<1>4. CASE j = k
  BY <1>1, <1>2, <1>3, <1>4
<1>5. CASE j + 1 = k
  BY <1>1, <1>2, <1>3, <1>5
<1>6. CASE j # k /\ j + 1 # k
  BY <1>1, <1>2, <1>3, <1>6
<1> QED
  BY <1>4, <1>5, <1>6

\* A step that moves no hop, closes no stream for good and takes no request.
LEMMA StreamWait ==
  ASSUME WaitInv, UNCHANGED pc,
         \A j \in Link : link[j] # "none" => link'[j] # "none",
         \A j \in Link : link'[j] = "open" => link[j] = "open",
         \A j \in Link : pc[j + 1] = "receive" /\ link'[j] = "open" /\ down[j] # << >> =>
           down'[j] # << >>
  PROVE  WaitInv'
BY DEF WaitInv

LEMMA MoveOnWait ==
  ASSUME IndInv, WaitInv, NEW k \in Hop,
         \/ k = 0 /\ SetupChain
         \/ ResolveService(k) \/ CreateStreamFails(k) \/ ReceiveAck(k)
         \/ k \in Handler /\ (SendAck(k) \/ DialService(k))
  PROVE  WaitInv'
<1>1. UNCHANGED <<link, down>> /\ pc[k] # "none"
  BY DEF SetupChain, ResolveService, CreateStreamFails, ReceiveAck, SendAck,
     DialService
<1>2. PICK x : /\ pc' = [pc EXCEPT ![k] = x]
               /\ x \in {"failed", "resolve", "open", "returned", "run", "ack",
                         "dial", "tunnel"}
  <2>1. CASE ~ ReceiveAck(k)
    BY <2>1 DEF SetupChain, ResolveService, CreateStreamFails, SendAck,
       DialService, GiveUp
  <2>2. CASE ReceiveAck(k) /\ pc' = [pc EXCEPT ![k] = GiveUp(k)]
    BY <2>2 DEF GiveUp
  <2>3. CASE ReceiveAck(k) /\ pc' # [pc EXCEPT ![k] = GiveUp(k)]
    <3>1. pc' = [pc EXCEPT ![k] = IF k = 0 THEN "run" ELSE "ack"]
      BY <2>3 DEF ReceiveAck
    <3> QED
      BY <3>1
  <2> QED
    BY <2>1, <2>2, <2>3
<1> QED
  BY <1>1, <1>2, HopWait

LEMMA SendRequestWait ==
  ASSUME IndInv, WaitInv, NEW k \in Link, SendRequest(k)
  PROVE  WaitInv'
<1>1. UNCHANGED link /\ pc[k] = "request" /\ k \in Hop
  BY LinkTypes DEF SendRequest
<1>2. PICK x : /\ pc' = [pc EXCEPT ![k] = x]
               /\ \/ link[k] = "open" /\ x = "wait"
                     /\ down' = [down EXCEPT ![k] = Append(down[k], "request")]
                  \/ link[k] = "reset" /\ x \in {"wait", "returned"} /\ down' = down
  BY DEF SendRequest, AfterRequest
<1>3. \A j \in Link : j # k => down'[j] = down[j]
  BY <1>2 DEF IndInv, TypeOK
<1>4. link[k] = "open" => down'[k] # << >>
  <2>1. down[k] \in Seq(Message) /\ "request" \in Message /\ down = [j \in Link |-> down[j]]
    BY DEF IndInv, TypeOK, Message
  <2>2. Append(down[k], "request") # << >>
    BY <2>1, QueueFacts
  <2> QED
    BY <1>2, <2>1, <2>2
<1> QED
  BY <1>1, <1>2, <1>3, <1>4, HopWait

LEMMA ReceiveRequestWait ==
  ASSUME IndInv, WaitInv, NEW k \in Handler, ReceiveRequest(k)
  PROVE  WaitInv'
<1>1. UNCHANGED link /\ pc[k] = "receive" /\ k \in Hop
  BY Indices DEF ReceiveRequest
<1>2. PICK x : pc' = [pc EXCEPT ![k] = x] /\ x \in {"returned", "ack", "resolve"}
  BY DEF ReceiveRequest
<1>3. \A j \in Link : j # k - 1 => down'[j] = down[j]
  BY DEF ReceiveRequest, IndInv, TypeOK
<1>4. \A j \in Link : j + 1 # k => j # k - 1
  BY Indices
<1> QED
  BY <1>1, <1>2, <1>3, <1>4, HopWait

LEMMA CreateStreamWait ==
  ASSUME IndInv, WaitInv, NEW k \in Hop, CreateStream(k)
  PROVE  WaitInv'
<1>1. /\ pc' = [pc EXCEPT ![k] = "request", ![k + 1] = "receive"]
      /\ link' = [link EXCEPT ![k] = "open"]
      /\ down' = down /\ k \in Link /\ pc[k] = "open"
  BY Indices DEF CreateStream
<1> SUFFICES ASSUME NEW j \in Link
             PROVE  /\ pc'[j] \in {"request", "wait"} =>
                         pc'[j + 1] # "none" /\ link'[j] # "none"
                    /\ pc'[j] = "wait" /\ pc'[j + 1] = "receive" /\ link'[j] = "open" =>
                         down'[j] # << >>
  BY DEF WaitInv
<1>2. j \in Hop /\ j + 1 \in Hop /\ k + 1 \in Hop /\ j \in Int /\ k \in Int
  BY <1>1, Indices
<1>3. \A i \in Hop : pc'[i] = IF i = k + 1 THEN "receive"
                              ELSE IF i = k THEN "request" ELSE pc[i]
  BY <1>1 DEF IndInv, TypeOK
<1>4. link'[j] = IF j = k THEN "open" ELSE link[j]
  BY <1>1 DEF IndInv, TypeOK
<1>5. /\ pc[j] \in {"request", "wait"} => pc[j + 1] # "none" /\ link[j] # "none"
      /\ pc[j] = "wait" /\ pc[j + 1] = "receive" /\ link[j] = "open" =>
           down[j] # << >>
  BY DEF WaitInv
<1>6. CASE j = k
  BY <1>2, <1>3, <1>4, <1>6
<1>7. CASE j = k + 1
  BY <1>2, <1>3, <1>7
<1>8. CASE j # k /\ j # k + 1
  <2>1. pc'[j] = pc[j] /\ j + 1 # k + 1
    BY <1>2, <1>3, <1>8
  <2>2. pc'[j + 1] = IF j + 1 = k THEN "request" ELSE pc[j + 1]
    BY <1>2, <1>3, <2>1
  <2>3. link'[j] = link[j] /\ down'[j] = down[j]
    BY <1>1, <1>4, <1>8
  <2> QED
    BY <1>5, <2>1, <2>2, <2>3
<1> QED
  BY <1>6, <1>7, <1>8

LEMMA DataWait ==
  ASSUME IndInv, WaitInv, DataStep
  PROVE  WaitInv'
<1>1. UNCHANGED <<pc, link>>
  BY DEF DataStep, SendDataDown, SendDataUp, ReceiveDataDown, ReceiveDataUp
<1>2. CASE down' = down
  BY <1>1, <1>2, StreamWait
<1>3. ASSUME NEW k \in Hop, SendDataDown(k) PROVE WaitInv'
  <2>1. k \in Link /\ down' = [down EXCEPT ![k] = Append(down[k], "data")]
    BY <1>3, Indices DEF SendDataDown
  <2>2. down[k] \in Seq(Message) /\ "data" \in Message /\ down = [j \in Link |-> down[j]]
    BY <2>1 DEF IndInv, TypeOK, Message
  <2>3. Append(down[k], "data") # << >>
    BY <2>2, QueueFacts
  <2>4. \A j \in Link : down[j] # << >> => down'[j] # << >>
    BY <2>1, <2>2, <2>3
  <2> QED
    BY <1>1, <2>4, StreamWait
<1>4. ASSUME NEW k \in Handler, ReceiveDataDown(k) PROVE WaitInv'
  <2>1. pc[k] = "tunnel" /\ down' = [down EXCEPT ![k - 1] = Tail(down[k - 1])]
    BY <1>4 DEF ReceiveDataDown
  <2>2. \A j \in Link : j # k - 1 => down'[j] = down[j]
    BY <2>1 DEF IndInv, TypeOK
  <2>3. \A j \in Link : pc[j + 1] = "receive" => j # k - 1
    BY <2>1, Indices
  <2> QED
    BY <1>1, <2>2, <2>3, StreamWait
<1>5. 0 \in Hop /\ \A k \in Handler : k \in Hop
  BY Indices
<1> QED
  BY <1>2, <1>3, <1>4, <1>5 DEF DataStep, SendDataUp, ReceiveDataUp

LEMMA FailureWait ==
  ASSUME IndInv, WaitInv, Failure
  PROVE  WaitInv'
<1>1. UNCHANGED pc
  BY DEF Failure, MonitorFires, ConnFails
<1>2. PICK n : ResetLink(n)
  BY DEF Failure, MonitorFires, ConnFails
<1>3. \A j \in Link : /\ link'[j] = IF j = n THEN "reset" ELSE link[j]
                      /\ down'[j] = IF j = n THEN << >> ELSE down[j]
  BY <1>2 DEF ResetLink, IndInv, TypeOK
<1> QED
  BY <1>1, <1>3, StreamWait

LEMMA WaitNext == IndInv /\ WaitInv /\ [Next]_vars => WaitInv'
<1> SUFFICES ASSUME IndInv, WaitInv, [Next]_vars PROVE WaitInv'
  OBVIOUS
<1>1. 0 \in Hop /\ \A k \in Handler : k \in Hop
  BY Indices
<1>2. ASSUME NEW k \in Hop,
             \/ ResolveService(k) \/ CreateStream(k) \/ CreateStreamFails(k)
             \/ SendRequest(k) \/ ReceiveAck(k)
      PROVE  WaitInv'
  <2>1. CASE ResolveService(k) \/ CreateStreamFails(k) \/ ReceiveAck(k)
    BY <2>1, MoveOnWait
  <2>2. CASE CreateStream(k)
    BY <2>2, CreateStreamWait
  <2>3. CASE SendRequest(k)
    <3>1. k \in Link
      BY <2>3, Indices DEF SendRequest, IndInv, LastHopStops
    <3> QED
      BY <2>3, <3>1, SendRequestWait
  <2> QED
    BY <1>2, <2>1, <2>2, <2>3
<1>3. CASE SourceStep
  <2>1. CASE SetupChain
    BY <1>1, <2>1, MoveOnWait
  <2> QED
    BY <1>1, <1>2, <1>3, <2>1 DEF SourceStep
<1>4. ASSUME NEW k \in Handler, HandlerStep(k) PROVE WaitInv'
  <2>1. CASE ReceiveRequest(k)
    BY <2>1, ReceiveRequestWait
  <2>2. CASE SendAck(k) \/ DialService(k)
    BY <1>1, <2>2, MoveOnWait
  <2> QED
    BY <1>1, <1>2, <1>4, <2>1, <2>2 DEF HandlerStep
<1>5. CASE DataStep
  BY <1>5, DataWait
<1>6. CASE Failure
  BY <1>6, FailureWait
<1>7. CASE UNCHANGED vars
  BY <1>7 DEF vars, WaitInv
<1> QED
  BY <1>3, <1>4, <1>5, <1>6, <1>7 DEF Next

\* The hop where a row of waiting hops ends is not blocked.
LEMMA WaitMeans ==
  ASSUME IndInv, MsgInv, WaitInv
  PROVE  NotAllWaiting
<1> SUFFICES ASSUME pc[0] = "wait"
             PROVE  \E k \in Hop :
               /\ \A j \in 0 .. k - 1 : pc[j] = "wait"
               /\ \/ pc[k] \in {"resolve", "open", "request", "ack", "returned"}
                  \/ pc[k] = "wait" /\ (link[k] = "reset" \/ up[k] # << >>)
                  \/ pc[k] = "receive" /\ (link[k - 1] = "reset" \/ down[k - 1] # << >>)
  BY DEF NotAllWaiting
<1> DEFINE Goes(k) == pc[k] # "wait" \/ link[k] = "reset" \/ up[k] # << >>
           D == { k \in Hop : Goes(k) }
<1>1. PICK k \in D : \A y \in D : k <= y
  <2>1. D \in SUBSET Nat
    BY Indices
  <2>2. MaxHops \in D
    BY Indices DEF IndInv, LastHopStops
  <2> HIDE DEF D
  <2> QED
    BY <2>1, <2>2, Least
<1>2. k \in Hop /\ k \in Nat /\ Goes(k)
  BY Indices
<1>3. ASSUME NEW j \in 0 .. k - 1
      PROVE  pc[j] = "wait" /\ link[j] # "reset" /\ up[j] = << >>
  <2>1. j \in Hop /\ ~ (k <= j)
    BY <1>2, Indices
  <2> QED
    BY <1>1, <2>1
<1>4. CASE k = 0
  <2>1. pc[k] = "wait" /\ (link[k] = "reset" \/ up[k] # << >>)
    BY <1>2, <1>4
  <2> QED
    BY <1>2, <1>3, <2>1
<1>5. CASE k # 0
  <2>1. k - 1 \in 0 .. k - 1 /\ k - 1 \in Link /\ (k - 1) + 1 = k
    BY <1>2, <1>5, Indices
  <2>2. pc[k - 1] = "wait" /\ link[k - 1] # "reset" /\ up[k - 1] = << >>
    BY <1>3, <2>1
  <2>3. /\ pc[k] # "none" /\ link[k - 1] = "open"
        /\ pc[k] = "receive" => down[k - 1] # << >>
    <3>1. /\ pc[k] # "none" /\ link[k - 1] # "none"
          /\ link[k - 1] = "open" /\ pc[k] = "receive" => down[k - 1] # << >>
      BY <2>1, <2>2 DEF WaitInv
    <3>2. link[k - 1] = "open"
      BY <2>1, <2>2, <3>1 DEF IndInv, TypeOK
    <3> QED
      BY <3>1, <3>2
  <2>4. pc[k] \notin {"dial", "tunnel"}
    <3>1. MsgOK(up[k - 1], down[k - 1], pc[k - 1], pc[k], link[k - 1], k \in acked)
      BY <2>1 DEF MsgInv
    <3> QED
      BY <2>2, <2>3, <3>1 DEF MsgOK
  <2>5. pc[k] \in {"resolve", "open", "request", "wait", "receive", "ack", "returned"}
    <3>1. pc[k] \notin {"start", "run", "failed"}
      BY <1>2, <1>5, Indices DEF IndInv, SourceOrHandler
    <3> QED
      BY <1>2, <2>3, <2>4, <3>1 DEF IndInv, TypeOK
  <2>6. \/ pc[k] \in {"resolve", "open", "request", "ack", "returned"}
        \/ pc[k] = "wait" /\ (link[k] = "reset" \/ up[k] # << >>)
        \/ pc[k] = "receive" /\ (link[k - 1] = "reset" \/ down[k - 1] # << >>)
    BY <1>2, <2>3, <2>5
  <2> QED
    BY <1>2, <1>3, <2>6
<1> QED
  BY <1>4, <1>5

\* The source and the handlers of a chain of any length never all wait for each
\* other, whatever fails and breaks: this is the safety part of
\* SetupEndsOrSomeoneReturned, for which TLC adds that hops which can go on do.
THEOREM SomeoneCanGoOn == Spec => []NotAllWaiting
<1>1. Init => WaitInv
  <2>1. ASSUME Init, NEW k \in Link PROVE pc[k] \in {"start", "none"}
    BY <2>1, Indices DEF Init
  <2> QED
    BY <2>1 DEF WaitInv
<1>2. IndInv /\ MsgInv /\ WaitInv => NotAllWaiting
  BY WaitMeans
<1> QED
  BY <1>1, <1>2, InitInd, NextInd, MsgInit, MsgNext, WaitNext, PTL DEF Spec
=============================================================================
