------------------------- MODULE ChainForwardProofs -------------------------
(***************************************************************************)
(* Proof that the client of a chain sees its replies complete and in       *)
(* order, for chains of any length and whatever breaks.                    *)
(*                                                                         *)
(* A message goes from the client's connection through "in", the service   *)
(* and "conn" of every hop and back through all "out" to the client, and   *)
(* is in the hand of a forwarder between any two of them but the service   *)
(* and its "conn".  All these are the stages of one pipeline, in the order *)
(* of Rank.                                                                *)
(*                                                                         *)
(* Pipe says of the pipeline that later stages hold earlier messages, and  *)
(* that the message before one under way is under way or received, or      *)
(* that a stage further on is dead: closed, or a forwarder that has ended, *)
(* so that nothing passes it any more.  All actions do one of six things   *)
(* to the pipeline: move a message by one stage, deliver it, drop it       *)
(* before a dead stage, lose it, let stages die, or feed a new message.    *)
(***************************************************************************)
EXTENDS ChainForward, SequenceTheorems, TLAPS

Stage == Endpoint \cup ({"serv"} \X (1 .. N)) \cup Forwarder

Rank(s) ==
  CASE s[1] = "conn"  -> 5 * s[2]
    [] s[1] = "down"  -> 5 * s[2] + 1
    [] s[1] = "in"    -> 5 * s[2] - 3
    [] s[1] = "serve" -> 5 * s[2] - 2
    [] s[1] = "serv"  -> 5 * s[2] - 1
    [] s[1] = "out"   -> 7 * N - 2 * s[2]
    [] s[1] = "up"    -> 7 * N - 2 * s[2] + 1

\* How many services a message at a stage has passed.
Passed(s) ==
  CASE s[1] \in {"conn", "down"}        -> s[2]
    [] s[1] \in {"in", "serve", "serv"} -> s[2] - 1
    [] s[1] \in {"out", "up"}           -> N

Upto(n) == [p \in 1 .. n |-> p]

\* The stages as buffers b, services' queues v and forwarders' hands h have
\* them, and those that are dead when the endpoints' states are z and the
\* forwarders are at c.
Queues(b, v, h) ==
  [s \in Stage |-> IF s[1] = "serv" THEN v[s[2]] ELSE IF s \in Forwarder THEN h[s] ELSE b[s]]

HasEnded(c, f) == c[f] \in {"closing", "done"}

Dead(z, c) ==
  { s \in Stage : IF s[1] = "serv" THEN z[<<"conn", s[2]>>] # "open"
                  ELSE IF s \in Forwarder THEN HasEnded(c, s) ELSE z[s] = "closed" }

----------------------------------------------------------------------------
(* The pipeline: q has the stages' messages, d the dead stages, g is what  *)
(* was received, n how many messages were sent, x whether one was lost.    *)

\* Later stages have earlier messages, and so has the front of a queue.
InOrder(q) ==
  \A s, t \in Stage : \A i \in 1 .. Len(q[s]), j \in 1 .. Len(q[t]) :
    (Rank(s) < Rank(t) \/ (s = t /\ i > j)) => q[s][i].n > q[t][j].n

\* What was received is earlier than what is under way.
GotFirst(q, g) ==
  /\ \A s \in Stage : \A i \in 1 .. Len(q[s]), k \in 1 .. Len(g) : q[s][i].n > g[k].n
  /\ \A j, k \in 1 .. Len(g) : j < k => g[j].n < g[k].n

WasSent(q, g, n) ==
  /\ \A s \in Stage : \A i \in 1 .. Len(q[s]) : q[s][i].n <= n
  /\ \A k \in 1 .. Len(g) : g[k].n <= n

WentThrough(q, g) ==
  /\ \A s \in Stage : \A i \in 1 .. Len(q[s]) : q[s][i].via = Upto(Passed(s))
  /\ \A k \in 1 .. Len(g) : g[k].via = Upto(N)

Present(q, g, n) ==
  \/ \E s \in Stage : \E i \in 1 .. Len(q[s]) : q[s][i].n = n
  \/ \E k \in 1 .. Len(g) : g[k].n = n

\* A message under way follows the one before it, unless that one fell to a
\* dead stage, which this one has still before it.
NoGap(q, d, g) ==
  \A s \in Stage : \A i \in 1 .. Len(q[s]) :
    \/ q[s][i].n = 1
    \/ Present(q, g, q[s][i].n - 1)
    \/ \E c \in d : Rank(c) > Rank(s)

\* So will the next message to be sent.
NoGapBefore(q, d, g, n) == n = 0 \/ Present(q, g, n) \/ d # {}

GotAll(g) == \A k \in 1 .. Len(g) : g[k].n = k

DeadAreEmpty(q, d) == \A c \in d : q[c] = << >>

Pipe(q, d, g, n, x) ==
  /\ InOrder(q)
  /\ GotFirst(q, g)
  /\ WasSent(q, g, n)
  /\ WentThrough(q, g)
  /\ DeadAreEmpty(q, d)
  /\ ~ x => NoGap(q, d, g) /\ NoGapBefore(q, d, g, n) /\ GotAll(g)

PipeInv == Pipe(Queues(buf, serv, hand), Dead(state, pc), got, sent, lost)

----------------------------------------------------------------------------
(* The types, and where the forwarders move messages.                      *)

LEMMA EndpointCases ==
  ASSUME NEW e \in Endpoint
  PROVE  \/ \E p \in 1 .. N : e = <<"in", p>>
         \/ \E p \in 0 .. N - 1 : e = <<"out", p>>
         \/ \E p \in 0 .. N : e = <<"conn", p>>
  BY DEF Endpoint, Position

LEMMA ForwarderCases ==
  ASSUME NEW f \in Forwarder
  PROVE  \/ \E p \in 0 .. N - 1 : f = <<"down", p>>
         \/ \E p \in 1 .. N : f = <<"serve", p>>
         \/ \E p \in 0 .. N : f = <<"up", p>>
  BY DEF Forwarder, Position

LEMMA EndpointIn ==
  /\ \A p \in 1 .. N : <<"in", p>> \in Endpoint
  /\ \A p \in 0 .. N - 1 : <<"out", p>> \in Endpoint
  /\ \A p \in 0 .. N : <<"conn", p>> \in Endpoint
  BY DEF Endpoint, Position

\* The endpoints that a forwarder uses.
LEMMA ForwarderEnds ==
  ASSUME NEW f \in Forwarder
  PROVE  /\ f[2] \in Position
         /\ Src(f) \in Endpoint
         /\ Dst(f) \in Endpoint
         /\ ~ IsConn(Dst(f)) => Peer(Dst(f)) \in Endpoint /\ Peer(Dst(f)) # Src(f)
  <1> USE ForwardAssumption, EndpointIn DEF Position
  <1>1. CASE \E p \in 0 .. N - 1 : f = <<"down", p>>
    <2>1. PICK p \in 0 .. N - 1 : f = <<"down", p>>
      BY <1>1
    <2>2. f[1] = "down" /\ f[2] = p
      BY <2>1
    <2>3. Src(f) = <<"conn", p>> /\ Dst(f) = <<"out", p>>
      BY <2>2 DEF Src, Dst
    <2>4. Peer(Dst(f)) = <<"in", p + 1>>
      BY <2>3 DEF Peer
    <2> QED
      BY <2>2, <2>3, <2>4
  <1>2. CASE \E p \in 1 .. N : f = <<"serve", p>>
    <2>1. PICK p \in 1 .. N : f = <<"serve", p>>
      BY <1>2
    <2>2. f[1] = "serve" /\ f[2] = p
      BY <2>1
    <2>3. Src(f) = <<"in", p>> /\ Dst(f) = <<"conn", p>>
      BY <2>2 DEF Src, Dst
    <2> QED
      BY <2>2, <2>3 DEF IsConn
  <1>3. CASE \E p \in 0 .. N : f = <<"up", p>>
    <2>1. PICK p \in 0 .. N : f = <<"up", p>>
      BY <1>3
    <2>2. f[1] = "up" /\ f[2] = p
      BY <2>1
    <2>3. Src(f) = IF p = N THEN <<"conn", N>> ELSE <<"out", p>>
      BY <2>2 DEF Src
    <2>4. Dst(f) = IF p = 0 THEN <<"conn", 0>> ELSE <<"in", p>>
      BY <2>2 DEF Dst
    <2>5. CASE p = 0
      BY <2>2, <2>3, <2>4, <2>5 DEF IsConn
    <2>6. CASE p # 0
      <3>1. Peer(Dst(f)) = <<"out", p - 1>>
        BY <2>4, <2>6 DEF Peer
      <3> QED
        BY <2>2, <2>3, <2>4, <2>6, <3>1
    <2> QED
      BY <2>5, <2>6
  <1> QED
    BY <1>1, <1>2, <1>3, ForwarderCases

LEMMA ClosedEnds ==
  ASSUME NEW f \in Forwarder
  PROVE  ClosedFirst(f) \in Endpoint /\ ClosedLast(f) \in Endpoint
  BY ForwarderEnds DEF ClosedFirst, ClosedLast

\* Taking the front of a queue and putting a message at the end of another.
LEMMA QueueTypes ==
  ASSUME NEW M, NEW q \in Seq(M), NEW m \in M
  PROVE  /\ Append(q, m) \in Seq(M)
         /\ q # << >> => Head(q) \in M /\ Tail(q) \in Seq(M)
  <1>1. Append(q, m) \in Seq(M)
    OBVIOUS
  <1>2. ASSUME q # << >> PROVE Head(q) \in M
    BY <1>2
  <1>3. ASSUME q # << >> PROVE Tail(q) \in Seq(M)
    BY <1>3
  <1> QED
    BY <1>1, <1>2, <1>3

\* Closing an endpoint keeps the types.
LEMMA CloseTypes ==
  ASSUME TypeOK, NEW e \in Endpoint, Close(e)
  PROVE  /\ state' \in [Endpoint -> {"open", "eof", "closed"}]
         /\ buf' \in [Endpoint -> Seq(Message)]
         /\ serv' \in [1 .. N -> Seq(Message)]
  BY DEF TypeOK, Close

\* A position whose setup is pending has no goroutines; starting them is what
\* TypeOK asks for when the setup succeeds.
LEMMA StartTypes ==
  ASSUME TypeOK, NEW p \in Position, chain' = [chain EXCEPT ![p] = "ok"], Start(p)
  PROVE  /\ chain' \in [Position -> {"pending", "ok", "failed"}]
         /\ pc' \in [Forwarder -> {"off", "run", "closing", "done"}]
         /\ \A f \in Forwarder : pc'[f] # "off" => chain'[f[2]] = "ok"
         /\ \A f \in Forwarder : hand[f] # << >> => pc'[f] = "run"
  <1>1. chain' \in [Position -> {"pending", "ok", "failed"}]
    BY DEF TypeOK
  <1>2. pc' \in [Forwarder -> {"off", "run", "closing", "done"}]
    BY DEF TypeOK, Start
  <1>3. ASSUME NEW f \in Forwarder, pc'[f] # "off"
        PROVE  chain'[f[2]] = "ok"
    <2>1. f[2] \in Position
      BY ForwarderEnds
    <2>2. CASE f \in At(p)
      BY <2>1, <2>2 DEF TypeOK, At
    <2>3. CASE f \notin At(p)
      <3>1. f[2] # p
        BY <2>3 DEF At
      <3>2. pc'[f] = pc[f]
        BY <2>3 DEF Start
      <3> QED
        BY <1>3, <2>1, <3>1, <3>2 DEF TypeOK
    <2> QED
      BY <2>2, <2>3
  <1>4. \A f \in Forwarder : hand[f] # << >> => pc'[f] = "run"
    BY DEF TypeOK, Start
  <1> QED
    BY <1>1, <1>2, <1>3, <1>4

LEMMA FailTypes ==
  ASSUME TypeOK, NEW p \in Position,
         chain[p] = "pending", chain' = [chain EXCEPT ![p] = "failed"], pc' = pc
  PROVE  /\ chain' \in [Position -> {"pending", "ok", "failed"}]
         /\ \A f \in Forwarder : pc'[f] # "off" => chain'[f[2]] = "ok"
  BY ForwarderEnds DEF TypeOK

LEMMA ReadsTypes ==
  ASSUME TypeOK, NEW f \in Forwarder, Reads(f)
  PROVE  TypeOK'
  <1> DEFINE m == Head(buf[Src(f)])
  <1>1. Src(f) \in Endpoint
    BY ForwarderEnds
  <1>2. buf[Src(f)] \in Seq(Message) /\ buf[Src(f)] # << >>
    BY <1>1 DEF TypeOK, Reads
  <1>3. m \in Message /\ Tail(buf[Src(f)]) \in Seq(Message)
    BY <1>2
  <1>4. buf' \in [Endpoint -> Seq(Message)]
    BY <1>1, <1>3 DEF Reads, TypeOK
  <1>5. hand' = [hand EXCEPT ![f] = <<m>>] /\ pc[f] = "run"
    BY DEF Reads
  <1>6. <<m>> \in Seq(Message) /\ Len(<<m>>) = 1
    BY <1>3
  <1> HIDE DEF m
  <1>7. /\ hand' \in [Forwarder -> Seq(Message)]
        /\ \A g \in Forwarder : hand'[g] # << >> => pc[g] = "run" /\ Len(hand'[g]) = 1
    BY <1>5, <1>6 DEF TypeOK
  <1> QED
    BY <1>4, <1>7 DEF TypeOK, Reads

LEMMA WritesTypes ==
  ASSUME TypeOK, NEW f \in Forwarder, Writes(f)
  PROVE  TypeOK'
  <1> DEFINE m == Head(hand[f])
  <1>1. hand[f] \in Seq(Message) /\ hand[f] # << >>
    BY DEF TypeOK, Writes
  <1>2. m \in Message
    BY <1>1
  <1>3. hand' = [hand EXCEPT ![f] = << >>]
    BY DEF Writes
  <1>4. << >> \in Seq(Message)
    OBVIOUS
  <1>5. /\ hand' \in [Forwarder -> Seq(Message)]
        /\ \A g \in Forwarder : hand'[g] # << >> => pc[g] = "run" /\ Len(hand'[g]) = 1
    BY <1>3, <1>4 DEF TypeOK
  <1>6. CASE ~ IsConn(Dst(f)) /\ SendData(f)
    <2> DEFINE t == Peer(Dst(f))
    <2>1. t \in Endpoint
      BY <1>6, ForwarderEnds
    <2>2. /\ buf' = [buf EXCEPT ![t] = Append(@, m)] \/ buf' = buf
          /\ UNCHANGED <<serv, got, lost>>
      BY <1>6 DEF SendData
    <2> HIDE DEF t, m
    <2>3. Append(buf[t], m) \in Seq(Message)
      BY <1>2, <2>1, QueueTypes DEF TypeOK
    <2>4. CASE buf' = buf
      BY <1>5, <2>2, <2>4 DEF TypeOK, Writes
    <2>5. CASE buf' = [buf EXCEPT ![t] = Append(@, m)]
      <3>1. buf' \in [Endpoint -> Seq(Message)]
        BY <2>1, <2>3, <2>5 DEF TypeOK
      <3> QED
        BY <1>5, <2>2, <3>1 DEF TypeOK, Writes
    <2> QED
      BY <2>2, <2>4, <2>5
  <1>7. CASE WriteClient(f)
    <2>1. got' = Append(got, m) /\ UNCHANGED <<buf, serv, lost>>
      BY <1>7 DEF WriteClient
    <2>2. got' \in Seq(Message)
      BY <1>2, <2>1, QueueTypes DEF TypeOK
    <2> QED
      BY <1>5, <2>1, <2>2 DEF TypeOK, Writes
  <1>8. CASE f[2] > 0 /\ WriteService(f)
    <2>1. f[2] \in 1 .. N
      BY <1>8, ForwarderEnds, ForwardAssumption DEF Position
    <2>2. serv' = [serv EXCEPT ![f[2]] = Append(@, m)] \/ serv' = serv
      BY <1>8 DEF WriteService
    <2>3. lost' \in BOOLEAN
      BY <1>8, Zenon DEF WriteService, TypeOK
    <2>4. UNCHANGED <<buf, got>>
      BY <1>8 DEF WriteService
    <2> HIDE DEF m
    <2>5. Append(serv[f[2]], m) \in Seq(Message)
      BY <1>2, <2>1, QueueTypes DEF TypeOK
    <2>6. CASE serv' = serv
      BY <1>5, <2>3, <2>4, <2>6 DEF TypeOK, Writes
    <2>7. CASE serv' = [serv EXCEPT ![f[2]] = Append(@, m)]
      <3>1. serv' \in [1 .. N -> Seq(Message)]
        BY <2>1, <2>5, <2>7 DEF TypeOK
      <3> QED
        BY <1>5, <2>3, <2>4, <3>1 DEF TypeOK, Writes
    <2> QED
      BY <2>2, <2>6, <2>7
  <1> QED
    BY <1>6, <1>7, <1>8 DEF Writes

LEMMA AnswersTypes ==
  ASSUME TypeOK, NEW p \in 1 .. N, Answers(p)
  PROVE  TypeOK'
  <1> DEFINE m == Head(serv[p])
             r == [m EXCEPT !.via = Append(@, p)]
             c == <<"conn", p>>
  <1>1. c \in Endpoint
    BY ForwardAssumption, EndpointIn
  <1>2. serv[p] \in Seq(Message) /\ serv[p] # << >>
    BY DEF TypeOK, Answers
  <1>3. m \in Message /\ Tail(serv[p]) \in Seq(Message)
    BY <1>2
  <1>4. Append(m.via, p) \in Seq(1 .. N)
    BY <1>3 DEF Message
  <1>5. r \in Message
    BY <1>3, <1>4 DEF Message
  <1> HIDE DEF r, c
  <1>6. Append(buf[c], r) \in Seq(Message)
    BY <1>1, <1>5, QueueTypes DEF TypeOK
  <1>7. buf' \in [Endpoint -> Seq(Message)]
    <2>1. buf' = [buf EXCEPT ![c] = Append(@, r)]
      BY DEF Answers, r, c
    <2> QED
      BY <1>1, <1>6, <2>1 DEF TypeOK
  <1>8. serv' \in [1 .. N -> Seq(Message)]
    BY <1>3 DEF Answers, TypeOK
  <1> QED
    BY <1>7, <1>8 DEF Answers, TypeOK

LEMMA SendTypes ==
  ASSUME TypeOK, ClientSends
  PROVE  TypeOK'
  <1> DEFINE m == [n |-> sent + 1, via |-> << >>]
             c == <<"conn", 0>>
  <1>1. c \in Endpoint
    BY ForwardAssumption, EndpointIn
  <1>2. sent + 1 \in 1 .. MaxMsgs
    BY ForwardAssumption DEF ClientSends, TypeOK
  <1>3. m \in Message
    BY <1>2 DEF Message
  <1>4. sent' \in 0 .. MaxMsgs
    BY <1>2, ForwardAssumption DEF ClientSends
  <1> HIDE DEF m, c
  <1>5. Append(buf[c], m) \in Seq(Message)
    BY <1>1, <1>3, QueueTypes DEF TypeOK
  <1>6. buf' \in [Endpoint -> Seq(Message)]
    <2>1. buf' = [buf EXCEPT ![c] = Append(@, m)]
      BY DEF ClientSends, m, c
    <2> QED
      BY <1>1, <1>5, <2>1 DEF TypeOK
  <1> QED
    BY <1>4, <1>6 DEF ClientSends, TypeOK

LEMMA TypeStep ==
  ASSUME TypeOK, [Next]_vars
  PROVE  TypeOK'
  <1> USE ForwardAssumption
  <1>1. CASE SetupChain
    <2>1. 0 \in Position
      BY DEF Position
    <2> QED
      BY <1>1, <2>1, StartTypes DEF SetupChain, TypeOK
  <1>2. CASE SetupFails
    <2>1. 0 \in Position
      BY DEF Position
    <2> QED
      BY <1>2, <2>1, FailTypes DEF SetupFails, TypeOK
  <1>3. ASSUME NEW p \in 1 .. N, Dial(p)
        PROVE  TypeOK'
    <2>1. p \in Position
      BY DEF Position
    <2> QED
      BY <1>3, <2>1, StartTypes DEF Dial, TypeOK
  <1>4. ASSUME NEW p \in 1 .. N, DialFails(p)
        PROVE  TypeOK'
    <2>1. p \in Position
      BY DEF Position
    <2> QED
      BY <1>4, <2>1, FailTypes DEF DialFails, TypeOK
  <1>5. ASSUME NEW p \in 1 .. N, Answers(p)
        PROVE  TypeOK'
    BY <1>5, AnswersTypes
  <1>6. ASSUME NEW f \in Forwarder, ForwarderStep(f)
        PROVE  TypeOK'
    <2>1. CASE Reads(f) \/ Writes(f)
      BY <2>1, ReadsTypes, WritesTypes
    <2>2. CASE Fails(f)
      <3>1. ClosedFirst(f) \in Endpoint /\ Close(ClosedFirst(f))
        BY <2>2, ClosedEnds DEF Fails
      <3>2. /\ pc' = [pc EXCEPT ![f] = "closing"] /\ pc[f] = "run"
            /\ hand' = [hand EXCEPT ![f] = << >>]
        BY <2>2 DEF Fails
      <3>3. << >> \in Seq(Message)
        OBVIOUS
      <3>4. /\ hand' \in [Forwarder -> Seq(Message)]
            /\ \A g \in Forwarder : hand'[g] # << >> => pc'[g] = "run" /\ Len(hand'[g]) = 1
        BY <3>2, <3>3 DEF TypeOK
      <3>5. /\ pc' \in [Forwarder -> {"off", "run", "closing", "done"}]
            /\ \A g \in Forwarder : pc'[g] # "off" => chain[g[2]] = "ok"
        BY <3>2 DEF TypeOK
      <3>6. /\ state' \in [Endpoint -> {"open", "eof", "closed"}]
            /\ buf' \in [Endpoint -> Seq(Message)]
            /\ serv' \in [1 .. N -> Seq(Message)]
        BY <3>1, CloseTypes
      <3>7. UNCHANGED <<chain, sent, got, lost>>
        BY <2>2 DEF Fails
      <3> QED
        BY <3>4, <3>5, <3>6, <3>7 DEF TypeOK
    <2>3. CASE Finishes(f)
      <3>1. ClosedLast(f) \in Endpoint /\ Close(ClosedLast(f))
        BY <2>3, ClosedEnds DEF Finishes
      <3>2. pc' = [pc EXCEPT ![f] = "done"] /\ pc[f] = "closing"
        BY <2>3 DEF Finishes
      <3> QED
        BY <2>3, <3>1, <3>2, CloseTypes DEF Finishes, TypeOK
    <2> QED
      BY <1>6, <2>1, <2>2, <2>3 DEF ForwarderStep
  <1>7. ASSUME NEW e \in Endpoint, Notice(e)
        PROVE  TypeOK'
    BY <1>7, CloseTypes DEF Notice, TypeOK
  <1>8. CASE ClientSends
    BY <1>8, SendTypes
  <1>9. ASSUME NEW p \in Position, ProgramCloses(p)
        PROVE  TypeOK'
    <2>1. state' \in [Endpoint -> {"open", "eof", "closed"}]
      BY <1>9 DEF ProgramCloses, TypeOK
    <2>2. serv' \in [1 .. N -> Seq(Message)]
      BY <1>9 DEF ProgramCloses, TypeOK
    <2> QED
      BY <1>9, <2>1, <2>2 DEF ProgramCloses, TypeOK
  <1>10. ASSUME NEW p \in 1 .. N, ConnectionLost(p)
         PROVE  TypeOK'
    <2>1. state' \in [Endpoint -> {"open", "eof", "closed"}]
      BY <1>10 DEF ConnectionLost, TypeOK
    <2>2. buf' \in [Endpoint -> Seq(Message)]
      <3>1. << >> \in Seq(Message)
        OBVIOUS
      <3>2. [buf EXCEPT ![<<"in", p>>] = << >>] \in [Endpoint -> Seq(Message)]
        BY <3>1 DEF TypeOK
      <3> QED
        BY <1>10, <3>1, <3>2 DEF ConnectionLost
    <2> QED
      BY <1>10, <2>1, <2>2 DEF ConnectionLost, TypeOK
  <1>11. ASSUME NEW p \in 1 .. N, Loses(p)
         PROVE  TypeOK'
    <2>1. Tail(serv[p]) \in Seq(Message)
      BY <1>11 DEF Loses, TypeOK
    <2>2. serv' \in [1 .. N -> Seq(Message)]
      BY <1>11, <2>1 DEF Loses, TypeOK
    <2>3. lost' \in BOOLEAN
      BY <1>11, Zenon DEF Loses
    <2> QED
      BY <1>11, <2>2, <2>3 DEF Loses, TypeOK
  <1>12. CASE UNCHANGED vars
    BY <1>12 DEF vars, TypeOK
  <1> QED
    BY <1>1, <1>2, <1>3, <1>4, <1>5, <1>6, <1>7, <1>8, <1>9, <1>10, <1>11, <1>12
       DEF Next, Progress

\* Whatever breaks while data is forwarded, the variables keep their types and
\* only a position whose setup or dial succeeded has goroutines.
THEOREM ForwardTypeCorrect == Spec => []TypeOK
  <1>1. Init => TypeOK
    <2> SUFFICES ASSUME Init PROVE TypeOK
      OBVIOUS
    <2>1. lost \in BOOLEAN
      BY Zenon DEF Init
    <2>2. << >> \in Seq(Message)
      OBVIOUS
    <2>3. /\ buf \in [Endpoint -> Seq(Message)]
          /\ serv \in [1 .. N -> Seq(Message)]
          /\ hand \in [Forwarder -> Seq(Message)]
          /\ got \in Seq(Message)
      BY <2>2 DEF Init
    <2>4. sent \in 0 .. MaxMsgs
      BY ForwardAssumption DEF Init
    <2> QED
      BY <2>1, <2>3, <2>4 DEF Init, TypeOK
  <1>2. TypeOK /\ [Next]_vars => TypeOK'
    BY TypeStep
  <1> QED
    BY <1>1, <1>2, PTL DEF Spec

----------------------------------------------------------------------------
(* The order of the stages.                                                *)

LEMMA StageIn ==
  /\ \A p \in 1 .. N : <<"in", p>> \in Stage /\ <<"serv", p>> \in Stage
  /\ \A p \in 1 .. N : <<"serve", p>> \in Stage
  /\ \A p \in 0 .. N - 1 : <<"out", p>> \in Stage /\ <<"down", p>> \in Stage
  /\ \A p \in 0 .. N : <<"conn", p>> \in Stage /\ <<"up", p>> \in Stage
  BY DEF Stage, Endpoint, Forwarder, Position

LEMMA StageCases ==
  ASSUME NEW s \in Stage
  PROVE  \/ \E p \in 1 .. N : s = <<"in", p>>
         \/ \E p \in 0 .. N - 1 : s = <<"out", p>>
         \/ \E p \in 0 .. N : s = <<"conn", p>>
         \/ \E p \in 1 .. N : s = <<"serv", p>>
         \/ \E p \in 0 .. N - 1 : s = <<"down", p>>
         \/ \E p \in 1 .. N : s = <<"serve", p>>
         \/ \E p \in 0 .. N : s = <<"up", p>>
  BY DEF Stage, Endpoint, Forwarder, Position

LEMMA RankValues ==
  /\ \A p \in 1 .. N : Rank(<<"in", p>>) = 5 * p - 3 /\ Passed(<<"in", p>>) = p - 1
  /\ \A p \in 1 .. N : Rank(<<"serv", p>>) = 5 * p - 1 /\ Passed(<<"serv", p>>) = p - 1
  /\ \A p \in 0 .. N : Rank(<<"conn", p>>) = 5 * p /\ Passed(<<"conn", p>>) = p
  /\ \A p \in 0 .. N - 1 : Rank(<<"out", p>>) = 7 * N - 2 * p /\ Passed(<<"out", p>>) = N
  /\ \A p \in 0 .. N - 1 : Rank(<<"down", p>>) = 5 * p + 1 /\ Passed(<<"down", p>>) = p
  /\ \A p \in 1 .. N : Rank(<<"serve", p>>) = 5 * p - 2 /\ Passed(<<"serve", p>>) = p - 1
  /\ \A p \in 0 .. N : Rank(<<"up", p>>) = 7 * N - 2 * p + 1 /\ Passed(<<"up", p>>) = N
  BY DEF Rank, Passed

LEMMA RankType ==
  ASSUME NEW s \in Stage
  PROVE  Rank(s) \in 0 .. 7 * N + 1
  <1> USE ForwardAssumption
  <1>1. CASE \E p \in 1 .. N : s = <<"in", p>>
    BY <1>1, RankValues
  <1>2. CASE \E p \in 0 .. N - 1 : s = <<"out", p>>
    BY <1>2, RankValues
  <1>3. CASE \E p \in 0 .. N : s = <<"conn", p>>
    BY <1>3, RankValues
  <1>4. CASE \E p \in 1 .. N : s = <<"serv", p>>
    BY <1>4, RankValues
  <1>5. CASE \E p \in 0 .. N - 1 : s = <<"down", p>>
    BY <1>5, RankValues
  <1>6. CASE \E p \in 1 .. N : s = <<"serve", p>>
    BY <1>6, RankValues
  <1>7. CASE \E p \in 0 .. N : s = <<"up", p>>
    BY <1>7, RankValues
  <1> QED
    BY <1>1, <1>2, <1>3, <1>4, <1>5, <1>6, <1>7, StageCases

\* No two stages have the same rank.
LEMMA RankInjective ==
  ASSUME NEW s \in Stage, NEW t \in Stage, Rank(s) = Rank(t)
  PROVE  s = t
  <1> USE ForwardAssumption
  <1>1. ASSUME NEW p \in 1 .. N, s = <<"in", p>>
        PROVE  s = t
    <2>1. Rank(t) = 5 * p - 3
      BY <1>1, RankValues
    <2> QED
      BY <1>1, <2>1, StageCases, RankValues
  <1>2. ASSUME NEW p \in 0 .. N - 1, s = <<"out", p>>
        PROVE  s = t
    <2>1. Rank(t) = 7 * N - 2 * p
      BY <1>2, RankValues
    <2> QED
      BY <1>2, <2>1, StageCases, RankValues
  <1>3. ASSUME NEW p \in 0 .. N, s = <<"conn", p>>
        PROVE  s = t
    <2>1. Rank(t) = 5 * p
      BY <1>3, RankValues
    <2> QED
      BY <1>3, <2>1, StageCases, RankValues
  <1>4. ASSUME NEW p \in 1 .. N, s = <<"serv", p>>
        PROVE  s = t
    <2>1. Rank(t) = 5 * p - 1
      BY <1>4, RankValues
    <2> QED
      BY <1>4, <2>1, StageCases, RankValues
  <1>5. ASSUME NEW p \in 0 .. N - 1, s = <<"down", p>>
        PROVE  s = t
    <2>1. Rank(t) = 5 * p + 1
      BY <1>5, RankValues
    <2> QED
      BY <1>5, <2>1, StageCases, RankValues
  <1>6. ASSUME NEW p \in 1 .. N, s = <<"serve", p>>
        PROVE  s = t
    <2>1. Rank(t) = 5 * p - 2
      BY <1>6, RankValues
    <2> QED
      BY <1>6, <2>1, StageCases, RankValues
  <1>7. ASSUME NEW p \in 0 .. N, s = <<"up", p>>
        PROVE  s = t
    <2>1. Rank(t) = 7 * N - 2 * p + 1
      BY <1>7, RankValues
    <2> QED
      BY <1>7, <2>1, StageCases, RankValues
  <1> QED
    BY <1>1, <1>2, <1>3, <1>4, <1>5, <1>6, <1>7, StageCases

LEMMA LastStage ==
  ASSUME NEW s \in Stage
  PROVE  Rank(s) <= Rank(<<"up", 0>>) /\ Rank(<<"conn", 0>>) <= Rank(s)
  BY RankType, RankValues, ForwardAssumption

\* The stage that a forwarder other than the last fills.
Target(f) == IF IsConn(Dst(f)) THEN <<"serv", f[2]>> ELSE Peer(Dst(f))

\* A forwarder takes messages from the stage before it and gives them to the
\* stage after it.
LEMMA ForwarderMoves ==
  ASSUME NEW f \in Forwarder
  PROVE  /\ f \in Stage /\ Src(f) \in Stage
         /\ Rank(f) = Rank(Src(f)) + 1
         /\ Passed(f) = Passed(Src(f))
         /\ Dst(f) = <<"conn", 0>> => f = <<"up", 0>>
         /\ Dst(f) # <<"conn", 0>> =>
              /\ Target(f) \in Stage
              /\ Rank(Target(f)) = Rank(f) + 1
              /\ Passed(Target(f)) = Passed(f)
  <1> USE ForwardAssumption
  <1>1. ASSUME NEW p \in 0 .. N - 1, f = <<"down", p>>
        PROVE  /\ Src(f) = <<"conn", p>>
               /\ Dst(f) # <<"conn", 0>>
               /\ Target(f) = <<"in", p + 1>>
    <2>1. f[1] = "down" /\ f[2] = p
      BY <1>1
    <2>2. Src(f) = <<"conn", p>> /\ Dst(f) = <<"out", p>>
      BY <2>1 DEF Src, Dst
    <2> QED
      BY <2>2 DEF Target, Peer, IsConn
  <1>2. ASSUME NEW p \in 1 .. N, f = <<"serve", p>>
        PROVE  /\ Src(f) = <<"in", p>>
               /\ Dst(f) # <<"conn", 0>>
               /\ Target(f) = <<"serv", p>>
    <2>1. f[1] = "serve" /\ f[2] = p
      BY <1>2
    <2>2. Src(f) = <<"in", p>> /\ Dst(f) = <<"conn", p>>
      BY <2>1 DEF Src, Dst
    <2> QED
      BY <2>1, <2>2 DEF Target, IsConn
  <1>3. ASSUME NEW p \in 1 .. N, f = <<"up", p>>
        PROVE  /\ Src(f) = IF p = N THEN <<"conn", N>> ELSE <<"out", p>>
               /\ Dst(f) # <<"conn", 0>>
               /\ Target(f) = <<"out", p - 1>>
    <2>1. f[1] = "up" /\ f[2] = p
      BY <1>3
    <2>2. Src(f) = IF p = N THEN <<"conn", N>> ELSE <<"out", p>>
      BY <2>1 DEF Src
    <2>3. Dst(f) = <<"in", p>>
      BY <2>1 DEF Dst
    <2> QED
      BY <2>1, <2>2, <2>3 DEF Target, Peer, IsConn
  <1>4. ASSUME f = <<"up", 0>>
        PROVE  Src(f) = <<"out", 0>> /\ Dst(f) = <<"conn", 0>>
    <2>1. f[1] = "up" /\ f[2] = 0
      BY <1>4
    <2> QED
      BY <2>1 DEF Src, Dst
  <1>5. CASE \E p \in 0 .. N - 1 : f = <<"down", p>>
    <2>1. PICK p \in 0 .. N - 1 : f = <<"down", p>>
      BY <1>5
    <2>2. p \in 0 .. N /\ p + 1 \in 1 .. N
      OBVIOUS
    <2>3. /\ Src(f) = <<"conn", p>>
          /\ Dst(f) # <<"conn", 0>>
          /\ Target(f) = <<"in", p + 1>>
      BY <1>1, <2>1
    <2>4. Rank(Src(f)) = 5 * p /\ Passed(Src(f)) = p /\ Src(f) \in Stage
      BY <2>2, <2>3, StageIn, RankValues
    <2>5. Rank(f) = 5 * p + 1 /\ Passed(f) = p /\ f \in Stage
      BY <2>1, StageIn, RankValues
    <2>6. /\ Rank(Target(f)) = 5 * p + 2
          /\ Passed(Target(f)) = p
          /\ Target(f) \in Stage
      <3>1. PICK r \in 1 .. N : r = p + 1
        BY <2>2
      <3>2. Rank(<<"in", r>>) = 5 * r - 3 /\ Passed(<<"in", r>>) = r - 1
        BY RankValues
      <3>3. <<"in", r>> \in Stage
        BY StageIn
      <3> QED
        BY <2>3, <3>1, <3>2, <3>3
    <2> QED
      BY <2>3, <2>4, <2>5, <2>6
  <1>6. CASE \E p \in 1 .. N : f = <<"serve", p>>
    <2>1. PICK p \in 1 .. N : f = <<"serve", p>>
      BY <1>6
    <2> QED
      BY <1>2, <2>1, StageIn, RankValues
  <1>7. CASE \E p \in 0 .. N : f = <<"up", p>>
    <2>1. PICK p \in 0 .. N : f = <<"up", p>>
      BY <1>7
    <2>2. Rank(f) = 7 * N - 2 * p + 1 /\ Passed(f) = N /\ f \in Stage
      BY <2>1, StageIn, RankValues
    <2>3. CASE p = 0
      <3>1. Src(f) = <<"out", 0>> /\ Dst(f) = <<"conn", 0>> /\ 0 \in 0 .. N - 1
        BY <1>4, <2>1, <2>3
      <3>2. PICK z \in 0 .. N - 1 : z = 0
        BY <3>1
      <3>3. Rank(<<"out", z>>) = 7 * N - 2 * z /\ Passed(<<"out", z>>) = N
        BY RankValues
      <3>4. <<"out", z>> \in Stage
        BY StageIn
      <3>5. Rank(Src(f)) = 7 * N /\ Passed(Src(f)) = N /\ Src(f) \in Stage
        BY <3>1, <3>2, <3>3, <3>4
      <3> QED
        BY <2>1, <2>2, <2>3, <3>1, <3>5
    <2>4. CASE p # 0
      <3>1. p \in 1 .. N /\ p - 1 \in 0 .. N - 1
        BY <2>4
      <3>2. /\ Src(f) = IF p = N THEN <<"conn", N>> ELSE <<"out", p>>
            /\ Dst(f) # <<"conn", 0>>
            /\ Target(f) = <<"out", p - 1>>
        BY <1>3, <2>1, <3>1
      <3>3. /\ Rank(Target(f)) = 7 * N - 2 * (p - 1)
            /\ Passed(Target(f)) = N
            /\ Target(f) \in Stage
        BY <3>1, <3>2, StageIn, RankValues
      <3>4. Rank(Src(f)) = 7 * N - 2 * p /\ Passed(Src(f)) = N /\ Src(f) \in Stage
        <4>1. CASE p = N
          <5>1. Src(f) = <<"conn", N>> /\ N \in 0 .. N
            BY <3>2, <4>1
          <5>2. Rank(<<"conn", N>>) = 5 * N /\ Passed(<<"conn", N>>) = N
            BY <5>1, RankValues
          <5>3. <<"conn", N>> \in Stage
            BY <5>1, StageIn
          <5> QED
            BY <4>1, <5>1, <5>2, <5>3
        <4>2. CASE p # N
          <5>1. Src(f) = <<"out", p>> /\ p \in 0 .. N - 1
            BY <3>1, <3>2, <4>2
          <5> QED
            BY <5>1, StageIn, RankValues
        <4> QED
          BY <4>1, <4>2
      <3> QED
        BY <2>2, <3>1, <3>2, <3>3, <3>4
    <2> QED
      BY <2>3, <2>4
  <1> QED
    BY <1>5, <1>6, <1>7, ForwarderCases

----------------------------------------------------------------------------
(* What the actions do to the pipeline, as facts about constant values.    *)

Pipeline == [Stage -> Seq(Message)]

LEMMA PipelineNumbers ==
  ASSUME NEW q \in Pipeline
  PROVE  /\ \A u \in Stage : q[u] \in Seq(Message) /\ Len(q[u]) \in Nat
         /\ \A u \in Stage : \A i \in 1 .. Len(q[u]) : q[u][i] \in Message /\ q[u][i].n \in Nat
  <1>1. \A u \in Stage : q[u] \in Seq(Message) /\ Len(q[u]) \in Nat
    BY DEF Pipeline
  <1>2. \A u \in Stage : \A i \in 1 .. Len(q[u]) : q[u][i] \in Message
    BY <1>1
  <1>3. \A m \in Message : m.n \in Nat
    BY ForwardAssumption DEF Message
  <1> QED
    BY <1>1, <1>2, <1>3

LEMMA ReceivedNumbers ==
  ASSUME NEW g \in Seq(Message)
  PROVE  /\ Len(g) \in Nat
         /\ \A k \in 1 .. Len(g) : g[k] \in Message /\ g[k].n \in Nat
  <1>1. Len(g) \in Nat /\ \A k \in 1 .. Len(g) : g[k] \in Message
    OBVIOUS
  <1>2. \A m \in Message : m.n \in Nat
    BY ForwardAssumption DEF Message
  <1> QED
    BY <1>1, <1>2

\* The stages of r are suffixes of those of q.
Shrinks(q, r) ==
  \A u \in Stage : \E o \in Nat : \A i \in 1 .. Len(r[u]) :
    i + o \in 1 .. Len(q[u]) /\ r[u][i] = q[u][i + o]

LEMMA ShrinkKeeps ==
  ASSUME NEW q \in Pipeline, NEW r \in Pipeline, Shrinks(q, r),
         NEW g \in Seq(Message), NEW n \in Nat,
         InOrder(q), GotFirst(q, g), WasSent(q, g, n), WentThrough(q, g)
  PROVE  InOrder(r) /\ GotFirst(r, g) /\ WasSent(r, g, n) /\ WentThrough(r, g)
  <1>1. InOrder(r)
    <2> SUFFICES ASSUME NEW s \in Stage, NEW t \in Stage,
                        NEW i \in 1 .. Len(r[s]), NEW j \in 1 .. Len(r[t]),
                        Rank(s) < Rank(t) \/ (s = t /\ i > j)
                 PROVE  r[s][i].n > r[t][j].n
      BY DEF InOrder
    <2>1. PICK o \in Nat : \A k \in 1 .. Len(r[s]) :
                             k + o \in 1 .. Len(q[s]) /\ r[s][k] = q[s][k + o]
      BY DEF Shrinks
    <2>2. PICK p \in Nat : \A k \in 1 .. Len(r[t]) :
                             k + p \in 1 .. Len(q[t]) /\ r[t][k] = q[t][k + p]
      BY DEF Shrinks
    <2>3. CASE Rank(s) < Rank(t)
      BY <2>1, <2>2, <2>3 DEF InOrder
    <2>4. CASE s = t /\ i > j
      <3>1. i \in 1 .. Len(r[s]) /\ j \in 1 .. Len(r[s])
        BY <2>4
      <3>2. /\ i + o \in 1 .. Len(q[s]) /\ r[s][i] = q[s][i + o]
            /\ j + o \in 1 .. Len(q[s]) /\ r[s][j] = q[s][j + o]
        BY <2>1, <3>1
      <3>3. i + o > j + o
        BY <2>4
      <3>4. q[s][i + o].n > q[s][j + o].n
        BY <3>2, <3>3 DEF InOrder
      <3> QED
        BY <2>4, <3>2, <3>4
    <2> QED
      BY <2>3, <2>4
  <1>2. ASSUME NEW s \in Stage, NEW i \in 1 .. Len(r[s])
        PROVE  \E k \in 1 .. Len(q[s]) : r[s][i] = q[s][k]
    BY DEF Shrinks
  <1>3. GotFirst(r, g)
    BY <1>2 DEF GotFirst
  <1>4. WasSent(r, g, n)
    BY <1>2 DEF WasSent
  <1>5. WentThrough(r, g)
    BY <1>2 DEF WentThrough
  <1> QED
    BY <1>1, <1>3, <1>4, <1>5

\* Taking the front of stage s.
TakeFront(q, s) == [q EXCEPT ![s] = Tail(@)]

LEMMA TakeFrontFacts ==
  ASSUME NEW q \in Pipeline, NEW s \in Stage, q[s] # << >>
  PROVE  /\ TakeFront(q, s) \in Pipeline
         /\ 1 \in 1 .. Len(q[s]) /\ Head(q[s]) = q[s][1]
         /\ Len(TakeFront(q, s)[s]) = Len(q[s]) - 1
         /\ \A i \in 1 .. Len(q[s]) - 1 : TakeFront(q, s)[s][i] = q[s][i + 1]
         /\ \A u \in Stage \ {s} : TakeFront(q, s)[u] = q[u]
         /\ Shrinks(q, TakeFront(q, s))
  <1> DEFINE r == TakeFront(q, s)
  <1>1. q[s] \in Seq(Message)
    BY DEF Pipeline
  <1>2. /\ Tail(q[s]) \in Seq(Message)
        /\ Len(Tail(q[s])) = Len(q[s]) - 1
        /\ \A i \in 1 .. Len(q[s]) - 1 : Tail(q[s])[i] = q[s][i + 1]
    BY <1>1
  <1>3. 1 \in 1 .. Len(q[s]) /\ Head(q[s]) = q[s][1]
    BY <1>1
  <1>4. r \in Pipeline /\ r[s] = Tail(q[s]) /\ \A u \in Stage \ {s} : r[u] = q[u]
    BY <1>2 DEF Pipeline, TakeFront
  <1> HIDE DEF r
  <1>5. Shrinks(q, r)
    <2> SUFFICES ASSUME NEW u \in Stage
                 PROVE  \E o \in Nat : \A i \in 1 .. Len(r[u]) :
                          i + o \in 1 .. Len(q[u]) /\ r[u][i] = q[u][i + o]
      BY DEF Shrinks
    <2>1. CASE u = s
      <3>1. Len(r[s]) = Len(q[s]) - 1 /\ Len(q[s]) \in Nat
        BY <1>1, <1>2, <1>4
      <3>2. \A i \in 1 .. Len(q[s]) - 1 : r[s][i] = q[s][i + 1]
        BY <1>2, <1>4
      <3>3. \A i \in 1 .. Len(r[s]) : i + 1 \in 1 .. Len(q[s]) /\ r[s][i] = q[s][i + 1]
        BY <3>1, <3>2
      <3> QED
        BY <2>1, <3>3
    <2>2. CASE u # s
      <3>1. \A i \in 1 .. Len(r[u]) : i + 0 \in 1 .. Len(q[u]) /\ r[u][i] = q[u][i + 0]
        BY <1>4, <2>2
      <3> QED
        BY <3>1
    <2> QED
      BY <2>1, <2>2
  <1> QED
    BY <1>2, <1>3, <1>4, <1>5 DEF r

\* Only the front is no longer under way.
LEMMA TakeFrontPresent ==
  ASSUME NEW q \in Pipeline, NEW s \in Stage, q[s] # << >>,
         NEW g, NEW n, Present(q, g, n)
  PROVE  Present(TakeFront(q, s), g, n) \/ n = q[s][1].n
  <1> DEFINE r == TakeFront(q, s)
  <1> HIDE DEF r
  <1>1. CASE \E k \in 1 .. Len(g) : g[k].n = n
    BY <1>1 DEF Present, r
  <1>2. ASSUME NEW u \in Stage, NEW i \in 1 .. Len(q[u]), q[u][i].n = n
        PROVE  Present(r, g, n) \/ n = q[s][1].n
    <2>1. CASE u # s
      BY <1>2, <2>1, TakeFrontFacts DEF Present, r
    <2>2. CASE u = s /\ i = 1
      BY <1>2, <2>2
    <2>3. CASE u = s /\ i # 1
      <3>1. Len(q[s]) \in Nat
        BY PipelineNumbers
      <3>2. i - 1 \in 1 .. Len(r[s])
        BY <2>3, <3>1, TakeFrontFacts DEF r
      <3>3. r[s][i - 1] = q[s][(i - 1) + 1]
        <4>1. i - 1 \in 1 .. Len(q[s]) - 1
          BY <2>3, <3>1
        <4>2. \A j \in 1 .. Len(q[s]) - 1 : r[s][j] = q[s][j + 1]
          BY TakeFrontFacts DEF r
        <4> QED
          BY <4>1, <4>2
      <3>4. r[s][i - 1].n = n
        <4>1. (i - 1) + 1 = i
          BY <3>1
        <4> QED
          BY <1>2, <2>3, <3>3, <4>1
      <3> QED
        BY <3>2, <3>4 DEF Present
    <2> QED
      BY <2>1, <2>2, <2>3
  <1> QED
    BY <1>1, <1>2 DEF Present, r

LEMMA TakeFrontDead ==
  ASSUME NEW q \in Pipeline, NEW s \in Stage, q[s] # << >>,
         NEW d \in SUBSET Stage, DeadAreEmpty(q, d)
  PROVE  DeadAreEmpty(TakeFront(q, s), d)
  BY TakeFrontFacts DEF DeadAreEmpty

\* A message is dropped before a dead stage.
LEMMA PipeDrops ==
  ASSUME NEW q \in Pipeline, NEW s \in Stage, q[s] # << >>,
         NEW d \in SUBSET Stage, NEW t \in d, Rank(t) = Rank(s) + 1,
         NEW g \in Seq(Message), NEW n \in Nat, NEW x,
         Pipe(q, d, g, n, x)
  PROVE  Pipe(TakeFront(q, s), d, g, n, x)
  <1> DEFINE r == TakeFront(q, s)
  <1>1. /\ InOrder(q) /\ GotFirst(q, g) /\ WasSent(q, g, n) /\ WentThrough(q, g)
        /\ DeadAreEmpty(q, d)
    BY DEF Pipe
  <1>2. r \in Pipeline /\ Shrinks(q, r)
    BY TakeFrontFacts
  <1>3. InOrder(r) /\ GotFirst(r, g) /\ WasSent(r, g, n) /\ WentThrough(r, g)
    BY <1>1, <1>2, ShrinkKeeps
  <1>4. DeadAreEmpty(r, d)
    BY <1>1, TakeFrontDead
  <1> HIDE DEF r
  <1>5. ASSUME ~ x
        PROVE  NoGap(r, d, g) /\ NoGapBefore(r, d, g, n) /\ GotAll(g)
    <2>1. NoGap(q, d, g) /\ GotAll(g)
      BY <1>5 DEF Pipe
    <2>2. ASSUME NEW u \in Stage, NEW i \in 1 .. Len(r[u])
          PROVE  \/ r[u][i].n = 1
                 \/ Present(r, g, r[u][i].n - 1)
                 \/ \E c \in d : Rank(c) > Rank(u)
      <3>1. PICK k \in 1 .. Len(q[u]) : r[u][i] = q[u][k]
        BY <1>2, <2>2 DEF Shrinks
      <3>2. CASE q[u][k].n = 1 \/ \E c \in d : Rank(c) > Rank(u)
        BY <3>1, <3>2
      <3>3. CASE Present(q, g, q[u][k].n - 1)
        <4>1. Present(r, g, q[u][k].n - 1) \/ q[u][k].n - 1 = q[s][1].n
          BY <3>3, TakeFrontPresent DEF r
        <4>2. CASE q[u][k].n - 1 = q[s][1].n
          <5>1. q[u][k].n \in Nat /\ 1 \in 1 .. Len(q[s])
            BY PipelineNumbers, TakeFrontFacts
          <5>2. ~ (q[s][1].n > q[u][k].n)
            BY <4>2, <5>1
          <5>3. ~ (Rank(s) < Rank(u))
            BY <1>1, <5>1, <5>2 DEF InOrder
          <5>4. Rank(t) > Rank(u)
            BY <5>3, RankType
          <5> QED
            BY <5>4
        <4> QED
          BY <3>1, <4>1, <4>2
      <3> QED
        BY <2>1, <3>2, <3>3 DEF NoGap
    <2>3. NoGap(r, d, g)
      BY <2>2 DEF NoGap
    <2>4. NoGapBefore(r, d, g, n)
      BY DEF NoGapBefore
    <2> QED
      BY <2>1, <2>3, <2>4
  <1> QED
    BY <1>3, <1>4, <1>5 DEF Pipe, r

\* A datagram is lost; from now on messages may be missing.
LEMMA PipeLoses ==
  ASSUME NEW q \in Pipeline, NEW s \in Stage, q[s] # << >>,
         NEW d \in SUBSET Stage, NEW g \in Seq(Message), NEW n \in Nat, NEW x,
         Pipe(q, d, g, n, x)
  PROVE  Pipe(TakeFront(q, s), d, g, n, TRUE)
  <1> DEFINE r == TakeFront(q, s)
  <1>1. /\ InOrder(q) /\ GotFirst(q, g) /\ WasSent(q, g, n) /\ WentThrough(q, g)
        /\ DeadAreEmpty(q, d)
    BY DEF Pipe
  <1>2. r \in Pipeline /\ Shrinks(q, r)
    BY TakeFrontFacts
  <1>3. InOrder(r) /\ GotFirst(r, g) /\ WasSent(r, g, n) /\ WentThrough(r, g)
    BY <1>1, <1>2, ShrinkKeeps
  <1>4. DeadAreEmpty(r, d)
    BY <1>1, TakeFrontDead
  <1> QED
    BY <1>3, <1>4 DEF Pipe

\* Stages die, and what they held is gone.
LEMMA PipeDies ==
  ASSUME NEW q \in Pipeline, NEW r \in Pipeline,
         NEW d \in SUBSET Stage, NEW e \in SUBSET Stage, d \subseteq e,
         \A u \in Stage : r[u] = IF u \in e THEN << >> ELSE q[u],
         NEW g \in Seq(Message), NEW n \in Nat, NEW x,
         Pipe(q, d, g, n, x)
  PROVE  Pipe(r, e, g, n, x)
  <1>1. InOrder(q) /\ GotFirst(q, g) /\ WasSent(q, g, n) /\ WentThrough(q, g)
    BY DEF Pipe
  <1>2. Shrinks(q, r)
    <2> SUFFICES ASSUME NEW u \in Stage
                 PROVE  \A i \in 1 .. Len(r[u]) :
                          i + 0 \in 1 .. Len(q[u]) /\ r[u][i] = q[u][i + 0]
      BY DEF Shrinks
    <2>1. CASE u \in e
      BY <2>1
    <2>2. CASE u \notin e
      BY <2>2
    <2> QED
      BY <2>1, <2>2
  <1>3. InOrder(r) /\ GotFirst(r, g) /\ WasSent(r, g, n) /\ WentThrough(r, g)
    BY <1>1, <1>2, ShrinkKeeps
  <1>4. DeadAreEmpty(r, e)
    BY DEF DeadAreEmpty
  <1>5. ASSUME NEW k, Present(q, g, k)
        PROVE  Present(r, g, k) \/ \E c \in e : \E j \in 1 .. Len(q[c]) : q[c][j].n = k
    BY <1>5 DEF Present
  <1>6. ASSUME ~ x
        PROVE  NoGap(r, e, g) /\ NoGapBefore(r, e, g, n) /\ GotAll(g)
    <2>1. NoGap(q, d, g) /\ NoGapBefore(q, d, g, n) /\ GotAll(g)
      BY <1>6 DEF Pipe
    <2>2. ASSUME NEW u \in Stage, NEW i \in 1 .. Len(r[u])
          PROVE  \/ r[u][i].n = 1
                 \/ Present(r, g, r[u][i].n - 1)
                 \/ \E c \in e : Rank(c) > Rank(u)
      <3>1. u \notin e /\ r[u] = q[u]
        BY <2>2
      <3>2. CASE q[u][i].n = 1 \/ \E c \in d : Rank(c) > Rank(u)
        BY <3>1, <3>2
      <3>3. CASE Present(q, g, q[u][i].n - 1)
        <4>1. CASE \E c \in e : \E j \in 1 .. Len(q[c]) : q[c][j].n = q[u][i].n - 1
          <5>1. PICK c \in e : \E j \in 1 .. Len(q[c]) : q[c][j].n = q[u][i].n - 1
            BY <4>1
          <5>2. PICK j \in 1 .. Len(q[c]) : q[c][j].n = q[u][i].n - 1
            BY <5>1
          <5>3. c \in Stage /\ q[u][i].n \in Nat
            BY <3>1, PipelineNumbers
          <5>4. ~ (q[c][j].n > q[u][i].n)
            BY <5>2, <5>3
          <5>5. ~ (Rank(c) < Rank(u))
            BY <1>1, <3>1, <5>3, <5>4 DEF InOrder
          <5>6. Rank(c) # Rank(u)
            BY <3>1, <5>3, RankInjective
          <5>7. Rank(c) > Rank(u)
            BY <5>3, <5>5, <5>6, RankType
          <5> QED
            BY <5>7
        <4> QED
          BY <1>5, <3>1, <3>3, <4>1
      <3> QED
        BY <2>1, <3>1, <3>2, <3>3 DEF NoGap
    <2>3. NoGap(r, e, g)
      BY <2>2 DEF NoGap
    <2>4. NoGapBefore(r, e, g, n)
      BY <1>5, <2>1 DEF NoGapBefore
    <2> QED
      BY <2>1, <2>3, <2>4
  <1> QED
    BY <1>3, <1>4, <1>6 DEF Pipe

\* The client receives the front of the last stage: the next message in turn.
LEMMA PipeDelivers ==
  ASSUME NEW q \in Pipeline, NEW s \in Stage, q[s] # << >>, s = <<"up", 0>>,
         NEW d \in SUBSET Stage, NEW g \in Seq(Message), NEW n \in Nat, NEW x,
         Pipe(q, d, g, n, x)
  PROVE  Pipe(TakeFront(q, s), d, Append(g, Head(q[s])), n, x)
  <1> DEFINE r == TakeFront(q, s)
             h == Append(g, Head(q[s]))
  <1>1. /\ InOrder(q) /\ GotFirst(q, g) /\ WasSent(q, g, n) /\ WentThrough(q, g)
        /\ DeadAreEmpty(q, d)
    BY DEF Pipe
  <1>2. r \in Pipeline /\ Shrinks(q, r)
    BY TakeFrontFacts
  <1>3. InOrder(r) /\ GotFirst(r, g) /\ WasSent(r, g, n) /\ WentThrough(r, g)
    BY <1>1, <1>2, ShrinkKeeps
  <1>4. DeadAreEmpty(r, d)
    BY <1>1, TakeFrontDead
  <1>5. /\ 1 \in 1 .. Len(q[s]) /\ Head(q[s]) = q[s][1]
        /\ q[s][1] \in Message /\ q[s][1].n \in Nat /\ q[s][1].n > 0
    <2>1. 1 \in 1 .. Len(q[s]) /\ Head(q[s]) = q[s][1]
      BY TakeFrontFacts
    <2>2. q[s][1] \in Message
      BY <2>1, PipelineNumbers
    <2>3. \A m \in Message : m.n \in Nat /\ m.n > 0
      BY ForwardAssumption DEF Message
    <2> QED
      BY <2>1, <2>2, <2>3
  <1>6. /\ Len(g) \in Nat
        /\ Len(h) = Len(g) + 1
        /\ \A k \in 1 .. Len(g) : h[k] = g[k]
        /\ h[Len(g) + 1] = q[s][1]
    BY <1>5
  <1> HIDE DEF h
  <1>7. ASSUME NEW u \in Stage, NEW i \in 1 .. Len(r[u])
        PROVE  r[u][i].n > q[s][1].n
    <2>1. CASE u = s
      <3>1. Len(q[s]) \in Nat
        BY PipelineNumbers
      <3>2. i \in 1 .. Len(q[s]) - 1 /\ r[s][i] = q[s][i + 1]
        BY <1>7, <2>1, TakeFrontFacts
      <3>3. i + 1 \in 1 .. Len(q[s]) /\ i + 1 > 1
        BY <3>1, <3>2
      <3>4. q[s][i + 1].n > q[s][1].n
        BY <1>1, <1>5, <3>3 DEF InOrder
      <3> QED
        BY <2>1, <3>2, <3>4
    <2>2. CASE u # s
      <3>1. Rank(u) # Rank(s)
        BY <2>2, RankInjective
      <3>2. Rank(u) <= Rank(s)
        BY LastStage
      <3>3. Rank(u) < Rank(s)
        BY <3>1, <3>2, RankType
      <3>4. r[u] = q[u]
        BY <2>2, TakeFrontFacts
      <3> HIDE DEF r
      <3>5. i \in 1 .. Len(q[u])
        BY <3>4
      <3> QED
        BY <1>1, <1>5, <3>3, <3>4, <3>5 DEF InOrder
    <2> QED
      BY <2>1, <2>2
  <1> HIDE DEF r
  <1>8. GotFirst(r, h)
    <2>1. ASSUME NEW u \in Stage, NEW i \in 1 .. Len(r[u]), NEW k \in 1 .. Len(h)
          PROVE  r[u][i].n > h[k].n
      <3>1. CASE k \in 1 .. Len(g)
        BY <1>3, <1>6, <3>1 DEF GotFirst
      <3>2. CASE k = Len(g) + 1
        BY <1>6, <1>7, <3>2
      <3> QED
        BY <1>6, <3>1, <3>2
    <2>2. ASSUME NEW j \in 1 .. Len(h), NEW k \in 1 .. Len(h), j < k
          PROVE  h[j].n < h[k].n
      <3>1. j \in 1 .. Len(g) /\ h[j] = g[j]
        BY <1>6, <2>2
      <3>2. CASE k \in 1 .. Len(g)
        BY <1>3, <1>6, <2>2, <3>1, <3>2 DEF GotFirst
      <3>3. CASE k = Len(g) + 1
        <4>1. q[s][1].n > g[j].n
          BY <1>1, <1>5, <3>1 DEF GotFirst
        <4>2. g[j].n \in Nat
          BY <3>1, ReceivedNumbers
        <4> QED
          BY <1>5, <1>6, <3>1, <3>3, <4>1, <4>2
      <3> QED
        BY <1>6, <3>2, <3>3
    <2> QED
      BY <2>1, <2>2 DEF GotFirst
  <1>9. WasSent(r, h, n)
    <2>1. q[s][1].n <= n
      BY <1>1, <1>5 DEF WasSent
    <2>2. ASSUME NEW k \in 1 .. Len(h)
          PROVE  h[k].n <= n
      BY <1>3, <1>6, <2>1 DEF WasSent
    <2> QED
      BY <1>3, <2>2 DEF WasSent
  <1>10. WentThrough(r, h)
    <2>1. Passed(s) = N
      BY RankValues, ForwardAssumption
    <2>2. q[s][1].via = Upto(N)
      BY <1>1, <1>5, <2>1 DEF WentThrough
    <2>3. ASSUME NEW k \in 1 .. Len(h)
          PROVE  h[k].via = Upto(N)
      BY <1>3, <1>6, <2>2 DEF WentThrough
    <2> QED
      BY <1>3, <2>3 DEF WentThrough
  <1>11. ASSUME NEW k, Present(q, g, k)
         PROVE  Present(r, h, k)
    <2>1. Present(r, g, k) \/ k = q[s][1].n
      BY <1>11, TakeFrontPresent DEF r
    <2>2. CASE k = q[s][1].n
      <3>1. Len(g) + 1 \in 1 .. Len(h) /\ h[Len(g) + 1].n = k
        BY <1>6, <2>2
      <3> QED
        BY <3>1 DEF Present
    <2>3. CASE Present(r, g, k)
      BY <1>6, <2>3 DEF Present
    <2> QED
      BY <2>1, <2>2, <2>3
  <1>12. ASSUME ~ x
         PROVE  NoGap(r, d, h) /\ NoGapBefore(r, d, h, n) /\ GotAll(h)
    <2>1. NoGap(q, d, g) /\ NoGapBefore(q, d, g, n) /\ GotAll(g)
      BY <1>12 DEF Pipe
    <2>2. NoGap(r, d, h)
      <3> SUFFICES ASSUME NEW u \in Stage, NEW i \in 1 .. Len(r[u])
                   PROVE  \/ r[u][i].n = 1
                          \/ Present(r, h, r[u][i].n - 1)
                          \/ \E c \in d : Rank(c) > Rank(u)
        BY DEF NoGap
      <3>1. PICK k \in 1 .. Len(q[u]) : r[u][i] = q[u][k]
        BY <1>2 DEF Shrinks
      <3> QED
        BY <1>11, <2>1, <3>1 DEF NoGap
    <2>3. NoGapBefore(r, d, h, n)
      BY <1>11, <2>1 DEF NoGapBefore
    <2>4. q[s][1].n = Len(g) + 1
      <3>1. ASSUME NEW k \in 1 .. Len(g)
            PROVE  g[k].n = k /\ q[s][1].n > k
        BY <1>1, <1>5, <2>1 DEF GotAll, GotFirst
      <3>2. q[s][1].n > Len(g)
        <4>1. q[s][1].n > 0
          BY <1>5
        <4>2. CASE Len(g) = 0
          BY <4>1, <4>2
        <4>3. CASE Len(g) # 0
          BY <1>6, <3>1, <4>3
        <4> QED
          BY <4>2, <4>3
      <3>3. CASE q[s][1].n = 1
        BY <1>6, <3>2, <3>3
      <3>4. CASE \E c \in d : Rank(c) > Rank(s)
        <4>1. PICK c \in d : Rank(c) > Rank(s)
          BY <3>4
        <4>2. Rank(c) <= Rank(s) /\ Rank(c) \in Int /\ Rank(s) \in Int
          BY LastStage, RankType
        <4> QED
          BY <4>1, <4>2
      <3>5. CASE Present(q, g, q[s][1].n - 1)
        <4>1. ASSUME NEW u \in Stage, NEW i \in 1 .. Len(q[u]), q[u][i].n = q[s][1].n - 1
              PROVE  FALSE
          <5>1. Rank(u) <= Rank(s) /\ Rank(u) \in Int /\ Rank(s) \in Int
            BY LastStage, RankType
          <5>2. CASE Rank(u) < Rank(s)
            <6>1. q[u][i].n > q[s][1].n
              BY <1>1, <1>5, <5>2 DEF InOrder
            <6> QED
              BY <1>5, <4>1, <6>1
          <5>3. CASE u = s /\ i > 1
            <6>1. q[u][i].n > q[s][1].n
              BY <1>1, <1>5, <5>3 DEF InOrder
            <6> QED
              BY <1>5, <4>1, <6>1
          <5>4. CASE u = s /\ i = 1
            <6>1. q[s][1].n = q[s][1].n - 1
              BY <4>1, <5>4
            <6> QED
              BY <1>5, <6>1
          <5>5. Rank(u) = Rank(s) => u = s
            BY RankInjective
          <5> QED
            BY <5>1, <5>2, <5>3, <5>4, <5>5
        <4>2. PICK k \in 1 .. Len(g) : g[k].n = q[s][1].n - 1
          BY <3>5, <4>1 DEF Present
        <4> QED
          BY <1>5, <1>6, <3>1, <3>2, <4>2
      <3> QED
        BY <1>5, <2>1, <3>3, <3>4, <3>5 DEF NoGap
    <2>5. GotAll(h)
      <3> SUFFICES ASSUME NEW k \in 1 .. Len(h)
                   PROVE  h[k].n = k
        BY DEF GotAll
      <3>1. CASE k \in 1 .. Len(g)
        BY <1>6, <2>1, <3>1 DEF GotAll
      <3>2. CASE k = Len(g) + 1
        BY <1>6, <2>4, <3>2
      <3> QED
        BY <1>6, <3>1, <3>2
    <2> QED
      BY <2>2, <2>3, <2>5
  <1> QED
    BY <1>3, <1>4, <1>8, <1>9, <1>10, <1>12 DEF Pipe, r, h

\* Message m at the end of stage t.
AddTo(q, t, m) == [q EXCEPT ![t] = Append(@, m)]

LEMMA AddToFacts ==
  ASSUME NEW q \in Pipeline, NEW t \in Stage, NEW m \in Message
  PROVE  /\ AddTo(q, t, m) \in Pipeline
         /\ Len(AddTo(q, t, m)[t]) = Len(q[t]) + 1
         /\ \A i \in 1 .. Len(q[t]) : AddTo(q, t, m)[t][i] = q[t][i]
         /\ AddTo(q, t, m)[t][Len(q[t]) + 1] = m
         /\ \A u \in Stage \ {t} : AddTo(q, t, m)[u] = q[u]
  <1>1. q[t] \in Seq(Message)
    BY DEF Pipeline
  <1>2. /\ Append(q[t], m) \in Seq(Message)
        /\ Len(Append(q[t], m)) = Len(q[t]) + 1
        /\ \A i \in 1 .. Len(q[t]) : Append(q[t], m)[i] = q[t][i]
        /\ Append(q[t], m)[Len(q[t]) + 1] = m
    BY <1>1
  <1>3. AddTo(q, t, m)[t] = Append(q[t], m)
    BY DEF AddTo, Pipeline
  <1>4. AddTo(q, t, m) \in Pipeline /\ \A u \in Stage \ {t} : AddTo(q, t, m)[u] = q[u]
    BY <1>2 DEF AddTo, Pipeline
  <1> QED
    BY <1>2, <1>3, <1>4

\* A place in the new pipeline holds m or what it held before.
LEMMA AddToPlaces ==
  ASSUME NEW q \in Pipeline, NEW t \in Stage, NEW m \in Message,
         NEW u \in Stage, NEW i \in 1 .. Len(AddTo(q, t, m)[u])
  PROVE  \/ i \in 1 .. Len(q[u]) /\ AddTo(q, t, m)[u][i] = q[u][i]
         \/ u = t /\ i = Len(q[t]) + 1 /\ AddTo(q, t, m)[u][i] = m
  <1>1. Len(q[t]) \in Nat
    BY PipelineNumbers
  <1>2. CASE u = t
    <2>1. i \in 1 .. Len(q[t]) + 1
      BY <1>2, AddToFacts
    <2>2. CASE i \in 1 .. Len(q[t])
      BY <1>2, <2>2, AddToFacts
    <2>3. CASE i = Len(q[t]) + 1
      BY <1>2, <2>3, AddToFacts
    <2> QED
      BY <1>1, <2>1, <2>2, <2>3
  <1>3. CASE u # t
    BY <1>3, AddToFacts
  <1> QED
    BY <1>2, <1>3

LEMMA AddToPresent ==
  ASSUME NEW q \in Pipeline, NEW t \in Stage, NEW m \in Message, NEW g, NEW n,
         Present(q, g, n) \/ n = m.n
  PROVE  Present(AddTo(q, t, m), g, n)
  <1> DEFINE r == AddTo(q, t, m)
  <1>1. /\ Len(r[t]) = Len(q[t]) + 1
        /\ \A i \in 1 .. Len(q[t]) : r[t][i] = q[t][i]
        /\ r[t][Len(q[t]) + 1] = m
        /\ \A u \in Stage \ {t} : r[u] = q[u]
        /\ Len(q[t]) \in Nat
    BY AddToFacts, PipelineNumbers
  <1> HIDE DEF r
  <1>2. CASE n = m.n
    <2>1. Len(q[t]) + 1 \in 1 .. Len(r[t]) /\ r[t][Len(q[t]) + 1].n = n
      BY <1>1, <1>2
    <2> QED
      BY <2>1 DEF Present, r
  <1>3. ASSUME NEW u \in Stage, NEW i \in 1 .. Len(q[u]), q[u][i].n = n
        PROVE  Present(r, g, n)
    <2>1. i \in 1 .. Len(r[u]) /\ r[u][i].n = n
      BY <1>1, <1>3
    <2> QED
      BY <2>1 DEF Present
  <1>4. CASE \E k \in 1 .. Len(g) : g[k].n = n
    BY <1>4 DEF Present
  <1> QED
    BY <1>2, <1>3, <1>4 DEF Present, r

\* Adding a message later than what is at stage t and after it, and earlier
\* than what is before it, keeps everything in order.
LEMMA AddToKeeps ==
  ASSUME NEW q \in Pipeline, NEW t \in Stage, NEW m \in Message,
         NEW d \in SUBSET Stage, t \notin d,
         NEW g \in Seq(Message), NEW n \in Nat, m.n <= n,
         InOrder(q), GotFirst(q, g), WasSent(q, g, n), WentThrough(q, g),
         DeadAreEmpty(q, d),
         \A u \in Stage : \A i \in 1 .. Len(q[u]) :
           (Rank(u) < Rank(t) => q[u][i].n > m.n) /\ (Rank(u) >= Rank(t) => m.n > q[u][i].n),
         \A k \in 1 .. Len(g) : m.n > g[k].n,
         m.via = Upto(Passed(t))
  PROVE  /\ InOrder(AddTo(q, t, m)) /\ GotFirst(AddTo(q, t, m), g)
         /\ WasSent(AddTo(q, t, m), g, n) /\ WentThrough(AddTo(q, t, m), g)
         /\ DeadAreEmpty(AddTo(q, t, m), d)
  <1> DEFINE r == AddTo(q, t, m)
  <1>1. ASSUME NEW u \in Stage, NEW i \in 1 .. Len(r[u])
        PROVE  \/ i \in 1 .. Len(q[u]) /\ r[u][i] = q[u][i]
               \/ u = t /\ i = Len(q[t]) + 1 /\ r[u][i] = m
    BY <1>1, AddToPlaces
  <1>2. Len(q[t]) \in Nat
    BY PipelineNumbers
  <1>3. DeadAreEmpty(r, d)
    <2>1. \A u \in Stage \ {t} : r[u] = q[u]
      BY AddToFacts
    <2> HIDE DEF r
    <2> QED
      BY <2>1 DEF DeadAreEmpty
  <1> HIDE DEF r
  <1>4. InOrder(r)
    <2> SUFFICES ASSUME NEW u \in Stage, NEW v \in Stage,
                        NEW i \in 1 .. Len(r[u]), NEW j \in 1 .. Len(r[v]),
                        Rank(u) < Rank(v) \/ (u = v /\ i > j)
                 PROVE  r[u][i].n > r[v][j].n
      BY DEF InOrder
    <2>1. Rank(u) \in Int /\ Rank(v) \in Int /\ Rank(t) \in Int
      BY RankType
    <2>2. CASE i \in 1 .. Len(q[u]) /\ r[u][i] = q[u][i]
      <3>1. CASE j \in 1 .. Len(q[v]) /\ r[v][j] = q[v][j]
        BY <2>2, <3>1 DEF InOrder
      <3>2. CASE v = t /\ j = Len(q[t]) + 1 /\ r[v][j] = m
        <4>1. Rank(u) < Rank(t)
          BY <1>2, <2>2, <3>2
        <4> QED
          BY <2>2, <3>2, <4>1
      <3> QED
        BY <1>1, <3>1, <3>2
    <2>3. CASE u = t /\ i = Len(q[t]) + 1 /\ r[u][i] = m
      <3>1. CASE j \in 1 .. Len(q[v]) /\ r[v][j] = q[v][j]
        <4>1. Rank(v) >= Rank(t)
          BY <2>1, <2>3
        <4> QED
          BY <2>3, <3>1, <4>1
      <3>2. CASE v = t /\ j = Len(q[t]) + 1
        BY <1>2, <2>1, <2>3, <3>2
      <3> QED
        BY <1>1, <3>1, <3>2
    <2> QED
      BY <1>1, <2>2, <2>3
  <1>5. GotFirst(r, g)
    BY <1>1 DEF GotFirst
  <1>6. WasSent(r, g, n)
    BY <1>1 DEF WasSent
  <1>7. WentThrough(r, g)
    <2>1. ASSUME NEW u \in Stage, NEW i \in 1 .. Len(r[u])
          PROVE  r[u][i].via = Upto(Passed(u))
      <3>1. CASE i \in 1 .. Len(q[u]) /\ r[u][i] = q[u][i]
        BY <3>1 DEF WentThrough
      <3>2. CASE u = t /\ r[u][i] = m
        BY <3>2
      <3> QED
        BY <1>1, <3>1, <3>2
    <2> QED
      BY <2>1 DEF WentThrough
  <1> QED
    BY <1>3, <1>4, <1>5, <1>6, <1>7 DEF r

\* A message moves to the next stage, which is not dead, perhaps as a reply.
LEMMA PipeMoves ==
  ASSUME NEW q \in Pipeline, NEW s \in Stage, q[s] # << >>,
         NEW d \in SUBSET Stage, NEW t \in Stage \ d, Rank(t) = Rank(s) + 1,
         NEW m \in Message, m.n = Head(q[s]).n, m.via = Upto(Passed(t)),
         NEW g \in Seq(Message), NEW n \in Nat, NEW x,
         Pipe(q, d, g, n, x)
  PROVE  Pipe(AddTo(TakeFront(q, s), t, m), d, g, n, x)
  <1> DEFINE o == TakeFront(q, s)
             r == AddTo(o, t, m)
  <1>1. /\ InOrder(q) /\ GotFirst(q, g) /\ WasSent(q, g, n) /\ WentThrough(q, g)
        /\ DeadAreEmpty(q, d)
    BY DEF Pipe
  <1>2. o \in Pipeline /\ Shrinks(q, o)
    BY TakeFrontFacts
  <1>3. InOrder(o) /\ GotFirst(o, g) /\ WasSent(o, g, n) /\ WentThrough(o, g)
    BY <1>1, <1>2, ShrinkKeeps
  <1>4. DeadAreEmpty(o, d)
    BY <1>1, TakeFrontDead
  <1>5. 1 \in 1 .. Len(q[s]) /\ Len(q[s]) \in Nat /\ m.n = q[s][1].n /\ m.n \in Nat
    BY TakeFrontFacts, PipelineNumbers
  <1>6. ASSUME NEW u \in Stage, NEW i \in 1 .. Len(o[u])
        PROVE  /\ Rank(u) < Rank(t) => o[u][i].n > m.n
               /\ Rank(u) >= Rank(t) => m.n > o[u][i].n
    <2>1. Rank(u) \in Int /\ Rank(s) \in Int
      BY RankType
    <2>2. CASE u = s
      <3>1. i \in 1 .. Len(q[s]) - 1 /\ o[s][i] = q[s][i + 1]
        BY <1>6, <2>2, TakeFrontFacts
      <3>2. i + 1 \in 1 .. Len(q[s]) /\ i + 1 > 1
        BY <1>5, <3>1
      <3>3. q[s][i + 1].n > q[s][1].n
        BY <1>1, <1>5, <3>2 DEF InOrder
      <3> HIDE DEF o
      <3> QED
        BY <1>5, <2>1, <2>2, <3>1, <3>3
    <2>3. CASE u # s
      <3>1. Rank(u) # Rank(s)
        BY <2>3, RankInjective
      <3>2. o[u] = q[u]
        BY <2>3, TakeFrontFacts
      <3> HIDE DEF o
      <3>3. i \in 1 .. Len(q[u]) /\ q[u][i].n \in Nat
        BY <3>2, PipelineNumbers
      <3>4. CASE Rank(u) < Rank(s)
        <4>1. q[u][i].n > q[s][1].n
          BY <1>1, <1>5, <3>3, <3>4 DEF InOrder
        <4> QED
          BY <1>5, <2>1, <3>2, <3>4, <4>1
      <3>5. CASE Rank(s) < Rank(u)
        <4>1. q[s][1].n > q[u][i].n
          BY <1>1, <1>5, <3>3, <3>5 DEF InOrder
        <4> QED
          BY <1>5, <2>1, <3>2, <3>5, <4>1
      <3> QED
        BY <2>1, <3>1, <3>4, <3>5
    <2> QED
      BY <2>2, <2>3
  <1>7. m.n <= n /\ \A k \in 1 .. Len(g) : m.n > g[k].n
    BY <1>1, <1>5 DEF WasSent, GotFirst
  <1>8. ASSUME NEW u \in Stage, NEW i \in 1 .. Len(o[u])
        PROVE  \E k \in 1 .. Len(q[u]) : o[u][i] = q[u][k]
    BY <1>2, <1>8 DEF Shrinks
  <1>9. ASSUME NEW k, Present(q, g, k)
        PROVE  Present(r, g, k)
    <2>1. Present(o, g, k) \/ k = m.n
      BY <1>5, <1>9, TakeFrontPresent
    <2> HIDE DEF o
    <2> QED
      BY <1>2, <2>1, AddToPresent
  <1> HIDE DEF o
  <1>10. t \in Stage /\ t \notin d
    OBVIOUS
  <1>11. /\ InOrder(r) /\ GotFirst(r, g) /\ WasSent(r, g, n) /\ WentThrough(r, g)
         /\ DeadAreEmpty(r, d)
    BY <1>2, <1>3, <1>4, <1>6, <1>7, <1>10, AddToKeeps
  <1>12. ASSUME ~ x
         PROVE  NoGap(r, d, g) /\ NoGapBefore(r, d, g, n) /\ GotAll(g)
    <2>1. NoGap(q, d, g) /\ NoGapBefore(q, d, g, n) /\ GotAll(g)
      BY <1>12 DEF Pipe
    <2>2. NoGap(r, d, g)
      <3> SUFFICES ASSUME NEW u \in Stage, NEW i \in 1 .. Len(r[u])
                   PROVE  \/ r[u][i].n = 1
                          \/ Present(r, g, r[u][i].n - 1)
                          \/ \E c \in d : Rank(c) > Rank(u)
        BY DEF NoGap
      <3>1. \/ i \in 1 .. Len(o[u]) /\ r[u][i] = o[u][i]
            \/ u = t /\ r[u][i] = m
        BY <1>2, AddToPlaces
      <3> HIDE DEF r
      <3>2. CASE i \in 1 .. Len(o[u]) /\ r[u][i] = o[u][i]
        <4>1. PICK k \in 1 .. Len(q[u]) : r[u][i] = q[u][k]
          BY <1>8, <3>2
        <4> QED
          BY <1>9, <2>1, <4>1 DEF NoGap
      <3>3. CASE u = t /\ r[u][i] = m
        <4>1. \/ m.n = 1
              \/ Present(q, g, m.n - 1)
              \/ \E c \in d : Rank(c) > Rank(s)
          BY <1>5, <2>1 DEF NoGap
        <4>2. CASE \E c \in d : Rank(c) > Rank(s)
          <5>1. PICK c \in d : Rank(c) > Rank(s)
            BY <4>2
          <5>2. Rank(c) # Rank(t)
            BY <1>10, RankInjective
          <5>3. Rank(c) > Rank(t)
            BY <5>1, <5>2, RankType
          <5> QED
            BY <3>3, <5>3
        <4> QED
          BY <1>9, <3>3, <4>1, <4>2
      <3> QED
        BY <3>1, <3>2, <3>3
    <2>3. NoGapBefore(r, d, g, n)
      BY <1>9, <2>1 DEF NoGapBefore
    <2> QED
      BY <2>1, <2>2, <2>3
  <1> QED
    BY <1>11, <1>12 DEF Pipe, o

\* The client sends the next message.
LEMMA PipeFeeds ==
  ASSUME NEW q \in Pipeline, NEW d \in SUBSET Stage,
         NEW t \in Stage \ d, Rank(t) = 0, Passed(t) = 0,
         NEW g \in Seq(Message), NEW n \in Nat, NEW x,
         NEW m \in Message, m.n = n + 1, m.via = << >>,
         Pipe(q, d, g, n, x)
  PROVE  Pipe(AddTo(q, t, m), d, g, n + 1, x)
  <1> DEFINE r == AddTo(q, t, m)
  <1>1. /\ InOrder(q) /\ GotFirst(q, g) /\ WasSent(q, g, n) /\ WentThrough(q, g)
        /\ DeadAreEmpty(q, d)
    BY DEF Pipe
  <1>2. t \in Stage /\ t \notin d /\ n + 1 \in Nat /\ m.n = n + 1 /\ m.n <= n + 1
    OBVIOUS
  <1>3. m.via = Upto(Passed(t))
    <2>1. Upto(0) = << >>
      BY DEF Upto
    <2> QED
      BY <2>1
  <1>4. ASSUME NEW u \in Stage
        PROVE  Rank(u) >= Rank(t) /\ ~ (Rank(u) < Rank(t))
    BY RankType, ForwardAssumption
  <1>5. ASSUME NEW u \in Stage, NEW i \in 1 .. Len(q[u])
        PROVE  q[u][i].n <= n /\ m.n > q[u][i].n
    <2>1. q[u][i].n <= n /\ q[u][i].n \in Nat
      BY <1>1, PipelineNumbers DEF WasSent
    <2> QED
      BY <1>2, <2>1
  <1>6. ASSUME NEW k \in 1 .. Len(g)
        PROVE  m.n > g[k].n
    <2>1. g[k].n <= n /\ g[k].n \in Nat
      BY <1>1, ReceivedNumbers DEF WasSent
    <2> QED
      BY <1>2, <2>1
  <1>7. WasSent(q, g, n + 1)
    <2>1. ASSUME NEW u \in Stage, NEW i \in 1 .. Len(q[u])
          PROVE  q[u][i].n <= n + 1
      <3>1. q[u][i].n <= n /\ q[u][i].n \in Nat
        BY <1>1, PipelineNumbers DEF WasSent
      <3> QED
        BY <3>1
    <2>2. ASSUME NEW k \in 1 .. Len(g)
          PROVE  g[k].n <= n + 1
      <3>1. g[k].n <= n /\ g[k].n \in Nat
        BY <1>1, ReceivedNumbers DEF WasSent
      <3> QED
        BY <3>1
    <2> QED
      BY <2>1, <2>2 DEF WasSent
  <1> HIDE DEF r
  <1>8. /\ InOrder(r) /\ GotFirst(r, g) /\ WasSent(r, g, n + 1) /\ WentThrough(r, g)
        /\ DeadAreEmpty(r, d)
    BY <1>1, <1>2, <1>3, <1>4, <1>5, <1>6, <1>7, AddToKeeps DEF r
  <1>9. ASSUME NEW k, Present(q, g, k) \/ k = m.n
        PROVE  Present(r, g, k)
    BY <1>2, <1>9, AddToPresent DEF r
  <1>10. ASSUME ~ x
         PROVE  NoGap(r, d, g) /\ NoGapBefore(r, d, g, n + 1) /\ GotAll(g)
    <2>1. NoGap(q, d, g) /\ NoGapBefore(q, d, g, n) /\ GotAll(g)
      BY <1>10 DEF Pipe
    <2>2. NoGap(r, d, g)
      <3> SUFFICES ASSUME NEW u \in Stage, NEW i \in 1 .. Len(r[u])
                   PROVE  \/ r[u][i].n = 1
                          \/ Present(r, g, r[u][i].n - 1)
                          \/ \E c \in d : Rank(c) > Rank(u)
        BY DEF NoGap
      <3>1. \/ i \in 1 .. Len(q[u]) /\ r[u][i] = q[u][i]
            \/ u = t /\ r[u][i] = m
        BY <1>2, AddToPlaces DEF r
      <3>2. CASE i \in 1 .. Len(q[u]) /\ r[u][i] = q[u][i]
        BY <1>9, <2>1, <3>2 DEF NoGap
      <3>3. CASE u = t /\ r[u][i] = m
        <4>1. r[u][i].n = n + 1 /\ (n + 1) - 1 = n
          BY <3>3
        <4>2. CASE n = 0
          BY <4>1, <4>2
        <4>3. CASE Present(q, g, n)
          BY <1>9, <4>1, <4>3
        <4>4. CASE d # {}
          <5>1. PICK c \in d : c # t
            BY <1>2, <4>4
          <5>2. Rank(c) # Rank(t)
            BY <5>1, RankInjective
          <5>3. Rank(c) > Rank(t)
            BY <1>4, <5>2, RankType
          <5> QED
            BY <3>3, <5>3
        <4> QED
          BY <2>1, <4>2, <4>3, <4>4 DEF NoGapBefore
      <3> QED
        BY <3>1, <3>2, <3>3
    <2>3. NoGapBefore(r, d, g, n + 1)
      BY <1>9 DEF NoGapBefore
    <2> QED
      BY <2>1, <2>2, <2>3
  <1> QED
    BY <1>8, <1>10 DEF Pipe, r

----------------------------------------------------------------------------
(* The pipeline and the variables.                                         *)

Buffers == [Endpoint -> Seq(Message)]
Services == [1 .. N -> Seq(Message)]
Hands == [Forwarder -> Seq(Message)]

\* A stage is an endpoint, a service or a forwarder, and one of them only.
LEMMA StageSplit ==
  /\ \A e \in Endpoint : e \in Stage /\ e[1] # "serv" /\ e \notin Forwarder
  /\ \A f \in Forwarder : f \in Stage /\ f[1] # "serv" /\ f \notin Endpoint
  /\ \A p \in 1 .. N : /\ <<"serv", p>> \in Stage
                       /\ <<"serv", p>> \notin Endpoint \cup Forwarder
  /\ \A s \in Stage : \/ s \in Endpoint
                      \/ s \in Forwarder
                      \/ \E p \in 1 .. N : s = <<"serv", p>>
  <1>1. ASSUME NEW e \in Endpoint
        PROVE  e \in Stage /\ e[1] \in {"in", "out", "conn"}
    BY EndpointCases DEF Stage
  <1>2. ASSUME NEW f \in Forwarder
        PROVE  f \in Stage /\ f[1] \in {"down", "serve", "up"}
    BY ForwarderCases DEF Stage
  <1>3. ASSUME NEW p \in 1 .. N
        PROVE  <<"serv", p>> \in Stage /\ <<"serv", p>> \notin Endpoint \cup Forwarder
    <2>1. <<"serv", p>>[1] = "serv"
      OBVIOUS
    <2> QED
      BY <1>1, <1>2, <2>1, StageIn
  <1>4. ASSUME NEW s \in Stage
        PROVE  s \in Endpoint \/ s \in Forwarder \/ \E p \in 1 .. N : s = <<"serv", p>>
    BY DEF Stage
  <1> QED
    BY <1>1, <1>2, <1>3, <1>4

LEMMA QueuesFacts ==
  ASSUME NEW b \in Buffers, NEW v \in Services, NEW h \in Hands
  PROVE  /\ Queues(b, v, h) \in Pipeline
         /\ \A e \in Endpoint : Queues(b, v, h)[e] = b[e]
         /\ \A f \in Forwarder : Queues(b, v, h)[f] = h[f]
         /\ \A p \in 1 .. N : Queues(b, v, h)[<<"serv", p>>] = v[p]
  <1>1. ASSUME NEW e \in Endpoint PROVE Queues(b, v, h)[e] = b[e]
    BY StageSplit DEF Queues
  <1>2. ASSUME NEW p \in 1 .. N PROVE Queues(b, v, h)[<<"serv", p>>] = v[p]
    BY StageIn DEF Queues
  <1>3. ASSUME NEW f \in Forwarder PROVE Queues(b, v, h)[f] = h[f]
    BY StageSplit DEF Queues
  <1>4. ASSUME NEW s \in Stage PROVE Queues(b, v, h)[s] \in Seq(Message)
    <2>1. CASE s \in Endpoint
      BY <1>1, <2>1 DEF Buffers
    <2>2. CASE s \in Forwarder
      BY <1>3, <2>2 DEF Hands
    <2>3. CASE \E p \in 1 .. N : s = <<"serv", p>>
      BY <1>2, <2>3 DEF Services
    <2> QED
      BY <2>1, <2>2, <2>3, StageSplit
  <1>5. Queues(b, v, h) \in Pipeline
    <2>1. Queues(b, v, h) = [s \in Stage |-> Queues(b, v, h)[s]]
      BY DEF Queues
    <2> HIDE DEF Queues
    <2> QED
      BY <1>4, <2>1 DEF Pipeline
  <1> QED
    BY <1>1, <1>2, <1>3, <1>5

LEMMA DeadFacts ==
  ASSUME NEW z, NEW c
  PROVE  /\ Dead(z, c) \in SUBSET Stage
         /\ \A e \in Endpoint : e \in Dead(z, c) <=> z[e] = "closed"
         /\ \A f \in Forwarder : f \in Dead(z, c) <=> HasEnded(c, f)
         /\ \A p \in 1 .. N : <<"serv", p>> \in Dead(z, c) <=> z[<<"conn", p>>] # "open"
  <1>1. ASSUME NEW e \in Endpoint PROVE e \in Dead(z, c) <=> z[e] = "closed"
    BY StageSplit DEF Dead
  <1>2. ASSUME NEW p \in 1 .. N
        PROVE  <<"serv", p>> \in Dead(z, c) <=> z[<<"conn", p>>] # "open"
    BY StageIn DEF Dead
  <1>3. ASSUME NEW f \in Forwarder PROVE f \in Dead(z, c) <=> HasEnded(c, f)
    BY StageSplit DEF Dead
  <1>4. Dead(z, c) \in SUBSET Stage
    BY DEF Dead
  <1> QED
    BY <1>1, <1>2, <1>3, <1>4

\* A pipeline is known by its endpoints, services and hands.
LEMMA QueuesEqual ==
  ASSUME NEW b \in Buffers, NEW v \in Services, NEW h \in Hands, NEW r \in Pipeline,
         \A e \in Endpoint : r[e] = b[e],
         \A f \in Forwarder : r[f] = h[f],
         \A p \in 1 .. N : r[<<"serv", p>>] = v[p]
  PROVE  Queues(b, v, h) = r
  <1> DEFINE q == Queues(b, v, h)
  <1>1. q \in Pipeline
    BY QueuesFacts
  <1>2. ASSUME NEW u \in Stage PROVE q[u] = r[u]
    <2>1. CASE u \in Endpoint
      BY <2>1, QueuesFacts
    <2>2. CASE u \in Forwarder
      BY <2>2, QueuesFacts
    <2>3. CASE \E p \in 1 .. N : u = <<"serv", p>>
      BY <2>3, QueuesFacts
    <2> QED
      BY <2>1, <2>2, <2>3, StageSplit
  <1> HIDE DEF q
  <1> QED
    BY <1>1, <1>2 DEF Pipeline, q

\* TakeFront and AddTo, stage by stage.
LEMMA TakeFrontAt ==
  ASSUME NEW q \in Pipeline, NEW s \in Stage
  PROVE  /\ TakeFront(q, s)[s] = Tail(q[s])
         /\ \A u \in Stage \ {s} : TakeFront(q, s)[u] = q[u]
  BY DEF TakeFront, Pipeline

LEMMA AddToAt ==
  ASSUME NEW q \in Pipeline, NEW t \in Stage, NEW m
  PROVE  /\ AddTo(q, t, m)[t] = Append(q[t], m)
         /\ \A u \in Stage \ {t} : AddTo(q, t, m)[u] = q[u]
  BY DEF AddTo, Pipeline

\* Reading from a buffer, by a service or from a hand takes the front of its
\* stage, and writing adds to one.
LEMMA QueuesRead ==
  ASSUME NEW b \in Buffers, NEW v \in Services, NEW h \in Hands,
         NEW s \in Endpoint, b[s] # << >>
  PROVE  /\ TakeFront(b, s) \in Buffers
         /\ Queues(TakeFront(b, s), v, h) = TakeFront(Queues(b, v, h), s)
  <1> DEFINE c == TakeFront(b, s)
             q == Queues(b, v, h)
             r == TakeFront(q, s)
  <1>1. Tail(b[s]) \in Seq(Message)
    BY DEF Buffers
  <1>2. c \in Buffers /\ c[s] = Tail(b[s]) /\ \A e \in Endpoint \ {s} : c[e] = b[e]
    BY <1>1 DEF Buffers, TakeFront
  <1>3. q \in Pipeline /\ s \in Stage /\ q[s] = b[s]
    BY QueuesFacts, StageSplit
  <1>4. r \in Pipeline
    BY <1>3, TakeFrontFacts
  <1>5. r[s] = Tail(q[s]) /\ \A u \in Stage \ {s} : r[u] = q[u]
    BY <1>3, TakeFrontAt
  <1> HIDE DEF c, r
  <1>6. \A e \in Endpoint : r[e] = c[e]
    BY <1>2, <1>3, <1>5, QueuesFacts, StageSplit
  <1>7. \A f \in Forwarder : r[f] = h[f]
    BY <1>5, QueuesFacts, StageSplit
  <1>8. ASSUME NEW p \in 1 .. N PROVE r[<<"serv", p>>] = v[p]
    <2>1. <<"serv", p>> \in Stage \ {s} /\ q[<<"serv", p>>] = v[p]
      BY QueuesFacts, StageSplit
    <2> QED
      BY <1>5, <2>1
  <1> HIDE DEF q
  <1> QED
    BY <1>2, <1>4, <1>6, <1>7, <1>8, QueuesEqual DEF c, q, r

LEMMA QueuesWrite ==
  ASSUME NEW b \in Buffers, NEW v \in Services, NEW h \in Hands,
         NEW t \in Endpoint, NEW m \in Message
  PROVE  Queues(AddTo(b, t, m), v, h) = AddTo(Queues(b, v, h), t, m)
  <1> DEFINE c == AddTo(b, t, m)
             q == Queues(b, v, h)
             r == AddTo(q, t, m)
  <1>1. Append(b[t], m) \in Seq(Message)
    BY DEF Buffers
  <1>2. c \in Buffers /\ c[t] = Append(b[t], m) /\ \A e \in Endpoint \ {t} : c[e] = b[e]
    BY <1>1 DEF Buffers, AddTo
  <1>3. q \in Pipeline /\ t \in Stage /\ q[t] = b[t]
    BY QueuesFacts, StageSplit
  <1>4. r \in Pipeline
    BY <1>3, AddToFacts
  <1>5. r[t] = Append(q[t], m) /\ \A u \in Stage \ {t} : r[u] = q[u]
    BY <1>3, AddToAt
  <1> HIDE DEF c, r
  <1>6. \A e \in Endpoint : r[e] = c[e]
    BY <1>2, <1>3, <1>5, QueuesFacts, StageSplit
  <1>7. \A f \in Forwarder : r[f] = h[f]
    BY <1>5, QueuesFacts, StageSplit
  <1>8. ASSUME NEW p \in 1 .. N PROVE r[<<"serv", p>>] = v[p]
    <2>1. <<"serv", p>> \in Stage \ {t} /\ q[<<"serv", p>>] = v[p]
      BY QueuesFacts, StageSplit
    <2> QED
      BY <1>5, <2>1
  <1> HIDE DEF q
  <1> QED
    BY <1>2, <1>4, <1>6, <1>7, <1>8, QueuesEqual DEF c, q, r

LEMMA ServicesRead ==
  ASSUME NEW b \in Buffers, NEW v \in Services, NEW h \in Hands,
         NEW p \in 1 .. N, v[p] # << >>
  PROVE  /\ TakeFront(v, p) \in Services
         /\ Queues(b, TakeFront(v, p), h) = TakeFront(Queues(b, v, h), <<"serv", p>>)
  <1> DEFINE w == TakeFront(v, p)
             q == Queues(b, v, h)
             s == <<"serv", p>>
             r == TakeFront(q, s)
  <1>1. Tail(v[p]) \in Seq(Message)
    BY DEF Services
  <1>2. w \in Services /\ w[p] = Tail(v[p]) /\ \A i \in 1 .. N : i # p => w[i] = v[i]
    BY <1>1 DEF Services, TakeFront
  <1>3. q \in Pipeline /\ s \in Stage /\ s \notin Endpoint \cup Forwarder /\ q[s] = v[p]
    BY QueuesFacts, StageSplit
  <1>4. \A i \in 1 .. N : <<"serv", i>> = s => i = p
    OBVIOUS
  <1> HIDE DEF s
  <1>5. r \in Pipeline
    BY <1>3, TakeFrontFacts
  <1>6. r[s] = Tail(q[s]) /\ \A u \in Stage \ {s} : r[u] = q[u]
    BY <1>3, TakeFrontAt
  <1> HIDE DEF w, r
  <1>7. \A e \in Endpoint : r[e] = b[e]
    BY <1>3, <1>6, QueuesFacts, StageSplit
  <1>8. \A f \in Forwarder : r[f] = h[f]
    BY <1>3, <1>6, QueuesFacts, StageSplit
  <1>9. ASSUME NEW i \in 1 .. N PROVE r[<<"serv", i>>] = w[i]
    <2>1. q[<<"serv", i>>] = v[i] /\ <<"serv", i>> \in Stage
      BY QueuesFacts, StageSplit
    <2>2. CASE i = p
      BY <1>2, <1>3, <1>6, <2>2 DEF s
    <2>3. CASE i # p
      BY <1>2, <1>4, <1>6, <2>1, <2>3
    <2> QED
      BY <2>2, <2>3
  <1> HIDE DEF q
  <1> QED
    BY <1>2, <1>5, <1>7, <1>8, <1>9, QueuesEqual DEF w, q, s, r

LEMMA ServicesWrite ==
  ASSUME NEW b \in Buffers, NEW v \in Services, NEW h \in Hands,
         NEW p \in 1 .. N, NEW m \in Message
  PROVE  Queues(b, AddTo(v, p, m), h) = AddTo(Queues(b, v, h), <<"serv", p>>, m)
  <1> DEFINE w == AddTo(v, p, m)
             q == Queues(b, v, h)
             s == <<"serv", p>>
             r == AddTo(q, s, m)
  <1>1. Append(v[p], m) \in Seq(Message)
    BY DEF Services
  <1>2. w \in Services /\ w[p] = Append(v[p], m) /\ \A i \in 1 .. N : i # p => w[i] = v[i]
    BY <1>1 DEF Services, AddTo
  <1>3. q \in Pipeline /\ s \in Stage /\ s \notin Endpoint \cup Forwarder /\ q[s] = v[p]
    BY QueuesFacts, StageSplit
  <1>4. \A i \in 1 .. N : <<"serv", i>> = s => i = p
    OBVIOUS
  <1> HIDE DEF s
  <1>5. r \in Pipeline
    BY <1>3, AddToFacts
  <1>6. r[s] = Append(q[s], m) /\ \A u \in Stage \ {s} : r[u] = q[u]
    BY <1>3, AddToAt
  <1> HIDE DEF w, r
  <1>7. \A e \in Endpoint : r[e] = b[e]
    BY <1>3, <1>6, QueuesFacts, StageSplit
  <1>8. \A f \in Forwarder : r[f] = h[f]
    BY <1>3, <1>6, QueuesFacts, StageSplit
  <1>9. ASSUME NEW i \in 1 .. N PROVE r[<<"serv", i>>] = w[i]
    <2>1. q[<<"serv", i>>] = v[i] /\ <<"serv", i>> \in Stage
      BY QueuesFacts, StageSplit
    <2>2. CASE i = p
      BY <1>2, <1>3, <1>6, <2>2 DEF s
    <2>3. CASE i # p
      BY <1>2, <1>4, <1>6, <2>1, <2>3
    <2> QED
      BY <2>2, <2>3
  <1> HIDE DEF q
  <1> QED
    BY <1>2, <1>5, <1>7, <1>8, <1>9, QueuesEqual DEF w, q, s, r

LEMMA HandsRead ==
  ASSUME NEW b \in Buffers, NEW v \in Services, NEW h \in Hands,
         NEW s \in Forwarder, h[s] # << >>
  PROVE  /\ TakeFront(h, s) \in Hands
         /\ Queues(b, v, TakeFront(h, s)) = TakeFront(Queues(b, v, h), s)
  <1> DEFINE k == TakeFront(h, s)
             q == Queues(b, v, h)
             r == TakeFront(q, s)
  <1>1. Tail(h[s]) \in Seq(Message)
    BY DEF Hands
  <1>2. k \in Hands /\ k[s] = Tail(h[s]) /\ \A f \in Forwarder \ {s} : k[f] = h[f]
    BY <1>1 DEF Hands, TakeFront
  <1>3. q \in Pipeline /\ s \in Stage /\ q[s] = h[s]
    BY QueuesFacts, StageSplit
  <1>4. r \in Pipeline
    BY <1>3, TakeFrontFacts
  <1>5. r[s] = Tail(q[s]) /\ \A u \in Stage \ {s} : r[u] = q[u]
    BY <1>3, TakeFrontAt
  <1> HIDE DEF k, r
  <1>6. \A e \in Endpoint : r[e] = b[e]
    BY <1>5, QueuesFacts, StageSplit
  <1>7. ASSUME NEW f \in Forwarder PROVE r[f] = k[f]
    <2>1. f \in Stage /\ q[f] = h[f]
      BY QueuesFacts, StageSplit
    <2> HIDE DEF q
    <2> QED
      BY <1>2, <1>3, <1>5, <2>1
  <1>8. ASSUME NEW p \in 1 .. N PROVE r[<<"serv", p>>] = v[p]
    <2>1. <<"serv", p>> \in Stage \ {s} /\ q[<<"serv", p>>] = v[p]
      BY QueuesFacts, StageSplit
    <2> QED
      BY <1>5, <2>1
  <1> HIDE DEF q
  <1> QED
    BY <1>2, <1>4, <1>6, <1>7, <1>8, QueuesEqual DEF k, q, r

LEMMA HandsWrite ==
  ASSUME NEW b \in Buffers, NEW v \in Services, NEW h \in Hands,
         NEW t \in Forwarder, NEW m \in Message
  PROVE  Queues(b, v, AddTo(h, t, m)) = AddTo(Queues(b, v, h), t, m)
  <1> DEFINE k == AddTo(h, t, m)
             q == Queues(b, v, h)
             r == AddTo(q, t, m)
  <1>1. Append(h[t], m) \in Seq(Message)
    BY DEF Hands
  <1>2. k \in Hands /\ k[t] = Append(h[t], m) /\ \A f \in Forwarder \ {t} : k[f] = h[f]
    BY <1>1 DEF Hands, AddTo
  <1>3. q \in Pipeline /\ t \in Stage /\ q[t] = h[t]
    BY QueuesFacts, StageSplit
  <1>4. r \in Pipeline
    BY <1>3, AddToFacts
  <1>5. r[t] = Append(q[t], m) /\ \A u \in Stage \ {t} : r[u] = q[u]
    BY <1>3, AddToAt
  <1> HIDE DEF k, r
  <1>6. \A e \in Endpoint : r[e] = b[e]
    BY <1>5, QueuesFacts, StageSplit
  <1>7. ASSUME NEW f \in Forwarder PROVE r[f] = k[f]
    <2>1. f \in Stage /\ q[f] = h[f]
      BY QueuesFacts, StageSplit
    <2> HIDE DEF q
    <2> QED
      BY <1>2, <1>3, <1>5, <2>1
  <1>8. ASSUME NEW p \in 1 .. N PROVE r[<<"serv", p>>] = v[p]
    <2>1. <<"serv", p>> \in Stage \ {t} /\ q[<<"serv", p>>] = v[p]
      BY QueuesFacts, StageSplit
    <2> QED
      BY <1>5, <2>1
  <1> HIDE DEF q
  <1> QED
    BY <1>2, <1>4, <1>6, <1>7, <1>8, QueuesEqual DEF k, q, r

\* When endpoints close or forwarders end, and what they held is given up,
\* stages die.
LEMMA QueuesDie ==
  ASSUME NEW b \in Buffers, NEW c \in Buffers, NEW v \in Services, NEW w \in Services,
         NEW h \in Hands, NEW k \in Hands, NEW y, NEW z, NEW a, NEW o,
         \A e \in Endpoint : y[e] = "closed" => z[e] = "closed",
         \A p \in 1 .. N : y[<<"conn", p>>] # "open" => z[<<"conn", p>>] # "open",
         \A e \in Endpoint : c[e] = b[e] \/ (c[e] = << >> /\ z[e] = "closed"),
         \A e \in Endpoint : z[e] = "closed" => c[e] = << >> \/ y[e] = "closed",
         \A p \in 1 .. N : w[p] = v[p] \/ (w[p] = << >> /\ z[<<"conn", p>>] # "open"),
         \A p \in 1 .. N : z[<<"conn", p>>] # "open" =>
                             w[p] = << >> \/ y[<<"conn", p>>] # "open",
         \A f \in Forwarder : \/ o[f] = a[f] /\ k[f] = h[f]
                              \/ HasEnded(o, f) /\ k[f] = << >>,
         NEW g \in Seq(Message), NEW n \in Nat, NEW x,
         Pipe(Queues(b, v, h), Dead(y, a), g, n, x)
  PROVE  Pipe(Queues(c, w, k), Dead(z, o), g, n, x)
  <1> DEFINE q == Queues(b, v, h)
             r == Queues(c, w, k)
             d == Dead(y, a)
             j == Dead(z, o)
  <1>1. q \in Pipeline /\ r \in Pipeline /\ d \in SUBSET Stage /\ j \in SUBSET Stage
    BY QueuesFacts, DeadFacts
  <1>2. DeadAreEmpty(q, d)
    BY DEF Pipe
  <1>3. ASSUME NEW u \in Stage
        PROVE  (u \in d => u \in j) /\ r[u] = IF u \in j THEN << >> ELSE q[u]
    <2>1. CASE u \in Endpoint
      <3>1. q[u] = b[u] /\ r[u] = c[u]
        BY <2>1, QueuesFacts
      <3>2. (u \in d <=> y[u] = "closed") /\ (u \in j <=> z[u] = "closed")
        BY <2>1, DeadFacts
      <3> HIDE DEF q, r, d, j
      <3>3. u \in d => q[u] = << >>
        BY <1>2 DEF DeadAreEmpty
      <3> QED
        BY <2>1, <3>1, <3>2, <3>3
    <2>2. CASE \E p \in 1 .. N : u = <<"serv", p>>
      <3>1. PICK p \in 1 .. N : u = <<"serv", p>>
        BY <2>2
      <3>2. q[u] = v[p] /\ r[u] = w[p]
        BY <3>1, QueuesFacts
      <3>3. (u \in d <=> y[<<"conn", p>>] # "open") /\ (u \in j <=> z[<<"conn", p>>] # "open")
        BY <3>1, DeadFacts
      <3> HIDE DEF q, r, d, j
      <3>4. u \in d => q[u] = << >>
        BY <1>2 DEF DeadAreEmpty
      <3> QED
        BY <3>2, <3>3, <3>4
    <2>3. CASE u \in Forwarder
      <3>1. q[u] = h[u] /\ r[u] = k[u]
        BY <2>3, QueuesFacts
      <3>2. (u \in d <=> HasEnded(a, u)) /\ (u \in j <=> HasEnded(o, u))
        BY <2>3, DeadFacts
      <3> HIDE DEF q, r, d, j
      <3>3. u \in d => q[u] = << >>
        BY <1>2 DEF DeadAreEmpty
      <3> QED
        BY <2>3, <3>1, <3>2, <3>3 DEF HasEnded
    <2> QED
      BY <2>1, <2>2, <2>3, StageSplit
  <1> HIDE DEF q, r, d, j
  <1>4. d \subseteq j
    BY <1>1, <1>3
  <1> QED
    BY <1>1, <1>3, <1>4, PipeDies DEF q, r, d, j

----------------------------------------------------------------------------
(* What each action does to the pipeline.                                  *)

LEMMA VariableTypes ==
  ASSUME TypeOK
  PROVE  /\ buf \in Buffers /\ serv \in Services /\ hand \in Hands
         /\ got \in Seq(Message) /\ sent \in Nat
         /\ Dead(state, pc) \in SUBSET Stage
  BY DeadFacts, ForwardAssumption DEF TypeOK, Buffers, Services, Hands

\* An endpoint is closed, perhaps by a forwarder that ends.
LEMMA ClosePipe ==
  ASSUME TypeOK, TypeOK', PipeInv, NEW e \in Endpoint, Close(e), UNCHANGED <<sent, got, lost>>,
         \A f \in Forwarder : \/ pc'[f] = pc[f] /\ hand'[f] = hand[f]
                              \/ HasEnded(pc', f) /\ hand'[f] = << >>
  PROVE  PipeInv'
  <1>1. buf' \in Buffers /\ serv' \in Services /\ hand' \in Hands
    BY DEF TypeOK, Buffers, Services, Hands
  <1>2. \A u \in Endpoint : /\ state'[u] = IF u = e THEN "closed" ELSE state[u]
                            /\ buf'[u] = IF u = e THEN << >> ELSE buf[u]
    BY DEF Close, TypeOK
  <1>3. \A p \in 1 .. N : serv'[p] = IF e = <<"conn", p>> THEN << >> ELSE serv[p]
    BY DEF Close
  <1>4. ASSUME NEW p \in 1 .. N
        PROVE  <<"conn", p>> \in Endpoint
    BY EndpointIn, ForwardAssumption
  <1>5. /\ \A u \in Endpoint : state[u] = "closed" => state'[u] = "closed"
        /\ \A u \in Endpoint : buf'[u] = buf[u] \/ (buf'[u] = << >> /\ state'[u] = "closed")
        /\ \A u \in Endpoint : state'[u] = "closed" => buf'[u] = << >> \/ state[u] = "closed"
    BY <1>2
  <1>6. /\ \A p \in 1 .. N : state[<<"conn", p>>] # "open" => state'[<<"conn", p>>] # "open"
        /\ \A p \in 1 .. N :
             serv'[p] = serv[p] \/ (serv'[p] = << >> /\ state'[<<"conn", p>>] # "open")
        /\ \A p \in 1 .. N : state'[<<"conn", p>>] # "open" =>
                               serv'[p] = << >> \/ state[<<"conn", p>>] # "open"
    BY <1>2, <1>3, <1>4
  <1>7. Pipe(Queues(buf', serv', hand'), Dead(state', pc'), got, sent, lost)
    BY <1>1, <1>5, <1>6, VariableTypes, QueuesDie DEF PipeInv
  <1> QED
    BY <1>7 DEF PipeInv

LEMMA ConnectionLostPipe ==
  ASSUME TypeOK, TypeOK', PipeInv, NEW p \in 1 .. N, ConnectionLost(p)
  PROVE  PipeInv'
  <1> DEFINE i == <<"in", p>>
             o == <<"out", p - 1>>
  <1>1. buf' \in Buffers /\ serv' \in Services
    BY DEF TypeOK, Buffers, Services
  <1>2. i \in Endpoint /\ o \in Endpoint
    BY EndpointIn, ForwardAssumption
  <1>3. /\ state' = [state EXCEPT ![i] = "closed", ![o] = "closed"]
        /\ buf' = [buf EXCEPT ![i] = << >>, ![o] = << >>]
        /\ UNCHANGED <<serv, pc, hand, sent, got, lost>>
    BY DEF ConnectionLost
  <1>4. ASSUME NEW r \in 1 .. N
        PROVE  <<"conn", r>> \in Endpoint \ {i, o}
    BY EndpointIn, ForwardAssumption
  <1> HIDE DEF i, o
  <1>5. \A u \in Endpoint : /\ state'[u] = IF u \in {i, o} THEN "closed" ELSE state[u]
                            /\ buf'[u] = IF u \in {i, o} THEN << >> ELSE buf[u]
    BY <1>2, <1>3 DEF TypeOK
  <1>6. /\ \A u \in Endpoint : state[u] = "closed" => state'[u] = "closed"
        /\ \A u \in Endpoint : buf'[u] = buf[u] \/ (buf'[u] = << >> /\ state'[u] = "closed")
        /\ \A u \in Endpoint : state'[u] = "closed" => buf'[u] = << >> \/ state[u] = "closed"
    BY <1>5
  <1>7. ASSUME NEW r \in 1 .. N
        PROVE  state'[<<"conn", r>>] = state[<<"conn", r>>]
    BY <1>4, <1>5
  <1>8. /\ \A r \in 1 .. N : state[<<"conn", r>>] # "open" => state'[<<"conn", r>>] # "open"
        /\ \A r \in 1 .. N :
             serv'[r] = serv[r] \/ (serv'[r] = << >> /\ state'[<<"conn", r>>] # "open")
        /\ \A r \in 1 .. N : state'[<<"conn", r>>] # "open" =>
                               serv'[r] = << >> \/ state[<<"conn", r>>] # "open"
    BY <1>3, <1>7
  <1>9. Pipe(Queues(buf', serv', hand), Dead(state', pc), got, sent, lost)
    BY <1>1, <1>6, <1>8, VariableTypes, QueuesDie DEF PipeInv
  <1> QED
    BY <1>3, <1>9 DEF PipeInv

LEMMA ProgramClosesPipe ==
  ASSUME TypeOK, TypeOK', PipeInv, NEW p \in Position, ProgramCloses(p)
  PROVE  PipeInv'
  <1> DEFINE e == <<"conn", p>>
  <1>1. buf' \in Buffers /\ serv' \in Services
    BY DEF TypeOK, Buffers, Services
  <1>2. e \in Endpoint
    BY EndpointIn DEF Position
  <1>3. /\ state[e] = "open" /\ state' = [state EXCEPT ![e] = "eof"]
        /\ UNCHANGED <<buf, pc, hand, sent, got, lost>>
    BY DEF ProgramCloses
  <1>4. ASSUME NEW r \in 1 .. N
        PROVE  <<"conn", r>> \in Endpoint /\ (<<"conn", r>> = e <=> r = p)
    BY EndpointIn, ForwardAssumption
  <1>5. \A r \in 1 .. N : serv'[r] = IF r = p THEN << >> ELSE serv[r]
    BY DEF ProgramCloses
  <1> HIDE DEF e
  <1>6. \A u \in Endpoint : state'[u] = IF u = e THEN "eof" ELSE state[u]
    BY <1>2, <1>3 DEF TypeOK
  <1>7. /\ \A u \in Endpoint : state[u] = "closed" => state'[u] = "closed"
        /\ \A u \in Endpoint : buf'[u] = buf[u] \/ (buf'[u] = << >> /\ state'[u] = "closed")
        /\ \A u \in Endpoint : state'[u] = "closed" => buf'[u] = << >> \/ state[u] = "closed"
    BY <1>3, <1>6
  <1>8. /\ \A r \in 1 .. N : state[<<"conn", r>>] # "open" => state'[<<"conn", r>>] # "open"
        /\ \A r \in 1 .. N :
             serv'[r] = serv[r] \/ (serv'[r] = << >> /\ state'[<<"conn", r>>] # "open")
        /\ \A r \in 1 .. N : state'[<<"conn", r>>] # "open" =>
                               serv'[r] = << >> \/ state[<<"conn", r>>] # "open"
    BY <1>4, <1>5, <1>6
  <1>9. Pipe(Queues(buf', serv', hand'), Dead(state', pc'), got, sent, lost)
    BY <1>1, <1>3, <1>7, <1>8, VariableTypes, QueuesDie DEF PipeInv
  <1> QED
    BY <1>3, <1>9 DEF PipeInv

LEMMA LosesPipe ==
  ASSUME TypeOK, PipeInv, NEW p \in 1 .. N, Loses(p)
  PROVE  PipeInv'
  <1> DEFINE s == <<"serv", p>>
             q == Queues(buf, serv, hand)
  <1>1. serv[p] # << >> /\ serv' = TakeFront(serv, p) /\ UNCHANGED <<buf, state, pc, hand, sent, got>>
    BY DEF Loses, TakeFront
  <1>2. lost' = TRUE
    BY Zenon DEF Loses
  <1>3. Queues(buf, serv', hand) = TakeFront(q, s)
    BY <1>1, VariableTypes, ServicesRead
  <1>4. q \in Pipeline /\ q[s] = serv[p] /\ s \in Stage
    BY VariableTypes, QueuesFacts, StageSplit
  <1> HIDE DEF q, s
  <1>5. Pipe(TakeFront(q, s), Dead(state, pc), got, sent, TRUE)
    BY <1>1, <1>4, VariableTypes, PipeLoses DEF PipeInv, q
  <1>6. Pipe(Queues(buf', serv', hand'), Dead(state', pc'), got', sent', TRUE)
    BY <1>1, <1>3, <1>5
  <1> QED
    BY <1>2, <1>6, Zenon DEF PipeInv

LEMMA ClientSendsPipe ==
  ASSUME TypeOK, PipeInv, ClientSends
  PROVE  PipeInv'
  <1> DEFINE t == <<"conn", 0>>
             q == Queues(buf, serv, hand)
             m == [n |-> sent + 1, via |-> << >>]
  <1>1. /\ state[t] = "open" /\ sent < MaxMsgs /\ sent' = sent + 1
        /\ buf' = AddTo(buf, t, m)
        /\ UNCHANGED <<state, serv, pc, hand, got, lost>>
    BY DEF ClientSends, AddTo
  <1>2. m \in Message /\ m.n = sent + 1 /\ m.via = << >>
    <2>1. sent + 1 \in 1 .. MaxMsgs
      BY <1>1, ForwardAssumption DEF TypeOK
    <2> QED
      BY <2>1 DEF Message
  <1>3. t \in Endpoint /\ Rank(t) = 0 /\ Passed(t) = 0
    BY EndpointIn, RankValues, ForwardAssumption
  <1> HIDE DEF t, m
  <1>4. t \in Stage \ Dead(state, pc)
    BY <1>1, <1>3, StageSplit, DeadFacts
  <1>5. Queues(buf', serv, hand) = AddTo(q, t, m)
    BY <1>1, <1>2, <1>3, VariableTypes, QueuesWrite
  <1>6. q \in Pipeline
    BY VariableTypes, QueuesFacts
  <1> HIDE DEF q
  <1>7. Pipe(AddTo(q, t, m), Dead(state, pc), got, sent + 1, lost)
    BY <1>2, <1>3, <1>4, <1>6, VariableTypes, PipeFeeds DEF PipeInv, q
  <1> QED
    BY <1>1, <1>5, <1>7 DEF PipeInv

\* A forwarder that writes to a connection writes to its own position's.
LEMMA ConnDst ==
  ASSUME NEW f \in Forwarder, IsConn(Dst(f))
  PROVE  Dst(f) = <<"conn", f[2]>>
  <1>1. CASE \E p \in 0 .. N - 1 : f = <<"down", p>>
    <2>1. f[1] = "down"
      BY <1>1
    <2>2. Dst(f) = <<"out", f[2]>>
      BY <2>1 DEF Dst
    <2> QED
      BY <2>2 DEF IsConn
  <1>2. CASE \E p \in 1 .. N : f = <<"serve", p>>
    <2>1. f[1] = "serve"
      BY <1>2
    <2> QED
      BY <2>1 DEF Dst
  <1>3. CASE \E p \in 0 .. N : f = <<"up", p>>
    <2>1. f[1] = "up"
      BY <1>3
    <2>2. Dst(f) = IF f[2] = 0 THEN <<"conn", 0>> ELSE <<"in", f[2]>>
      BY <2>1 DEF Dst
    <2> QED
      BY <2>2 DEF IsConn
  <1> QED
    BY <1>1, <1>2, <1>3, ForwarderCases

LEMMA ReadsPipe ==
  ASSUME TypeOK, PipeInv, NEW f \in Forwarder, Reads(f)
  PROVE  PipeInv'
  <1> DEFINE s == Src(f)
             q == Queues(buf, serv, hand)
             m == Head(buf[s])
             d == Dead(state, pc)
  <1>1. s \in Endpoint /\ s \in Stage
    BY ForwarderEnds, ForwarderMoves
  <1>2. /\ pc[f] = "run" /\ hand[f] = << >> /\ buf[s] # << >>
        /\ buf' = TakeFront(buf, s) /\ hand' = [hand EXCEPT ![f] = <<m>>]
        /\ UNCHANGED <<state, serv, pc, sent, got, lost>>
    BY DEF Reads, TakeFront
  <1>3. m \in Message
    BY <1>1, <1>2, VariableTypes DEF Buffers
  <1>4. hand' = AddTo(hand, f, m)
    <2>1. Append(hand[f], m) = <<m>>
      BY <1>2, <1>3
    <2> HIDE DEF m
    <2> QED
      BY <1>2, <2>1 DEF AddTo
  <1>5. q \in Pipeline /\ q[s] = buf[s]
    BY <1>1, VariableTypes, QueuesFacts
  <1>6. buf' \in Buffers /\ Queues(buf', serv, hand) = TakeFront(q, s)
    BY <1>1, <1>2, VariableTypes, QueuesRead
  <1>7. m = q[s][1] /\ 1 \in 1 .. Len(q[s]) /\ m.n = Head(q[s]).n
    BY <1>1, <1>2, <1>5, TakeFrontFacts
  <1> HIDE DEF m
  <1>8. Queues(buf', serv, hand') = AddTo(TakeFront(q, s), f, m)
    BY <1>3, <1>4, <1>6, VariableTypes, HandsWrite
  <1>9. Pipe(q, d, got, sent, lost)
    BY DEF PipeInv
  <1>10. f \in Stage /\ Rank(f) = Rank(s) + 1 /\ Passed(f) = Passed(s)
    BY ForwarderMoves
  <1>11. f \in Stage \ d
    BY <1>2, <1>10, DeadFacts DEF HasEnded
  <1> HIDE DEF q, s, d
  <1>12. m.via = Upto(Passed(f))
    BY <1>1, <1>7, <1>9, <1>10 DEF Pipe, WentThrough
  <1>13. Pipe(AddTo(TakeFront(q, s), f, m), d, got, sent, lost)
    BY <1>1, <1>2, <1>3, <1>5, <1>7, <1>9, <1>10, <1>11, <1>12, VariableTypes, PipeMoves DEF d
  <1> QED
    BY <1>2, <1>8, <1>13 DEF PipeInv, d

LEMMA WritesPipe ==
  ASSUME TypeOK, PipeInv, NEW f \in Forwarder, Writes(f)
  PROVE  PipeInv'
  <1> DEFINE q == Queues(buf, serv, hand)
             m == Head(hand[f])
             d == Dead(state, pc)
             k == TakeFront(hand, f)
  <1>1. /\ hand[f] # << >> /\ state[Dst(f)] = "open"
        /\ hand' = [hand EXCEPT ![f] = << >>]
        /\ UNCHANGED <<state, pc, sent>>
    BY DEF Writes
  <1>2. hand[f] \in Seq(Message) /\ Len(hand[f]) = 1
    BY <1>1 DEF TypeOK
  <1>3. m \in Message /\ Tail(hand[f]) = << >>
    <2>1. m \in Message
      BY <1>1, <1>2
    <2>2. Tail(hand[f]) \in Seq(Message) /\ Len(Tail(hand[f])) = 0
      BY <1>1, <1>2, HeadTailProperties
    <2>3. Tail(hand[f]) = << >>
      BY <2>2, EmptySeq
    <2> QED
      BY <2>1, <2>3
  <1>4. hand' = k
    BY <1>1, <1>3 DEF TakeFront
  <1>5. f \in Stage
    BY ForwarderMoves
  <1>6. q \in Pipeline /\ q[f] = hand[f]
    BY VariableTypes, QueuesFacts
  <1>7. k \in Hands /\ Queues(buf, serv, k) = TakeFront(q, f)
    BY <1>1, VariableTypes, HandsRead
  <1>8. m = q[f][1] /\ 1 \in 1 .. Len(q[f]) /\ m = Head(q[f])
    BY <1>1, <1>5, <1>6, TakeFrontFacts
  <1>9. Pipe(q, d, got, sent, lost)
    BY DEF PipeInv
  <1> HIDE DEF q
  <1>10. m.via = Upto(Passed(f))
    BY <1>5, <1>8, <1>9 DEF Pipe, WentThrough
  <1>11. d \in SUBSET Stage
    BY VariableTypes
  <1> HIDE DEF k, d
  \* f moves its message to a live stage t.
  <1>12. ASSUME NEW t \in Stage \ d, Rank(t) = Rank(f) + 1, Passed(t) = Passed(f)
         PROVE  Pipe(AddTo(TakeFront(q, f), t, m), d, got, sent, lost)
    <2>1. m.n = Head(q[f]).n
      BY <1>8
    <2>2. m.via = Upto(Passed(t))
      BY <1>10, <1>12
    <2> HIDE DEF m
    <2> QED
      BY <1>1, <1>3, <1>5, <1>6, <1>9, <1>11, <1>12, <2>1, <2>2, VariableTypes, PipeMoves
  <1>13. CASE ~ IsConn(Dst(f)) /\ SendData(f)
    <2> DEFINE t == Peer(Dst(f))
    <2>1. UNCHANGED <<serv, got, lost>>
      BY <1>13 DEF SendData
    <2>2. t \in Endpoint /\ Dst(f) # <<"conn", 0>>
      BY <1>13, ForwarderEnds DEF IsConn
    <2>3. Target(f) = t
      BY <1>13 DEF Target
    <2>4. t \in Stage /\ Rank(t) = Rank(f) + 1 /\ Passed(t) = Passed(f)
      BY <2>2, <2>3, ForwarderMoves
    <2>5. \/ state[t] = "open" /\ buf' = AddTo(buf, t, m)
          \/ state[t] = "closed" /\ buf' = buf
      BY <1>13 DEF SendData, AddTo
    <2> HIDE DEF t, m
    <2>6. CASE state[t] = "open" /\ buf' = AddTo(buf, t, m)
      <3>1. Queues(buf', serv, k) = AddTo(TakeFront(q, f), t, m)
        BY <1>3, <1>7, <2>2, <2>6, VariableTypes, QueuesWrite
      <3>2. t \in Stage \ d
        BY <2>2, <2>4, <2>6, DeadFacts DEF d
      <3>3. Pipe(AddTo(TakeFront(q, f), t, m), d, got, sent, lost)
        BY <1>12, <2>4, <3>2
      <3> QED
        BY <1>1, <1>4, <2>1, <3>1, <3>3 DEF PipeInv, d
    <2>7. CASE state[t] = "closed" /\ buf' = buf
      <3>1. t \in d
        BY <2>2, <2>7, DeadFacts DEF d
      <3>2. Pipe(TakeFront(q, f), d, got, sent, lost)
        BY <1>1, <1>5, <1>6, <1>9, <1>11, <2>4, <3>1, VariableTypes, PipeDrops
      <3> QED
        BY <1>1, <1>4, <1>7, <2>1, <2>7, <3>2 DEF PipeInv, d
    <2> QED
      BY <2>5, <2>6, <2>7
  <1>14. CASE Dst(f) = <<"conn", 0>> /\ WriteClient(f)
    <2>1. UNCHANGED <<buf, serv, lost>> /\ got' = Append(got, Head(q[f]))
      BY <1>8, <1>14 DEF WriteClient
    <2>2. f = <<"up", 0>>
      BY <1>14, ForwarderMoves
    <2>3. Pipe(TakeFront(q, f), d, Append(got, Head(q[f])), sent, lost)
      BY <1>1, <1>5, <1>6, <1>9, <1>11, <2>2, VariableTypes, PipeDelivers
    <2> QED
      BY <1>1, <1>4, <1>7, <2>1, <2>3 DEF PipeInv, d
  <1>15. CASE IsConn(Dst(f)) /\ f[2] > 0 /\ WriteService(f)
    <2> DEFINE p == f[2]
               t == <<"serv", p>>
    <2>1. p \in 1 .. N
      BY <1>15, ForwarderEnds, ForwardAssumption DEF Position
    <2>2. UNCHANGED <<buf, got>>
      BY <1>15 DEF WriteService
    <2>3. Dst(f) = <<"conn", p>>
      BY <1>15, ConnDst
    <2>4. Target(f) = t /\ Dst(f) # <<"conn", 0>>
      BY <1>15, <2>3 DEF Target
    <2>5. t \in Stage /\ Rank(t) = Rank(f) + 1 /\ Passed(t) = Passed(f)
      BY <2>4, ForwarderMoves
    <2>6. t \in Stage \ d
      BY <1>1, <2>1, <2>3, <2>5, DeadFacts DEF d
    <2>7. CASE serv' = [serv EXCEPT ![p] = Append(@, m)] /\ lost' = lost
      <3>1. serv' = AddTo(serv, p, m)
        BY <2>7 DEF AddTo
      <3>2. Queues(buf, serv', k) = AddTo(TakeFront(q, f), t, m)
        <4> HIDE DEF p, m
        <4> QED
          BY <1>3, <1>7, <2>1, <3>1, VariableTypes, ServicesWrite
      <3>3. Pipe(AddTo(TakeFront(q, f), t, m), d, got, sent, lost)
        BY <1>12, <2>5, <2>6
      <3> QED
        BY <1>1, <1>4, <2>2, <2>7, <3>2, <3>3 DEF PipeInv, d
    <2>8. CASE serv' = serv /\ lost' = TRUE
      <3>1. Pipe(TakeFront(q, f), d, got, sent, TRUE)
        BY <1>1, <1>5, <1>6, <1>9, <1>11, VariableTypes, PipeLoses
      <3>2. serv' = serv
        BY <2>8
      <3>3. Pipe(Queues(buf', serv', hand'), Dead(state', pc'), got', sent', TRUE)
        BY <1>1, <1>4, <1>7, <2>2, <3>1, <3>2 DEF d
      <3> QED
        BY <2>8, <3>3, Zenon DEF PipeInv
    <2>9. \/ serv' = [serv EXCEPT ![p] = Append(@, m)] /\ lost' = lost
          \/ serv' = serv /\ lost' = TRUE
      BY <1>15, Zenon DEF WriteService
    <2> QED
      BY <2>7, <2>8, <2>9
  <1> QED
    BY <1>13, <1>14, <1>15 DEF Writes

\* Starting the goroutines of a position ends none.
LEMMA StartPipe ==
  ASSUME TypeOK, PipeInv, NEW p \in Position, chain[p] = "pending", Start(p),
         UNCHANGED <<state, buf, serv, hand, sent, got, lost>>
  PROVE  PipeInv'
  <1>1. ASSUME NEW f \in Forwarder PROVE HasEnded(pc', f) <=> HasEnded(pc, f)
    <2>1. CASE f \in At(p)
      BY <2>1 DEF TypeOK, At, Start, HasEnded
    <2>2. CASE f \notin At(p)
      BY <2>2 DEF Start, HasEnded
    <2> QED
      BY <2>1, <2>2
  <1>2. Dead(state, pc') = Dead(state, pc)
    BY <1>1 DEF Dead
  <1> QED
    BY <1>2 DEF PipeInv

\* The reply of service p has passed one service more.
LEMMA UptoNext ==
  ASSUME NEW p \in Nat \ {0}
  PROVE  Append(Upto(p - 1), p) = Upto(p)
  <1>1. Upto(p - 1) \in Seq(Nat) /\ Len(Upto(p - 1)) = p - 1
    BY DEF Upto
  <1>2. Upto(p) \in Seq(Nat) /\ Len(Upto(p)) = p
    BY DEF Upto
  <1>3. Append(Upto(p - 1), p) \in Seq(Nat) /\ Len(Append(Upto(p - 1), p)) = p
    BY <1>1
  <1>4. ASSUME NEW i \in 1 .. p
        PROVE  Append(Upto(p - 1), p)[i] = Upto(p)[i]
    <2>1. CASE i \in 1 .. p - 1
      BY <1>1, <2>1 DEF Upto
    <2>2. CASE i = p
      BY <1>1, <2>2 DEF Upto
    <2>3. i \in 1 .. p - 1 \/ i = p
      OBVIOUS
    <2> QED
      BY <2>1, <2>2, <2>3
  <1> QED
    BY <1>2, <1>3, <1>4, SeqEqual

LEMMA AnswersPipe ==
  ASSUME TypeOK, PipeInv, NEW p \in 1 .. N, Answers(p)
  PROVE  PipeInv'
  <1> DEFINE s == <<"serv", p>>
             t == <<"conn", p>>
             q == Queues(buf, serv, hand)
             h == Head(serv[p])
             m == [h EXCEPT !.via = Append(@, p)]
  <1>1. /\ serv[p] # << >> /\ state[t] = "open"
        /\ serv' = TakeFront(serv, p)
        /\ buf' = AddTo(buf, t, m)
        /\ UNCHANGED <<state, pc, hand, sent, got, lost>>
    BY DEF Answers, TakeFront, AddTo
  <1>2. h \in Message
    BY <1>1, VariableTypes DEF Services
  <1>3. Append(h.via, p) \in Seq(1 .. N)
    BY <1>2 DEF Message
  <1>4. m \in Message /\ m.n = h.n /\ m.via = Append(h.via, p)
    BY <1>2, <1>3 DEF Message
  <1>5. q \in Pipeline /\ q[s] = serv[p] /\ s \in Stage
    BY VariableTypes, QueuesFacts, StageSplit
  <1>6. p \in 0 .. N
    BY ForwardAssumption
  <1>7. Rank(s) = 5 * p - 1 /\ Passed(s) = p - 1
    BY RankValues
  <1>8. t \in Endpoint /\ Rank(t) = 5 * p /\ Passed(t) = p
    BY <1>6, EndpointIn, RankValues
  <1>9. Pipe(q, Dead(state, pc), got, sent, lost)
    BY DEF PipeInv
  <1> HIDE DEF m, h, t
  <1>10. t \in Stage \ Dead(state, pc)
    BY <1>1, <1>8, StageSplit, DeadFacts
  <1>11. serv' \in Services /\ Queues(buf, serv', hand) = TakeFront(q, s)
    BY <1>1, VariableTypes, ServicesRead
  <1>12. Queues(buf', serv', hand) = AddTo(TakeFront(q, s), t, m)
    BY <1>1, <1>4, <1>8, <1>11, VariableTypes, QueuesWrite
  <1> HIDE DEF q, s
  <1>13. 1 \in 1 .. Len(q[s]) /\ h = q[s][1] /\ h = Head(q[s])
    BY <1>1, <1>5, TakeFrontFacts DEF h
  <1>14. m.via = Upto(Passed(t))
    <2>1. h.via = Upto(p - 1)
      BY <1>5, <1>7, <1>9, <1>13 DEF Pipe, WentThrough
    <2>2. Append(Upto(p - 1), p) = Upto(p)
      BY UptoNext
    <2> QED
      BY <1>4, <1>8, <2>1, <2>2
  <1>15. Rank(t) = Rank(s) + 1
    BY <1>7, <1>8
  <1>16. m.n = Head(q[s]).n
    BY <1>4, <1>13
  <1>17. Pipe(AddTo(TakeFront(q, s), t, m), Dead(state, pc), got, sent, lost)
    BY <1>1, <1>4, <1>5, <1>9, <1>10, <1>14, <1>15, <1>16, VariableTypes, PipeMoves
  <1> QED
    BY <1>1, <1>12, <1>17 DEF PipeInv

----------------------------------------------------------------------------

LEMMA PipeInit ==
  ASSUME Init
  PROVE  PipeInv
  <1> DEFINE q == Queues(buf, serv, hand)
             d == Dead(state, pc)
  <1>1. /\ buf = [e \in Endpoint |-> << >>] /\ serv = [p \in 1 .. N |-> << >>]
        /\ state = [e \in Endpoint |-> "open"] /\ sent = 0 /\ got = << >>
        /\ hand = [f \in Forwarder |-> << >>]
    BY DEF Init
  <1>2. buf \in Buffers /\ serv \in Services /\ hand \in Hands
    BY <1>1 DEF Buffers, Services, Hands
  <1>3. ASSUME NEW u \in Stage PROVE q[u] = << >>
    <2>1. CASE u \in Endpoint
      BY <1>1, <1>2, <2>1, QueuesFacts
    <2>2. CASE u \in Forwarder
      BY <1>1, <1>2, <2>2, QueuesFacts
    <2>3. CASE \E p \in 1 .. N : u = <<"serv", p>>
      <3>1. PICK p \in 1 .. N : u = <<"serv", p>>
        BY <2>3
      <3>2. q[u] = serv[p]
        BY <1>2, <3>1, QueuesFacts
      <3> QED
        BY <1>1, <3>2
    <2> QED
      BY <2>1, <2>2, <2>3, StageSplit
  <1> HIDE DEF q, d
  <1>4. \A u \in Stage : Len(q[u]) = 0 /\ 1 .. Len(q[u]) = {}
    BY <1>3
  <1>5. Len(got) = 0 /\ 1 .. Len(got) = {}
    BY <1>1
  <1>6. d \in SUBSET Stage
    BY DeadFacts DEF d
  <1>7. InOrder(q) /\ GotFirst(q, got) /\ WasSent(q, got, sent) /\ WentThrough(q, got)
    BY <1>4, <1>5 DEF InOrder, GotFirst, WasSent, WentThrough
  <1>8. DeadAreEmpty(q, d)
    BY <1>3, <1>6 DEF DeadAreEmpty
  <1>9. NoGap(q, d, got) /\ NoGapBefore(q, d, got, sent) /\ GotAll(got)
    BY <1>1, <1>4, <1>5 DEF NoGap, NoGapBefore, GotAll
  <1> QED
    BY <1>7, <1>8, <1>9 DEF Pipe, PipeInv, q, d

LEMMA PipeStep ==
  ASSUME TypeOK, TypeOK', PipeInv, [Next]_vars
  PROVE  PipeInv'
  <1>1. ASSUME UNCHANGED <<state, buf, serv, pc, hand, sent, got, lost>>
        PROVE  PipeInv'
    BY <1>1 DEF PipeInv
  <1>2. CASE SetupChain \/ SetupFails
    <2>1. 0 \in Position
      BY ForwardAssumption DEF Position
    <2>2. CASE SetupChain
      BY <2>1, <2>2, StartPipe DEF SetupChain
    <2>3. CASE SetupFails
      BY <1>1, <2>3 DEF SetupFails
    <2> QED
      BY <1>2, <2>2, <2>3
  <1>3. ASSUME NEW p \in 1 .. N, Dial(p) \/ DialFails(p)
        PROVE  PipeInv'
    <2>1. p \in Position
      BY DEF Position
    <2>2. CASE Dial(p)
      BY <2>1, <2>2, StartPipe DEF Dial
    <2>3. CASE DialFails(p)
      BY <1>1, <2>3 DEF DialFails
    <2> QED
      BY <1>3, <2>2, <2>3
  <1>4. ASSUME NEW p \in 1 .. N, Answers(p)
        PROVE  PipeInv'
    BY <1>4, AnswersPipe
  <1>5. ASSUME NEW f \in Forwarder, ForwarderStep(f)
        PROVE  PipeInv'
    <2>1. CASE Reads(f)
      BY <2>1, ReadsPipe
    <2>2. CASE Writes(f)
      BY <2>2, WritesPipe
    <2>3. CASE Fails(f)
      <3>1. \A g \in Forwarder : \/ pc'[g] = pc[g] /\ hand'[g] = hand[g]
                                 \/ HasEnded(pc', g) /\ hand'[g] = << >>
        BY <2>3 DEF Fails, HasEnded, TypeOK
      <3> QED
        BY <2>3, <3>1, ClosedEnds, ClosePipe DEF Fails
    <2>4. CASE Finishes(f)
      <3>1. hand[f] = << >>
        BY <2>4 DEF Finishes, TypeOK
      <3>2. \A g \in Forwarder : \/ pc'[g] = pc[g] /\ hand'[g] = hand[g]
                                 \/ HasEnded(pc', g) /\ hand'[g] = << >>
        BY <2>4, <3>1 DEF Finishes, HasEnded, TypeOK
      <3> QED
        BY <2>4, <3>2, ClosedEnds, ClosePipe DEF Finishes
    <2> QED
      BY <1>5, <2>1, <2>2, <2>3, <2>4 DEF ForwarderStep
  <1>6. ASSUME NEW e \in Endpoint, Notice(e)
        PROVE  PipeInv'
    BY <1>6, ClosePipe DEF Notice
  <1>7. CASE ClientSends
    BY <1>7, ClientSendsPipe
  <1>8. ASSUME NEW p \in Position, ProgramCloses(p)
        PROVE  PipeInv'
    BY <1>8, ProgramClosesPipe
  <1>9. ASSUME NEW p \in 1 .. N, ConnectionLost(p)
        PROVE  PipeInv'
    BY <1>9, ConnectionLostPipe
  <1>10. ASSUME NEW p \in 1 .. N, Loses(p)
         PROVE  PipeInv'
    BY <1>10, LosesPipe
  <1>11. CASE UNCHANGED vars
    BY <1>1, <1>11 DEF vars
  <1> QED
    BY <1>2, <1>3, <1>4, <1>5, <1>6, <1>7, <1>8, <1>9, <1>10, <1>11 DEF Next, Progress

\* On a chain of any length, whatever is closed, reset or lost and in whatever
\* order the goroutines run, the client's replies have passed every service
\* once and in order, arrive in the order of the messages, and leave no gap
\* unless a datagram was lost.
THEOREM RepliesComeInOrder == Spec => []RepliesInOrder
  <1>1. TypeOK /\ PipeInv => RepliesInOrder
    <2> SUFFICES ASSUME TypeOK, PipeInv, NEW k \in 1 .. Len(got)
                 PROVE  /\ got[k].via = [p \in 1 .. N |-> p]
                        /\ k > 1 => got[k - 1].n < got[k].n
                        /\ ~ lost => got[k].n = k
      BY DEF RepliesInOrder
    <2>1. /\ GotFirst(Queues(buf, serv, hand), got) /\ WentThrough(Queues(buf, serv, hand), got)
          /\ ~ lost => GotAll(got)
      BY DEF PipeInv, Pipe
    <2>2. got[k].via = [p \in 1 .. N |-> p]
      BY <2>1 DEF WentThrough, Upto
    <2>3. k > 1 => got[k - 1].n < got[k].n
      <3>1. Len(got) \in Nat
        BY VariableTypes
      <3>2. ASSUME k > 1
            PROVE  k - 1 \in 1 .. Len(got) /\ k - 1 < k
        BY <3>1, <3>2
      <3> QED
        BY <2>1, <3>2 DEF GotFirst
    <2>4. ~ lost => got[k].n = k
      BY <2>1 DEF GotAll
    <2> QED
      BY <2>2, <2>3, <2>4
  <1>2. Init => PipeInv
    BY PipeInit
  <1>3. TypeOK /\ TypeOK' /\ PipeInv /\ [Next]_vars => PipeInv'
    BY PipeStep
  <1> QED
    BY <1>1, <1>2, <1>3, ForwardTypeCorrect, PTL DEF Spec
=============================================================================
