------------------------------ MODULE UdpProxy ------------------------------
(***************************************************************************)
(* The source proxy's UDP front end for one chain specification:           *)
(* requestHandler and openUDPProxy, which open a listening socket, and     *)
(* udpServiceProxy, the worker that demultiplexes the socket's datagrams   *)
(* to one chain per client (l4-proxy/l4-proxy.go, l4-proxy/udp-proxy.go).  *)
(*                                                                         *)
(* HTTP requests run concurrently and read and write the map serv2Fwd      *)
(* without a lock.  A listening socket and its worker are named after the  *)
(* request that opened them.  setupChain is the module ChainSetup seen     *)
(* from outside: it returns a stream, returns an error, or never returns.  *)
(*                                                                         *)
(* The streams of a worker keep the protocol ID of chain setup.  The       *)
(* ClosedStream callback only acts on streams with the ID of UDP tunnels,  *)
(* which only the streams of chains that pass through this proxy have.     *)
(***************************************************************************)
EXTENDS Integers, Sequences, FiniteSets

CONSTANTS
  Req,         \* HTTP requests for the chain, and the sockets they open
  Client,      \* addresses datagrams come from
  None,
  MaxStreams,  \* bound of the model: streams set up
  MaxSends,    \* bound of the model: datagrams sent
  MaxInbox     \* bound of the model: datagrams in a socket's buffer

ASSUME UdpAssumption ==
  /\ None \notin Req \cup Client
  /\ {MaxStreams, MaxSends, MaxInbox} \subseteq Nat

Stream == 1 .. MaxStreams

ASSUME NoneIsNoStream == None \notin Stream

VARIABLES
  running,  \* FALSE once the Go runtime has aborted the proxy
  fwd,      \* serv2Fwd of this chain: the socket whose address it holds
  http,     \* where each HTTP request is
  addr,     \* the address its response carries
  sends,    \* datagrams clients may still send
  inbox,    \* inbox[w]: clients whose datagrams wait in the socket's buffer
  pc,       \* where each worker is
  from,     \* the client whose datagram it handles
  comm,     \* dstComm: the stream it is to write to
  retry,    \* writeRetry
  table,    \* client2ChainComm: a stream or None per client
  mtx,      \* mapMtx: who holds it
  cb,       \* the ClosedStream callback of each worker
  closing,  \* the stream that callback is about
  stream,   \* stream[s]: new, open or closed
  owner,    \* the worker and the client a stream was set up for
  rev       \* udpFwdStream2Conn of a stream: off, on or ended

worker == <<pc, from, comm, retry, table>>
vars == <<running, fwd, http, addr, sends, inbox, worker, mtx, cb, closing, stream, owner, rev>>

Init ==
  /\ running = TRUE
  /\ fwd = None
  /\ http = [r \in Req |-> "idle"]
  /\ addr = [r \in Req |-> None]
  /\ sends = MaxSends
  /\ inbox = [w \in Req |-> << >>]
  /\ pc = [w \in Req |-> "none"]
  /\ from = [w \in Req |-> None]
  /\ comm = [w \in Req |-> None]
  /\ retry = [w \in Req |-> FALSE]
  /\ table = [w \in Req |-> [c \in Client |-> None]]
  /\ mtx = [w \in Req |-> "free"]
  /\ cb = [w \in Req |-> "off"]
  /\ closing = [w \in Req |-> 0]
  /\ stream = [s \in Stream |-> "new"]
  /\ owner = [s \in Stream |-> <<None, None>>]
  /\ rev = [s \in Stream |-> "off"]

----------------------------------------------------------------------------
(* requestHandler and openUDPProxy.                                        *)

\* The look-up in serv2Fwd.
LookUpFwd(r) ==
  /\ http[r] = "idle"
  /\ \/ /\ fwd = None
        /\ http' = [http EXCEPT ![r] = "listen"]
        /\ UNCHANGED addr
     \/ /\ fwd # None
        /\ http' = [http EXCEPT ![r] = "done"]
        /\ addr' = [addr EXCEPT ![r] = fwd]
  /\ UNCHANGED <<running, fwd, sends, inbox, worker, mtx, cb, closing, stream, owner, rev>>

\* Open a socket, enter it in serv2Fwd, start the worker.
OpenUDPProxy(r) ==
  /\ http[r] = "listen"
  /\ fwd' = r
  /\ pc' = [pc EXCEPT ![r] = "read"]
  /\ addr' = [addr EXCEPT ![r] = r]
  /\ http' = [http EXCEPT ![r] = "done"]
  /\ UNCHANGED <<running, sends, inbox, from, comm, retry, table, mtx, cb, closing, stream, owner, rev>>

ListenFails(r) ==
  /\ http[r] = "listen"
  /\ http' = [http EXCEPT ![r] = "error"]
  /\ UNCHANGED <<running, fwd, addr, sends, inbox, worker, mtx, cb, closing, stream, owner, rev>>

\* A client sends a datagram to an address it was given; a full buffer or a
\* closed socket loses it.
ClientSends(c, r) ==
  /\ sends > 0
  /\ addr[r] # None
  /\ pc[addr[r]] # "dead"
  /\ Len(inbox[addr[r]]) < MaxInbox
  /\ sends' = sends - 1
  /\ inbox' = [inbox EXCEPT ![addr[r]] = Append(@, c)]
  /\ UNCHANGED <<running, fwd, http, addr, worker, mtx, cb, closing, stream, owner, rev>>

----------------------------------------------------------------------------
(* udpServiceProxy.                                                        *)

\* The worker returns: the socket is closed.
Return(w) ==
  /\ pc' = [pc EXCEPT ![w] = "dead"]
  /\ inbox' = [inbox EXCEPT ![w] = << >>]
  /\ UNCHANGED <<from, comm, retry, table>>

\* The next datagram; writeRetry is reset, which nothing reads before then.
ReadFrom(w) ==
  /\ pc[w] = "read"
  /\ inbox[w] # << >>
  /\ from' = [from EXCEPT ![w] = Head(inbox[w])]
  /\ inbox' = [inbox EXCEPT ![w] = Tail(@)]
  /\ retry' = [retry EXCEPT ![w] = FALSE]
  /\ pc' = [pc EXCEPT ![w] = "lock"]
  /\ UNCHANGED <<running, fwd, http, addr, sends, comm, table, mtx, cb, closing, stream, owner, rev>>

ReadFails(w) ==
  /\ pc[w] = "read"
  /\ Return(w)
  /\ UNCHANGED <<running, fwd, http, addr, sends, mtx, cb, closing, stream, owner, rev>>

\* Fault: the stream found is assigned to a variable that shadows dstComm.
FoundShadowed(w) == IF comm[w] = None THEN table[w][from[w]] ELSE comm[w]

Found(w) == table[w][from[w]]

\* Lock mapMtx and look the client up.  If it is known, unlock at once.
LookUpClient(w) ==
  /\ pc[w] = "lock"
  /\ mtx[w] = "free"
  /\ \/ /\ table[w][from[w]] # None
        /\ comm' = [comm EXCEPT ![w] = Found(w)]
        /\ pc' = [pc EXCEPT ![w] = "send"]
        /\ UNCHANGED mtx
     \/ /\ table[w][from[w]] = None
        /\ mtx' = [mtx EXCEPT ![w] = "worker"]
        /\ pc' = [pc EXCEPT ![w] = "setup"]
        /\ UNCHANGED comm
  /\ UNCHANGED <<running, fwd, http, addr, sends, inbox, from, retry, table, cb, closing, stream, owner, rev>>

\* setupChain returns stream s.
NewStream(w, s) ==
  /\ stream[s] = "new"
  /\ \A t \in Stream : t < s => stream[t] # "new"
  /\ stream' = [stream EXCEPT ![s] = "open"]
  /\ owner' = [owner EXCEPT ![s] = <<w, from[w]>>]
  /\ comm' = [comm EXCEPT ![w] = s]

\* Fault: no goroutine is started for the way back.
NoReverse(s) == rev

\* go udpFwdStream2Conn(rConn, lConn, from)
StartReverse(s) == [rev EXCEPT ![s] = "on"]

\* With mapMtx held: set up a chain for a new client, then unlock.
SetupNew(w) ==
  /\ pc[w] = "setup"
  /\ \E s \in Stream :
       /\ NewStream(w, s)
       /\ table' = [table EXCEPT ![w][from[w]] = s]
       /\ rev' = StartReverse(s)
  /\ mtx' = [mtx EXCEPT ![w] = "free"]
  /\ pc' = [pc EXCEPT ![w] = "send"]
  /\ UNCHANGED <<running, fwd, http, addr, sends, inbox, from, retry, cb, closing>>

\* sendData succeeds.
SendData(w) ==
  /\ pc[w] = "send"
  /\ stream[comm[w]] = "open"
  /\ pc' = [pc EXCEPT ![w] = "read"]
  /\ UNCHANGED <<running, fwd, http, addr, sends, inbox, from, comm, retry, table, mtx, cb, closing, stream, owner, rev>>

\* sendData fails, for the first time: reset the stream and set up another.
SendFails(w) ==
  /\ pc[w] = "send"
  /\ stream' = [stream EXCEPT ![comm[w]] = "closed"]
  /\ ~ retry[w]
  /\ pc' = [pc EXCEPT ![w] = "resetup"]
  /\ UNCHANGED <<running, fwd, http, addr, sends, inbox, from, comm, retry, table, mtx, cb, closing, owner, rev>>

(***************************************************************************)
(* sendData fails again: forget the client.  The entry is deleted without  *)
(* mapMtx; if the callback ranges over the map meanwhile, the Go runtime   *)
(* may notice and abort the process.                                       *)
(***************************************************************************)
GiveUpClient(w) ==
  /\ pc[w] = "send"
  /\ retry[w]
  /\ stream' = [stream EXCEPT ![comm[w]] = "closed"]
  /\ table' = [table EXCEPT ![w][from[w]] = None]
  /\ pc' = [pc EXCEPT ![w] = "read"]
  /\ \/ UNCHANGED running
     \/ mtx[w] = "callback" /\ running' = FALSE
  /\ UNCHANGED <<fwd, http, addr, sends, inbox, from, comm, retry, mtx, cb, closing, owner, rev>>

\* Set up a chain to try again with; mapMtx is not held.
SetupAgain(w) ==
  /\ pc[w] = "resetup"
  /\ \E s \in Stream : NewStream(w, s)
  /\ pc' = [pc EXCEPT ![w] = "relock"]
  /\ UNCHANGED <<running, fwd, http, addr, sends, inbox, from, retry, table, mtx, cb, closing, rev>>

\* Fault: mapMtx is not unlocked before the second attempt.
RelockHeld(w) == [mtx EXCEPT ![w] = "worker"]

AfterReplace(w) == mtx

\* Lock mapMtx, enter the new stream, unlock.
ReplaceStream(w) ==
  /\ pc[w] = "relock"
  /\ mtx[w] = "free"
  /\ table' = [table EXCEPT ![w][from[w]] = comm[w]]
  /\ rev' = StartReverse(comm[w])
  /\ retry' = [retry EXCEPT ![w] = TRUE]
  /\ pc' = [pc EXCEPT ![w] = "send"]
  /\ mtx' = AfterReplace(w)
  /\ UNCHANGED <<running, fwd, http, addr, sends, inbox, from, comm, cb, closing, stream, owner>>

\* Either setupChain returns an error: so does the worker, with mapMtx still
\* locked if it was.
SetupFails(w) ==
  /\ pc[w] \in {"setup", "resetup"}
  /\ Return(w)
  /\ UNCHANGED <<running, fwd, http, addr, sends, mtx, cb, closing, stream, owner, rev>>

\* Either setupChain waits forever for an ACK (see ChainSetup).
SetupHangs(w) ==
  /\ pc[w] \in {"setup", "resetup"}
  /\ pc' = [pc EXCEPT ![w] = "hung"]
  /\ UNCHANGED <<running, fwd, http, addr, sends, inbox, from, comm, retry, table, mtx, cb, closing, stream, owner, rev>>

----------------------------------------------------------------------------
(* The ClosedStream callback.                                              *)

\* A stream whose closing the network reports: one of a worker's, or one of a
\* UDP chain that passes through this proxy (0).
Protocol(s) == IF s = 0 THEN "udpTunnel" ELSE "chainSetup"

Closed(s) == IF s = 0 THEN TRUE ELSE stream[s] = "closed"

\* The callback returns at once unless the protocol is that of UDP tunnels.
CallbackStarts(w, s) ==
  /\ pc[w] # "none"
  /\ cb[w] = "off"
  /\ Closed(s)
  /\ Protocol(s) = "udpTunnel"
  /\ cb' = [cb EXCEPT ![w] = "lock"]
  /\ closing' = [closing EXCEPT ![w] = s]
  /\ UNCHANGED <<running, fwd, http, addr, sends, inbox, worker, mtx, stream, owner, rev>>

CallbackLocks(w) ==
  /\ cb[w] = "lock"
  /\ mtx[w] = "free"
  /\ mtx' = [mtx EXCEPT ![w] = "callback"]
  /\ cb' = [cb EXCEPT ![w] = "scan"]
  /\ UNCHANGED <<running, fwd, http, addr, sends, inbox, worker, closing, stream, owner, rev>>

\* Fault: the callback returns without unlocking mapMtx.
ScanKeepsLock(w) == mtx

AfterScan(w) == [mtx EXCEPT ![w] = "free"]

\* Remove the entry with the closed stream, unlock, return.
CallbackScans(w) ==
  /\ cb[w] = "scan"
  /\ table' = [table EXCEPT ![w] =
                 [c \in Client |-> IF @[c] = closing[w] THEN None ELSE @[c]]]
  /\ mtx' = AfterScan(w)
  /\ cb' = [cb EXCEPT ![w] = "off"]
  /\ UNCHANGED <<running, fwd, http, addr, sends, inbox, pc, from, comm, retry, closing, stream, owner, rev>>

----------------------------------------------------------------------------
(* Streams and udpFwdStream2Conn.                                          *)

\* The other end, the connection monitor or the network ends a stream.
StreamCloses(s) ==
  /\ stream[s] = "open"
  /\ stream' = [stream EXCEPT ![s] = "closed"]
  /\ UNCHANGED <<running, fwd, http, addr, sends, inbox, worker, mtx, cb, closing, owner, rev>>

\* Data for the client: it is written to the worker's socket, and when that is
\* closed the goroutine ends and resets the stream.
ReverseWriteFails(s) ==
  /\ rev[s] = "on"
  /\ stream[s] = "open"
  /\ pc[owner[s][1]] = "dead"
  /\ stream' = [stream EXCEPT ![s] = "closed"]
  /\ rev' = [rev EXCEPT ![s] = "ended"]
  /\ UNCHANGED <<running, fwd, http, addr, sends, inbox, worker, mtx, cb, closing, owner>>

\* receiveData fails on a closed stream.
ReverseEnds(s) ==
  /\ rev[s] = "on"
  /\ stream[s] = "closed"
  /\ rev' = [rev EXCEPT ![s] = "ended"]
  /\ UNCHANGED <<running, fwd, http, addr, sends, inbox, worker, mtx, cb, closing, stream, owner>>

----------------------------------------------------------------------------
WorkerStep(w) ==
  \/ ReadFrom(w)
  \/ LookUpClient(w) \/ SetupNew(w)
  \/ SendData(w) \/ SendFails(w) \/ GiveUpClient(w)
  \/ SetupAgain(w) \/ ReplaceStream(w)
  \/ SetupFails(w) \/ SetupHangs(w)

CallbackStep(w) == CallbackLocks(w) \/ CallbackScans(w)

Next ==
  /\ running
  /\ \/ \E r \in Req : LookUpFwd(r) \/ OpenUDPProxy(r) \/ ListenFails(r)
     \/ \E c \in Client, r \in Req : ClientSends(c, r)
     \/ \E w \in Req :
          \/ WorkerStep(w) \/ ReadFails(w)
          \/ CallbackStep(w) \/ \E s \in {0} \cup Stream : CallbackStarts(w, s)
     \/ \E s \in Stream : StreamCloses(s) \/ ReverseWriteFails(s) \/ ReverseEnds(s)

Spec == Init /\ [][Next]_vars

----------------------------------------------------------------------------
(* Properties.                                                             *)

\* The variables have their types, and mapMtx is the callback's just while it
\* ranges over the map.
TypeOK ==
  /\ running \in BOOLEAN
  /\ fwd \in Req \cup {None}
  /\ http \in [Req -> {"idle", "listen", "done", "error"}]
  /\ addr \in [Req -> Req \cup {None}]
  /\ sends \in 0 .. MaxSends
  /\ inbox \in [Req -> Seq(Client)]
  /\ pc \in [Req -> {"none", "read", "lock", "setup", "send", "resetup",
                     "relock", "dead", "hung"}]
  /\ from \in [Req -> Client \cup {None}]
  /\ comm \in [Req -> Stream \cup {None}]
  /\ retry \in [Req -> BOOLEAN]
  /\ table \in [Req -> [Client -> Stream \cup {None}]]
  /\ mtx \in [Req -> {"free", "worker", "callback"}]
  /\ cb \in [Req -> {"off", "lock", "scan"}]
  /\ closing \in [Req -> {0} \cup Stream]
  /\ stream \in [Stream -> {"new", "open", "closed"}]
  /\ owner \in [Stream -> (Req \cup {None}) \X (Client \cup {None})]
  /\ rev \in [Stream -> {"off", "on", "ended"}]
  /\ \A w \in Req : mtx[w] = "callback" <=> cb[w] = "scan"

\* Clients are kept apart although one worker, one buffer and one dstComm
\* serve them all: a datagram is written to a chain that was set up for the
\* client it came from and whose way back leads to that client, through
\* retries and chains that were replaced.
ClientsApart ==
  \A w \in Req :
    /\ pc[w] = "send" => owner[comm[w]] = <<w, from[w]>>
    /\ \A c \in Client : table[w][c] # None => owner[table[w][c]] = <<w, c>>

\* No chain is leaked while its worker lives: an open stream is the one entry
\* of its client, or just about to become it, so that a client has never two.
\* Its way back is served.
OpenChainsInUse ==
  \A s \in Stream :
    stream[s] = "open" /\ pc[owner[s][1]] # "dead" =>
      LET w == owner[s][1] IN
      IF pc[w] = "relock" /\ comm[w] = s
      THEN from[w] = owner[s][2]
      ELSE table[w][owner[s][2]] = s /\ rev[s] = "on"

\* Nobody waits for mapMtx for ever on account of the worker, which locks it
\* at two places and leaves its loop in four ways, unless setupChain failed or
\* hangs for a new client: in every other state it has unlocked it, so that
\* neither it nor the callback, which the network calls, can be stuck.
MutexReleased ==
  \A w \in Req : mtx[w] = "worker" => pc[w] \in {"setup", "dead", "hung"}

\* "Client can then connect to the proxy via the newly opened port": no HTTP
\* response carries the address of a socket that is closed already.
AddressIsServed ==
  [][\A r \in Req : http[r] # "done" /\ http'[r] = "done" =>
       pc'[addr'[r]] # "dead"]_vars
=============================================================================
