--------------------------- MODULE UdpProxyProofs ---------------------------
(***************************************************************************)
(* Proofs, for any number of HTTP requests, clients and streams, of the    *)
(* safety properties of UdpProxy: udpServiceProxy keeps its clients apart, *)
(* leaks no chain while it lives, and gives mapMtx back.                   *)
(*                                                                         *)
(* The worker's variables and the table must agree at every line of its    *)
(* loop (Stage): a worker that is about to write holds its client's entry, *)
(* one that sets up a chain for a new client holds mapMtx and there is no  *)
(* entry, one that replaces a chain has reset the old one.  Every stream   *)
(* in the table has been set up for the client it stands for (Entries).    *)
(***************************************************************************)
EXTENDS UdpProxy, TLAPS

\* A request that has not opened its socket has no worker.
Unopened == \A r \in Req : http[r] # "done" => pc[r] = "none"

Owned == \A s \in Stream : stream[s] # "new" => owner[s] \in Req \X Client

Entries ==
  \A w \in Req : \A c \in Client : table[w][c] # None =>
    /\ stream[table[w][c]] # "new"
    /\ owner[table[w][c]] = <<w, c>>

Stage(w) ==
  /\ closing[w] = 0
  /\ pc[w] \in {"lock", "setup", "send", "resetup", "relock"} => from[w] \in Client
  /\ pc[w] = "setup" => table[w][from[w]] = None /\ mtx[w] = "worker"
  /\ pc[w] \in {"send", "resetup"} =>
       comm[w] # None /\ table[w][from[w]] = comm[w]
  /\ pc[w] = "resetup" => stream[comm[w]] = "closed"
  /\ pc[w] = "relock" =>
       /\ comm[w] # None /\ stream[comm[w]] # "new"
       /\ owner[comm[w]] = <<w, from[w]>>
       /\ table[w][from[w]] # None /\ stream[table[w][from[w]]] = "closed"

\* OpenChainsInUse, by owner.
InUse(s, w, c) ==
  stream[s] = "open" /\ owner[s] = <<w, c>> /\ pc[w] # "dead" =>
    \/ pc[w] = "relock" /\ comm[w] = s
    \/ table[w][c] = s /\ rev[s] = "on"

ChainsInUse ==
  \A s \in Stream : \A w \in Req : \A c \in Client : InUse(s, w, c)

IndInv ==
  /\ TypeOK
  /\ Unopened
  /\ Owned
  /\ Entries
  /\ \A w \in Req : Stage(w)
  /\ ChainsInUse
  /\ MutexReleased

USE UdpAssumption, NoneIsNoStream

LEMMA InitInd == Init => IndInv
<1> SUFFICES ASSUME Init PROVE IndInv
  OBVIOUS
<1>1. TypeOK
  <2>1. retry \in [Req -> BOOLEAN]
    BY Zenon DEF Init
  <2>2. MaxSends \in 0 .. MaxSends
    OBVIOUS
  <2>3. << >> \in Seq(Client)
    OBVIOUS
  <2> QED
    BY <2>1, <2>2, <2>3 DEF Init, TypeOK
<1>2. Unopened /\ Owned /\ Entries
  BY DEF Init, Unopened, Owned, Entries
<1>3. \A w \in Req : Stage(w)
  BY DEF Init, Stage
<1>4. ChainsInUse /\ MutexReleased
  BY DEF Init, ChainsInUse, InUse, MutexReleased
<1> QED
  BY <1>1, <1>2, <1>3, <1>4 DEF IndInv

----------------------------------------------------------------------------
(* HTTP requests and clients.                                              *)

\* A step that leaves workers and streams alone.
LEMMA WorkersStay ==
  ASSUME IndInv, TypeOK', Unopened',
         UNCHANGED <<pc, from, comm, table, mtx, closing, stream, owner, rev>>
  PROVE  IndInv'
<1>1. Owned' /\ Entries'
  BY DEF IndInv, Owned, Entries
<1>2. \A w \in Req : Stage(w)'
  BY DEF IndInv, Stage
<1>3. ChainsInUse'
  BY DEF IndInv, ChainsInUse, InUse
<1>4. MutexReleased'
  BY DEF IndInv, MutexReleased
<1> QED
  BY <1>1, <1>2, <1>3, <1>4 DEF IndInv

LEMMA LookUpFwdInd ==
  ASSUME IndInv, NEW r \in Req, LookUpFwd(r) \/ ListenFails(r)
  PROVE  IndInv'
<1>1. UNCHANGED <<running, fwd, sends, inbox, pc, from, comm, retry, table, mtx,
                  cb, closing, stream, owner, rev>>
  BY DEF LookUpFwd, ListenFails, worker
<1>2. PICK x \in {"listen", "done", "error"} : http' = [http EXCEPT ![r] = x]
  BY DEF LookUpFwd, ListenFails
<1>3. http[r] # "done"
  BY DEF LookUpFwd, ListenFails
<1>4. addr' \in [Req -> Req \cup {None}]
  BY DEF LookUpFwd, ListenFails, IndInv, TypeOK
<1>5. TypeOK'
  BY <1>1, <1>2, <1>4 DEF IndInv, TypeOK
<1>6. Unopened'
  BY <1>1, <1>2, <1>3 DEF IndInv, TypeOK, Unopened
<1> QED
  BY <1>1, <1>5, <1>6, WorkersStay

\* The worker starts with nothing of its own.
LEMMA OpenUDPProxyInd ==
  ASSUME IndInv, NEW r \in Req, OpenUDPProxy(r)
  PROVE  IndInv'
<1>1. /\ UNCHANGED <<running, sends, inbox, from, comm, retry, table, mtx, cb,
                     closing, stream, owner, rev>>
      /\ http' = [http EXCEPT ![r] = "done"] /\ fwd' = r
      /\ addr' = [addr EXCEPT ![r] = r]
      /\ pc[r] = "none" /\ pc' = [pc EXCEPT ![r] = "read"]
  BY DEF OpenUDPProxy, IndInv, TypeOK, Unopened
<1>2. TypeOK'
  BY <1>1 DEF IndInv, TypeOK
<1>3. Unopened'
  BY <1>1 DEF IndInv, TypeOK, Unopened
<1>4. \A w \in Req : Stage(w)'
  BY <1>1 DEF IndInv, TypeOK, Stage
<1>5. ChainsInUse'
  BY <1>1 DEF IndInv, TypeOK, ChainsInUse, InUse
<1>6. MutexReleased'
  BY <1>1 DEF IndInv, TypeOK, MutexReleased
<1> QED
  BY <1>1, <1>2, <1>3, <1>4, <1>5, <1>6 DEF IndInv, Owned, Entries

LEMMA ClientSendsInd ==
  ASSUME IndInv, NEW c \in Client, NEW r \in Req, ClientSends(c, r)
  PROVE  IndInv'
<1>1. /\ UNCHANGED <<running, fwd, http, addr, pc, from, comm, retry, table,
                     mtx, cb, closing, stream, owner, rev>>
      /\ sends > 0 /\ sends' = sends - 1
      /\ inbox' = [inbox EXCEPT ![addr[r]] = Append(@, c)]
  BY DEF ClientSends, worker
<1>2. inbox' \in [Req -> Seq(Client)]
  <2>1. addr[r] \in Req /\ inbox[addr[r]] \in Seq(Client)
    BY DEF ClientSends, IndInv, TypeOK
  <2>2. Append(inbox[addr[r]], c) \in Seq(Client)
    BY <2>1
  <2> QED
    BY <1>1, <2>1, <2>2 DEF IndInv, TypeOK
<1>3. sends' \in 0 .. MaxSends
  BY <1>1 DEF IndInv, TypeOK
<1>4. TypeOK'
  BY <1>1, <1>2, <1>3 DEF IndInv, TypeOK
<1>5. Unopened'
  BY <1>1 DEF IndInv, Unopened
<1> QED
  BY <1>1, <1>4, <1>5, WorkersStay

----------------------------------------------------------------------------
(* The worker.                                                             *)

LEMMA ReadFromInd ==
  ASSUME IndInv, NEW w \in Req, ReadFrom(w)
  PROVE  IndInv'
<1>1. /\ UNCHANGED <<running, fwd, http, addr, sends, comm, table, mtx, cb,
                     closing, stream, owner, rev>>
      /\ pc[w] = "read" /\ pc' = [pc EXCEPT ![w] = "lock"]
      /\ retry' = [retry EXCEPT ![w] = FALSE]
  BY DEF ReadFrom
<1>2. /\ from' = [from EXCEPT ![w] = Head(inbox[w])]
      /\ inbox' = [inbox EXCEPT ![w] = Tail(@)]
      /\ Head(inbox[w]) \in Client /\ Tail(inbox[w]) \in Seq(Client)
  BY DEF ReadFrom, IndInv, TypeOK
<1>3. retry' \in [Req -> BOOLEAN]
  BY <1>1, Zenon DEF IndInv, TypeOK
<1>4. TypeOK'
  BY <1>1, <1>2, <1>3 DEF IndInv, TypeOK
<1>5. Unopened'
  BY <1>1 DEF IndInv, TypeOK, Unopened
<1>6. \A v \in Req : Stage(v)'
  BY <1>1, <1>2 DEF IndInv, TypeOK, Stage
<1>7. ChainsInUse'
  BY <1>1, <1>2 DEF IndInv, TypeOK, ChainsInUse, InUse
<1>8. MutexReleased'
  BY <1>1 DEF IndInv, TypeOK, MutexReleased
<1> QED
  BY <1>1, <1>4, <1>5, <1>6, <1>7, <1>8 DEF IndInv, Owned, Entries

\* The worker returns: what it owned is not its business any more.
LEMMA ReturnInd ==
  ASSUME IndInv, NEW w \in Req, ReadFails(w) \/ SetupFails(w)
  PROVE  IndInv'
<1>1. /\ UNCHANGED <<running, fwd, http, addr, sends, from, comm, retry, table,
                     mtx, cb, closing, stream, owner, rev>>
      /\ pc[w] # "none" /\ pc' = [pc EXCEPT ![w] = "dead"]
      /\ inbox' = [inbox EXCEPT ![w] = << >>]
  BY DEF ReadFails, SetupFails, Return
<1>2. << >> \in Seq(Client)
  OBVIOUS
<1>3. TypeOK'
  BY <1>1, <1>2 DEF IndInv, TypeOK
<1>4. Unopened'
  BY <1>1 DEF IndInv, TypeOK, Unopened
<1>5. \A v \in Req : Stage(v)'
  BY <1>1 DEF IndInv, TypeOK, Stage
<1>6. ChainsInUse'
  BY <1>1 DEF IndInv, TypeOK, ChainsInUse, InUse
<1>7. MutexReleased'
  BY <1>1 DEF IndInv, TypeOK, MutexReleased
<1> QED
  BY <1>1, <1>3, <1>4, <1>5, <1>6, <1>7 DEF IndInv, Owned, Entries

\* The stream that is found is the client's; mapMtx is kept for a new client.
LEMMA LookUpClientInd ==
  ASSUME IndInv, NEW w \in Req, LookUpClient(w)
  PROVE  IndInv'
<1>1. /\ UNCHANGED <<running, fwd, http, addr, sends, inbox, from, retry, table,
                     cb, closing, stream, owner, rev>>
      /\ pc[w] = "lock" /\ mtx[w] = "free" /\ from[w] \in Client
  BY DEF LookUpClient, IndInv, Stage
<1>2. PICK s \in Stream \cup {None}, place \in {"send", "setup"},
           holder \in {"free", "worker"} :
        /\ comm' = [comm EXCEPT ![w] = s]
        /\ pc' = [pc EXCEPT ![w] = place]
        /\ mtx' = [mtx EXCEPT ![w] = holder]
        /\ place = "send" => s # None /\ table[w][from[w]] = s /\ holder = "free"
        /\ place = "setup" => table[w][from[w]] = None /\ holder = "worker"
  <2>1. CASE table[w][from[w]] # None
    <3>1. /\ comm' = [comm EXCEPT ![w] = table[w][from[w]]]
          /\ pc' = [pc EXCEPT ![w] = "send"] /\ mtx' = mtx
      BY <2>1 DEF LookUpClient, Found
    <3>2. mtx' = [mtx EXCEPT ![w] = "free"] /\ table[w][from[w]] \in Stream
      BY <1>1, <2>1, <3>1 DEF IndInv, TypeOK
    <3> QED
      BY <2>1, <3>1, <3>2
  <2>2. CASE table[w][from[w]] = None
    <3>1. /\ mtx' = [mtx EXCEPT ![w] = "worker"]
          /\ pc' = [pc EXCEPT ![w] = "setup"] /\ comm' = comm
      BY <2>2 DEF LookUpClient
    <3>2. comm' = [comm EXCEPT ![w] = comm[w]] /\ comm[w] \in Stream \cup {None}
      BY <3>1 DEF IndInv, TypeOK
    <3> QED
      BY <2>2, <3>1, <3>2
  <2> QED
    BY <2>1, <2>2
<1>3. cb[w] # "scan"
  BY <1>1 DEF IndInv, TypeOK
<1>4. TypeOK'
  BY <1>1, <1>2, <1>3 DEF IndInv, TypeOK
<1>5. Unopened'
  BY <1>1, <1>2 DEF IndInv, TypeOK, Unopened
<1>6. \A v \in Req : Stage(v)'
  BY <1>1, <1>2 DEF IndInv, TypeOK, Stage
<1>7. ChainsInUse'
  BY <1>1, <1>2 DEF IndInv, TypeOK, ChainsInUse, InUse
<1>8. MutexReleased'
  BY <1>1, <1>2 DEF IndInv, TypeOK, MutexReleased
<1> QED
  BY <1>1, <1>4, <1>5, <1>6, <1>7, <1>8 DEF IndInv, Owned, Entries

\* A new stream is in no table and no worker writes to it.
LEMMA NewIsUnused ==
  ASSUME IndInv, NEW s \in Stream, stream[s] = "new"
  PROVE  /\ \A v \in Req : \A c \in Client : table[v][c] # s
         /\ \A v \in Req : pc[v] \in {"send", "resetup", "relock"} => comm[v] # s
<1>1. \A v \in Req : \A c \in Client : table[v][c] # s
  BY DEF IndInv, TypeOK, Entries
<1> QED
  BY <1>1 DEF IndInv, TypeOK, Stage

LEMMA SetupNewInd ==
  ASSUME IndInv, NEW w \in Req, SetupNew(w)
  PROVE  IndInv'
<1>1. PICK s \in Stream :
        /\ stream[s] = "new"
        /\ stream' = [stream EXCEPT ![s] = "open"]
        /\ owner' = [owner EXCEPT ![s] = <<w, from[w]>>]
        /\ comm' = [comm EXCEPT ![w] = s]
        /\ table' = [table EXCEPT ![w][from[w]] = s]
        /\ rev' = [rev EXCEPT ![s] = "on"]
  BY DEF SetupNew, NewStream, StartReverse
<1>2. /\ UNCHANGED <<running, fwd, http, addr, sends, inbox, from, retry, cb,
                     closing>>
      /\ mtx' = [mtx EXCEPT ![w] = "free"]
      /\ pc' = [pc EXCEPT ![w] = "send"]
      /\ pc[w] = "setup" /\ from[w] \in Client
      /\ table[w][from[w]] = None /\ mtx[w] = "worker"
  BY DEF SetupNew, IndInv, Stage
<1>3. /\ \A v \in Req : \A c \in Client : table[v][c] # s
      /\ \A v \in Req : pc[v] \in {"send", "resetup", "relock"} => comm[v] # s
  BY <1>1, NewIsUnused
<1>4. /\ table' \in [Req -> [Client -> Stream \cup {None}]]
      /\ table'[w][from[w]] = s
      /\ \A v \in Req : \A c \in Client :
           v # w \/ c # from[w] => table'[v][c] = table[v][c]
  BY <1>1, <1>2 DEF IndInv, TypeOK
<1>5. TypeOK'
  BY <1>1, <1>2, <1>4 DEF IndInv, TypeOK
<1>6. Unopened'
  BY <1>2 DEF IndInv, TypeOK, Unopened
<1>7. Owned'
  BY <1>1, <1>2 DEF IndInv, TypeOK, Owned
<1>8. Entries'
  BY <1>1, <1>2, <1>3, <1>4 DEF IndInv, TypeOK, Entries
<1>9. ASSUME NEW v \in Req PROVE Stage(v)'
  <2>1. CASE v = w
    BY <1>1, <1>2, <1>4, <2>1 DEF IndInv, TypeOK, Stage
  <2>2. CASE v # w
    BY <1>1, <1>2, <1>3, <1>4, <2>2 DEF IndInv, TypeOK, Stage
  <2> QED
    BY <2>1, <2>2
<1>10. ASSUME NEW t \in Stream, NEW v \in Req, NEW c \in Client PROVE InUse(t, v, c)'
  <2>1. CASE t = s
    BY <1>1, <1>2, <1>4, <2>1 DEF IndInv, TypeOK, InUse
  <2>2. CASE t # s
    BY <1>1, <1>2, <1>4, <2>2 DEF IndInv, TypeOK, ChainsInUse, InUse
  <2> QED
    BY <2>1, <2>2
<1>11. MutexReleased'
  BY <1>2 DEF IndInv, TypeOK, MutexReleased
<1> QED
  BY <1>5, <1>6, <1>7, <1>8, <1>9, <1>10, <1>11 DEF IndInv, ChainsInUse

\* The worker goes on to a place where nothing is asked of it.
LEMMA GoesOnInd ==
  ASSUME IndInv, NEW w \in Req, SendData(w) \/ SetupHangs(w)
  PROVE  IndInv'
<1>1. /\ UNCHANGED <<running, fwd, http, addr, sends, inbox, from, comm, retry,
                     table, mtx, cb, closing, stream, owner, rev>>
      /\ pc[w] \in {"send", "setup", "resetup"}
  BY DEF SendData, SetupHangs
<1>2. PICK place \in {"read", "hung"} :
        /\ pc' = [pc EXCEPT ![w] = place]
        /\ place = "read" => pc[w] = "send"
  BY DEF SendData, SetupHangs
<1>3. TypeOK'
  BY <1>1, <1>2 DEF IndInv, TypeOK
<1>4. Unopened'
  BY <1>1, <1>2 DEF IndInv, TypeOK, Unopened
<1>5. \A v \in Req : Stage(v)'
  BY <1>1, <1>2 DEF IndInv, TypeOK, Stage
<1>6. ChainsInUse'
  BY <1>1, <1>2 DEF IndInv, TypeOK, ChainsInUse, InUse
<1>7. MutexReleased'
  BY <1>1, <1>2 DEF IndInv, TypeOK, MutexReleased
<1> QED
  BY <1>1, <1>3, <1>4, <1>5, <1>6, <1>7 DEF IndInv, Owned, Entries

LEMMA SendFailsInd ==
  ASSUME IndInv, NEW w \in Req, SendFails(w)
  PROVE  IndInv'
<1>1. /\ UNCHANGED <<running, fwd, http, addr, sends, inbox, from, comm, retry,
                     table, mtx, cb, closing, owner, rev>>
      /\ pc[w] = "send" /\ pc' = [pc EXCEPT ![w] = "resetup"]
      /\ stream' = [stream EXCEPT ![comm[w]] = "closed"]
      /\ comm[w] \in Stream /\ from[w] \in Client /\ table[w][from[w]] = comm[w]
      /\ stream[comm[w]] # "new"
  BY DEF SendFails, IndInv, TypeOK, Stage, Entries
<1>2. TypeOK'
  BY <1>1 DEF IndInv, TypeOK
<1>3. Unopened'
  BY <1>1 DEF IndInv, TypeOK, Unopened
<1>4. Owned'
  BY <1>1 DEF IndInv, TypeOK, Owned
<1>5. Entries'
  BY <1>1 DEF IndInv, TypeOK, Entries
<1>6. \A v \in Req : Stage(v)'
  BY <1>1 DEF IndInv, TypeOK, Stage
<1>7. ChainsInUse'
  BY <1>1 DEF IndInv, TypeOK, ChainsInUse, InUse
<1>8. MutexReleased'
  BY <1>1 DEF IndInv, TypeOK, MutexReleased
<1> QED
  BY <1>2, <1>3, <1>4, <1>5, <1>6, <1>7, <1>8 DEF IndInv

\* The stream whose entry is deleted is reset in the same breath.
LEMMA GiveUpClientInd ==
  ASSUME IndInv, NEW w \in Req, GiveUpClient(w)
  PROVE  IndInv'
<1>1. /\ UNCHANGED <<fwd, http, addr, sends, inbox, from, comm, retry, mtx, cb,
                     closing, owner, rev>>
      /\ pc[w] = "send" /\ pc' = [pc EXCEPT ![w] = "read"]
      /\ stream' = [stream EXCEPT ![comm[w]] = "closed"]
      /\ table' = [table EXCEPT ![w][from[w]] = None]
      /\ comm[w] \in Stream /\ from[w] \in Client /\ table[w][from[w]] = comm[w]
      /\ stream[comm[w]] # "new"
  BY DEF GiveUpClient, IndInv, TypeOK, Stage, Entries
<1>2. /\ table' \in [Req -> [Client -> Stream \cup {None}]]
      /\ table'[w][from[w]] = None
      /\ \A v \in Req : \A c \in Client :
           v # w \/ c # from[w] => table'[v][c] = table[v][c]
  BY <1>1 DEF IndInv, TypeOK
<1>3. TypeOK'
  <2>1. running' \in BOOLEAN
    BY DEF GiveUpClient, IndInv, TypeOK
  <2> QED
    BY <1>1, <1>2, <2>1 DEF IndInv, TypeOK
<1>4. Unopened'
  BY <1>1 DEF IndInv, TypeOK, Unopened
<1>5. Owned'
  BY <1>1 DEF IndInv, TypeOK, Owned
<1>6. Entries'
  BY <1>1, <1>2 DEF IndInv, TypeOK, Entries
<1>7. ASSUME NEW v \in Req PROVE Stage(v)'
  <2>1. CASE v = w
    BY <1>1, <2>1 DEF IndInv, TypeOK, Stage
  <2>2. CASE v # w
    BY <1>1, <1>2, <2>2 DEF IndInv, TypeOK, Stage
  <2> QED
    BY <2>1, <2>2
<1>8. ASSUME NEW t \in Stream, NEW v \in Req, NEW c \in Client PROVE InUse(t, v, c)'
  <2>1. CASE t = comm[w]
    BY <1>1, <2>1 DEF IndInv, TypeOK, InUse
  <2>2. CASE t # comm[w]
    BY <1>1, <1>2, <2>2 DEF IndInv, TypeOK, ChainsInUse, InUse
  <2> QED
    BY <2>1, <2>2
<1>9. MutexReleased'
  BY <1>1 DEF IndInv, TypeOK, MutexReleased
<1> QED
  BY <1>3, <1>4, <1>5, <1>6, <1>7, <1>8, <1>9 DEF IndInv, ChainsInUse

LEMMA SetupAgainInd ==
  ASSUME IndInv, NEW w \in Req, SetupAgain(w)
  PROVE  IndInv'
<1>1. PICK s \in Stream :
        /\ stream[s] = "new"
        /\ stream' = [stream EXCEPT ![s] = "open"]
        /\ owner' = [owner EXCEPT ![s] = <<w, from[w]>>]
        /\ comm' = [comm EXCEPT ![w] = s]
  BY DEF SetupAgain, NewStream
<1>2. /\ UNCHANGED <<running, fwd, http, addr, sends, inbox, from, retry, table,
                     mtx, cb, closing, rev>>
      /\ pc[w] = "resetup" /\ pc' = [pc EXCEPT ![w] = "relock"]
      /\ from[w] \in Client /\ comm[w] \in Stream
      /\ table[w][from[w]] = comm[w] /\ stream[comm[w]] = "closed"
  BY DEF SetupAgain, IndInv, TypeOK, Stage
<1>3. /\ \A v \in Req : \A c \in Client : table[v][c] # s
      /\ \A v \in Req : pc[v] \in {"send", "resetup", "relock"} => comm[v] # s
  BY <1>1, NewIsUnused
<1>4. TypeOK'
  BY <1>1, <1>2 DEF IndInv, TypeOK
<1>5. Unopened'
  BY <1>2 DEF IndInv, TypeOK, Unopened
<1>6. Owned'
  BY <1>1, <1>2 DEF IndInv, TypeOK, Owned
<1>7. Entries'
  BY <1>1, <1>2, <1>3 DEF IndInv, TypeOK, Entries
<1>8. ASSUME NEW v \in Req PROVE Stage(v)'
  <2>1. CASE v = w
    BY <1>1, <1>2, <1>3, <2>1 DEF IndInv, TypeOK, Stage
  <2>2. CASE v # w
    BY <1>1, <1>2, <1>3, <2>2 DEF IndInv, TypeOK, Stage
  <2> QED
    BY <2>1, <2>2
<1>9. ASSUME NEW t \in Stream, NEW v \in Req, NEW c \in Client PROVE InUse(t, v, c)'
  <2>1. CASE t = s
    BY <1>1, <1>2, <2>1 DEF IndInv, TypeOK, InUse
  <2>2. CASE t # s
    BY <1>1, <1>2, <2>2 DEF IndInv, TypeOK, ChainsInUse, InUse
  <2> QED
    BY <2>1, <2>2
<1>10. MutexReleased'
  BY <1>2 DEF IndInv, TypeOK, MutexReleased
<1> QED
  BY <1>4, <1>5, <1>6, <1>7, <1>8, <1>9, <1>10 DEF IndInv, ChainsInUse

\* The entry that is overwritten is that of the stream that was reset.
LEMMA ReplaceStreamInd ==
  ASSUME IndInv, NEW w \in Req, ReplaceStream(w)
  PROVE  IndInv'
<1>1. /\ UNCHANGED <<running, fwd, http, addr, sends, inbox, from, comm, cb,
                     closing, stream, owner, mtx>>
      /\ pc[w] = "relock" /\ pc' = [pc EXCEPT ![w] = "send"]
      /\ table' = [table EXCEPT ![w][from[w]] = comm[w]]
      /\ rev' = [rev EXCEPT ![comm[w]] = "on"]
      /\ mtx[w] = "free"
  BY DEF ReplaceStream, AfterReplace, StartReverse
<1>2. /\ from[w] \in Client /\ comm[w] \in Stream /\ stream[comm[w]] # "new"
      /\ owner[comm[w]] = <<w, from[w]>>
      /\ table[w][from[w]] \in Stream /\ stream[table[w][from[w]]] = "closed"
  BY <1>1 DEF IndInv, TypeOK, Stage
<1>3. /\ table' \in [Req -> [Client -> Stream \cup {None}]]
      /\ table'[w][from[w]] = comm[w]
      /\ \A v \in Req : \A c \in Client :
           v # w \/ c # from[w] => table'[v][c] = table[v][c]
  BY <1>1, <1>2 DEF IndInv, TypeOK
<1>4. retry' \in [Req -> BOOLEAN]
  BY Zenon DEF ReplaceStream, IndInv, TypeOK
<1>5. TypeOK'
  BY <1>1, <1>2, <1>3, <1>4 DEF IndInv, TypeOK
<1>6. Unopened' /\ Owned'
  BY <1>1 DEF IndInv, TypeOK, Unopened, Owned
<1>7. Entries'
  BY <1>1, <1>2, <1>3 DEF IndInv, TypeOK, Entries
<1>8. ASSUME NEW v \in Req PROVE Stage(v)'
  <2>1. CASE v = w
    BY <1>1, <1>2, <1>3, <2>1 DEF IndInv, TypeOK, Stage
  <2>2. CASE v # w
    BY <1>1, <1>3, <2>2 DEF IndInv, TypeOK, Stage
  <2> QED
    BY <2>1, <2>2
<1>9. ASSUME NEW t \in Stream, NEW v \in Req, NEW c \in Client PROVE InUse(t, v, c)'
  <2>1. CASE t = comm[w]
    BY <1>1, <1>2, <1>3, <2>1 DEF IndInv, TypeOK, InUse
  <2>2. CASE t # comm[w]
    BY <1>1, <1>2, <1>3, <2>2 DEF IndInv, TypeOK, ChainsInUse, InUse
  <2> QED
    BY <2>1, <2>2
<1>10. MutexReleased'
  BY <1>1 DEF IndInv, TypeOK, MutexReleased
<1> QED
  BY <1>5, <1>6, <1>7, <1>8, <1>9, <1>10 DEF IndInv, ChainsInUse

----------------------------------------------------------------------------
(* The callback, and the streams.                                          *)

\* The callback gets past its check of the protocol only for streams that are
\* not the worker's.
LEMMA CallbackStartsInd ==
  ASSUME IndInv, NEW w \in Req, NEW s \in {0} \cup Stream, CallbackStarts(w, s)
  PROVE  IndInv'
<1>1. /\ UNCHANGED <<running, fwd, http, addr, sends, inbox, pc, from, comm, retry,
                     table, mtx, stream, owner, rev>>
      /\ cb[w] = "off" /\ cb' = [cb EXCEPT ![w] = "lock"]
      /\ closing' = [closing EXCEPT ![w] = 0]
      /\ closing[w] = 0
  BY DEF CallbackStarts, Protocol, worker, IndInv, Stage
<1>2. closing' = closing
  BY <1>1 DEF IndInv, TypeOK
<1>3. TypeOK'
  BY <1>1, <1>2 DEF IndInv, TypeOK
<1>4. Unopened'
  BY <1>1 DEF IndInv, Unopened
<1> QED
  BY <1>1, <1>2, <1>3, <1>4, WorkersStay

LEMMA CallbackLocksInd ==
  ASSUME IndInv, NEW w \in Req, CallbackLocks(w)
  PROVE  IndInv'
<1>1. /\ UNCHANGED <<running, fwd, http, addr, sends, inbox, pc, from, comm, retry,
                     table, closing, stream, owner, rev>>
      /\ mtx[w] = "free" /\ mtx' = [mtx EXCEPT ![w] = "callback"]
      /\ cb' = [cb EXCEPT ![w] = "scan"]
  BY DEF CallbackLocks, worker
<1>2. TypeOK'
  BY <1>1 DEF IndInv, TypeOK
<1>3. Unopened' /\ Owned' /\ Entries'
  BY <1>1 DEF IndInv, Unopened, Owned, Entries
<1>4. \A v \in Req : Stage(v)'
  BY <1>1 DEF IndInv, TypeOK, Stage
<1>5. ChainsInUse'
  BY <1>1 DEF IndInv, ChainsInUse, InUse
<1>6. MutexReleased'
  BY <1>1 DEF IndInv, TypeOK, MutexReleased
<1> QED
  BY <1>2, <1>3, <1>4, <1>5, <1>6 DEF IndInv

LEMMA CallbackScansInd ==
  ASSUME IndInv, NEW w \in Req, CallbackScans(w)
  PROVE  IndInv'
<1>1. /\ UNCHANGED <<running, fwd, http, addr, sends, inbox, pc, from, comm, retry,
                     closing, stream, owner, rev>>
      /\ mtx' = [mtx EXCEPT ![w] = "free"] /\ cb' = [cb EXCEPT ![w] = "off"]
      /\ mtx[w] = "callback" /\ closing[w] = 0
  BY DEF CallbackScans, AfterScan, IndInv, TypeOK, Stage
<1>2. table' = table
  <2>1. \A c \in Client : table[w][c] \in Stream \cup {None}
    BY DEF IndInv, TypeOK
  <2>2. 0 \notin Stream
    BY DEF Stream
  <2>3. \A c \in Client : (IF table[w][c] = 0 THEN None ELSE table[w][c]) = table[w][c]
    BY <2>1, <2>2
  <2>4. [c \in Client |-> IF table[w][c] = 0 THEN None ELSE table[w][c]] = table[w]
    BY <2>3 DEF IndInv, TypeOK
  <2> QED
    BY <1>1, <2>4 DEF CallbackScans, IndInv, TypeOK
<1>3. TypeOK'
  BY <1>1, <1>2 DEF IndInv, TypeOK
<1>4. Unopened' /\ Owned' /\ Entries'
  BY <1>1, <1>2 DEF IndInv, Unopened, Owned, Entries
<1>5. \A v \in Req : Stage(v)'
  BY <1>1, <1>2 DEF IndInv, TypeOK, Stage
<1>6. ChainsInUse'
  BY <1>1, <1>2 DEF IndInv, ChainsInUse, InUse
<1>7. MutexReleased'
  BY <1>1 DEF IndInv, TypeOK, MutexReleased
<1> QED
  BY <1>3, <1>4, <1>5, <1>6, <1>7 DEF IndInv

LEMMA StreamStepInd ==
  ASSUME IndInv, NEW s \in Stream,
         StreamCloses(s) \/ ReverseWriteFails(s) \/ ReverseEnds(s)
  PROVE  IndInv'
<1>1. /\ UNCHANGED <<running, fwd, http, addr, sends, inbox, pc, from, comm, retry,
                     table, mtx, cb, closing, owner>>
      /\ stream[s] # "new"
  BY DEF StreamCloses, ReverseWriteFails, ReverseEnds, worker
<1>2. stream' = [stream EXCEPT ![s] = "closed"]
  BY DEF StreamCloses, ReverseWriteFails, ReverseEnds, IndInv, TypeOK
<1>3. PICK x \in {"off", "on", "ended"} : rev' = [rev EXCEPT ![s] = x]
  <2>1. rev = [rev EXCEPT ![s] = rev[s]] /\ rev[s] \in {"off", "on", "ended"}
    BY DEF IndInv, TypeOK
  <2> QED
    BY <2>1 DEF StreamCloses, ReverseWriteFails, ReverseEnds
<1>4. TypeOK'
  BY <1>1, <1>2, <1>3 DEF IndInv, TypeOK
<1>5. Unopened' /\ Owned'
  BY <1>1, <1>2 DEF IndInv, TypeOK, Unopened, Owned
<1>6. Entries'
  BY <1>1, <1>2 DEF IndInv, TypeOK, Entries
<1>7. \A v \in Req : Stage(v)'
  BY <1>1, <1>2 DEF IndInv, TypeOK, Stage
<1>8. ChainsInUse'
  BY <1>1, <1>2, <1>3 DEF IndInv, TypeOK, ChainsInUse, InUse
<1>9. MutexReleased'
  BY <1>1 DEF IndInv, MutexReleased
<1> QED
  BY <1>4, <1>5, <1>6, <1>7, <1>8, <1>9 DEF IndInv

----------------------------------------------------------------------------
LEMMA NextInd == IndInv /\ [Next]_vars => IndInv'
<1> SUFFICES ASSUME IndInv, [Next]_vars PROVE IndInv'
  OBVIOUS
<1>1. CASE UNCHANGED vars
  <2>1. TypeOK' /\ Unopened'
    BY <1>1 DEF vars, worker, IndInv, TypeOK, Unopened
  <2> QED
    BY <1>1, <2>1, WorkersStay DEF vars, worker
<1>2. ASSUME NEW r \in Req, LookUpFwd(r) \/ OpenUDPProxy(r) \/ ListenFails(r)
      PROVE  IndInv'
  BY <1>2, LookUpFwdInd, OpenUDPProxyInd
<1>3. ASSUME NEW c \in Client, NEW r \in Req, ClientSends(c, r) PROVE IndInv'
  BY <1>3, ClientSendsInd
<1>4. ASSUME NEW w \in Req, WorkerStep(w) \/ ReadFails(w) PROVE IndInv'
  BY <1>4, ReadFromInd, LookUpClientInd, SetupNewInd, GoesOnInd, SendFailsInd,
     GiveUpClientInd, SetupAgainInd, ReplaceStreamInd, ReturnInd DEF WorkerStep
<1>5. ASSUME NEW w \in Req, CallbackStep(w) PROVE IndInv'
  BY <1>5, CallbackLocksInd, CallbackScansInd DEF CallbackStep
<1>6. ASSUME NEW w \in Req, NEW s \in {0} \cup Stream, CallbackStarts(w, s)
      PROVE  IndInv'
  BY <1>6, CallbackStartsInd
<1>7. ASSUME NEW s \in Stream,
             StreamCloses(s) \/ ReverseWriteFails(s) \/ ReverseEnds(s)
      PROVE  IndInv'
  BY <1>7, StreamStepInd
<1> QED
  BY <1>1, <1>2, <1>3, <1>4, <1>5, <1>6, <1>7 DEF Next

LEMMA Invariance == Spec => []IndInv
BY InitInd, NextInd, PTL DEF Spec

----------------------------------------------------------------------------
(* What udpServiceProxy promises.                                          *)

\* In every state of the HTTP requests, the workers and the callbacks the
\* variables have their types, and mapMtx is the callback's just while it
\* ranges over the map.
THEOREM UdpTypeCorrect == Spec => []TypeOK
BY Invariance, PTL DEF IndInv

\* udpServiceProxy writes a client's datagrams to chains that were set up for
\* that client and that worker, whatever the retries, resets and callbacks.
THEOREM ClientsKeptApart == Spec => []ClientsApart
<1>1. IndInv => ClientsApart
  BY DEF IndInv, TypeOK, ClientsApart, Entries, Stage
<1> QED
  BY <1>1, Invariance, PTL

\* udpServiceProxy leaks no chain while it lives: each open stream is its
\* client's entry with its way back served, or about to become the entry.
THEOREM NoChainLeaked == Spec => []OpenChainsInUse
<1>1. ASSUME IndInv, NEW s \in Stream, stream[s] = "open", pc[owner[s][1]] # "dead"
      PROVE  LET w == owner[s][1] IN
             IF pc[w] = "relock" /\ comm[w] = s
             THEN from[w] = owner[s][2]
             ELSE table[w][owner[s][2]] = s /\ rev[s] = "on"
  <2>1. PICK w \in Req, c \in Client : owner[s] = <<w, c>>
    BY <1>1 DEF IndInv, Owned
  <2>2. InUse(s, w, c)
    BY <1>1 DEF IndInv, ChainsInUse
  <2>3. owner[s][1] = w /\ owner[s][2] = c
    BY <2>1
  <2>4. pc[w] = "relock" /\ comm[w] = s => from[w] = c
    BY <1>1, <2>1 DEF IndInv, Stage
  <2> QED
    BY <1>1, <2>1, <2>2, <2>3, <2>4 DEF InUse
<1>2. IndInv => OpenChainsInUse
  BY <1>1 DEF OpenChainsInUse
<1> QED
  BY <1>2, Invariance, PTL

\* udpServiceProxy holds mapMtx only while setupChain runs for a new client,
\* or has failed or hangs there: no other way out of its loop keeps the lock.
THEOREM MutexIsReleased == Spec => []MutexReleased
BY Invariance, PTL DEF IndInv
=============================================================================
