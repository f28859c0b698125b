------------------------------ MODULE Resolver ------------------------------
(***************************************************************************)
(* How a proxy finds an instance of a service: findOrAllocate and          *)
(* resolveService (l4-proxy/l4-proxy.go), httpRequestHandler and its       *)
(* runRequest (proxy/proxy.go), and the LCA manager's FindService,         *)
(* AllocService, AllocBetterService and Request (lca/lca-manager.go).      *)
(*                                                                         *)
(* Requests for one service run concurrently in one proxy and share its    *)
(* peer cache, which is the module PeerStore.  Instances run next to the   *)
(* allocators that started them and have their allocator's round trip      *)
(* time.  A container takes its time to boot, and may die; discovery may   *)
(* miss instances; allocators may be out of reach, refuse, or start a      *)
(* container and have their answer lost.                                   *)
(***************************************************************************)
EXTENDS Integers

CONSTANTS
  Req,          \* requests for the service
  Http,         \* those that reach the HTTP proxy; the others set up chains
  Alloc,        \* LCA allocators
  Slots,        \* bound of the model: instances that an allocator may start
  RTT,          \* RTT[a]: round trip time to allocator a
  SoftReq,      \* NetworkSoftReq.RTT
  None,         \* peer.ID("")
  MaxAttempts,  \* 3: rounds of findOrAllocate
  MaxFinds      \* 5: attempts of ExpoBackoffAttempts

ASSUME ResolverAssumption ==
  /\ Http \subseteq Req
  /\ RTT \in [Alloc -> Nat]
  /\ SoftReq \in Nat
  /\ {MaxAttempts, MaxFinds} \subseteq Nat \ {0}

Inst == Alloc \X Slots
Perf(i) == RTT[i[1]]

ASSUME NoneIsNoInstance == None \notin Inst

VARIABLES
  inst,      \* inst[i]: absent, boot, up or dead
  present,   \* the peer cache: instances with an entry
  updating,  \* does updateCache hold cache.mux?
  pc,        \* where each request is
  id,        \* the instance it has found
  attempts,  \* rounds it has completed
  finds,     \* backoff attempts it has made
  toAsk,     \* allocators it has not asked yet in this round
  remover,   \* the goroutine that calls RemovePeer(id): off, lock or done
  steady     \* history: instances that have been up since r began and that
             \* no discovery by r has missed

netVars   == <<inst>>
cacheVars == <<present, updating>>
reqVars   == <<pc, id, attempts, finds, toAsk, remover>>
vars == <<netVars, cacheVars, reqVars, steady>>

Service == "service"
Cache == INSTANCE PeerStore WITH
           Peer <- Inst, Serv <- {Service}, present <- present, updating <- updating

Up == { i \in Inst : inst[i] = "up" }

Init ==
  /\ inst \in [Inst -> {"absent", "up"}]
  /\ Cache!Init
  /\ pc = [r \in Req |-> "start"]
  /\ id = [r \in Req |-> None]
  /\ attempts = [r \in Req |-> 0]
  /\ finds = [r \in Req |-> 0]
  /\ toAsk = [r \in Req |-> {}]
  /\ remover = [r \in Req |-> "off"]
  /\ steady = [r \in Req |-> {}]

Goto(r, place) == pc' = [pc EXCEPT ![r] = place]

\* findOrAllocate returns: where the request goes with the instance it found.
Use(r) ==
  /\ Goto(r, IF r \in Http THEN "request" ELSE "given")
  /\ attempts' = [attempts EXCEPT ![r] = 0]

----------------------------------------------------------------------------
(* resolveService and httpRequestHandler.                                  *)

\* GetOrRequestService; without the service's hash the request fails.
LookUpHash(r) ==
  /\ pc[r] = "start"
  /\ \/ Goto(r, "get")
     \/ Goto(r, "nohash")
  /\ steady' = [steady EXCEPT ![r] = Up]
  /\ UNCHANGED <<netVars, cacheVars, id, attempts, finds, toAsk, remover>>

\* peerCache.GetPeer, with cache.mux.
GetPeer(r) ==
  /\ pc[r] = "get"
  /\ ~ updating
  /\ \/ /\ Cache!GetPeer(Service) = {}
        /\ Goto(r, "find")
        /\ UNCHANGED <<id, attempts>>
     \/ \E i \in Cache!GetPeer(Service) :
          /\ id' = [id EXCEPT ![r] = i]
          /\ Use(r)
  /\ UNCHANGED <<netVars, cacheVars, finds, toAsk, remover, steady>>

----------------------------------------------------------------------------
(* LCAManager.FindService.                                                 *)

\* The best of the peers that were discovered and answer a ping.
Finds(r, i) ==
  /\ i \in Up
  /\ steady' = [steady EXCEPT ![r] = { j \in @ : Perf(i) <= Perf(j) }]

\* No peer was discovered, or none answers.
FindsNone(r) == steady' = [steady EXCEPT ![r] = {}]

----------------------------------------------------------------------------
(* The loop of findOrAllocate and runRequest.                              *)

\* Fault: an instance just within the requirement is held too slow.
SlowOrEqual(i) == SoftReq <= Perf(i)

\* NetworkSoftReq.LessThan(perf)
Slow(i) == SoftReq < Perf(i)

FindService(r) ==
  /\ pc[r] = "find"
  /\ \/ /\ FindsNone(r)
        /\ Goto(r, "alloc")
        /\ toAsk' = [toAsk EXCEPT ![r] = Alloc]
        /\ UNCHANGED id
     \/ \E i \in Inst :
          /\ Finds(r, i)
          /\ id' = [id EXCEPT ![r] = i]
          /\ IF Slow(i)
             THEN Goto(r, "better") /\ toAsk' = [toAsk EXCEPT ![r] = Alloc]
             ELSE Goto(r, "add") /\ UNCHANGED toAsk
  /\ UNCHANGED <<netVars, cacheVars, attempts, finds, remover>>

\* SortPeers: the allocators are asked in the order of their round trip times.
Nearest(r, a) == a \in toAsk[r] /\ \A b \in toAsk[r] : RTT[a] <= RTT[b]

\* AllocBetterService stops at the first allocator that is farther away than
\* the instance found.
Worthwhile(r, a) == pc[r] = "better" => ~ (Perf(id[r]) < RTT[a])

\* Fault: the round is not counted.
NextRoundUncounted(r) == Goto(r, "find") /\ UNCHANGED attempts

\* Fault: one round too many.
NextRoundLate(r) ==
  \/ /\ attempts[r] < MaxAttempts
     /\ attempts' = [attempts EXCEPT ![r] = @ + 1]
     /\ Goto(r, "find")
  \/ /\ attempts[r] = MaxAttempts
     /\ attempts' = [attempts EXCEPT ![r] = 0]
     /\ Goto(r, "notfound")

\* The next round, or the end: nothing was found.
NextRound(r) ==
  \/ /\ attempts[r] + 1 < MaxAttempts
     /\ attempts' = [attempts EXCEPT ![r] = @ + 1]
     /\ Goto(r, "find")
  \/ /\ attempts[r] + 1 = MaxAttempts
     /\ attempts' = [attempts EXCEPT ![r] = 0]
     /\ Goto(r, "notfound")

\* The allocator cannot be reached or refuses.
AllocatorFails(r) ==
  /\ pc[r] \in {"alloc", "better"}
  /\ \E a \in Alloc : /\ Nearest(r, a)
                      /\ Worthwhile(r, a)
                      /\ toAsk' = [toAsk EXCEPT ![r] = @ \ {a}]
  /\ UNCHANGED <<netVars, cacheVars, pc, id, attempts, finds, remover, steady>>

\* Fault: what AllocService returns is taken for the instance.
AllocatedTaken(r, i) == id' = [id EXCEPT ![r] = i]

\* AllocService and AllocBetterService return the allocator's ID; it is dropped.
AllocatedDropped(r, i) == UNCHANGED id

\* The allocator starts a container.  Either its answer arrives, and a new
\* instance is looked for while a better one is not; or the answer is lost,
\* and the next allocator is asked.
AllocatorStarts(r) ==
  /\ pc[r] \in {"alloc", "better"}
  /\ \E i \in Inst :
       /\ Nearest(r, i[1])
       /\ Worthwhile(r, i[1])
       /\ inst[i] = "absent"
       /\ inst' = [inst EXCEPT ![i] = "boot"]
       /\ AllocatedDropped(r, i)
       /\ \/ /\ Goto(r, IF pc[r] = "alloc" THEN "refind" ELSE "add")
             /\ toAsk' = [toAsk EXCEPT ![r] = {}]
          \/ /\ toAsk' = [toAsk EXCEPT ![r] = @ \ {i[1]}]
             /\ UNCHANGED pc
  /\ UNCHANGED <<cacheVars, attempts, finds, remover, steady>>

\* Fault: an error of AllocBetterService ends the search.
BetterFailsSearch(r) == Goto(r, "notfound") /\ UNCHANGED attempts

\* "No services able to be created, using previously found peer."
BetterFails(r) == Use(r)

\* No allocator is left, or none is worthwhile: AllocService ends the round;
\* after AllocBetterService the slow instance is used, and not cached.
AllocatorsExhausted(r) ==
  /\ pc[r] \in {"alloc", "better"}
  /\ \A a \in toAsk[r] : Nearest(r, a) => ~ Worthwhile(r, a)
  /\ toAsk' = [toAsk EXCEPT ![r] = {}]
  /\ \/ pc[r] = "alloc" /\ NextRound(r)
     \/ pc[r] = "better" /\ BetterFails(r)
  /\ UNCHANGED <<netVars, cacheVars, id, finds, remover, steady>>

\* Look for the new instance, with exponential backoff.  Whatever is found is
\* taken, fast or slow.
FindAgain(r) ==
  /\ pc[r] = "refind"
  /\ \/ \E i \in Inst : /\ Finds(r, i)
                        /\ id' = [id EXCEPT ![r] = i]
                        /\ Goto(r, "add")
                        /\ finds' = [finds EXCEPT ![r] = 0]
                        /\ UNCHANGED attempts
     \/ /\ FindsNone(r)
        /\ \/ /\ finds[r] + 1 < MaxFinds
              /\ finds' = [finds EXCEPT ![r] = @ + 1]
              /\ UNCHANGED <<pc, attempts>>
           \/ /\ finds[r] + 1 = MaxFinds
              /\ finds' = [finds EXCEPT ![r] = 0]
              /\ NextRound(r)
        /\ UNCHANGED id
  /\ UNCHANGED <<netVars, cacheVars, toAsk, remover>>

\* peerCache.AddPeer, with cache.mux.
AddPeer(r) ==
  /\ pc[r] = "add"
  /\ Cache!AddPeer(id[r], Service)
  /\ Use(r)
  /\ UNCHANGED <<netVars, id, finds, toAsk, remover, steady>>

----------------------------------------------------------------------------
(* LCAManager.Request, and what follows a failure.                         *)

RequestServed(r) ==
  /\ pc[r] = "request"
  /\ inst[id[r]] = "up"
  /\ Goto(r, "served")
  /\ UNCHANGED <<netVars, cacheVars, id, attempts, finds, toAsk, remover, steady>>

\* The peer is gone, or its service does not answer: the client gets an error
\* and a goroutine is to remove the peer from the cache.
RequestFails(r) ==
  /\ pc[r] = "request"
  /\ Goto(r, "failed")
  /\ remover' = [remover EXCEPT ![r] = "lock"]
  /\ UNCHANGED <<netVars, cacheVars, id, attempts, finds, toAsk, steady>>

\* connQualMonitor of a chain that was set up with the peer.
MonitorGivesUp(r) ==
  /\ pc[r] = "given"
  /\ remover[r] = "off"
  /\ remover' = [remover EXCEPT ![r] = "lock"]
  /\ UNCHANGED <<netVars, cacheVars, pc, id, attempts, finds, toAsk, steady>>

RemovePeer(r) ==
  /\ remover[r] = "lock"
  /\ Cache!RemovePeer(id[r])
  /\ remover' = [remover EXCEPT ![r] = "done"]
  /\ UNCHANGED <<netVars, pc, id, attempts, finds, toAsk, steady>>

----------------------------------------------------------------------------
(* Instances, and the update loop of the peer cache.                       *)

\* The proxy of an instance has joined the network and advertises its service.
Boots(i) ==
  /\ inst[i] = "boot"
  /\ inst' = [inst EXCEPT ![i] = "up"]
  /\ UNCHANGED <<cacheVars, reqVars, steady>>

Dies(i) ==
  /\ inst[i] \in {"boot", "up"}
  /\ inst' = [inst EXCEPT ![i] = "dead"]
  /\ steady' = [r \in Req |-> steady[r] \ {i}]
  /\ UNCHANGED <<cacheVars, reqVars>>

UpdateEnds == Cache!EndUpdate /\ UNCHANGED <<netVars, reqVars, steady>>

UpdateStep ==
  \/ Cache!BeginUpdate /\ UNCHANGED <<netVars, reqVars, steady>>
  \/ UpdateEnds

----------------------------------------------------------------------------
\* The steps that take cache.mux, of which one at most is a request's next.
Locking(r) == GetPeer(r) \/ AddPeer(r) \/ RemovePeer(r)

\* Steps that end a wait for another machine: a registry, an allocator or a
\* service that has been sent a request and is read from without a timeout.
AnswerStep(r) ==
  \/ LookUpHash(r)
  \/ AllocatorFails(r) \/ AllocatorStarts(r)
  \/ RequestServed(r) \/ RequestFails(r)

\* Steps of the proxy itself: discovery, pings and what follows from them.
OwnStep(r) == FindService(r) \/ AllocatorsExhausted(r) \/ FindAgain(r)

Next ==
  \/ \E r \in Req :
       OwnStep(r) \/ AnswerStep(r) \/ Locking(r) \/ MonitorGivesUp(r)
  \/ \E i \in Inst : Boots(i) \/ Dies(i)
  \/ UpdateStep

Spec == Init /\ [][Next]_vars

(***************************************************************************)
(* Discovery and pings end, so that requests and updates take their next   *)
(* step; a Go mutex hands itself to a waiter that starves.  Nothing is     *)
(* assumed of AnswerStep: requestAlloc's read of the allocator's answer    *)
(* and Request's ReadAll of the service's have no deadline, and an         *)
(* allocator that waits for its container, or a frozen service, never      *)
(* answers.                                                                *)
(***************************************************************************)
FairSpec ==
  /\ Spec
  /\ WF_vars(UpdateEnds)
  /\ \A r \in Req : WF_vars(OwnStep(r)) /\ SF_vars(Locking(r))

----------------------------------------------------------------------------
(* Properties.                                                             *)

MeetsSoftReq(i) == Perf(i) <= SoftReq

Ended == {"nohash", "notfound", "given", "served", "failed"}

\* The variables have their types.
TypeOK ==
  /\ inst \in [Inst -> {"absent", "boot", "up", "dead"}]
  /\ present \in SUBSET (Inst \X {Service})
  /\ updating \in BOOLEAN
  /\ pc \in [Req -> {"start", "get", "find", "alloc", "better", "refind", "add",
                     "request"} \cup Ended]
  /\ id \in [Req -> Inst \cup {None}]
  /\ attempts \in [Req -> 0 .. MaxAttempts - 1]
  /\ finds \in [Req -> 0 .. MaxFinds - 1]
  /\ toAsk \in [Req -> SUBSET Alloc]
  /\ remover \in [Req -> {"off", "lock", "done"}]
  /\ steady \in [Req -> SUBSET Inst]

\* findOrAllocate hands out, and caches, instances that the network has seen,
\* never one that was only asked for: every cached or chosen instance has come
\* up, if it is not dead by now.
ChosenWereUp ==
  /\ \A i \in Cache!GetPeer(Service) : inst[i] \in {"up", "dead"}
  /\ \A r \in Req : id[r] # None => inst[id[r]] \in {"up", "dead"}

\* "Unable to find or allocate service" is true: a request that had an instance
\* up, and discovered, all the time does not end so, whatever allocators, cache
\* updates and other requests did meanwhile.
NotFoundExplained ==
  \A r \in Req : pc[r] = "notfound" => steady[r] = {}

\* When allocators are asked at all: only by a request that has not had, all
\* the time since it began, an instance within the soft requirement that its
\* discoveries saw.  (How many containers are then started is another matter:
\* one whose answer is lost, or one at an allocator no nearer than the instance
\* found, is started for nothing.)
NoNeedlessContainer ==
  \A r \in Req : pc[r] \in {"alloc", "better"} =>
    \A i \in steady[r] : ~ MeetsSoftReq(i)

\* Request r waits for an answer to what it has sent: to the service, or to the
\* next allocator of the list.
AwaitsAnswer(r) ==
  \/ pc[r] = "request"
  \/ /\ pc[r] \in {"alloc", "better"}
     /\ \E a \in toAsk[r] : Nearest(r, a) /\ Worthwhile(r, a)

\* Every request comes to its end, and every peer to be removed is removed,
\* although updateCache keeps cache.mux while it pings the peers and nothing
\* obliges containers to boot or allocators to grant anything: only an
\* allocator or a service that never answers, nor breaks the stream, can keep
\* a request for ever, and then for that wait alone.
RequestsEnd ==
  \A r \in Req :
    pc[r] # "start" ~> \/ pc[r] \in Ended /\ remover[r] # "lock"
                       \/ [] AwaitsAnswer(r)

\* "resolveService() only returns a peer that meets its service quality."
QualityMet == \A r \in Req : pc[r] = "given" => MeetsSoftReq(id[r])
=============================================================================
