--------------------------- MODULE ResolverProofs ---------------------------
(***************************************************************************)
(* Proofs, for any number of requests, allocators and instances, of the    *)
(* safety properties of Resolver: what findOrAllocate and runRequest hand  *)
(* out and cache, when they ask for containers, and when they give up.     *)
(*                                                                         *)
(* A property about the end of a search rests on what the request knew at  *)
(* every point of it: IndInv adds that a request that goes on with an      *)
(* instance has one (HasInstance), that one which looks for a new instance *)
(* has missed all others (NothingSteady), and that one which looks for a   *)
(* better instance holds a slow one that is the best it could find         *)
(* (BestIsSlow).                                                           *)
(***************************************************************************)
EXTENDS Resolver, TLAPS

WasUp(i) == inst[i] \in {"up", "dead"}

HasInstance(r) ==
  /\ id[r] # None => WasUp(id[r])
  /\ pc[r] \in {"better", "add", "request", "given", "served", "failed"} =>
       id[r] # None
  /\ remover[r] = "lock" => id[r] # None

NothingSteady(r) ==
  pc[r] \in {"alloc", "refind", "notfound"} => steady[r] = {}

BestIsSlow(r) ==
  pc[r] = "better" => /\ Slow(id[r])
                      /\ \A j \in steady[r] : Perf(id[r]) <= Perf(j)

Fits(r) == HasInstance(r) /\ NothingSteady(r) /\ BestIsSlow(r)

IndInv ==
  /\ TypeOK
  /\ \A i \in Inst : <<i, Service>> \in present => WasUp(i)
  /\ \A r \in Req : Fits(r)

USE ResolverAssumption, NoneIsNoInstance

LEMMA PerfIsNat == \A i \in Inst : Perf(i) \in Nat /\ i[1] \in Alloc
BY DEF Inst, Perf

LEMMA InitInd == Init => IndInv
<1> SUFFICES ASSUME Init PROVE IndInv
  OBVIOUS
<1>1. TypeOK
  <2>1. 0 \in 0 .. MaxAttempts - 1 /\ 0 \in 0 .. MaxFinds - 1
    OBVIOUS
  <2>2. /\ attempts \in [Req -> 0 .. MaxAttempts - 1]
        /\ finds \in [Req -> 0 .. MaxFinds - 1]
    BY <2>1 DEF Init
  <2>3. inst \in [Inst -> {"absent", "boot", "up", "dead"}]
    BY DEF Init
  <2>4. present = {} /\ updating = FALSE
    BY DEF Init, Cache!Init
  <2> QED
    BY <2>2, <2>3, <2>4 DEF Init, TypeOK
<1>2. \A i \in Inst : <<i, Service>> \in present => WasUp(i)
  BY DEF Init, Cache!Init
<1>3. \A r \in Req : Fits(r)
  BY DEF Init, Fits, HasInstance, NothingSteady, BestIsSlow
<1> QED
  BY <1>1, <1>2, <1>3 DEF IndInv

----------------------------------------------------------------------------
(* What a step of request r has to satisfy.                                *)

\* No instance comes back to a state before it was up.
InstancesGoOn == \A i \in Inst : WasUp(i) => WasUp(i)'

\* At most the instance that request r holds is new in the cache.
CachesOwn(r) ==
  \A i \in Inst :
    <<i, Service>> \in present' => <<i, Service>> \in present \/ i = id[r]

OthersStay(r) ==
  \A q \in Req \ {r} :
    /\ pc'[q] = pc[q] /\ id'[q] = id[q]
    /\ remover'[q] = remover[q] /\ steady'[q] = steady[q]

LEMMA StepInd ==
  ASSUME IndInv, NEW r \in Req,
         TypeOK', InstancesGoOn, CachesOwn(r), OthersStay(r), Fits(r)'
  PROVE  IndInv'
<1>1. \A i \in Inst : <<i, Service>> \in present' => WasUp(i)'
  BY DEF IndInv, InstancesGoOn, CachesOwn, Fits, HasInstance
<1>2. ASSUME NEW q \in Req, q # r PROVE Fits(q)'
  <2>1. id[q] \in Inst \cup {None}
    BY DEF IndInv, TypeOK
  <2>2. Fits(q)
    BY DEF IndInv
  <2>3. pc'[q] = pc[q] /\ id'[q] = id[q] /\ remover'[q] = remover[q] /\ steady'[q] = steady[q]
    BY <1>2 DEF OthersStay
  <2>4. HasInstance(q)'
    BY <2>1, <2>2, <2>3 DEF InstancesGoOn, Fits, HasInstance
  <2> QED
    BY <2>2, <2>3, <2>4 DEF Fits, NothingSteady, BestIsSlow, Slow, Perf
<1> QED
  BY <1>1, <1>2 DEF IndInv

\* A step that changes neither instances nor the cache.
LEMMA SharedStays ==
  ASSUME NEW r \in Req, UNCHANGED <<netVars, cacheVars>>
  PROVE  InstancesGoOn /\ CachesOwn(r)
BY DEF netVars, cacheVars, InstancesGoOn, CachesOwn, WasUp

\* Use keeps the counter within its bound.
LEMMA UseType ==
  ASSUME TypeOK, NEW r \in Req, Use(r)
  PROVE  /\ attempts' \in [Req -> 0 .. MaxAttempts - 1]
         /\ \E place \in {"request", "given"} : pc' = [pc EXCEPT ![r] = place]
<1>1. 0 \in 0 .. MaxAttempts - 1
  OBVIOUS
<1> QED
  BY <1>1 DEF TypeOK, Use, Goto

\* The round counter stays below its bound.
LEMMA NextRoundType ==
  ASSUME TypeOK, NEW r \in Req, NextRound(r)
  PROVE  /\ attempts' \in [Req -> 0 .. MaxAttempts - 1]
         /\ \E place \in {"find", "notfound"} : pc' = [pc EXCEPT ![r] = place]
<1>1. attempts[r] \in 0 .. MaxAttempts - 1 /\ 0 \in 0 .. MaxAttempts - 1
  BY DEF TypeOK
<1>2. CASE attempts[r] + 1 < MaxAttempts
  <2>1. attempts[r] + 1 \in 0 .. MaxAttempts - 1
    BY <1>1, <1>2
  <2> QED
    BY <1>1, <1>2, <2>1 DEF NextRound, TypeOK, Goto
<1>3. CASE attempts[r] + 1 = MaxAttempts
  BY <1>1, <1>3 DEF NextRound, TypeOK, Goto
<1> QED
  BY <1>2, <1>3 DEF NextRound

----------------------------------------------------------------------------
(* The steps of a request.                                                 *)

LEMMA LookUpHashInd ==
  ASSUME IndInv, NEW r \in Req, LookUpHash(r)
  PROVE  IndInv'
<1>1. PICK place \in {"get", "nohash"} : pc' = [pc EXCEPT ![r] = place]
  BY DEF LookUpHash, Goto
<1>2. TypeOK'
  BY <1>1 DEF LookUpHash, IndInv, TypeOK, netVars, cacheVars, Ended, Up
<1>3. OthersStay(r)
  BY <1>1 DEF LookUpHash, IndInv, TypeOK, OthersStay
<1>4. Fits(r)'
  BY <1>1 DEF LookUpHash, IndInv, TypeOK, Fits, HasInstance, NothingSteady,
     BestIsSlow, netVars, WasUp
<1> QED
  BY <1>2, <1>3, <1>4, SharedStays, StepInd DEF LookUpHash

LEMMA GetPeerInd ==
  ASSUME IndInv, NEW r \in Req, GetPeer(r)
  PROVE  IndInv'
<1>1. PICK place \in {"find", "request", "given"} : pc' = [pc EXCEPT ![r] = place]
  BY UseType DEF GetPeer, Goto, IndInv
<1>2. PICK j \in Inst \cup {None} :
        /\ id' = [id EXCEPT ![r] = j]
        /\ j # None => WasUp(j)
        /\ place # "find" => j # None
        /\ remover[r] = "lock" => j # None
  <2>1. CASE \E i \in Cache!GetPeer(Service) : id' = [id EXCEPT ![r] = i]
    BY <2>1 DEF IndInv, Cache!GetPeer
  <2>2. CASE Goto(r, "find") /\ UNCHANGED id
    <3>1. place = "find"
      BY <1>1, <2>2 DEF Goto, IndInv, TypeOK
    <3> QED
      BY <2>2, <3>1 DEF IndInv, TypeOK, Fits, HasInstance
  <2> QED
    BY <2>1, <2>2 DEF GetPeer
<1>3. attempts' \in [Req -> 0 .. MaxAttempts - 1]
  BY UseType DEF GetPeer, IndInv, TypeOK
<1>4. TypeOK'
  BY <1>1, <1>2, <1>3 DEF GetPeer, IndInv, TypeOK, netVars, cacheVars, Ended
<1>5. OthersStay(r)
  BY <1>1, <1>2 DEF GetPeer, IndInv, TypeOK, OthersStay
<1>6. Fits(r)'
  BY <1>1, <1>2 DEF GetPeer, IndInv, TypeOK, Fits, HasInstance, NothingSteady,
     BestIsSlow, netVars, WasUp
<1> QED
  BY <1>4, <1>5, <1>6, SharedStays, StepInd DEF GetPeer

\* What is found is up, and nothing that is still steady is better.
LEMMA FindsProperties ==
  ASSUME IndInv, NEW r \in Req, NEW i \in Inst, Finds(r, i)
  PROVE  /\ WasUp(i)
         /\ steady' \in [Req -> SUBSET Inst]
         /\ \A q \in Req \ {r} : steady'[q] = steady[q]
         /\ steady[r] = {} => steady'[r] = {}
         /\ \A j \in steady'[r] : Perf(i) <= Perf(j)
BY DEF Finds, Up, WasUp, IndInv, TypeOK

LEMMA FindServiceInd ==
  ASSUME IndInv, NEW r \in Req, FindService(r)
  PROVE  IndInv'
<1>1. CASE FindsNone(r) /\ Goto(r, "alloc") /\ UNCHANGED id
           /\ toAsk' = [toAsk EXCEPT ![r] = Alloc]
  <2>1. TypeOK'
    BY <1>1 DEF FindService, FindsNone, Goto, IndInv, TypeOK, netVars, cacheVars
  <2>2. OthersStay(r)
    BY <1>1 DEF FindService, FindsNone, Goto, IndInv, TypeOK, OthersStay
  <2>3. Fits(r)'
    BY <1>1 DEF FindService, FindsNone, Goto, IndInv, TypeOK, Fits, HasInstance,
       NothingSteady, BestIsSlow, netVars, WasUp
  <2> QED
    BY <2>1, <2>2, <2>3, SharedStays, StepInd DEF FindService
<1>2. ASSUME NEW i \in Inst, Finds(r, i), id' = [id EXCEPT ![r] = i],
             IF Slow(i) THEN Goto(r, "better") /\ toAsk' = [toAsk EXCEPT ![r] = Alloc]
             ELSE Goto(r, "add") /\ UNCHANGED toAsk
      PROVE  IndInv'
  <2>1. PICK place \in {"better", "add"} :
          /\ pc' = [pc EXCEPT ![r] = place]
          /\ place = "better" => Slow(i)
    BY <1>2 DEF Goto
  <2>2. TypeOK'
    BY <1>2, <2>1, FindsProperties DEF FindService, IndInv, TypeOK, netVars, cacheVars
  <2>3. OthersStay(r)
    BY <1>2, <2>1, FindsProperties DEF FindService, IndInv, TypeOK, OthersStay
  <2>4. id'[r] = i /\ pc'[r] = place /\ Slow(i)' = Slow(i)
    BY <1>2, <2>1 DEF IndInv, TypeOK, Slow, Perf
  <2>5. Fits(r)'
    BY <1>2, <2>1, <2>4, FindsProperties DEF FindService, Fits, HasInstance,
       NothingSteady, BestIsSlow, netVars, WasUp
  <2> QED
    BY <2>2, <2>3, <2>5, SharedStays, StepInd DEF FindService
<1> QED
  BY <1>1, <1>2 DEF FindService

LEMMA AllocatorFailsInd ==
  ASSUME IndInv, NEW r \in Req, AllocatorFails(r)
  PROVE  IndInv'
<1>1. UNCHANGED <<inst, present, updating, pc, id, attempts, finds, remover, steady>>
  BY DEF AllocatorFails, netVars, cacheVars
<1>2. toAsk' \in [Req -> SUBSET Alloc]
  BY DEF AllocatorFails, IndInv, TypeOK
<1>3. TypeOK'
  BY <1>1, <1>2 DEF IndInv, TypeOK
<1> QED
  BY <1>1, <1>3 DEF IndInv, Fits, HasInstance, NothingSteady, BestIsSlow, WasUp,
     Slow, Perf

\* Only an instance that was absent changes, and no request has it.
LEMMA AllocatorStartsInd ==
  ASSUME IndInv, NEW r \in Req, AllocatorStarts(r)
  PROVE  IndInv'
<1>1. PICK i \in Inst :
        /\ inst[i] = "absent"
        /\ inst' = [inst EXCEPT ![i] = "boot"]
        /\ \/ /\ Goto(r, IF pc[r] = "alloc" THEN "refind" ELSE "add")
              /\ toAsk' = [toAsk EXCEPT ![r] = {}]
           \/ /\ toAsk' = [toAsk EXCEPT ![r] = @ \ {i[1]}]
              /\ UNCHANGED pc
  BY DEF AllocatorStarts
<1>2. /\ pc[r] \in {"alloc", "better"}
      /\ UNCHANGED <<present, updating, id, attempts, finds, remover, steady>>
  BY DEF AllocatorStarts, AllocatedDropped, cacheVars
<1>3. /\ pc' \in [Req -> {"start", "get", "find", "alloc", "better", "refind",
                          "add", "request"} \cup Ended]
      /\ \A q \in Req \ {r} : pc'[q] = pc[q]
      /\ \/ pc'[r] = pc[r]
         \/ pc[r] = "alloc" /\ pc'[r] = "refind"
         \/ pc[r] = "better" /\ pc'[r] = "add"
  BY <1>1, <1>2 DEF Goto, IndInv, TypeOK
<1>4. TypeOK'
  BY <1>1, <1>2, <1>3 DEF IndInv, TypeOK
<1>5. InstancesGoOn
  BY <1>1 DEF IndInv, TypeOK, InstancesGoOn, WasUp
<1>6. CachesOwn(r) /\ OthersStay(r)
  BY <1>2, <1>3 DEF CachesOwn, OthersStay
<1>7. HasInstance(r)'
  BY <1>2, <1>3, <1>5 DEF IndInv, TypeOK, InstancesGoOn, Fits, HasInstance
<1>8. NothingSteady(r)' /\ BestIsSlow(r)'
  BY <1>2, <1>3 DEF IndInv, Fits, NothingSteady, BestIsSlow, Slow, Perf
<1> QED
  BY <1>4, <1>5, <1>6, <1>7, <1>8, StepInd DEF Fits

LEMMA AllocatorsExhaustedInd ==
  ASSUME IndInv, NEW r \in Req, AllocatorsExhausted(r)
  PROVE  IndInv'
<1>1. /\ toAsk' = [toAsk EXCEPT ![r] = {}]
      /\ UNCHANGED <<inst, present, updating, id, finds, remover, steady>>
  BY DEF AllocatorsExhausted, netVars, cacheVars
<1>2. /\ attempts' \in [Req -> 0 .. MaxAttempts - 1]
      /\ \/ /\ pc[r] = "alloc"
            /\ \E place \in {"find", "notfound"} : pc' = [pc EXCEPT ![r] = place]
         \/ /\ pc[r] = "better"
            /\ \E place \in {"request", "given"} : pc' = [pc EXCEPT ![r] = place]
  BY NextRoundType, UseType DEF AllocatorsExhausted, BetterFails, IndInv
<1>3. PICK place \in {"find", "notfound", "request", "given"} :
        /\ pc' = [pc EXCEPT ![r] = place]
        /\ pc[r] = "alloc" => place \in {"find", "notfound"}
        /\ pc[r] = "better" => place \in {"request", "given"}
  BY <1>2
<1>4. TypeOK'
  BY <1>1, <1>2, <1>3 DEF IndInv, TypeOK, Ended
<1>5. OthersStay(r)
  BY <1>1, <1>3 DEF IndInv, TypeOK, OthersStay
<1>6. Fits(r)'
  BY <1>1, <1>2, <1>3 DEF IndInv, TypeOK, Fits, HasInstance, NothingSteady,
     BestIsSlow, WasUp
<1> QED
  BY <1>4, <1>5, <1>6, SharedStays, StepInd DEF AllocatorsExhausted

LEMMA FindAgainInd ==
  ASSUME IndInv, NEW r \in Req, FindAgain(r)
  PROVE  IndInv'
<1>1. /\ pc[r] = "refind" /\ steady[r] = {}
      /\ UNCHANGED <<inst, present, updating, toAsk, remover>>
  BY DEF FindAgain, netVars, cacheVars, IndInv, Fits, NothingSteady
<1>2. ASSUME NEW i \in Inst, Finds(r, i), id' = [id EXCEPT ![r] = i],
             Goto(r, "add"), finds' = [finds EXCEPT ![r] = 0], UNCHANGED attempts
      PROVE  IndInv'
  <2>1. 0 \in 0 .. MaxFinds - 1
    OBVIOUS
  <2>2. TypeOK'
    BY <1>1, <1>2, <2>1, FindsProperties DEF Goto, IndInv, TypeOK
  <2>3. OthersStay(r)
    BY <1>1, <1>2, FindsProperties DEF Goto, IndInv, TypeOK, OthersStay
  <2>4. Fits(r)'
    BY <1>1, <1>2, FindsProperties DEF Goto, IndInv, TypeOK, Fits, HasInstance,
       NothingSteady, BestIsSlow, WasUp
  <2> QED
    BY <2>2, <2>3, <2>4, SharedStays, StepInd DEF FindAgain
<1>3. ASSUME FindsNone(r), UNCHANGED id,
             \/ /\ finds[r] + 1 < MaxFinds
                /\ finds' = [finds EXCEPT ![r] = @ + 1]
                /\ UNCHANGED <<pc, attempts>>
             \/ /\ finds[r] + 1 = MaxFinds
                /\ finds' = [finds EXCEPT ![r] = 0]
                /\ NextRound(r)
      PROVE  IndInv'
  <2>1. finds' \in [Req -> 0 .. MaxFinds - 1]
    <3>1. finds[r] \in 0 .. MaxFinds - 1 /\ 0 \in 0 .. MaxFinds - 1
      BY DEF IndInv, TypeOK
    <3>2. CASE finds[r] + 1 < MaxFinds
      <4>1. finds[r] + 1 \in 0 .. MaxFinds - 1
        BY <3>1, <3>2
      <4> QED
        BY <1>3, <3>1, <3>2, <4>1 DEF IndInv, TypeOK
    <3>3. CASE finds[r] + 1 = MaxFinds
      BY <1>3, <3>1, <3>3 DEF IndInv, TypeOK
    <3> QED
      BY <1>3, <3>2, <3>3
  <2>2. /\ attempts' \in [Req -> 0 .. MaxAttempts - 1]
        /\ \E place \in {"refind", "find", "notfound"} : pc' = [pc EXCEPT ![r] = place]
    BY <1>1, <1>3, NextRoundType DEF IndInv, TypeOK
  <2>3. steady' = [steady EXCEPT ![r] = {}]
    BY <1>3 DEF FindsNone
  <2>4. TypeOK'
    BY <1>1, <1>3, <2>1, <2>2, <2>3 DEF IndInv, TypeOK, Ended
  <2>5. OthersStay(r)
    BY <1>1, <1>3, <2>2, <2>3 DEF IndInv, TypeOK, OthersStay
  <2>6. Fits(r)'
    BY <1>1, <1>3, <2>2, <2>3 DEF IndInv, TypeOK, Fits, HasInstance, NothingSteady,
       BestIsSlow, WasUp
  <2> QED
    BY <2>4, <2>5, <2>6, SharedStays, StepInd DEF FindAgain
<1> QED
  BY <1>2, <1>3 DEF FindAgain

\* What the request caches is what it has found.
LEMMA AddPeerInd ==
  ASSUME IndInv, NEW r \in Req, AddPeer(r)
  PROVE  IndInv'
<1>1. /\ pc[r] = "add" /\ id[r] \in Inst
      /\ present' = present \cup {<<id[r], Service>>}
      /\ UNCHANGED <<updating, inst, id, finds, toAsk, remover, steady>>
  BY DEF AddPeer, Cache!AddPeer, netVars, IndInv, TypeOK, Fits, HasInstance
<1>2. /\ attempts' \in [Req -> 0 .. MaxAttempts - 1]
      /\ \E place \in {"request", "given"} : pc' = [pc EXCEPT ![r] = place]
  BY UseType DEF AddPeer, IndInv
<1>3. TypeOK'
  BY <1>1, <1>2 DEF IndInv, TypeOK, Ended
<1>4. InstancesGoOn /\ CachesOwn(r)
  BY <1>1 DEF InstancesGoOn, CachesOwn, WasUp
<1>5. OthersStay(r)
  BY <1>1, <1>2 DEF IndInv, TypeOK, OthersStay
<1>6. Fits(r)'
  BY <1>1, <1>2 DEF IndInv, TypeOK, Fits, HasInstance, NothingSteady, BestIsSlow,
     WasUp
<1> QED
  BY <1>3, <1>4, <1>5, <1>6, StepInd

LEMMA RequestEndsInd ==
  ASSUME IndInv, NEW r \in Req,
         RequestServed(r) \/ RequestFails(r) \/ MonitorGivesUp(r)
  PROVE  IndInv'
<1>1. UNCHANGED <<inst, present, updating, id, attempts, finds, toAsk, steady>>
  BY DEF RequestServed, RequestFails, MonitorGivesUp, netVars, cacheVars
<1>2. /\ pc[r] \in {"request", "given"}
      /\ \E place \in {"given", "served", "failed"} : pc' = [pc EXCEPT ![r] = place]
  BY DEF RequestServed, RequestFails, MonitorGivesUp, Goto, IndInv, TypeOK
<1>3. \E gone \in {"off", "lock", "done"} : remover' = [remover EXCEPT ![r] = gone]
  BY DEF RequestServed, RequestFails, MonitorGivesUp, IndInv, TypeOK
<1>4. TypeOK'
  BY <1>1, <1>2, <1>3 DEF IndInv, TypeOK, Ended
<1>5. OthersStay(r)
  BY <1>1, <1>2, <1>3 DEF IndInv, TypeOK, OthersStay
<1>6. Fits(r)'
  BY <1>1, <1>2, <1>3 DEF IndInv, TypeOK, Fits, HasInstance, NothingSteady,
     BestIsSlow, WasUp
<1>7. InstancesGoOn /\ CachesOwn(r)
  BY <1>1 DEF InstancesGoOn, CachesOwn, WasUp
<1> QED
  BY <1>4, <1>5, <1>6, <1>7, StepInd

LEMMA RemovePeerInd ==
  ASSUME IndInv, NEW r \in Req, RemovePeer(r)
  PROVE  IndInv'
<1>1. /\ present' \subseteq present
      /\ remover' = [remover EXCEPT ![r] = "done"]
      /\ UNCHANGED <<updating, inst, pc, id, attempts, finds, toAsk, steady>>
  BY DEF RemovePeer, Cache!RemovePeer, netVars
<1>2. TypeOK'
  BY <1>1 DEF IndInv, TypeOK
<1>3. InstancesGoOn /\ CachesOwn(r)
  BY <1>1 DEF InstancesGoOn, CachesOwn, WasUp
<1>4. OthersStay(r)
  BY <1>1 DEF IndInv, TypeOK, OthersStay
<1>5. Fits(r)'
  BY <1>1 DEF IndInv, TypeOK, Fits, HasInstance, NothingSteady, BestIsSlow, WasUp,
     Slow, Perf
<1> QED
  BY <1>2, <1>3, <1>4, <1>5, StepInd

----------------------------------------------------------------------------
(* Instances and the cache's update.                                       *)

LEMMA InstanceInd ==
  ASSUME IndInv, NEW i \in Inst, Boots(i) \/ Dies(i)
  PROVE  IndInv'
<1>1. UNCHANGED <<present, updating, pc, id, attempts, finds, toAsk, remover>>
  BY DEF Boots, Dies, cacheVars, reqVars
<1>2. \E x \in {"up", "dead"} : inst' = [inst EXCEPT ![i] = x]
  BY DEF Boots, Dies
<1>3. /\ steady' \in [Req -> SUBSET Inst]
      /\ \A r \in Req : steady'[r] \subseteq steady[r]
  BY DEF Boots, Dies, IndInv, TypeOK
<1>4. TypeOK'
  BY <1>1, <1>2, <1>3 DEF IndInv, TypeOK
<1>5. InstancesGoOn
  BY <1>2 DEF IndInv, TypeOK, InstancesGoOn, WasUp
<1>6. ASSUME NEW r \in Req PROVE Fits(r)'
  <2>1. HasInstance(r)'
    BY <1>1, <1>5 DEF IndInv, TypeOK, InstancesGoOn, Fits, HasInstance
  <2> QED
    BY <1>1, <1>3, <2>1 DEF IndInv, Fits, NothingSteady, BestIsSlow, Slow, Perf
<1> QED
  BY <1>1, <1>4, <1>5, <1>6 DEF IndInv, InstancesGoOn

LEMMA UpdateStepInd ==
  ASSUME IndInv, UpdateStep
  PROVE  IndInv'
<1>1. /\ present' \subseteq present /\ updating' \in BOOLEAN
      /\ UNCHANGED <<inst, pc, id, attempts, finds, toAsk, remover, steady>>
  BY DEF UpdateStep, UpdateEnds, Cache!BeginUpdate, Cache!EndUpdate, netVars, reqVars
<1>2. TypeOK'
  BY <1>1 DEF IndInv, TypeOK
<1> QED
  BY <1>1, <1>2 DEF IndInv, Fits, HasInstance, NothingSteady, BestIsSlow, WasUp,
     Slow, Perf

----------------------------------------------------------------------------
LEMMA NextInd == IndInv /\ [Next]_vars => IndInv'
<1> SUFFICES ASSUME IndInv, [Next]_vars PROVE IndInv'
  OBVIOUS
<1>1. CASE UNCHANGED vars
  BY <1>1 DEF vars, netVars, cacheVars, reqVars, IndInv, TypeOK, Fits, HasInstance,
     NothingSteady, BestIsSlow, WasUp, Slow, Perf
<1>2. ASSUME NEW r \in Req, OwnStep(r) \/ AnswerStep(r) PROVE IndInv'
  BY <1>2, LookUpHashInd, FindServiceInd, AllocatorFailsInd, AllocatorStartsInd,
     AllocatorsExhaustedInd, FindAgainInd, RequestEndsInd
     DEF OwnStep, AnswerStep
<1>3. ASSUME NEW r \in Req, Locking(r) PROVE IndInv'
  BY <1>3, GetPeerInd, AddPeerInd, RemovePeerInd DEF Locking
<1>4. ASSUME NEW r \in Req, MonitorGivesUp(r) PROVE IndInv'
  BY <1>4, RequestEndsInd
<1>5. ASSUME NEW i \in Inst, Boots(i) \/ Dies(i) PROVE IndInv'
  BY <1>5, InstanceInd
<1>6. CASE UpdateStep
  BY <1>6, UpdateStepInd
<1> QED
  BY <1>1, <1>2, <1>3, <1>4, <1>5, <1>6 DEF Next

LEMMA Invariance == Spec => []IndInv
BY InitInd, NextInd, PTL DEF Spec

----------------------------------------------------------------------------
(* What the search promises.                                               *)

\* In every state of the requests, the instances and the cache the variables
\* have their types; in particular attempts and finds stay below the bounds of
\* findOrAllocate and ExpoBackoffAttempts.
THEOREM ResolverTypeCorrect == Spec => []TypeOK
BY Invariance, PTL DEF IndInv

\* findOrAllocate and runRequest hand out, and cache, only instances that have
\* come up, for any number of concurrent requests.
THEOREM ChosenInstancesWereUp == Spec => []ChosenWereUp
<1>1. IndInv => ChosenWereUp
  BY DEF IndInv, ChosenWereUp, Cache!GetPeer, Fits, HasInstance, WasUp
<1> QED
  BY <1>1, Invariance, PTL

\* "Unable to find or allocate service" is never told to a request that had an
\* instance up and discovered all the time.
THEOREM NotFoundIsExplained == Spec => []NotFoundExplained
<1>1. IndInv => NotFoundExplained
  BY DEF IndInv, NotFoundExplained, Fits, NothingSteady
<1> QED
  BY <1>1, Invariance, PTL

\* AllocService and AllocBetterService are reached only by a request without a
\* steady instance within the soft requirement: the one AllocBetterService is
\* to better is slow, and every steady one is slower.
THEOREM ContainersAreNeeded == Spec => []NoNeedlessContainer
<1>1. ASSUME IndInv, NEW r \in Req, pc[r] \in {"alloc", "better"},
             NEW i \in steady[r]
      PROVE  ~ MeetsSoftReq(i)
  <2>1. pc[r] = "better" /\ id[r] \in Inst /\ i \in Inst
    BY <1>1 DEF IndInv, TypeOK, Fits, HasInstance, NothingSteady
  <2>2. SoftReq < Perf(id[r]) /\ Perf(id[r]) <= Perf(i)
    BY <1>1, <2>1 DEF IndInv, Fits, BestIsSlow, Slow
  <2> QED
    BY <2>1, <2>2, PerfIsNat DEF MeetsSoftReq
<1>2. IndInv => NoNeedlessContainer
  BY <1>1 DEF NoNeedlessContainer
<1> QED
  BY <1>2, Invariance, PTL
=============================================================================
