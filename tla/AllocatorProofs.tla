-------------------------- MODULE AllocatorProofs --------------------------
(***************************************************************************)
(* Proofs, for any number of handlers, ports and restarts, of the safety   *)
(* properties of Allocator: which containers the allocator knows, and whom *)
(* CullUnusedServices judges and stops.                                    *)
(*                                                                         *)
(* The argument is about two pieces of state that must agree: the map      *)
(* services, shared by the handlers and the culler under servicesMutex,    *)
(* and the ports that the handlers have given to their containers.  IndInv *)
(* adds to the properties what each handler has done at each point         *)
(* (Stages), what the culler's two lists hold in each of its phases        *)
(* (CullPhases), and that at most one proxy listens on a port (OneOnPort). *)
(***************************************************************************)
EXTENDS Allocator, TLAPS

\* A handler has no container before RunContainer; one that is past it has a
\* port and a container; one that has failed has no container, unless the
\* allocator was restarted in the middle.
Stages ==
  \A h \in Handler :
    /\ hpc[h] \in {"idle", "pull", "ports", "run"} => ctr[h] = "none"
    /\ hpc[h] = "failed" => ctr[h] = "none" \/ restarts > 0
    /\ hpc[h] \in {"run", "reply", "register", "done"} => port[h] # None
    /\ hpc[h] \in {"reply", "register", "done"} => ctr[h] # "none"

\* While the mutex is free both lists are empty; ports still to be judged are
\* in the map, and a port is judged once.
CullPhases ==
  /\ cpc = "wait" => doomed = {}
  /\ cpc # "scan" => todo = {}
  /\ \A p \in todo : services[p] # None
  /\ \A d \in doomed : d.port \notin todo
  /\ \A d, e \in doomed : d.port = e.port => d = e

Doomed == [port : Port, cid : Handler, why : {"error", "overtime"}]

\* Only a proxy that is up listens, and no two on the same port.
OneOnPort ==
  /\ \A h \in Handler : bound[h] => ctr[h] = "up"
  /\ \A g, h \in Handler : bound[g] /\ bound[h] /\ port[g] = port[h] => g = h

IndInv ==
  /\ TypeOK
  /\ Stages
  /\ CullPhases
  /\ OneOnPort
  /\ CullMatchesMap
  /\ KnownOrExplained

USE AllocatorAssumption

LEMMA InitInd == Init => IndInv
<1> SUFFICES ASSUME Init PROVE IndInv
  OBVIOUS
<1>1. TypeOK
  <2>1. 0 \in 0 .. Limit + 1 /\ 0 \in 0 .. MaxRestarts
    OBVIOUS
  <2>2. idle \in [Handler -> 0 .. Limit + 1] /\ restarts \in 0 .. MaxRestarts
    BY <2>1 DEF Init
  <2>3. bound \in [Handler -> BOOLEAN] /\ frozen \in [Handler -> BOOLEAN]
    BY Zenon DEF Init
  <2> QED
    BY <2>2, <2>3 DEF Init, TypeOK
<1>2. Stages
  BY DEF Init, Stages
<1>3. CullPhases /\ OneOnPort
  BY DEF Init, CullPhases, OneOnPort
<1>4. CullMatchesMap
  BY DEF Init, CullMatchesMap
<1>5. KnownOrExplained
  BY DEF Init, KnownOrExplained, Running
<1> QED
  BY <1>1, <1>2, <1>3, <1>4, <1>5 DEF IndInv

----------------------------------------------------------------------------
(* The handlers.                                                           *)

\* A handler's step that touches neither ports nor containers nor the map.
LEMMA MoveOnInd ==
  ASSUME IndInv, NEW h \in Handler,
         ReadRequest(h) \/ PullImage(h) \/ StartFails(h) \/ Reply(h)
  PROVE  IndInv'
<1>1. UNCHANGED <<port, ctrVars, services, cullVars, restarts>>
  BY DEF ReadRequest, PullImage, StartFails, Reply
<1>2. PICK x : /\ hpc' = [hpc EXCEPT ![h] = x]
               /\ \/ hpc[h] = "idle" /\ x \in {"pull", "failed"}
                  \/ hpc[h] = "pull" /\ x = "ports"
                  \/ hpc[h] \in {"pull", "ports", "run"} /\ x = "failed"
                  \/ hpc[h] = "reply" /\ x = "register"
  BY DEF ReadRequest, PullImage, StartFails, Reply, Goto
<1> USE <1>1 DEF ctrVars, cullVars
<1>3. TypeOK'
  BY <1>2 DEF IndInv, TypeOK
<1>4. Stages'
  BY <1>2 DEF IndInv, TypeOK, Stages
<1>5. KnownOrExplained'
  BY <1>2 DEF IndInv, TypeOK, KnownOrExplained, Running, Known, SharesPort
<1> QED
  BY <1>3, <1>4, <1>5 DEF IndInv, CullPhases, OneOnPort, CullMatchesMap

\* The port is new only to a handler without a container.
LEMMA GetFreePortsInd ==
  ASSUME IndInv, NEW h \in Handler, GetFreePorts(h)
  PROVE  IndInv'
<1>1. PICK p \in Port : port' = [port EXCEPT ![h] = p]
  BY DEF GetFreePorts
<1>2. /\ hpc[h] = "ports" /\ hpc' = [hpc EXCEPT ![h] = "run"]
      /\ ctr[h] = "none" /\ ~ bound[h]
      /\ UNCHANGED <<ctrVars, services, cullVars, restarts>>
  BY DEF GetFreePorts, Goto, IndInv, Stages, OneOnPort
<1> USE <1>1, <1>2 DEF ctrVars, cullVars
<1>3. TypeOK'
  BY DEF IndInv, TypeOK
<1>4. Stages'
  BY DEF IndInv, TypeOK, Stages
<1>5. OneOnPort'
  BY DEF IndInv, TypeOK, OneOnPort
<1>6. CullMatchesMap'
  BY DEF IndInv, TypeOK, CullMatchesMap
<1>7. KnownOrExplained'
  BY DEF IndInv, TypeOK, KnownOrExplained, Running, Known, SharesPort
<1> QED
  BY <1>3, <1>4, <1>5, <1>6, <1>7 DEF IndInv, CullPhases

LEMMA RunContainerInd ==
  ASSUME IndInv, NEW h \in Handler, RunContainer(h)
  PROVE  IndInv'
<1>1. /\ hpc[h] = "run" /\ hpc' = [hpc EXCEPT ![h] = "reply"]
      /\ ctr[h] = "none" /\ ctr' = [ctr EXCEPT ![h] = "boot"]
      /\ UNCHANGED <<port, bound, frozen, idle, services, cullVars, restarts>>
  BY DEF RunContainer, Goto, IndInv, Stages
<1> USE <1>1 DEF cullVars
<1>2. TypeOK'
  BY DEF IndInv, TypeOK
<1>3. Stages'
  BY DEF IndInv, TypeOK, Stages
<1>4. OneOnPort'
  BY DEF IndInv, TypeOK, OneOnPort
<1>5. CullMatchesMap'
  BY DEF IndInv, TypeOK, CullMatchesMap
<1>6. KnownOrExplained'
  BY DEF IndInv, TypeOK, KnownOrExplained, Running, Known, SharesPort
<1> QED
  BY <1>2, <1>3, <1>4, <1>5, <1>6 DEF IndInv, CullPhases

\* Whoever loses its place in the map shares its port with h, which has a
\* container.
LEMMA RegisterInd ==
  ASSUME IndInv, NEW h \in Handler, Register(h)
  PROVE  IndInv'
<1>1. /\ hpc[h] = "register" /\ hpc' = [hpc EXCEPT ![h] = "done"]
      /\ services' = [services EXCEPT ![port[h]] = h]
      /\ port[h] \in Port /\ ctr[h] # "none"
      /\ cpc = "wait" /\ doomed = {} /\ todo = {}
      /\ UNCHANGED <<port, ctrVars, cullVars, restarts>>
  BY DEF Register, Goto, IndInv, TypeOK, Stages, CullPhases
<1> USE <1>1 DEF ctrVars, cullVars
<1>2. TypeOK'
  BY DEF IndInv, TypeOK
<1>3. Stages'
  BY DEF IndInv, TypeOK, Stages
<1>4. CullMatchesMap'
  BY DEF IndInv, TypeOK, CullMatchesMap
<1>5. KnownOrExplained'
  BY DEF IndInv, TypeOK, KnownOrExplained, Running, Known, SharesPort
<1> QED
  BY <1>2, <1>3, <1>4, <1>5 DEF IndInv, CullPhases, OneOnPort

----------------------------------------------------------------------------
(* The containers.                                                         *)

\* A proxy gets its port only if nobody has it.
LEMMA BootInd ==
  ASSUME IndInv, NEW h \in Handler, Boot(h)
  PROVE  IndInv'
<1>1. PICK metrics \in BOOLEAN :
        /\ metrics => Listeners(port[h]) = {}
        /\ bound' = [bound EXCEPT ![h] = metrics]
  BY DEF Boot
<1>2. /\ ctr[h] = "boot" /\ ctr' = [ctr EXCEPT ![h] = "up"]
      /\ idle' = [idle EXCEPT ![h] = 0]
      /\ UNCHANGED <<handlerVars, frozen, services, cullVars, restarts>>
  BY DEF Boot
<1> USE <1>1, <1>2 DEF handlerVars, cullVars
<1>3. TypeOK'
  BY DEF IndInv, TypeOK
<1>4. Stages'
  BY DEF IndInv, TypeOK, Stages
<1>5. OneOnPort'
  BY DEF IndInv, TypeOK, OneOnPort, Listeners
<1>6. CullMatchesMap'
  BY DEF IndInv, TypeOK, CullMatchesMap
<1>7. KnownOrExplained'
  BY DEF IndInv, TypeOK, KnownOrExplained, Running, Known, SharesPort
<1> QED
  BY <1>3, <1>4, <1>5, <1>6, <1>7 DEF IndInv, CullPhases

\* Serving, freezing and the passing of time leave ports and containers alone.
LEMMA RunningOnInd ==
  ASSUME IndInv, (\E h \in Handler : Served(h) \/ Freezes(h)) \/ Tick
  PROVE  IndInv'
<1>1. /\ UNCHANGED <<handlerVars, ctr, bound, services, cullVars, restarts>>
      /\ frozen' \in [Handler -> BOOLEAN]
      /\ idle' \in [Handler -> 0 .. Limit + 1]
  <2>1. frozen \in [Handler -> BOOLEAN] /\ idle \in [Handler -> 0 .. Limit + 1]
    BY DEF IndInv, TypeOK
  <2>2. ASSUME NEW h \in Handler, Served(h) PROVE <1>1!:
    BY <2>1, <2>2 DEF Served
  <2>3. ASSUME NEW h \in Handler, Freezes(h) PROVE <1>1!:
    <3>1. [frozen EXCEPT ![h] = TRUE] \in [Handler -> BOOLEAN]
      BY <2>1, Zenon
    <3> QED
      BY <2>1, <2>3, <3>1 DEF Freezes
  <2>4. ASSUME Tick PROVE <1>1!:
    <3>1. \A h \in Handler : idle'[h] \in 0 .. Limit + 1
      BY <2>4 DEF Tick, IndInv, TypeOK
    <3> QED
      BY <2>4, <3>1 DEF Tick, IndInv, TypeOK
  <2> QED
    BY <2>2, <2>4, <2>3
<1> USE <1>1 DEF handlerVars, cullVars
<1>2. TypeOK'
  BY DEF IndInv, TypeOK
<1> QED
  BY <1>2 DEF IndInv, Stages, CullPhases, OneOnPort, CullMatchesMap,
     KnownOrExplained, Running, Known, SharesPort

LEMMA ExitsInd ==
  ASSUME IndInv, NEW h \in Handler, Exits(h)
  PROVE  IndInv'
<1>1. /\ Running(h)
      /\ ctr' = [ctr EXCEPT ![h] = "gone"]
      /\ bound' = [bound EXCEPT ![h] = FALSE]
      /\ frozen' = [frozen EXCEPT ![h] = FALSE]
      /\ UNCHANGED <<idle, handlerVars, services, cullVars, restarts>>
  BY DEF Exits, Gone
<1> USE <1>1 DEF handlerVars, cullVars
<1>2. TypeOK'
  BY DEF IndInv, TypeOK
<1>3. Stages'
  BY DEF IndInv, TypeOK, Stages, Running
<1>4. OneOnPort'
  BY DEF IndInv, TypeOK, OneOnPort
<1>5. CullMatchesMap'
  BY DEF IndInv, TypeOK, CullMatchesMap
<1>6. KnownOrExplained'
  BY DEF IndInv, TypeOK, KnownOrExplained, Running, Known, SharesPort
<1> QED
  BY <1>2, <1>3, <1>4, <1>5, <1>6 DEF IndInv, CullPhases

----------------------------------------------------------------------------
(* The culler.                                                             *)

LEMMA CullLoopInd ==
  ASSUME IndInv, BeginCull \/ EndScan \/ EndCull
  PROVE  IndInv'
<1>1. /\ UNCHANGED <<handlerVars, ctrVars, services, doomed, stopFailed, restarts>>
      /\ \/ cpc = "wait" /\ cpc' = "scan"
            /\ todo' = { p \in Port : services[p] # None }
         \/ cpc = "scan" /\ todo = {} /\ cpc' = "cull" /\ todo' = todo
         \/ cpc = "cull" /\ doomed = {} /\ cpc' = "wait" /\ todo' = todo
  BY DEF BeginCull, EndScan, EndCull
<1> USE <1>1 DEF handlerVars, ctrVars
<1>2. TypeOK'
  BY DEF IndInv, TypeOK
<1>3. CullPhases'
  BY DEF IndInv, CullPhases
<1> QED
  BY <1>2, <1>3 DEF IndInv, Stages, OneOnPort, CullMatchesMap,
     KnownOrExplained, Running, Known, SharesPort

LEMMA JudgeInd ==
  ASSUME IndInv, NEW p \in Port, Judge(p)
  PROVE  IndInv'
<1>0. PICK v \in Verdicts(p) :
        doomed' = IF v = "spared" THEN doomed
                  ELSE doomed \cup {[port |-> p, cid |-> services[p], why |-> v]}
  BY DEF Judge
<1> DEFINE d == [port |-> p, cid |-> services[p], why |-> v]
<1>1. /\ cpc = "scan" /\ p \in todo
      /\ todo' = todo \ {p}
      /\ UNCHANGED <<handlerVars, ctrVars, services, cpc, stopFailed, restarts>>
  BY DEF Judge
<1>2. doomed' = doomed \/ (v # "spared" /\ doomed' = doomed \cup {d})
  BY <1>0
<1>3. /\ d.port = p /\ d.cid = services[p]
      /\ v # "spared" => d \in Doomed
  BY <1>1 DEF IndInv, TypeOK, CullPhases, Verdicts, Doomed
<1> HIDE DEF d
<1> USE <1>1, <1>2, <1>3 DEF handlerVars, ctrVars
<1>4. TypeOK'
  BY DEF IndInv, TypeOK, Doomed
<1>5. CullPhases'
  <2>1. \A e \in doomed : e.port # p
    BY DEF IndInv, CullPhases
  <2>2. /\ cpc' = "scan"
        /\ \A q \in todo' : services'[q] # None
    BY DEF IndInv, CullPhases
  <2>3. \A e \in doomed' : e.port \notin todo'
    BY DEF IndInv, CullPhases
  <2>4. \A e, f \in doomed' : e.port = f.port => e = f
    BY <2>1 DEF IndInv, CullPhases
  <2> QED
    BY <2>2, <2>3, <2>4 DEF CullPhases
<1>6. CullMatchesMap'
  BY DEF IndInv, CullMatchesMap
<1> QED
  BY <1>4, <1>5, <1>6 DEF IndInv, Stages, OneOnPort,
     KnownOrExplained, Running, Known, SharesPort

\* The container that is stopped is the one that loses its place in the map.
LEMMA CullInd ==
  ASSUME IndInv, NEW d \in doomed, Cull(d)
  PROVE  IndInv'
<1>1. /\ cpc = "cull" /\ todo = {}
      /\ services' = [services EXCEPT ![d.port] = None]
      /\ doomed' = doomed \ {d}
      /\ d \in Doomed /\ d.port \in Port /\ d.cid \in Handler
      /\ services[d.port] = d.cid /\ port[d.cid] = d.port
      /\ ctr[d.cid] # "none"
      /\ UNCHANGED <<handlerVars, cpc, todo, restarts>>
  BY DEF Cull, IndInv, TypeOK, CullPhases, CullMatchesMap, Doomed
<1>2. \/ /\ ctr' = [ctr EXCEPT ![d.cid] = "gone"]
         /\ bound' = [bound EXCEPT ![d.cid] = FALSE]
         /\ frozen' = [frozen EXCEPT ![d.cid] = FALSE]
         /\ UNCHANGED <<idle, stopFailed>>
      \/ stopFailed' = TRUE /\ UNCHANGED <<ctr, bound, frozen, idle>>
  BY DEF Cull, StopAndDelete, Gone, ctrVars
<1> USE <1>1 DEF handlerVars
<1>3. TypeOK'
  BY <1>2 DEF IndInv, TypeOK
<1>4. Stages'
  BY <1>2 DEF IndInv, TypeOK, Stages
<1>5. CullPhases'
  BY DEF IndInv, CullPhases
<1>6. OneOnPort'
  BY <1>2 DEF IndInv, TypeOK, OneOnPort
<1>7. CullMatchesMap'
  <2>1. ASSUME NEW e \in doomed' PROVE services'[e.port] = e.cid
    <3>1. e \in doomed /\ e.port \in Port /\ e # d /\ services[e.port] = e.cid
      BY DEF IndInv, TypeOK, CullMatchesMap
    <3>2. e.port # d.port
      BY <3>1 DEF IndInv, CullPhases
    <3> QED
      BY <3>1, <3>2 DEF IndInv, TypeOK
  <2>2. ASSUME NEW p \in Port, services'[p] # None
        PROVE  port'[services'[p]] = p /\ ctr'[services'[p]] # "none"
    BY <1>2, <2>2 DEF IndInv, TypeOK, CullMatchesMap
  <2> QED
    BY <2>1, <2>2 DEF CullMatchesMap
<1>8. KnownOrExplained'
  BY <1>2 DEF IndInv, TypeOK, KnownOrExplained, Running, Known, SharesPort
<1> QED
  BY <1>3, <1>4, <1>5, <1>6, <1>7, <1>8 DEF IndInv

LEMMA RestartInd ==
  ASSUME IndInv, Restart
  PROVE  IndInv'
<1>1. /\ restarts \in Nat /\ restarts' = restarts + 1 /\ restarts' > 0
      /\ restarts' \in 0 .. MaxRestarts
      /\ services' = [p \in Port |-> None]
      /\ hpc' = [h \in Handler |->
                   IF hpc[h] \in {"idle", "done"} THEN hpc[h] ELSE "failed"]
      /\ cpc' = "wait" /\ todo' = {} /\ doomed' = {}
      /\ UNCHANGED <<port, ctrVars, stopFailed>>
  BY DEF Restart, IndInv, TypeOK
<1> USE <1>1 DEF ctrVars
<1>2. TypeOK'
  BY DEF IndInv, TypeOK
<1>3. Stages'
  BY DEF IndInv, TypeOK, Stages
<1> QED
  BY <1>2, <1>3 DEF IndInv, CullPhases, OneOnPort, CullMatchesMap, KnownOrExplained

----------------------------------------------------------------------------
LEMMA NextInd == IndInv /\ [Next]_vars => IndInv'
<1> SUFFICES ASSUME IndInv, [Next]_vars PROVE IndInv'
  OBVIOUS
<1>1. CASE UNCHANGED vars
  BY <1>1 DEF vars, handlerVars, ctrVars, cullVars, IndInv, TypeOK, Stages,
     CullPhases, OneOnPort, CullMatchesMap, KnownOrExplained, Running, Known,
     SharesPort
<1>2. ASSUME NEW h \in Handler, HandlerStep(h) PROVE IndInv'
  BY <1>2, MoveOnInd, GetFreePortsInd, RunContainerInd, RegisterInd DEF HandlerStep
<1>3. ASSUME NEW h \in Handler, ContainerStep(h) PROVE IndInv'
  BY <1>3, BootInd, RunningOnInd, ExitsInd DEF ContainerStep
<1>4. CASE Tick
  BY <1>4, RunningOnInd
<1>5. CASE CullerStep
  BY <1>5, CullLoopInd, JudgeInd, CullInd DEF CullerStep
<1>6. CASE Restart
  BY <1>6, RestartInd
<1> QED
  BY <1>1, <1>2, <1>3, <1>4, <1>5, <1>6 DEF Next

LEMMA Invariance == Spec => []IndInv
BY InitInd, NextInd, PTL DEF Spec

----------------------------------------------------------------------------
(* What the allocator promises.                                            *)

\* In every state of the stream handlers, the containers and the culler the
\* variables of the allocator have their types.
THEOREM AllocatorTypeCorrect == Spec => []TypeOK
BY Invariance, PTL DEF IndInv

\* cmdStartProgram and CullUnusedServices lose no running container, for any
\* number of concurrent requests: it is in the map once its handler is done,
\* unless a restart, a failed stop or a shared port explains why not.
THEOREM NoContainerLost == Spec => []KnownOrExplained
BY Invariance, PTL DEF IndInv

\* CullUnusedServices stops the container it judged: between the verdict and
\* the stop no registration changes the entry of a doomed port, and an entry
\* holds a container that was told to use that very port.
THEOREM CullStopsTheJudged == Spec => []CullMatchesMap
BY Invariance, PTL DEF IndInv

\* The record is that of the one listener behind the port: of the container
\* itself, if it listens.
LEMMA VerdictFromListener ==
  ASSUME IndInv, [Next]_vars, NEW d \in doomed' \ doomed, d.why = "overtime"
  PROVE  \E h \in Handler :
           /\ bound[h] /\ port[h] = port[d.cid] /\ idle[h] > Limit
           /\ bound[d.cid] => h = d.cid
<1>1. PICK p \in Port : Judge(p)
  BY DEF Next, HandlerStep, ContainerStep, CullerStep, ReadRequest, PullImage,
     GetFreePorts, RunContainer, StartFails, Reply, Register, Boot, Served,
     Exits, Freezes, Tick, BeginCull, EndScan, EndCull, Cull, Restart, cullVars,
     vars
<1>2. PICK v \in Verdicts(p) : /\ d = [port |-> p, cid |-> services[p], why |-> v]
                               /\ p \in todo
  BY <1>1 DEF Judge
<1>3. v = "overtime"
  BY <1>2
<1>4. PICK t \in Metrics(p) : t > Limit
  BY <1>3 DEF Verdicts
<1>5. PICK h \in Handler : bound[h] /\ port[h] = p /\ idle[h] > Limit
  BY <1>4 DEF Metrics, Listeners
<1>6. d.cid \in Handler /\ port[d.cid] = p
  BY <1>2 DEF IndInv, TypeOK, CullPhases, CullMatchesMap
<1>7. bound[d.cid] => h = d.cid
  BY <1>5, <1>6 DEF IndInv, OneOnPort
<1> QED
  BY <1>5, <1>6, <1>7

\* CullUnusedServices condemns a container as over time on the record of one
\* that has been idle for too long, and of no other container than itself if it
\* has a metrics server, for any number of containers, requests and ports and
\* although two containers may have been given the same port.
THEOREM OverTimeJustified == Spec => OverTimeRecord
<1>1. IndInv /\ [Next]_vars =>
        [\A d \in doomed' \ doomed :
           d.why = "overtime" =>
             \E h \in Handler :
               /\ bound[h] /\ port[h] = port[d.cid] /\ idle[h] > Limit
               /\ bound[d.cid] => h = d.cid]_vars
  BY VerdictFromListener
<1> QED
  BY <1>1, Invariance, PTL DEF Spec, OverTimeRecord
=============================================================================
