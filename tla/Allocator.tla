----------------------------- MODULE Allocator -----------------------------
(***************************************************************************)
(* One LCA allocator (lca/lca-allocator.go, allocator/allocator.go), the   *)
(* containers it starts, and the metrics by which it stops the unused ones *)
(* (proxy/proxy.go, lca/lca-manager.go).                                   *)
(*                                                                         *)
(* Every allocation request runs the stream handler in a goroutine of its  *)
(* own; h names the handler and the container that it may start.  Once a   *)
(* minute CullUnusedServices locks servicesMutex, asks every registered    *)
(* metrics port for the time since its service last served a request, and  *)
(* stops the services that report more than Limit, and those whose metrics *)
(* it cannot get for whatever reason.                                      *)
(*                                                                         *)
(* The map services lives in memory: a restarted allocator starts with an  *)
(* empty one, while Docker's containers go on running.                     *)
(***************************************************************************)
EXTENDS Integers, FiniteSets

CONSTANTS
  Handler,      \* allocation requests
  Port,         \* ports that GetFreePort may return for the metrics
  None,         \* no port, no container
  Limit,        \* 60: idle seconds a service is granted
  MaxRestarts   \* bound of the model: restarts of the allocator

ASSUME AllocatorAssumption ==
  /\ None \notin Handler \cup Port
  /\ Limit \in Nat
  /\ MaxRestarts \in Nat

VARIABLES
  hpc,        \* where the handlers are
  port,       \* port[h]: metricsPort chosen by h
  ctr,        \* ctr[h]: the container of h: none, boot, up, or gone
  bound,      \* bound[h]: does h's proxy listen on its metrics port?
  frozen,     \* frozen[h]: it listens, and answers nothing
  idle,       \* idle[h]: time.Now() - Tolsr, cut off above Limit
  services,   \* the allocator's map from metrics port to container
  cpc,        \* CullUnusedServices: wait, or with servicesMutex scan, cull
  todo,       \* ports that the range loop has not come to yet
  doomed,     \* servicesToCull, with the reason that is logged
  restarts,   \* restarts so far
  stopFailed  \* history: has StopContainer failed?

handlerVars == <<hpc, port>>
ctrVars     == <<ctr, bound, frozen, idle>>
cullVars    == <<cpc, todo, doomed, stopFailed>>
vars == <<handlerVars, ctrVars, services, cullVars, restarts>>

Init ==
  /\ hpc = [h \in Handler |-> "idle"]
  /\ port = [h \in Handler |-> None]
  /\ ctr = [h \in Handler |-> "none"]
  /\ bound = [h \in Handler |-> FALSE]
  /\ frozen = [h \in Handler |-> FALSE]
  /\ idle = [h \in Handler |-> 0]
  /\ services = [p \in Port |-> None]
  /\ cpc = "wait"
  /\ todo = {}
  /\ doomed = {}
  /\ restarts = 0
  /\ stopFailed = FALSE

Goto(h, place) == hpc' = [hpc EXCEPT ![h] = place]

Running(h) == ctr[h] \in {"boot", "up"}

Listeners(p) == { h \in Handler : bound[h] /\ port[h] = p }

----------------------------------------------------------------------------
(* The stream handler and cmdStartProgram.                                 *)

\* A manager's start-program command has been read.  Another command, or an
\* error of the stream, ends the handler with nothing done.  (A line without a
\* space makes it panic, which ends the process: see Restart.)
ReadRequest(h) ==
  /\ hpc[h] = "idle"
  /\ \/ Goto(h, "pull")
     \/ Goto(h, "failed")
  /\ UNCHANGED <<port, ctrVars, services, cullVars, restarts>>

PullImage(h) ==
  /\ hpc[h] = "pull"
  /\ Goto(h, "ports")
  /\ UNCHANGED <<port, ctrVars, services, cullVars, restarts>>

\* util.GetFreePort (external) returns a port on which nobody listens; it does
\* not keep the port.  Of the three ports only the metrics port is a key.
GetFreePorts(h) ==
  /\ hpc[h] = "ports"
  /\ \E p \in Port : /\ Listeners(p) = {}
                     /\ port' = [port EXCEPT ![h] = p]
  /\ Goto(h, "run")
  /\ UNCHANGED <<ctrVars, services, cullVars, restarts>>

RunContainer(h) ==
  /\ hpc[h] = "run"
  /\ ctr' = [ctr EXCEPT ![h] = "boot"]
  /\ Goto(h, "reply")
  /\ UNCHANGED <<port, bound, frozen, idle, services, cullVars, restarts>>

\* An error of PullImage, GetIPAddress, GetFreePort or RunContainer: the
\* handler writes LCAPErrAllocFail and closes the stream.
StartFails(h) ==
  /\ hpc[h] \in {"pull", "ports", "run"}
  /\ Goto(h, "failed")
  /\ UNCHANGED <<port, ctrVars, services, cullVars, restarts>>

\* The address goes to the manager before the container is registered.  write
\* returns no error here: the line fits bufio's empty buffer, and the result
\* of Flush is dropped, so that a manager that has gone is not noticed.
Reply(h) ==
  /\ hpc[h] = "reply"
  /\ Goto(h, "register")
  /\ UNCHANGED <<port, ctrVars, services, cullVars, restarts>>

\* Fault: the map is written without servicesMutex.
RegisterUnlocked(h) ==
  /\ hpc[h] = "register"
  /\ services' = [services EXCEPT ![port[h]] = h]
  /\ Goto(h, "done")
  /\ UNCHANGED <<port, ctrVars, cullVars, restarts>>

Register(h) ==
  /\ hpc[h] = "register"
  /\ cpc = "wait"
  /\ services' = [services EXCEPT ![port[h]] = h]
  /\ Goto(h, "done")
  /\ UNCHANGED <<port, ctrVars, cullVars, restarts>>

HandlerStep(h) ==
  \/ ReadRequest(h) \/ PullImage(h) \/ GetFreePorts(h) \/ RunContainer(h)
  \/ StartFails(h) \/ Reply(h) \/ Register(h)

----------------------------------------------------------------------------
(* A container: the service and its proxy in service mode.                 *)

\* main of the HTTP proxy stamps Tolsr and then starts the metrics server; if
\* the port is taken ListenAndServe's error is dropped and the proxy runs
\* without metrics.  The L4 proxy has no metrics server at all.
Boot(h) ==
  /\ ctr[h] = "boot"
  /\ ctr' = [ctr EXCEPT ![h] = "up"]
  /\ \E metrics \in BOOLEAN :
       /\ metrics => Listeners(port[h]) = {}
       /\ bound' = [bound EXCEPT ![h] = metrics]
  /\ idle' = [idle EXCEPT ![h] = 0]
  /\ UNCHANGED <<handlerVars, frozen, services, cullVars, restarts>>

\* RequestHandler serves a request and stamps Tolsr once it has written the
\* response.  A request that it cannot read or the service does not answer (resp
\* is nil, and using it panics) ends in the deferred recover; Tolsr stays.
Served(h) ==
  /\ ctr[h] = "up"
  /\ ~ frozen[h]
  /\ idle' = [idle EXCEPT ![h] = 0]
  /\ UNCHANGED <<handlerVars, ctr, bound, frozen, services, cullVars, restarts>>

\* The container is stopped or ends by itself.
Gone(h) ==
  /\ ctr' = [ctr EXCEPT ![h] = "gone"]
  /\ bound' = [bound EXCEPT ![h] = FALSE]
  /\ frozen' = [frozen EXCEPT ![h] = FALSE]
  /\ UNCHANGED idle

Exits(h) ==
  /\ Running(h)
  /\ Gone(h)
  /\ UNCHANGED <<handlerVars, services, cullVars, restarts>>

Freezes(h) ==
  /\ bound[h]
  /\ ~ frozen[h]
  /\ frozen' = [frozen EXCEPT ![h] = TRUE]
  /\ UNCHANGED <<handlerVars, ctr, bound, idle, services, cullVars, restarts>>

\* A second passes.
Tick ==
  /\ \E h \in Handler : ctr[h] = "up" /\ idle[h] <= Limit
  /\ idle' = [h \in Handler |-> IF ctr[h] = "up" /\ idle[h] <= Limit
                                THEN idle[h] + 1 ELSE idle[h]]
  /\ UNCHANGED <<handlerVars, ctr, bound, frozen, services, cullVars, restarts>>

ContainerStep(h) ==
  \/ Boot(h) \/ Served(h) \/ Exits(h) \/ Freezes(h)

----------------------------------------------------------------------------
(* CullUnusedServices, called by the ticker loop of main.                  *)

\* Fault: the loop runs over all ports, registered or not.
BeginCullAllPorts ==
  /\ cpc = "wait"
  /\ cpc' = "scan"
  /\ todo' = Port
  /\ UNCHANGED <<handlerVars, ctrVars, services, doomed, stopFailed, restarts>>

\* Lock servicesMutex and range over the map.
BeginCull ==
  /\ cpc = "wait"
  /\ cpc' = "scan"
  /\ todo' = { p \in Port : services[p] # None }
  /\ UNCHANGED <<handlerVars, ctrVars, services, doomed, stopFailed, restarts>>

\* What httpMetricsHandler of whoever listens on port p reports.
Metrics(p) == { idle[h] : h \in Listeners(p) }

\* Fault: a metrics port that gives an error is left for the next time.
VerdictsLenient(p) ==
  {"spared"} \cup { IF t > Limit THEN "overtime" ELSE "spared" : t \in Metrics(p) }

\* Fault: a service idle for just Limit is condemned.
VerdictsEarly(p) ==
  {"error"} \cup { IF t >= Limit THEN "overtime" ELSE "spared" : t \in Metrics(p) }

\* The verdicts that the loop may come to on port p.  http.Get, ReadAll or
\* ParseInt may give an error whoever listens, and http.Get does if nobody
\* does; otherwise the number reported is compared with the limit.
Verdicts(p) ==
  {"error"} \cup { IF t > Limit THEN "overtime" ELSE "spared" : t \in Metrics(p) }

\* http.Get has no timeout: a frozen listener keeps the loop, and the mutex.
Judge(p) ==
  /\ cpc = "scan"
  /\ p \in todo
  /\ \A h \in Listeners(p) : ~ frozen[h]
  /\ todo' = todo \ {p}
  /\ \E v \in Verdicts(p) :
       doomed' = IF v = "spared" THEN doomed
                 ELSE doomed \cup {[port |-> p, cid |-> services[p], why |-> v]}
  /\ UNCHANGED <<handlerVars, ctrVars, services, cpc, stopFailed, restarts>>

EndScan ==
  /\ cpc = "scan"
  /\ todo = {}
  /\ cpc' = "cull"
  /\ UNCHANGED <<handlerVars, ctrVars, services, todo, doomed, stopFailed, restarts>>

\* Fault: the entry is deleted and the container forgotten.
StopNothing(h) == UNCHANGED <<ctrVars, stopFailed>>

\* StopContainer and DeleteContainer; their errors are dropped.
StopAndDelete(h) ==
  \/ Gone(h) /\ UNCHANGED stopFailed
  \/ Running(h) /\ stopFailed' = TRUE /\ UNCHANGED ctrVars

Cull(d) ==
  /\ cpc = "cull"
  /\ services' = [services EXCEPT ![d.port] = None]
  /\ StopAndDelete(d.cid)
  /\ doomed' = doomed \ {d}
  /\ UNCHANGED <<handlerVars, cpc, todo, restarts>>

\* Fault: the function returns without unlocking servicesMutex.
EndCullLocked ==
  /\ cpc = "cull"
  /\ doomed = {}
  /\ UNCHANGED vars

EndCull ==
  /\ cpc = "cull"
  /\ doomed = {}
  /\ cpc' = "wait"
  /\ UNCHANGED <<handlerVars, ctrVars, services, todo, doomed, stopFailed, restarts>>

CullerStep ==
  \/ BeginCull \/ EndScan \/ EndCull
  \/ \E p \in Port : Judge(p)
  \/ \E d \in doomed : Cull(d)

(***************************************************************************)
(* The allocator's process ends and is started again: NewLCAAllocator      *)
(* makes an empty map, the handlers' streams are broken.                   *)
(***************************************************************************)
Restart ==
  /\ restarts < MaxRestarts
  /\ restarts' = restarts + 1
  /\ services' = [p \in Port |-> None]
  /\ hpc' = [h \in Handler |-> IF hpc[h] \in {"idle", "done"} THEN hpc[h] ELSE "failed"]
  /\ cpc' = "wait"
  /\ todo' = {}
  /\ doomed' = {}
  /\ UNCHANGED <<port, ctrVars, stopFailed>>

Next ==
  \/ \E h \in Handler : HandlerStep(h) \/ ContainerStep(h)
  \/ Tick \/ CullerStep \/ Restart

Spec == Init /\ [][Next]_vars

(***************************************************************************)
(* The culler's goroutine and its ticker run, a handler that can take a    *)
(* step takes one, and a Go mutex hands itself to a starving waiter.       *)
(* Nothing else has to happen: containers may boot for ever.               *)
(***************************************************************************)
FairSpec ==
  /\ Spec
  /\ WF_vars(BeginCull) /\ WF_vars(EndScan) /\ WF_vars(EndCull)
  /\ \A p \in Port : WF_vars(Judge(p))
  /\ WF_vars(\E d \in doomed : Cull(d))
  /\ \A h \in Handler : WF_vars(HandlerStep(h)) /\ SF_vars(Register(h))

----------------------------------------------------------------------------
(* Properties.                                                             *)

\* The variables have their types.
TypeOK ==
  /\ hpc \in [Handler -> {"idle", "pull", "ports", "run", "reply", "register",
                          "done", "failed"}]
  /\ port \in [Handler -> Port \cup {None}]
  /\ ctr \in [Handler -> {"none", "boot", "up", "gone"}]
  /\ bound \in [Handler -> BOOLEAN]
  /\ frozen \in [Handler -> BOOLEAN]
  /\ idle \in [Handler -> 0 .. Limit + 1]
  /\ services \in [Port -> Handler \cup {None}]
  /\ cpc \in {"wait", "scan", "cull"}
  /\ todo \in SUBSET Port
  /\ doomed \in SUBSET [port : Port, cid : Handler, why : {"error", "overtime"}]
  /\ restarts \in 0 .. MaxRestarts
  /\ stopFailed \in BOOLEAN

Known(h) == port[h] # None /\ services[port[h]] = h

SharesPort(h) ==
  \E g \in Handler \ {h} : port[g] = port[h] /\ ctr[g] # "none"

\* cmdStartProgram and CullUnusedServices together lose no running container:
\* one that its handler is done with is in the map, unless the allocator was
\* restarted, a stop failed, or another handler was given the same port, as
\* nobody listened on it (yet, or at all), and started a container there.
KnownOrExplained ==
  \A h \in Handler :
    Running(h) /\ hpc[h] \notin {"reply", "register"} =>
      Known(h) \/ restarts > 0 \/ stopFailed \/ SharesPort(h)

\* CullUnusedServices stops what it judged: from the verdict to the stop the
\* map holds the judged container under its port, and a container is in the
\* map under the port it was told to use only.
CullMatchesMap ==
  /\ \A d \in doomed : services[d.port] = d.cid
  /\ \A p \in Port : services[p] # None =>
       port[services[p]] = p /\ ctr[services[p]] # "none"

\* Whose idle time it is: a container that is condemned as over time and has a
\* metrics server has itself been idle for too long, although ports are reused
\* and two containers may have the same one.  One without a metrics server is
\* condemned on the record of whoever answers behind its port; that one has been
\* idle for too long, the condemned one may be in use.  (An error condemns any
\* container, used or not.)
OverTimeRecord ==
  [][\A d \in doomed' \ doomed :
       d.why = "overtime" =>
         \E h \in Handler :
           /\ bound[h] /\ port[h] = port[d.cid] /\ idle[h] > Limit
           /\ bound[d.cid] => h = d.cid]_vars

\* Unused containers do not stay: one that is registered, and either has been
\* idle for too long or has no metrics, is stopped or forgotten, or is used
\* again, unless a frozen service holds the culler up, or another container was
\* given the same port, so that it may answer for it.
UnusedCulled ==
  \A h \in Handler :
    (Running(h) /\ Known(h) /\ (idle[h] > Limit \/ ~ bound[h])) ~>
      \/ ~ Running(h) \/ ~ Known(h)
      \/ bound[h] /\ idle[h] <= Limit
      \/ SharesPort(h)
      \/ \E g \in Handler : frozen[g]

\* A started container gets registered although the culler keeps taking
\* servicesMutex, unless a frozen service makes it keep the mutex.
RegistrationCompletes ==
  \A h \in Handler :
    hpc[h] = "register" ~> hpc[h] # "register" \/ \E g \in Handler : frozen[g]
=============================================================================
