# TLA+ models of service-manager

This directory models the parts of service-manager whose correctness depends on
interleavings, failures and long sequences of calls, checks them with TLC and
proves the most important properties with TLAPS. `PROJECT.json` holds the
machine-readable inventory: components, runs, mutants, the map from definitions
to source lines, findings, hazards and theorems.

## The system

A *proxy* runs beside every service instance and every client. It finds an
instance of a service (or has one allocated), remembers it, and forwards HTTP
requests (`proxy/`) or raw TCP and UDP traffic (`l4-proxy/`) to the proxy of that
instance over libp2p streams. An *allocator* on every server starts instances in
containers and stops the unused ones.

| Part | State | Operations | Interacts with |
|---|---|---|---|
| Peer cache, `pcache/pcache.go` | three levels of entries with a reliability count, one mutex | `AddPeer`, `RemovePeer`, `GetPeer` by requests; `updateCache` every second | registry cache (requirements), libp2p ping |
| Registry cache, `rcache/registry-cache.go` | map from service name to info and expiry, one RW mutex | `Get`, `Add`, `Delete`, `GetOrRequestService` | registry service (external) |
| Chain setup, `l4-proxy/chain-setup.go` | the position of `setupChain` and of each hop's handler, the streams between them | `setupChain`, `chainSetupHandler`, `connQualMonitor` | service resolution, peer cache, the next proxy's handler |
| UDP front end, `l4-proxy/udp-proxy.go`, `l4-proxy.go` | `serv2Fwd`; per worker the client-to-stream map, its mutex, `dstComm` | `requestHandler`, `openUDPProxy`, `udpServiceProxy`, its ClosedStream callback, the reverse forwarders | chain setup |
| TCP front end, `l4-proxy/tcp-proxy.go`, `l4-proxy.go` | `serv2Fwd`, one goroutine per client | `openTCPProxy`, `tcpServiceProxy`, `tcpFwdConnToServ` | chain setup |
| Data forwarders, `tcp-proxy.go`, `udp-proxy.go`, `chain-setup.go` | two or three goroutines per hop | the End and Mid handlers, `*FwdStream2Conn`, `*FwdConn2Stream`, `fwdStream2Stream` | services, streams of the neighbours |
| Service resolution, `l4-proxy.go`, `proxy.go` | local to each request | `findOrAllocate`, `runRequest` | both caches, LCA manager |
| LCA manager, `lca/lca-manager.go` | time of the last serviced request | `FindService`, `AllocService`, `AllocBetterService`, `Request`, `RequestHandler` | allocators, other managers |
| LCA allocator, `lca/lca-allocator.go`, `allocator/` | map from metrics port to container, one mutex | `cmdStartProgram`, `CullUnusedServices` | Docker, the services' metrics |
| Programs and configuration | flags | `main` of the three programs, `conf` | |

What makes each part correct, and what is hard about it:

- **Peer cache.** An update removes and moves entries in slices it is iterating
  over. No entry may be skipped, lost or duplicated, counts may not wrap, and what
  requests see between updates must be sorted into levels by reliability. Dead
  peers must leave, good ones must rise, and healthy ones must stay.
- **Registry cache.** Lookups are not serialised, so an older answer can be written
  over a newer one, and expiry is tested after the lock is released. What is
  returned may be old by the TTL, not by more.
- **Chain setup.** Every hop works independently from the same specification; any
  call may fail at any hop; a hop that fails just returns. The acknowledgement that
  arrives at the source has to mean something, messages on a stream have to come in
  the expected order, and waiting has to end.
- **UDP front end.** One worker serves all clients, replaces broken chains in the
  middle of a write, and shares its map with a callback of the network. Clients may
  not be mixed up, chains not leaked, and addresses that were handed out should work.
- **Service resolution.** Concurrent requests look for an instance, have one
  allocated, wait for it and retry, while instances boot and die, discovery misses
  some and allocators refuse or lose their answers. What is handed out must have been
  seen alive, errors and new containers must have a reason, and requests must end.
- **LCA allocator.** Ports are chosen and not reserved, the container is registered
  after the manager has its answer, culling judges first and stops later, and the map
  is lost with the process. No container may be forgotten, none with metrics of its own
  be found idle on another's record, and a registration must get through.
- **Data forwarders.** Two or three goroutines per hop share streams and connections,
  and each closes two of them when it ends. Replies must have passed all services in
  order, the end of one goroutine must end the chain although the others are blocked
  in a read or a write, and bounded buffers must not block one another.

## Modules

`PeerCache` models the cache for one proxy. A request's call holds `cache.mux`
throughout and is one step; `updateCache` blocks on a registry lookup and a ping
per entry and is one step per loop iteration (`BeginUpdate`; `PingEvict`,
`PingKeep`, `PingNextLevel`; `DemoteEntry`, `DemoteSkip`, `DemoteDone`;
`PromoteEntry`, `DropEntry`, `MoveSkip`, `MoveDone`; `FinishUpdate`). `levels` is
`cache.Levels`, `l` and `i` are the loop variables, `snap` remembers the cache at
the start of the second pass. `RemovePeer` is a step whether it finds an entry or
not; the history variable `gone` holds the peers whose last `RemovePeer` call could
reach all of their entries and that were not added since. A performance indicator is its round-trip time. A
failed registry lookup yields requirements of 0, as the zero `ServiceInfo` does.
`GetPeer` changes nothing and is an operator that the properties use.

`RegistryCache` has one step per critical section of a caller: the locked read, the
test of the expiry after the unlock, the registry's answer, the computation of the
expiry before the lock, the locked write. The registry is external: a sequence of
publication times per service. Time is a counter; an answer takes at most
`MaxLatency`.

`ChainSetup` models one chain. Hop 0 is `setupChain`, hop *k* the handler started
by the stream of hop *k* - 1; link *k* is that stream with one ordered queue per
direction. Messages are their types: the request's content is the specification,
the same everywhere, and the text in an ACK is for debugging. `Scan` is the token
loop of `chainSetupHandler` as a fold over the specification. Every early return is
the state `returned`, in which the hop's streams stay open, as in the code, and
`setupChain`'s error is `failed`. A monitor's `RemovePeer` call belongs to
`PeerCache` and `Resolver`; here it fires and closes a connection, which resets its
stream and loses what is under way. Resolution and stream opening either succeed or
fail. Data is here only because it follows the setup messages on the same streams.

`ChainReady` is the abstract specification of a setup as the source sees it: which
services of the specification are ready, and whether `setupChain` is pending, has
established the chain or has failed. `ChainSetup` instantiates it as `Ready` (the
services of the hops that have sent an ACK are ready, the outcome is read off the
source's position), and `ReadySpec` says that it implements it.

`UdpProxy` models one chain specification at the source: concurrent HTTP requests,
the sockets they open (named after the request), the worker of each socket, its
callback, and the streams. `setupChain` is abstracted to the three outcomes that
`ChainSetup` shows it has: a stream, an error, no return. The streams of a worker
keep the protocol ID of chain setup; only streams of chains that pass through the
proxy get that of UDP tunnels, and these are stream 0 of the callback. The delete
without the mutex may abort the process if the callback ranges over the map.

`PeerStore` is the abstract specification of the peer cache: which peers are known
for which service, and whether an update holds the mutex. `PeerCache` instantiates
it as `Store` (a peer is present if some level has an entry, an update is running if
`pc` is not `idle`), and `StoreSpec` says that the cache implements it. `Resolver`
uses `PeerStore` for its cache, so that what is checked there rests on the promise
that was checked here.

`Resolver` composes concurrent requests of the HTTP proxy (`runRequest`) and of
chain setup (`findOrAllocate`) for one service with the peer cache, the network of
instances and the allocators. The two functions have the same loop; they differ in
what follows, `LCAManager.Request` or a chain. A request's steps end where it blocks:
the registry lookup, `GetPeer`, `FindService`, each allocator asked in the order of
its round-trip time, each backoff attempt, `AddPeer`, the request itself. `Finds`
returns any instance that is up, since discovery and pings may miss better ones.
`steady[r]` is a history variable: the instances that have been up since `r` began
and that no discovery of `r` has missed; the properties that an error or a new
container was justified are about it. The peer that `AllocService` returns is the
allocator's, and the code drops it, as `AllocatedDropped` does. A failed HTTP request
and a monitor start a goroutine that calls `RemovePeer`. The eviction of cached
peers is part of `UpdateEnds`: nobody can look before.

`Allocator` is one allocator. A handler's steps end at each call of Docker and at the
mutex; the container it starts has the handler's name. `port` is the metrics port,
the key of `services`; the other two ports are not kept. A container boots into the
HTTP proxy, whose metrics server may lose the race for its port, or into the L4
proxy, which has none. The culler locks, judges one port per step, ends its loop,
and stops one service per step with the mutex held. `Verdicts` is the loop's body:
`http.Get`, `ReadAll` or `ParseInt` may give an error whoever listens, and always does
if nobody does, which condemns the container as "error"; a reported time above the
limit condemns it as "overtime". `Restart` ends the process, by
whatever cause, and empties the map. `idle` counts seconds since the last serviced
request, cut off above the limit.

`ChainForward` is an established chain with a TCP client: the dial of each hop's
service, the goroutines of all hops, and bounded buffers between them. Hops before
their dial have sent their ACKs already. A goroutine reads (`Reads`) and writes
(`Writes`) in steps of their own and has the message in `hand` between them; while
the stream or connection it writes to is full it is blocked there, and only an error
of that write frees it, not one of its source (`Fails`). A forwarder closes its endpoints in the
order of its deferred calls, in two steps; a reset reaches the other end of a stream
later, and unread data is lost. A message carries its number and the services it
has passed, and a service answers each message with one. TCP and UDP forwarders
differ in nothing else but that a datagram may be lost, under way or because the
service's socket is full, and that its writer never waits. A connection may be lost at
any time, which covers a monitor's `Conn().Close()` on behalf of another chain.

The modules `MC*` give the constants that a `.cfg` cannot express. The modules
`*Proofs` hold the theorems, one per component and `PeerStoreProofs` for what
requests see of the peer cache. Definitions marked *Fault* are plausible mistakes in
the code; replacing the definition after them by the fault must violate a property,
which shows that the property depends on the code being right.

## Runs

| Run | Shows |
|---|---|
| `peercache` | `LevelBands`, `PingPassComplete`, `MovesConserve`, `NoChainDrop`, `GetPeerComplete`, `RemovedPeerGone` with arbitrary ping results and failing lookups; `DeadPeersEvicted`, `GoodPeersPromoted`; the cache implements `PeerStore` (`StoreSpec`) |
| `registrycache` | `BoundedStaleness` |
| `chainsetup` | `AckFromWholeChain`, `PathFollowsSpec`, `EveryServiceAcked`, `NoUnexpectedMessage`, `NotAllWaiting`, `SetupEndsOrSomeoneReturned`, `SourceMonitorUnblocks`, with all failures and data; the setup implements `ChainReady` (`ReadySpec`) |
| `udpproxy_safety` | `ClientsApart`, `OpenChainsInUse`, `MutexReleased` |
| `resolver` | `ChosenWereUp`, `NotFoundExplained`, `NoNeedlessContainer`, `RequestsEnd` |
| `allocator` | `KnownOrExplained`, `CullMatchesMap`, `OverTimeRecord`, `UnusedCulled`, `RegistrationCompletes` |
| `chainforward` | `RepliesInOrder`, `EndingSpreads`, `EverythingAnswered` |
| `peercache_registry` | violated: a registry error evicts a healthy peer |
| `chainsetup_monitor` | violated: a middle hop's monitor does not free it from its wait |
| `udpproxy_address` | violated: requests are answered with the address of a closed socket |
| `resolver_quality` | violated: a request gets an instance slower than the soft requirement, also after a faster one was allocated for it |
| `chainforward_blocked` | violated: a goroutine blocked in a write outlives the other goroutines of its hop |

The five violated properties each state what a comment or the L4 README says; the
quotations are under `findings`. Things the passing properties have to allow for,
and a reader of the code should know:

- `RemovedPeerGone` promises the removal only if the cache has at most one entry of
  the peer, among the first `rmax` of level 0 or 1. A call that looks no further
  misses the others, and requests that miss together add a peer twice, of which one
  entry is removed: such a peer is still handed out, until an update
  finds it dead (`DeadPeersEvicted`).
- `RequestsEnd` excepts a request that waits for ever for one answer: neither the read
  of the allocator's answer (lca-manager.go:57) nor that of the service's (225) has a
  timeout.
- `OverTimeRecord` is about containers condemned as over time. If two containers have
  one port, the one whose metrics server lost the race for it is condemned on the
  other's record, in use or not. An error on the metrics port condemns any container.
- `NoNeedlessContainer` is about the requests that ask for a container. A container
  whose allocator's answer is lost, and those of further rounds, are not excluded.
- `KnownOrExplained` has three exceptions, all of which happen: a restart, a
  `StopContainer` that fails, and a handler that was given the same port. In each of
  them a container runs that nobody will ever stop.
- `RegistrationCompletes` and `UnusedCulled` except frozen services: `http.Get` has
  no timeout and is called with the mutex held, so one service that accepts and does
  not answer stops culling and all registrations.
- `UnusedCulled` holds of containers without metrics too. Those of the L4 proxy never
  have metrics, and are culled in use.
- `EndingSpreads` is about positions whose goroutines were started, and excepts those
  that wait for a hop that failed to dial its service. Such a hop returns after its ACK
  with its streams open and nobody to read them; a goroutine that writes to it blocks
  for ever once the stream is full, whatever the others of its position close
  (`chainforward_blocked`), and others may come to wait for it. A source whose setup
  fails leaves the client's connection open.
- `RepliesInOrder` allows the last replies to be missing: forwarders end with
  `Reset`, which drops what is under way.
- In `UdpProxy` the callback's test (udp-proxy.go:141) never matches a stream of the
  map, because streams opened by `setupChain` keep the protocol ID of chain setup:
  the callback removes nothing, and a closed stream's entry stays until its client
  sends again.

### Bounds

- *Peer cache.* Three peers, of which one always answers well, one never and one as it
  likes, one service, three entries: duplicates, swaps with the last entry and
  moves between all levels happen. `RemovePeer` looks at two entries per level
  instead of three, so that it misses some. The thresholds 50, 100, 10, 90, 10
  are scaled to 2, 4, 2, 3, 1, which keeps their order and each transition between
  bands, including a decrement below zero without its guard. Round-trip times 0 to
  3 are none, good, between the requirements, and too slow.
- *Registry cache.* Two callers, one service (entries of different services do not
  touch), three versions, a TTL of 2, a latency of 1 and seven ticks: enough for an
  overwritten answer to expire. Callers are symmetric.
- *Chain setup.* Three services, two protocols, four hops (one more than a chain of
  three services needs), two data messages. The specifications are those of two to
  four tokens, up to the names of services and protocols (the code only compares
  them), one of five tokens with three services, and three that `setupChain` refuses.
  As the code's comment demands, a specification names a service once.
- *UDP front end.* Two requests, two clients, three datagrams and three streams: two
  clients set up, one comes back, and a failed chain is replaced. Requests and
  clients are symmetric in the safety run.

- *Resolver.* One HTTP and one chain request, two allocators, one within the soft
  requirement and one beyond it, with one instance each: an instance may be there
  from the start, come up late, or die, and the nearest allocator may have no place
  left. Three rounds as in the code; two backoff attempts instead of five, which
  keeps first, last and repeated.
- *Allocator.* Two handlers and two ports, so that they may get the same one or not;
  a limit of 1 (0, 1 and 2 seconds are below, at and above it); one restart.
- *Forwarders.* A middle hop with TCP and an end hop with UDP, so that all forwarders
  occur; two messages and buffers of one, so that buffers are full and messages
  follow each other round the chain.

`CHECK_DEADLOCK FALSE` is used where the system may stop: a chain whose hops have
all returned, hung, connected or ended, a proxy whose workers have returned. The other
runs check for deadlock (in the registry cache `Delete` is always possible).

### Fairness

`PeerCache!FairSpec`: the update goroutine keeps taking steps. Its ticker is
recreated after every update, each ping ends with its timeout, and `sync.Mutex`
does not starve it. `ChainSetup!FairSpec`: a goroutine that can take a step takes
one; no failure has to happen, and nothing makes a silent stream speak.
`Resolver!FairSpec`: pings and
discovery end, so that a request takes the steps that are its own (`OwnStep`); an
update ends; a request that waits for `cache.mux` gets it although updates keep taking
it (strong fairness: `sync.Mutex` hands itself to a waiter that starves). Nothing is
assumed of `AnswerStep`: the registry, allocators and services need not answer, since
the reads of their answers have no timeout. Containers need not boot. `Allocator!FairSpec`: the ticker fires, the culler takes its
steps unless a frozen service keeps it, handlers run, and `Register` gets the mutex
(strong fairness, as above). No container has to boot. `ChainForward!FairSpec`:
something that goroutines, dials, services or the network can do by themselves is
done; this is enough because between two inputs from outside only finitely many such
steps are possible. Nobody has to send or close anything.

## Theorems

All are for every value of the constants that satisfies the `ASSUME`s.

- `PeerCacheProofs`: `TypeCorrect`, `LevelBandsHold`, `PingPassCompletes`,
  `NoChainDropHolds`. None of the last three is inductive, since each speaks of one
  phase and is established index by index in earlier ones. `IndInv` adds, for each
  loop, what holds of the entries before the loop index (`BandsSoFar`,
  `PingedSoFar`), that the last level is empty until the move pass (`LastLevelEmpty`),
  and that an entry low enough to be dropped was in level 1 at the start
  (`DroppableFromLevel1`). The argument rests on `RpfsProperties`: removing a
  position leaves all others alone and fills the hole with the last entry, so the
  index need not advance. The assumptions used are the order of the thresholds.
- `PeerStoreProofs`: `CacheImplementsStore` (the refinement `StoreSpec`),
  `MovesConserveHolds`, `GetPeerIsComplete`, `RemovePeerWorks` (what `RemovePeer` could
  reach is gone until it is added again, and no call touches another peer). A position of the
  cache is a level and an index. An append to one slice and a swap with the last
  element of another is a bijection between the positions after and before, under
  which peer and service stay the same; counts of entries and the set of cached pairs
  follow. The invariant of `PeerCacheProofs` supplies the types and the empty last
  level, which is why `GetPeer` may leave that level out; `SizeBounded` adds that
  every position is one that `Count` counts.
- `RegistryCacheProofs`: `RegistryTypeCorrect` and `StalenessBounded`. `IndInv` follows
  returned information back to the registry: every entry in the map or in a caller's
  hands expires at most TTL plus latency after its version was replaced, and every
  answer under way carries a version that was current when it was sent.
- `ChainSetupProofs`: `ChainTypeCorrect`, `AckComesFromWholeChain`,
  `MessagesAreExpected`, `SomeoneCanGoOn`, `PathIsTheSpecs`, `AckMeansAllServices` and
  the refinement `SetupImplementsReady`. `IndInv` adds that nothing exists below a hop before it opens
  its stream (`NothingBelow`), that the hop below runs the target service
  (`TargetBelow`), that an ACK in a queue was sent by the hop below (`AckWasSent`),
  that a hop about to send one may (`MayAck`), and that hops which have sent one stay
  past that point (`AckedIsDone`). All actions but `CreateStream` are steps of a
  common form (`StepOf`), handled by one lemma. For the third theorem `MsgInv` says of
  each link what its two queues may hold, given where the hops at its ends are
  (`MsgOK`), and a lemma on constants shows it for each way in which a link changes.
  For the fourth `WaitInv` adds that a hop which waits has a hop below it and has sent
  it its request; the hop at the end of a row of waiting hops is then not blocked.
  The last three need to know what `Scan` computes for a specification of any length.
  A recursive function is some function that satisfies its recursion: `ScanExists`
  shows that there is one, and `ScanMeans` that its last value is the service's own
  protocol and the next service, both by looking at the smallest number of tokens for
  which it would fail (`Least`: a set of numbers has a smallest one). `PathInv` then
  says that hop *k* is at the *k*-th service; only `CreateStream` can disturb it, and
  there `NextCount` applies, since the next service is one service further. The ACKs
  of neighbours add up to those of all services behind (`AckedSuffix`), again by a
  smallest counterexample, which makes `SendAck` the abstract `Acknowledge` and the
  end of `setupChain` the abstract `Establish` or `Fail`. These three theorems assume
  what the comment of `chainSetupHandler` does, that no specification names a service
  twice (`OneOfEach`); without it they are false.
- `ChainForwardProofs`: `ForwardTypeCorrect` and `RepliesComeInOrder`. The buffers,
  the services' queues and the hands of the goroutines that a message passes on its way
  round are the stages of one pipeline, ordered by `Rank`. The invariant `PipeInv` says that later stages hold
  earlier messages, that a message at a stage has passed just the services before it,
  that dead stages (closed endpoints, goroutines that have ended) are empty, and, as long as no datagram was lost, that the
  message before one under way is under way or received or that a stage still ahead
  is dead. The last part is what makes gaps harmless: what follows a gap never gets
  past the dead stage that made it. Every action moves, delivers, drops, loses or
  feeds one message, lets stages die, or leaves the pipeline alone, with a lemma each.
- `UdpProxyProofs`: `UdpTypeCorrect`, `ClientsKeptApart`, `NoChainLeaked`,
  `MutexIsReleased`. `IndInv` adds what a worker holds at each line of its loop
  (`Stage`) and that every stream in the table was set up for the client it stands
  for (`Entries`).
- `ResolverProofs`: `ResolverTypeCorrect`, `ChosenInstancesWereUp`,
  `NotFoundIsExplained`, `ContainersAreNeeded`. `IndInv` adds what a request knows at
  each point of its search: that it has an instance (`HasInstance`), has missed all
  steady ones (`NothingSteady`), or holds the best it could find, a slow one
  (`BestIsSlow`).
- `AllocatorProofs`: `AllocatorTypeCorrect`, `NoContainerLost`, `CullStopsTheJudged`
  and the action property `OverTimeJustified`. `IndInv` adds what a handler
  has done at each point (`Stages`), what the culler's lists hold in each phase
  (`CullPhases`), and that at most one proxy listens on a port (`OneOnPort`).

The inductive invariants were model-checked on the instances of the runs before they
were proved. The bounds of the models (messages, versions, attempts and the like) are
constants of the theorems, so these hold for every value of them.

Only model-checked: everything about liveness (`DeadPeersEvicted`,
`GoodPeersPromoted`, `SetupEndsOrSomeoneReturned`, `SourceMonitorUnblocks`,
`RequestsEnd`, `UnusedCulled`, `RegistrationCompletes`, `EndingSpreads`,
`EverythingAnswered`), which is outside the prover's reach. Of
`SetupEndsOrSomeoneReturned` the safety part is proved: `NotAllWaiting`.

## Not modelled

The programs' `main` functions, flags and configuration; logging, message texts,
header copying, gob and msgio encodings (messages arrive whole and in order, as
msgio's framing guarantees), datagram sizes and the boundaries of TCP segments;
specifications that name a service twice, for which the hops send requests round in
circles. `openTCPProxy` and the accept loop of `tcpServiceProxy` have no actions:
the first shares `serv2Fwd` with `openUDPProxy`, whose races `UdpProxy` models, and
the second starts an independent goroutine per connection, which `ChainForward`
takes up. Chains that share a connection meet only when it is lost. `l4-proxy` as it
stands declares `manager` as a value and assigns the pointer that `NewLCAManager`
returns; the models follow the evident intention.

## Plan

Done: both caches, chain setup, the UDP front end, service resolution on top of the
abstract cache, the allocator, the forwarders, the refinements of the cache and of
the chain setup, and the theorems above: every safety property of a passing run is
proved. What is left is what the other liveness properties rest on, stated as safety
in the way of `NotAllWaiting`: what a step of `updateCache` or of a search brings
closer to its end, and that some forwarder of a chain can always move the message
that is furthest ahead.
