--------------------------- MODULE RegistryCache ---------------------------
(***************************************************************************)
(* The cache of service-registry answers of rcache/registry-cache.go.      *)
(*                                                                         *)
(* Request goroutines and updateCache of the peer cache call               *)
(* GetOrRequestService concurrently.  Get reads the map under a read lock  *)
(* and compares the clock with the entry's expiry after the unlock; a miss *)
(* asks the registry with no lock held; Add computes the expiry before it  *)
(* takes the write lock.  Each of these is a step of the caller, so two    *)
(* callers that miss together may add their answers in either order.       *)
(*                                                                         *)
(* The registry service is external.  It is a version counter per service: *)
(* pub[s][v] is the time at which version v of s was published.            *)
(***************************************************************************)
EXTENDS Integers, Sequences

CONSTANTS
  Serv,         \* service names
  Caller,       \* goroutines that call GetOrRequestService
  Ttl,          \* rc.ttl
  MaxLatency,   \* environment: the longest way of an answer to its caller
  MaxNow,       \* bound of the model: the clock
  MaxVersion    \* bound of the model: versions per service

ASSUME TimeAssumption == {Ttl, MaxLatency, MaxNow, MaxVersion} \subseteq Nat

VARIABLES
  now,    \* time.Now()
  pub,    \* the registry: publication times, the last version is current
  data,   \* rc.data: at most one entry per service
  pc,     \* where each caller is
  serv,   \* the service it asked for
  held,   \* the entry it read or is about to write (at most one)
  reply,  \* the registry's answer on its way to it (at most one)
  ret     \* what its call returns, and when Get or the registry's answer
          \*   gave it to it (at most one)

vars == <<now, pub, data, pc, serv, held, reply, ret>>

Entry == [ver : Nat \ {0}, expiry : Nat]
Reply == [ver : Nat \ {0}, at : Nat]

\* A missing entry is the empty set and a present one a singleton.
AtMostOne(S) == \A x, y \in S : x = y

Init ==
  /\ now = 0
  /\ pub = [s \in Serv |-> <<0>>]
  /\ data = [s \in Serv |-> {}]
  /\ pc = [c \in Caller |-> "idle"]
  /\ serv \in [Caller -> Serv]
  /\ held = [c \in Caller |-> {}]
  /\ reply = [c \in Caller |-> {}]
  /\ ret = [c \in Caller |-> {}]

----------------------------------------------------------------------------
(* Environment.                                                            *)

\* Time passes, but an answer on its way arrives within MaxLatency.
Tick ==
  /\ now < MaxNow
  /\ \A c \in Caller : \A r \in reply[c] : now < r.at + MaxLatency
  /\ now' = now + 1
  /\ UNCHANGED <<pub, data, pc, serv, held, reply, ret>>

\* The owner of service s registers it anew.
Publish(s) ==
  /\ Len(pub[s]) < MaxVersion
  /\ pub' = [pub EXCEPT ![s] = Append(@, now)]
  /\ UNCHANGED <<now, data, pc, serv, held, reply, ret>>

----------------------------------------------------------------------------
(* GetOrRequestService.                                                    *)

\* Get, under the read lock.
ReadEntry(c, s) ==
  /\ pc[c] = "idle"
  /\ pc' = [pc EXCEPT ![c] = "check"]
  /\ serv' = [serv EXCEPT ![c] = s]
  /\ held' = [held EXCEPT ![c] = data[s]]
  /\ ret' = [ret EXCEPT ![c] = {}]
  /\ UNCHANGED <<now, pub, data, reply>>

\* Fault: an entry lives on for another TTL.
ExpiredLate(e) == now > e.expiry + Ttl

Expired(e) == now > e.expiry

\* Get, after the unlock: a hit.
Hit(c) ==
  /\ pc[c] = "check"
  /\ \E e \in held[c] :
       /\ ~ Expired(e)
       /\ ret' = [ret EXCEPT ![c] = {[ver |-> e.ver, at |-> now]}]
  /\ pc' = [pc EXCEPT ![c] = "idle"]
  /\ held' = [held EXCEPT ![c] = {}]
  /\ UNCHANGED <<now, pub, data, serv, reply>>

\* No entry or an expired one: query the registry.
Miss(c) ==
  /\ pc[c] = "check"
  /\ \A e \in held[c] : Expired(e)
  /\ pc' = [pc EXCEPT ![c] = "request"]
  /\ held' = [held EXCEPT ![c] = {}]
  /\ UNCHANGED <<now, pub, data, serv, reply, ret>>

\* The registry (external) answers with the current version.
RegistryReplies(c) ==
  /\ pc[c] = "request"
  /\ reply[c] = {}
  /\ reply' = [reply EXCEPT ![c] = {[ver |-> Len(pub[serv[c]]), at |-> now]}]
  /\ UNCHANGED <<now, pub, data, pc, serv, held, ret>>

\* The query returns an error, before or after the registry answered.
QueryFails(c) ==
  /\ pc[c] = "request"
  /\ pc' = [pc EXCEPT ![c] = "idle"]
  /\ reply' = [reply EXCEPT ![c] = {}]
  /\ UNCHANGED <<now, pub, data, serv, held, ret>>

\* Fault: the TTL is taken off the current time.
ExpiryInThePast(t) == t - Ttl

NewExpiry(t) == t + Ttl

\* The query returns info and Add computes the entry, not yet locked.
StampEntry(c) ==
  /\ pc[c] = "request"
  /\ \E r \in reply[c] :
       /\ held' = [held EXCEPT ![c] = {[ver |-> r.ver, expiry |-> NewExpiry(now)]}]
       /\ ret' = [ret EXCEPT ![c] = {[ver |-> r.ver, at |-> now]}]
  /\ pc' = [pc EXCEPT ![c] = "add"]
  /\ reply' = [reply EXCEPT ![c] = {}]
  /\ UNCHANGED <<now, pub, data, serv>>

\* Add, under the write lock, and the return of GetOrRequestService.
WriteEntry(c) ==
  /\ pc[c] = "add"
  /\ data' = [data EXCEPT ![serv[c]] = held[c]]
  /\ pc' = [pc EXCEPT ![c] = "idle"]
  /\ held' = [held EXCEPT ![c] = {}]
  /\ UNCHANGED <<now, pub, serv, reply, ret>>

\* Delete.
Delete(s) ==
  /\ data' = [data EXCEPT ![s] = {}]
  /\ UNCHANGED <<now, pub, pc, serv, held, reply, ret>>

Next ==
  \/ Tick
  \/ \E s \in Serv : Publish(s) \/ Delete(s)
  \/ \E c \in Caller :
       \/ \E s \in Serv : ReadEntry(c, s)
       \/ Hit(c) \/ Miss(c) \/ RegistryReplies(c) \/ QueryFails(c)
       \/ StampEntry(c) \/ WriteEntry(c)

Spec == Init /\ [][Next]_vars

----------------------------------------------------------------------------
(* Properties.                                                             *)

TypeOK ==
  /\ now \in Nat
  /\ pub \in [Serv -> Seq(Nat)]
  /\ data \in [Serv -> SUBSET Entry]
  /\ pc \in [Caller -> {"idle", "check", "request", "add"}]
  /\ serv \in [Caller -> Serv]
  /\ held \in [Caller -> SUBSET Entry]
  /\ reply \in [Caller -> SUBSET Reply]
  /\ ret \in [Caller -> SUBSET Reply]
  /\ \A s \in Serv : AtMostOne(data[s])
  /\ \A c \in Caller :
       AtMostOne(held[c]) /\ AtMostOne(reply[c]) /\ AtMostOne(ret[c])

\* The version returned had not been replaced for longer than d.
FreshWithin(s, r, d) ==
  r.ver < Len(pub[s]) => r.at <= pub[s][r.ver + 1] + d

\* However lookups, registry answers and insertions interleave - in particular
\* when an older answer overwrites a newer one - GetOrRequestService never
\* returns information that the registry replaced more than the TTL plus one
\* answer's latency ago.
BoundedStaleness ==
  \A c \in Caller : \A r \in ret[c] : FreshWithin(serv[c], r, MaxLatency + Ttl)
=============================================================================
