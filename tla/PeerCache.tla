----------------------------- MODULE PeerCache -----------------------------
(***************************************************************************)
(* The reliability-levelled peer cache of pcache/pcache.go.                *)
(*                                                                         *)
(* The cache is three slices of entries: level 0 holds the performant and  *)
(* reliable peers, level 1 the performant ones, level 2 those about to be  *)
(* removed.  Request goroutines call AddPeer, RemovePeer and GetPeer; the  *)
(* UpdateCache goroutine runs updateCache once a second.  Every one of     *)
(* them holds cache.mux from its first line to its last, so a request's    *)
(* call is one step, taken while no update is under way (pc = "idle"),     *)
(* whereas the update, which blocks on a registry lookup and a ping per    *)
(* entry, is one step per loop iteration.                                  *)
(*                                                                         *)
(* Go slices are 0-based and TLA+ sequences 1-based: the loop variable i   *)
(* of the code is i - 1 here.  Levels keep the code's numbers 0..2.        *)
(***************************************************************************)
EXTENDS Integers, Sequences, FiniteSets

CONSTANTS
  Peer,            \* peer IDs
  Serv,            \* services: a registered name and its content hash
  Replies,         \* Replies[p]: the RTTs a ping to p may report, 0 = none
  SoftReq,         \* SoftReq[s].RTT and HardReq[s].RTT of the registry's
  HardReq,         \*   ServiceInfo for s
  LookupMayFail,   \* may registry lookups return an error?
  RInit,           \* 50: RCount of an entry added or moved down
  RCap,            \* 100: RCount saturates here
  RDec,            \* 10: taken off RCount when the soft requirement is missed
  RHigh,           \* 90: above it level 1 promotes, below it level 0 demotes
  RLow,            \* 10: below it level 1 drops
  RMax,            \* 3: how many entries of a level RemovePeer looks at
  MaxEntries       \* bound of the model: the code's slices are unbounded

ASSUME ReqAssumption ==
  /\ SoftReq \in [Serv -> Nat]
  /\ HardReq \in [Serv -> Nat]
  /\ Replies \in [Peer -> SUBSET Nat]
  /\ LookupMayFail \in BOOLEAN

ASSUME CountAssumption ==
  /\ {RInit, RCap, RDec, RHigh, RLow, RMax, MaxEntries} \subseteq Nat
  /\ RLow <= RInit
  /\ RInit <= RHigh
  /\ RHigh < RCap

VARIABLES
  levels,   \* cache.Levels
  pc,       \* where updateCache is; "idle" when cache.mux is free
  l, i,     \* updateCache's loop variables
  snap,     \* history: the cache as the second pass of updateCache found it
  gone      \* history: the peers RemovePeer could remove, not added again since

vars == <<levels, pc, l, i, snap, gone>>

NLevels == 3
Level   == 0 .. NLevels - 1

(***************************************************************************)
(* RPeerInfo.  perf is Info.Perf.RTT, 0 until the first ping.              *)
(***************************************************************************)
Entry == [id : Peer, serv : Serv, perf : Nat, rcount : 0 .. RCap]

NoLevels == [k \in Level |-> << >>]

(***************************************************************************)
(* p2putil.PerfInd.LessThan (external): a better performance is a smaller  *)
(* round-trip time.                                                        *)
(***************************************************************************)
PerfLessThan(a, b) == a < b

RPeerInfoLessThan(e, f) == PerfLessThan(e.perf, f.perf)

----------------------------------------------------------------------------
(* The slice helpers.                                                      *)

apts(s, e) == Append(s, e)

\* Fault: truncates without swapping element k to the end first.
RpfsWithoutSwap(s, k) == SubSeq(s, 1, Len(s) - 1)

rpfs(s, k) == SubSeq([s EXCEPT ![k] = s[Len(s)]], 1, Len(s) - 1)

(***************************************************************************)
(* sort.Slice by performance: some permutation that is sorted, equal       *)
(* elements in any order (sort.Slice is not stable).                       *)
(***************************************************************************)
Perms(n) ==
  { f \in [1 .. n -> 1 .. n] : \A a, b \in 1 .. n : f[a] = f[b] => a = b }

SortedBy(s) ==
  { [k \in 1 .. Len(s) |-> s[f[k]]] :
      f \in { g \in Perms(Len(s)) :
                \A a, b \in 1 .. Len(s) :
                  a < b => ~ RPeerInfoLessThan(s[g[b]], s[g[a]]) } }

----------------------------------------------------------------------------
Init ==
  /\ levels = NoLevels
  /\ pc = "idle"
  /\ l = 0
  /\ i = 1
  /\ snap = NoLevels
  /\ gone = {}

Size == Len(levels[0]) + Len(levels[1]) + Len(levels[2])

\* Fault: AddPeer does not take cache.mux.
AddPeerUnlocked(p, s) ==
  /\ Size < MaxEntries
  /\ levels' = [levels EXCEPT ![NLevels - 2] =
                  apts(@, [id |-> p, serv |-> s, perf |-> 0, rcount |-> RInit])]
  /\ gone' = gone \ {p}
  /\ UNCHANGED <<pc, l, i, snap>>

(***************************************************************************)
(* AddPeer appends to the second lowest level; it does not look whether    *)
(* the peer is there already.                                              *)
(***************************************************************************)
AddPeer(p, s) ==
  /\ pc = "idle"
  /\ Size < MaxEntries
  /\ levels' = [levels EXCEPT ![NLevels - 2] =
                  apts(@, [id |-> p, serv |-> s, perf |-> 0, rcount |-> RInit])]
  /\ gone' = gone \ {p}
  /\ UNCHANGED <<pc, l, i, snap>>

(***************************************************************************)
(* RemovePeer removes the first entry of the peer among the first RMax of  *)
(* level 0, or else among the first RMax of level 1.  A call that finds    *)
(* none there returns with nothing done.                                   *)
(***************************************************************************)
Removable(p, k) ==
  { j \in 1 .. Len(levels[k]) : j <= RMax /\ levels[k][j].id = p }

\* The levels and indices at which ls has entries of p.
Places(ls, p) ==
  { kj \in Level \X (1 .. MaxEntries) :
      kj[2] <= Len(ls[kj[1]]) /\ ls[kj[1]][kj[2]].id = p }

\* The peer has one entry at most, and RemovePeer looks there.
InReach(p) ==
  \A x, y \in Places(levels, p) : x = y /\ x[1] <= NLevels - 2 /\ x[2] <= RMax

RemovePeer(p) ==
  /\ pc = "idle"
  /\ \/ \E k \in 0 .. NLevels - 2 :
          /\ Removable(p, k) # {}
          /\ \A m \in 0 .. k - 1 : Removable(p, m) = {}
          /\ \E j \in Removable(p, k) :
               /\ \A n \in Removable(p, k) : j <= n
               /\ levels' = [levels EXCEPT ![k] = rpfs(@, j)]
     \/ /\ \A k \in 0 .. NLevels - 2 : Removable(p, k) = {}
        /\ UNCHANGED levels
  /\ gone' = IF InReach(p) THEN gone \cup {p} ELSE gone \ {p}
  /\ UNCHANGED <<pc, l, i, snap>>

(***************************************************************************)
(* GetPeer: the peers that are first among the entries of service s in the *)
(* best level, the last one excepted, that has any (none: the error).      *)
(***************************************************************************)
GetPeer(s) ==
  { p \in Peer :
      \E k \in 0 .. NLevels - 2 : \E j \in 1 .. Len(levels[k]) :
        /\ levels[k][j].id = p
        /\ levels[k][j].serv = s
        /\ \A n \in 1 .. j - 1 : levels[k][n].serv # s
        /\ \A m \in 0 .. k - 1 :
             \A n \in 1 .. Len(levels[m]) : levels[m][n].serv # s }

----------------------------------------------------------------------------
(* updateCache, first pass: ping every entry and update its RCount.        *)

(***************************************************************************)
(* The ticker of UpdateCache fires and updateCache takes cache.mux.        *)
(***************************************************************************)
BeginUpdate ==
  /\ pc = "idle"
  /\ pc' = "ping"
  /\ l' = 0
  /\ i' = 1
  /\ UNCHANGED <<levels, snap, gone>>

(***************************************************************************)
(* rcache.GetOrRequestService.  An error is logged and the zero            *)
(* ServiceInfo used: requirements of 0.                                    *)
(***************************************************************************)
ServInfos(s) ==
  {[soft |-> SoftReq[s], hard |-> HardReq[s]]}
    \cup (IF LookupMayFail THEN {[soft |-> 0, hard |-> 0]} ELSE {})

\* Fault: a ping that timed out (RTT 0) passes for a fast one.
UnfitIgnoringTimeout(rtt, info) == PerfLessThan(info.hard, rtt)

Unfit(rtt, info) == rtt = 0 \/ PerfLessThan(info.hard, rtt)

\* Fault: the loop steps over the entry that rpfs moved to the hole.
SkipAfterRpfs(k) == k + 1

AfterRpfs(k) == k

PingEvict ==
  /\ pc = "ping"
  /\ i <= Len(levels[l])
  /\ \E rtt \in Replies[levels[l][i].id], info \in ServInfos(levels[l][i].serv) :
       Unfit(rtt, info)
  /\ levels' = [levels EXCEPT ![l] = rpfs(@, i)]
  /\ i' = AfterRpfs(i)
  /\ UNCHANGED <<pc, l, snap, gone>>

\* Fault: RCount grows without saturating.
GrowWithoutCap(n) == n + 1

Grow(n)  == IF n < RCap THEN n + 1 ELSE n

\* Fault: RCount -= 10 without the guard against going below zero.
DecayWithoutGuard(n) == n - RDec

Decay(n) == IF n < RDec THEN 0 ELSE n - RDec

Pinged(e, rtt, info) ==
  [e EXCEPT !.perf = rtt,
            !.rcount = IF PerfLessThan(info.soft, rtt) THEN Decay(@) ELSE Grow(@)]

PingKeep ==
  /\ pc = "ping"
  /\ i <= Len(levels[l])
  /\ \E rtt \in Replies[levels[l][i].id], info \in ServInfos(levels[l][i].serv) :
       /\ ~ Unfit(rtt, info)
       /\ levels' = [levels EXCEPT ![l] =
                       [@ EXCEPT ![i] = Pinged(levels[l][i], rtt, info)]]
  /\ i' = i + 1
  /\ UNCHANGED <<pc, l, snap, gone>>

PingNextLevel ==
  /\ pc = "ping"
  /\ i > Len(levels[l])
  /\ i' = 1
  /\ \/ /\ l < NLevels - 1
        /\ l' = l + 1
        /\ UNCHANGED <<pc, snap>>
     \/ /\ l = NLevels - 1
        /\ l' = 0
        /\ pc' = "demote"
        /\ snap' = levels
  /\ UNCHANGED <<levels, gone>>

----------------------------------------------------------------------------
(* updateCache, second pass: move entries to the level they belong to.     *)

\* Fault: an entry that moves down starts again from nothing.
LoweredToZero(e) == [e EXCEPT !.rcount = 0]

Lowered(e) == [e EXCEPT !.rcount = RInit]

DemoteEntry ==
  /\ pc = "demote"
  /\ i <= Len(levels[0])
  /\ levels[0][i].rcount < RHigh
  /\ levels' = [levels EXCEPT ![1] = apts(@, Lowered(levels[0][i])),
                              ![0] = rpfs(@, i)]
  /\ i' = AfterRpfs(i)
  /\ UNCHANGED <<pc, l, snap, gone>>

DemoteSkip ==
  /\ pc = "demote"
  /\ i <= Len(levels[0])
  /\ ~ (levels[0][i].rcount < RHigh)
  /\ i' = i + 1
  /\ UNCHANGED <<levels, pc, l, snap, gone>>

DemoteDone ==
  /\ pc = "demote"
  /\ i > Len(levels[0])
  /\ pc' = "move"
  /\ l' = 1
  /\ i' = 1
  /\ UNCHANGED <<levels, snap, gone>>

\* Fault: the threshold of promotion is RCount's cap.
PromotableAtCap(e) == e.rcount > RCap

Promotable(e) == e.rcount > RHigh

PromoteEntry ==
  /\ pc = "move"
  /\ i <= Len(levels[l])
  /\ Promotable(levels[l][i])
  /\ levels' = [levels EXCEPT ![l - 1] = apts(@, levels[l][i]),
                              ![l] = rpfs(@, i)]
  /\ i' = AfterRpfs(i)
  /\ UNCHANGED <<pc, l, snap, gone>>

DropEntry ==
  /\ pc = "move"
  /\ i <= Len(levels[l])
  /\ ~ Promotable(levels[l][i])
  /\ levels[l][i].rcount < RLow
  /\ levels' = [levels EXCEPT ![l + 1] = apts(@, Lowered(levels[l][i])),
                              ![l] = rpfs(@, i)]
  /\ i' = AfterRpfs(i)
  /\ UNCHANGED <<pc, l, snap, gone>>

MoveSkip ==
  /\ pc = "move"
  /\ i <= Len(levels[l])
  /\ ~ Promotable(levels[l][i])
  /\ ~ (levels[l][i].rcount < RLow)
  /\ i' = i + 1
  /\ UNCHANGED <<levels, pc, l, snap, gone>>

\* The loop over the middle levels runs for l = 1 only: NLevels is 3.
MoveDone ==
  /\ pc = "move"
  /\ i > Len(levels[l])
  /\ pc' = "finish"
  /\ UNCHANGED <<levels, l, i, snap, gone>>

\* Fault: the last level survives the update.
KeepLastLevel(ls) == ls

ClearLastLevel(ls) == [ls EXCEPT ![NLevels - 1] = << >>]

(***************************************************************************)
(* Empty the last level, sort every level, release cache.mux.              *)
(***************************************************************************)
FinishUpdate ==
  /\ pc = "finish"
  /\ \E s0 \in SortedBy(ClearLastLevel(levels)[0]),
        s1 \in SortedBy(ClearLastLevel(levels)[1]),
        s2 \in SortedBy(ClearLastLevel(levels)[2]) :
       levels' = [k \in Level |-> IF k = 0 THEN s0 ELSE IF k = 1 THEN s1 ELSE s2]
  /\ pc' = "idle"
  /\ l' = 0
  /\ i' = 1
  /\ snap' = NoLevels
  /\ UNCHANGED gone

Update ==
  \/ BeginUpdate
  \/ PingEvict \/ PingKeep \/ PingNextLevel
  \/ DemoteEntry \/ DemoteSkip \/ DemoteDone
  \/ PromoteEntry \/ DropEntry \/ MoveSkip \/ MoveDone
  \/ FinishUpdate

Next ==
  \/ \E p \in Peer, s \in Serv : AddPeer(p, s)
  \/ \E p \in Peer : RemovePeer(p)
  \/ Update

Spec == Init /\ [][Next]_vars

(***************************************************************************)
(* The UpdateCache goroutine is always runnable: its ticker fires, every   *)
(* ping ends within the hard requirement's timeout and sync.Mutex does not *)
(* starve a waiter.                                                        *)
(***************************************************************************)
FairSpec == Spec /\ WF_vars(Update)

----------------------------------------------------------------------------
(* Properties.                                                             *)

EntriesOf(ls, k) == { ls[k][j] : j \in 1 .. Len(ls[k]) }

Ids(ls, k) == { e.id : e \in EntriesOf(ls, k) }

Cached(p) == \E k \in Level : p \in Ids(levels, k)

\* The cache is three sequences of well-formed entries (in particular RCount,
\* an unsigned counter, stays within 0..RCap: updateCache never wraps it
\* around) and the loop indices are within the slices.
TypeOK ==
  /\ levels \in [Level -> Seq(Entry)]
  /\ pc \in {"idle", "ping", "demote", "move", "finish"}
  /\ l \in Level
  /\ i \in Nat \ {0}
  /\ snap \in [Level -> Seq(Entry)]
  /\ gone \in SUBSET Peer

\* Whenever a request can see the cache, an entry's level and its RCount
\* agree: level 0 holds RHigh..RCap, level 1 holds RLow..RHigh, and the last
\* level is empty, although several passes of updateCache count, demote,
\* promote and drop in between.
LevelBands ==
  pc = "idle" =>
    /\ \A e \in EntriesOf(levels, 0) : e.rcount >= RHigh
    /\ \A e \in EntriesOf(levels, 1) : RLow <= e.rcount /\ e.rcount <= RHigh
    /\ levels[2] = << >>

\* The first pass misses no entry, whatever rpfs swapped under the loop
\* variable: once it is over, every entry left answered a ping and met the
\* hard requirement of its service.
PingPassComplete ==
  pc \in {"demote", "move", "finish"} =>
    \A k \in Level : \A e \in EntriesOf(levels, k) :
      e.perf # 0 /\ ~ PerfLessThan(HardReq[e.serv], e.perf)

Count(ls, p) == Cardinality(Places(ls, p))

\* The second pass moves entries and neither loses nor duplicates one: each
\* peer has as many entries after every move as the first pass left.
MovesConserve ==
  pc \in {"demote", "move", "finish"} =>
    \A p \in Peer : Count(levels, p) = Count(snap, p)

\* "nodes do not chain drop to the last level": an update that demotes a peer
\* from level 0 does not also drop it; what is dropped was in level 1.
NoChainDrop ==
  pc \in {"demote", "move", "finish"} => Ids(levels, 2) \subseteq Ids(snap, 1)

\* A peer that answers no ping does not stay: again and again the cache that
\* requests see is without it (however often they add it again).
DeadPeersEvicted ==
  \A p \in Peer : Replies[p] = {0} => []<>(pc = "idle" /\ ~ Cached(p))

\* A peer that always meets its services' soft requirement is promoted: once
\* no RemovePeer call removes it and no failed lookup evicts it any more, it is
\* in level 0 again and again, or it has left level 1 for good because no
\* request adds it.
GoodPeersPromoted ==
  \A p \in Peer :
    (\A s \in Serv : \A r \in Replies[p] : 0 < r /\ r <= SoftReq[s]) =>
      ( <>[][/\ RemovePeer(p) => UNCHANGED levels
             /\ pc = "ping" => Count(levels', p) >= Count(levels, p)]_vars =>
          \/ []<>(p \in Ids(levels, 0))
          \/ <>[](p \notin Ids(levels, 1)) )

\* "If peer isn't up or doesn't meet hard requirements remove from cache": an
\* entry whose peer answers every ping within the hard requirement is kept by
\* the ping pass.
FitPeersKept ==
  [][\A p \in Peer :
       (\A s \in Serv : \A r \in Replies[p] : 0 < r /\ r <= HardReq[s]) =>
         (pc = "ping" => Count(levels', p) = Count(levels, p))]_vars

\* RemovePeer does what connQualMonitor and runRequest call it for, as far as
\* it looks: a peer that it was called for when it could reach all of the
\* peer's entries (there was one at most, among the first RMax of level 0 or
\* 1) is not in the cache again until someone adds it, whatever updates move
\* entries about; and a call leaves every other peer its entries although
\* rpfs moves them.  Of an entry beyond the first RMax, or a second one, it
\* says nothing: such a peer stays, and may be handed out again.
RemovedPeerGone ==
  /\ [](\A p \in gone : ~ Cached(p))
  /\ [][\A p \in Peer : RemovePeer(p) =>
          \A q \in Peer \ {p} : Count(levels', q) = Count(levels, q)]_vars

----------------------------------------------------------------------------
(* The cache implements the store that requests rely on.                   *)

Present == { <<e.id, e.serv>> : e \in UNION { EntriesOf(levels, k) : k \in Level } }

Store == INSTANCE PeerStore WITH present <- Present, updating <- (pc # "idle")

\* Whatever updateCache does with levels and counts, a request sees a PeerStore:
\* peers appear by AddPeer only, RemovePeer touches its peer alone, and all
\* other removals happen while the update holds cache.mux.
StoreSpec == Store!Spec

\* Whenever requests can look, GetPeer finds a peer of a service exactly if the
\* store has one: no entry is hidden in the last level, which GetPeer skips.
GetPeerComplete ==
  pc = "idle" =>
    \A s \in Serv : /\ GetPeer(s) \subseteq Store!GetPeer(s)
                    /\ Store!GetPeer(s) # {} => GetPeer(s) # {}
=============================================================================
