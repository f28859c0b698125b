-------------------------- MODULE PeerCacheProofs --------------------------
(***************************************************************************)
(* Proofs, for all constants, of the safety properties of PeerCache that   *)
(* relate the passes of updateCache to what requests see.                  *)
(*                                                                         *)
(* None of LevelBands, PingPassComplete and NoChainDrop is inductive: each *)
(* says something of one phase that the loops of earlier phases establish  *)
(* index by index.  IndInv adds what holds while each loop runs.           *)
(***************************************************************************)
EXTENDS PeerCache, SequenceTheorems, TLAPS

\* What the ping pass has established for an entry it has been at.
Answered(e) == e.perf # 0 /\ ~ PerfLessThan(HardReq[e.serv], e.perf)

InBand(e) == RLow <= e.rcount /\ e.rcount <= RHigh

\* updateCache starts from an empty last level and finds it so until the
\* middle level's loop drops entries to it.
LastLevelEmpty == pc \in {"idle", "ping", "demote"} => levels[2] = << >>

\* The loops over level 0 and level 1 leave in bands what they have passed.
BandsSoFar ==
  /\ pc = "idle" =>
       /\ \A j \in 1 .. Len(levels[0]) : levels[0][j].rcount >= RHigh
       /\ \A j \in 1 .. Len(levels[1]) : InBand(levels[1][j])
  /\ pc = "demote" =>
       \A j \in 1 .. Len(levels[0]) : j < i => levels[0][j].rcount >= RHigh
  /\ pc \in {"move", "finish"} =>
       \A j \in 1 .. Len(levels[0]) : levels[0][j].rcount >= RHigh
  /\ pc = "move" =>
       /\ l = 1
       /\ \A j \in 1 .. Len(levels[1]) : j < i => InBand(levels[1][j])
  /\ pc = "finish" =>
       \A j \in 1 .. Len(levels[1]) : InBand(levels[1][j])

\* The ping pass has been at every entry before position (l, i).
PingedSoFar ==
  /\ pc = "ping" =>
       /\ \A k \in Level : k < l =>
            \A j \in 1 .. Len(levels[k]) : Answered(levels[k][j])
       /\ \A j \in 1 .. Len(levels[l]) : j < i => Answered(levels[l][j])
  /\ pc \in {"demote", "move", "finish"} =>
       \A k \in Level : \A j \in 1 .. Len(levels[k]) : Answered(levels[k][j])

\* An entry that the move pass may drop was in level 1 when it began.
DroppableFromLevel1 ==
  pc \in {"demote", "move", "finish"} =>
    /\ \A j \in 1 .. Len(levels[1]) :
         levels[1][j].rcount < RLow => levels[1][j].id \in Ids(snap, 1)
    /\ \A j \in 1 .. Len(levels[2]) : levels[2][j].id \in Ids(snap, 1)

IndInv ==
  /\ TypeOK
  /\ LastLevelEmpty
  /\ BandsSoFar
  /\ PingedSoFar
  /\ DroppableFromLevel1

----------------------------------------------------------------------------
(* The slice helpers, on any sequence.                                     *)

\* Removing a position by rpfs shortens the sequence by one, keeps the other
\* positions and puts the last element in the hole.
LEMMA RpfsProperties ==
  ASSUME NEW S, NEW s \in Seq(S), NEW k \in 1 .. Len(s)
  PROVE  /\ rpfs(s, k) \in Seq(S)
         /\ Len(rpfs(s, k)) = Len(s) - 1
         /\ \A j \in 1 .. Len(s) - 1 :
              rpfs(s, k)[j] = IF j = k THEN s[Len(s)] ELSE s[j]
<1>1. Len(s) \in Nat /\ s[Len(s)] \in S
  BY ElementOfSeq, LenProperties
<1> DEFINE t == [s EXCEPT ![k] = s[Len(s)]]
<1>2. t \in Seq(S) /\ Len(t) = Len(s)
  BY <1>1, ExceptSeq
<1>3. \A j \in 1 .. Len(s) : t[j] = IF j = k THEN s[Len(s)] ELSE s[j]
  BY ExceptSeq
<1>4. rpfs(s, k) = SubSeq(t, 1, Len(s) - 1)
  BY DEF rpfs
<1> HIDE DEF t
<1> QED
  BY <1>1, <1>2, <1>3, <1>4

\* apts appends.
LEMMA AptsProperties ==
  ASSUME NEW S, NEW s \in Seq(S), NEW e \in S
  PROVE  /\ apts(s, e) \in Seq(S)
         /\ Len(apts(s, e)) = Len(s) + 1
         /\ \A j \in 1 .. Len(s) : apts(s, e)[j] = s[j]
         /\ apts(s, e)[Len(s) + 1] = e
BY DEF apts

\* A sorted slice has the elements of the slice that was sorted.
LEMMA SortedProperties ==
  ASSUME NEW S, NEW s \in Seq(S), NEW t \in SortedBy(s)
  PROVE  /\ t \in Seq(S)
         /\ Len(t) = Len(s)
         /\ \A j \in 1 .. Len(t) : \E k \in 1 .. Len(s) : t[j] = s[k]
<1>1. PICK f \in [1 .. Len(s) -> 1 .. Len(s)] :
        t = [k \in 1 .. Len(s) |-> s[f[k]]]
  BY DEF SortedBy, Perms
<1>2. \A k \in 1 .. Len(s) : s[f[k]] \in S
  OBVIOUS
<1> QED
  BY <1>1, <1>2, SMTT(30)

----------------------------------------------------------------------------
(* The inductive invariant.                                                *)

LEMMA LevelIs == Level = {0, 1, 2}
BY DEF Level, NLevels

\* An entry with its counters reset or updated is an entry.
LEMMA EntryUpdates ==
  ASSUME NEW e \in Entry
  PROVE  /\ Lowered(e) \in Entry
         /\ Lowered(e).rcount = RInit
         /\ Lowered(e).perf = e.perf
         /\ Lowered(e).serv = e.serv
<1>1. RInit \in 0 .. RCap
  BY CountAssumption
<1> QED
  BY <1>1 DEF Entry, Lowered

\* So is an entry that a ping has updated.
LEMMA PingUpdates ==
  ASSUME NEW e \in Entry, NEW rtt \in Nat, NEW info
  PROVE  /\ Pinged(e, rtt, info) \in Entry
         /\ Pinged(e, rtt, info).perf = rtt
         /\ Pinged(e, rtt, info).serv = e.serv
<1>1. Grow(e.rcount) \in 0 .. RCap /\ Decay(e.rcount) \in 0 .. RCap
  BY CountAssumption DEF Grow, Decay, Entry
<1> QED
  BY <1>1 DEF Entry, Pinged

LEMMA InitInd == Init => IndInv
<1> SUFFICES ASSUME Init PROVE IndInv
  OBVIOUS
<1>1. << >> \in Seq(Entry) /\ Len(<< >>) = 0
  OBVIOUS
<1> QED
  BY <1>1, LevelIs DEF Init, IndInv, TypeOK, LastLevelEmpty, BandsSoFar,
     PingedSoFar, DroppableFromLevel1, NoLevels

\* new is the cache ls with entry j of level k removed: the level is one
\* shorter, its last entry in the hole, and the other levels are as before.
Removed(ls, new, k, j) ==
  /\ new \in [Level -> Seq(Entry)]
  /\ \A m \in Level : m # k => new[m] = ls[m]
  /\ Len(new[k]) = Len(ls[k]) - 1
  /\ \A n \in 1 .. Len(new[k]) :
       new[k][n] = IF n = j THEN ls[k][Len(ls[k])] ELSE ls[k][n]
  /\ \A n \in 1 .. Len(new[k]) :
       \E m \in 1 .. Len(ls[k]) : new[k][n] = ls[k][m]

\* new is the cache ls with entry e appended to level k.
Appended(ls, new, k, e) ==
  /\ new \in [Level -> Seq(Entry)]
  /\ \A m \in Level : m # k => new[m] = ls[m]
  /\ Len(new[k]) = Len(ls[k]) + 1
  /\ \A n \in 1 .. Len(new[k]) :
       new[k][n] = IF n = Len(ls[k]) + 1 THEN e ELSE ls[k][n]

\* new is the cache ls with entry j of level k moved, as e, to level m.
Moved(ls, new, k, m, j, e) ==
  /\ new \in [Level -> Seq(Entry)]
  /\ \A n \in Level : n # k /\ n # m => new[n] = ls[n]
  /\ Len(new[m]) = Len(ls[m]) + 1
  /\ \A n \in 1 .. Len(new[m]) :
       new[m][n] = IF n = Len(ls[m]) + 1 THEN e ELSE ls[m][n]
  /\ \A n \in 1 .. Len(new[m]) :
       new[m][n] = e \/ \E q \in 1 .. Len(ls[m]) : new[m][n] = ls[m][q]
  /\ Len(new[k]) = Len(ls[k]) - 1
  /\ \A n \in 1 .. Len(new[k]) :
       new[k][n] = IF n = j THEN ls[k][Len(ls[k])] ELSE ls[k][n]
  /\ \A n \in 1 .. Len(new[k]) :
       \E q \in 1 .. Len(ls[k]) : new[k][n] = ls[k][q]

\* What rpfs on one level does to the cache.
LEMMA AfterRemoval ==
  ASSUME NEW ls \in [Level -> Seq(Entry)], NEW k \in Level,
         NEW j \in 1 .. Len(ls[k])
  PROVE  Removed(ls, [ls EXCEPT ![k] = rpfs(ls[k], j)], k, j)
<1> DEFINE new == [ls EXCEPT ![k] = rpfs(ls[k], j)]
<1>1. ls[k] \in Seq(Entry) /\ Len(ls[k]) \in Nat
  OBVIOUS
<1>2. /\ rpfs(ls[k], j) \in Seq(Entry)
      /\ Len(rpfs(ls[k], j)) = Len(ls[k]) - 1
      /\ \A n \in 1 .. Len(ls[k]) - 1 :
           rpfs(ls[k], j)[n] = IF n = j THEN ls[k][Len(ls[k])] ELSE ls[k][n]
  BY <1>1, RpfsProperties
<1>3. /\ new \in [Level -> Seq(Entry)]
      /\ new[k] = rpfs(ls[k], j)
      /\ \A m \in Level : m # k => new[m] = ls[m]
  BY <1>2
<1> HIDE DEF new
<1>4. ASSUME NEW n \in 1 .. Len(new[k])
      PROVE  \E m \in 1 .. Len(ls[k]) : new[k][n] = ls[k][m]
  <2>1. n \in 1 .. Len(ls[k]) - 1 /\ Len(ls[k]) \in 1 .. Len(ls[k])
    BY <1>1, <1>2, <1>3
  <2> QED
    BY <1>1, <1>2, <1>3, <2>1
<1>5. Removed(ls, new, k, j)
  BY <1>1, <1>2, <1>3, <1>4 DEF Removed
<1> QED
  BY <1>5 DEF new

\* What apts on one level does to the cache.
LEMMA AfterAppend ==
  ASSUME NEW ls \in [Level -> Seq(Entry)], NEW k \in Level, NEW e \in Entry
  PROVE  Appended(ls, [ls EXCEPT ![k] = apts(ls[k], e)], k, e)
<1> DEFINE new == [ls EXCEPT ![k] = apts(ls[k], e)]
<1>1. ls[k] \in Seq(Entry) /\ Len(ls[k]) \in Nat
  OBVIOUS
<1>2. /\ apts(ls[k], e) \in Seq(Entry)
      /\ Len(apts(ls[k], e)) = Len(ls[k]) + 1
      /\ \A n \in 1 .. Len(ls[k]) : apts(ls[k], e)[n] = ls[k][n]
      /\ apts(ls[k], e)[Len(ls[k]) + 1] = e
  BY <1>1, AptsProperties
<1>3. /\ new \in [Level -> Seq(Entry)]
      /\ new[k] = apts(ls[k], e)
      /\ \A m \in Level : m # k => new[m] = ls[m]
  BY <1>2
<1> HIDE DEF new
<1>4. Appended(ls, new, k, e)
  BY <1>1, <1>2, <1>3 DEF Appended
<1> QED
  BY <1>4 DEF new

\* What the moves of the second pass do to the cache.
LEMMA AfterMove ==
  ASSUME NEW ls \in [Level -> Seq(Entry)], NEW k \in Level, NEW m \in Level,
         k # m, NEW j \in 1 .. Len(ls[k]), NEW e \in Entry
  PROVE  Moved(ls, [ls EXCEPT ![m] = apts(ls[m], e), ![k] = rpfs(ls[k], j)],
               k, m, j, e)
<1> DEFINE mid == [ls EXCEPT ![m] = apts(ls[m], e)]
           new == [mid EXCEPT ![k] = rpfs(mid[k], j)]
<1>1. Appended(ls, mid, m, e)
  BY AfterAppend
<1>2. new = [ls EXCEPT ![m] = apts(ls[m], e), ![k] = rpfs(ls[k], j)]
  OBVIOUS
<1> HIDE DEF mid
<1>3. mid \in [Level -> Seq(Entry)] /\ mid[k] = ls[k]
  BY <1>1 DEF Appended
<1>4. Removed(mid, new, k, j)
  BY <1>3, AfterRemoval
<1> HIDE DEF new
<1>5. new[m] = mid[m] /\ \A n \in Level : n # k /\ n # m => new[n] = ls[n]
  BY <1>1, <1>4 DEF Appended, Removed
<1>6. ASSUME NEW n \in 1 .. Len(new[m]), new[m][n] # e
      PROVE  \E q \in 1 .. Len(ls[m]) : new[m][n] = ls[m][q]
  <2>1. Len(ls[m]) \in Nat
    OBVIOUS
  <2>2. n \in 1 .. Len(ls[m]) /\ new[m][n] = ls[m][n]
    BY <1>1, <1>5, <1>6, <2>1 DEF Appended
  <2> QED
    BY <2>2
<1>7. Moved(ls, new, k, m, j, e)
  BY <1>1, <1>3, <1>4, <1>5, <1>6 DEF Appended, Removed, Moved
<1> QED
  BY <1>2, <1>7

----------------------------------------------------------------------------
(* Every action preserves IndInv.                                          *)

LEMMA AddPeerInd ==
  ASSUME IndInv, NEW p \in Peer, NEW s \in Serv, AddPeer(p, s)
  PROVE  IndInv'
<1> DEFINE e == [id |-> p, serv |-> s, perf |-> 0, rcount |-> RInit]
<1>1. e \in Entry /\ InBand(e)
  BY CountAssumption DEF Entry, InBand
<1>2. levels' = [levels EXCEPT ![1] = apts(levels[1], e)]
  BY DEF AddPeer, NLevels
<1> HIDE DEF e
<1>3. levels \in [Level -> Seq(Entry)] /\ 1 \in Level
  BY LevelIs DEF IndInv, TypeOK
<1>4. Appended(levels, levels', 1, e)
  BY <1>1, <1>2, <1>3, AfterAppend
<1>5. levels'[0] = levels[0] /\ levels'[2] = levels[2]
  BY <1>4, LevelIs DEF Appended
<1>6. pc = "idle" /\ pc' = "idle" /\ UNCHANGED <<l, i, snap>>
  BY DEF AddPeer
<1>7. TypeOK'
  <2>1. gone' \in SUBSET Peer
    BY DEF AddPeer, IndInv, TypeOK
  <2> QED
    BY <1>4, <1>6, <2>1 DEF IndInv, TypeOK, Appended
<1>8. \A n \in 1 .. Len(levels'[1]) : InBand(levels'[1][n])
  BY <1>1, <1>3, <1>4, <1>6 DEF IndInv, BandsSoFar, Appended
<1>9. BandsSoFar'
  BY <1>5, <1>6, <1>8 DEF IndInv, BandsSoFar, InBand
<1> QED
  BY <1>5, <1>6, <1>7, <1>9
     DEF IndInv, LastLevelEmpty, PingedSoFar, DroppableFromLevel1

\* RemovePeer takes an entry of its peer out of level 0 or 1, or finds none
\* where it looks.
LEMMA RemovePeerCases ==
  ASSUME IndInv, NEW p \in Peer, RemovePeer(p)
  PROVE  \/ \E k \in Level : \E j \in 1 .. Len(levels[k]) :
              k # 2 /\ levels[k][j].id = p /\ Removed(levels, levels', k, j)
         \/ /\ levels' = levels
            /\ \A k \in 0 .. NLevels - 2 : Removable(p, k) = {}
<1>1. \/ \E k \in 0 .. NLevels - 2 : \E j \in Removable(p, k) :
           levels' = [levels EXCEPT ![k] = rpfs(levels[k], j)]
      \/ /\ levels' = levels
         /\ \A k \in 0 .. NLevels - 2 : Removable(p, k) = {}
  BY Zenon DEF RemovePeer
<1>2. ASSUME NEW k \in 0 .. NLevels - 2, NEW j \in Removable(p, k),
             levels' = [levels EXCEPT ![k] = rpfs(levels[k], j)]
      PROVE  /\ k \in Level /\ k # 2 /\ j \in 1 .. Len(levels[k])
             /\ levels[k][j].id = p /\ Removed(levels, levels', k, j)
  <2>1. j \in 1 .. Len(levels[k]) /\ levels[k][j].id = p
    BY DEF Removable
  <2>2. levels \in [Level -> Seq(Entry)] /\ k \in Level /\ k # 2
    BY LevelIs DEF IndInv, TypeOK, NLevels
  <2>3. Removed(levels, levels', k, j)
    BY <1>2, <2>1, <2>2, AfterRemoval
  <2> QED
    BY <2>1, <2>2, <2>3
<1> QED
  BY <1>1, <1>2

LEMMA RemovePeerInd ==
  ASSUME IndInv, NEW p \in Peer, RemovePeer(p)
  PROVE  IndInv'
<1>1. pc = "idle" /\ pc' = "idle" /\ UNCHANGED <<l, i, snap>>
  BY DEF RemovePeer
<1>2. gone' \in SUBSET Peer
  BY DEF RemovePeer, IndInv, TypeOK
<1>3. CASE levels' = levels
  BY <1>1, <1>2, <1>3 DEF IndInv, TypeOK, LastLevelEmpty, BandsSoFar, PingedSoFar,
     DroppableFromLevel1, Answered, InBand
<1>4. ASSUME NEW k \in Level, NEW j \in 1 .. Len(levels[k]), k # 2,
             Removed(levels, levels', k, j)
      PROVE  IndInv'
  <2>1. TypeOK'
    BY <1>1, <1>2, <1>4 DEF IndInv, TypeOK, Removed
  <2>2. \A n \in 1 .. Len(levels'[0]) : levels'[0][n].rcount >= RHigh
    <3>1. CASE k = 0
      BY <1>1, <1>4, <3>1 DEF IndInv, BandsSoFar, Removed
    <3>2. CASE k # 0
      BY <1>1, <1>4, <3>2, LevelIs DEF IndInv, BandsSoFar, Removed
    <3> QED
      BY <3>1, <3>2
  <2>3. \A n \in 1 .. Len(levels'[1]) : InBand(levels'[1][n])
    <3>1. CASE k = 1
      BY <1>1, <1>4, <3>1 DEF IndInv, BandsSoFar, Removed
    <3>2. CASE k # 1
      BY <1>1, <1>4, <3>2, LevelIs DEF IndInv, BandsSoFar, Removed
    <3> QED
      BY <3>1, <3>2
  <2>4. BandsSoFar'
    BY <1>1, <2>2, <2>3 DEF BandsSoFar, InBand
  <2>5. levels'[2] = levels[2]
    BY <1>4, LevelIs DEF Removed
  <2> QED
    BY <1>1, <2>1, <2>4, <2>5
       DEF IndInv, LastLevelEmpty, PingedSoFar, DroppableFromLevel1
<1> QED
  BY <1>3, <1>4, RemovePeerCases

LEMMA BeginUpdateInd ==
  ASSUME IndInv, BeginUpdate
  PROVE  IndInv'
<1>1. /\ pc = "idle" /\ pc' = "ping" /\ l' = 0 /\ i' = 1
      /\ UNCHANGED <<levels, snap, gone>>
  BY DEF BeginUpdate
<1>2. TypeOK'
  BY <1>1, LevelIs DEF IndInv, TypeOK
<1>3. PingedSoFar'
  BY <1>1, LevelIs DEF PingedSoFar
<1> QED
  BY <1>1, <1>2, <1>3
     DEF IndInv, LastLevelEmpty, BandsSoFar, DroppableFromLevel1

LEMMA PingEvictInd ==
  ASSUME IndInv, PingEvict
  PROVE  IndInv'
<1>1. /\ pc = "ping" /\ pc' = "ping" /\ i' = i /\ i <= Len(levels[l])
      /\ UNCHANGED <<l, snap, gone>>
      /\ levels' = [levels EXCEPT ![l] = rpfs(levels[l], i)]
  BY DEF PingEvict, AfterRpfs
<1>2. /\ levels \in [Level -> Seq(Entry)] /\ l \in Level /\ i \in Nat \ {0}
      /\ Len(levels[l]) \in Nat
  BY DEF IndInv, TypeOK
<1>3. i \in 1 .. Len(levels[l])
  BY <1>1, <1>2
<1>4. Removed(levels, levels', l, i)
  BY <1>1, <1>2, <1>3, AfterRemoval
<1>5. TypeOK'
  BY <1>1, <1>4 DEF IndInv, TypeOK, Removed
<1>6. LastLevelEmpty'
  <2>1. levels[2] = << >>
    BY <1>1 DEF IndInv, LastLevelEmpty
  <2>2. l # 2
    BY <1>3, <2>1
  <2> QED
    BY <1>4, <2>1, <2>2, LevelIs DEF LastLevelEmpty, Removed
<1>7. PingedSoFar'
  <2>1. \A k \in Level : k < l =>
          \A j \in 1 .. Len(levels'[k]) : Answered(levels'[k][j])
    BY <1>1, <1>2, <1>4, LevelIs DEF IndInv, PingedSoFar, Removed
  <2>2. \A j \in 1 .. Len(levels'[l]) : j < i => Answered(levels'[l][j])
    BY <1>1, <1>2, <1>3, <1>4 DEF IndInv, PingedSoFar, Removed
  <2> QED
    BY <1>1, <2>1, <2>2 DEF PingedSoFar, Answered
<1> QED
  BY <1>1, <1>5, <1>6, <1>7 DEF IndInv, BandsSoFar, DroppableFromLevel1

LEMMA PingKeepInd ==
  ASSUME IndInv, PingKeep
  PROVE  IndInv'
<1>1. /\ levels \in [Level -> Seq(Entry)] /\ l \in Level /\ i \in Nat \ {0}
      /\ levels[l] \in Seq(Entry) /\ Len(levels[l]) \in Nat
  BY DEF IndInv, TypeOK
<1>2. /\ pc = "ping" /\ pc' = "ping" /\ i' = i + 1 /\ i <= Len(levels[l])
      /\ UNCHANGED <<l, snap, gone>>
  BY DEF PingKeep
<1>3. i \in 1 .. Len(levels[l]) /\ levels[l][i] \in Entry
  BY <1>1, <1>2
<1>4. PICK rtt \in Replies[levels[l][i].id],
           info \in ServInfos(levels[l][i].serv) :
        /\ ~ Unfit(rtt, info)
        /\ levels' = [levels EXCEPT ![l] =
                        [levels[l] EXCEPT ![i] = Pinged(levels[l][i], rtt, info)]]
  BY DEF PingKeep
<1>5. rtt \in Nat /\ levels[l][i].serv \in Serv
  BY <1>3, <1>4, ReqAssumption DEF Entry
<1> DEFINE e == Pinged(levels[l][i], rtt, info)
<1>6. e \in Entry /\ e.perf = rtt /\ e.serv = levels[l][i].serv
  BY <1>3, <1>5, PingUpdates
<1>7. Answered(e)
  <2>1. rtt # 0 /\ ~ PerfLessThan(info.hard, rtt)
    BY <1>4 DEF Unfit
  <2>2. info.hard = HardReq[levels[l][i].serv] \/ info.hard = 0
    BY <1>4 DEF ServInfos
  <2>3. rtt <= info.hard /\ info.hard = HardReq[levels[l][i].serv]
    BY <1>5, <2>1, <2>2, ReqAssumption DEF PerfLessThan
  <2> HIDE DEF e
  <2> QED
    BY <1>6, <2>1, <2>3 DEF Answered, PerfLessThan
<1>8. levels' = [levels EXCEPT ![l] = [levels[l] EXCEPT ![i] = e]]
  BY <1>4
<1> HIDE DEF e
<1> DEFINE s == [levels[l] EXCEPT ![i] = e]
<1>9. /\ s \in Seq(Entry) /\ Len(s) = Len(levels[l])
      /\ \A j \in 1 .. Len(levels[l]) : s[j] = IF j = i THEN e ELSE levels[l][j]
  BY <1>1, <1>3, <1>6, ExceptSeq
<1>10. levels' = [levels EXCEPT ![l] = s]
  BY <1>8
<1> HIDE DEF s
<1>11. /\ levels' \in [Level -> Seq(Entry)] /\ levels'[l] = s
       /\ \A k \in Level : k # l => levels'[k] = levels[k]
  BY <1>1, <1>9, <1>10
<1>12. TypeOK'
  BY <1>1, <1>2, <1>11 DEF IndInv, TypeOK
<1>13. LastLevelEmpty'
  <2>1. levels[2] = << >>
    BY <1>2 DEF IndInv, LastLevelEmpty
  <2>2. l # 2
    BY <1>3, <2>1
  <2> QED
    BY <1>11, <2>1, <2>2, LevelIs DEF LastLevelEmpty
<1>14. PingedSoFar'
  <2>1. \A k \in Level : k < l =>
          \A j \in 1 .. Len(levels'[k]) : Answered(levels'[k][j])
    BY <1>1, <1>2, <1>11, LevelIs, SMTT(30) DEF IndInv, PingedSoFar
  <2>2. \A j \in 1 .. Len(levels'[l]) : j < i + 1 => Answered(levels'[l][j])
    BY <1>1, <1>2, <1>7, <1>9, <1>11 DEF IndInv, PingedSoFar
  <2> QED
    BY <1>2, <2>1, <2>2 DEF PingedSoFar, Answered
<1> QED
  BY <1>2, <1>12, <1>13, <1>14 DEF IndInv, BandsSoFar, DroppableFromLevel1

LEMMA PingNextLevelInd ==
  ASSUME IndInv, PingNextLevel
  PROVE  IndInv'
<1>1. /\ levels \in [Level -> Seq(Entry)] /\ l \in Level /\ i \in Nat \ {0}
      /\ \A k \in Level : Len(levels[k]) \in Nat
  BY DEF IndInv, TypeOK
<1>2. /\ pc = "ping" /\ i > Len(levels[l]) /\ i' = 1
      /\ levels' = levels /\ gone' = gone
  BY DEF PingNextLevel
<1>3. \A k \in Level : k <= l =>
        \A j \in 1 .. Len(levels[k]) : Answered(levels[k][j])
  BY <1>1, <1>2, LevelIs DEF IndInv, PingedSoFar
<1>4. CASE l < NLevels - 1 /\ l' = l + 1 /\ UNCHANGED <<pc, snap>>
  <2>1. TypeOK'
    BY <1>1, <1>2, <1>4, LevelIs DEF IndInv, TypeOK, NLevels
  <2>2. PingedSoFar'
    BY <1>1, <1>2, <1>3, <1>4, LevelIs DEF PingedSoFar, Answered
  <2> QED
    BY <1>2, <1>4, <2>1, <2>2
       DEF IndInv, LastLevelEmpty, BandsSoFar, DroppableFromLevel1
<1>5. CASE l = NLevels - 1 /\ l' = 0 /\ pc' = "demote" /\ snap' = levels
  <2>1. TypeOK'
    BY <1>1, <1>2, <1>5, LevelIs DEF IndInv, TypeOK
  <2>2. PingedSoFar'
    BY <1>1, <1>2, <1>3, <1>5, LevelIs DEF PingedSoFar, Answered, NLevels
  <2>3. levels[2] = << >>
    BY <1>2 DEF IndInv, LastLevelEmpty
  <2>4. DroppableFromLevel1'
    BY <1>2, <1>5, <2>3 DEF DroppableFromLevel1, Ids, EntriesOf
  <2>5. BandsSoFar'
    BY <1>2, <1>5, <1>1, LevelIs DEF BandsSoFar
  <2> QED
    BY <1>2, <1>5, <2>1, <2>2, <2>3, <2>4, <2>5 DEF IndInv, LastLevelEmpty
<1> QED
  BY <1>4, <1>5 DEF PingNextLevel

LEMMA DemoteEntryInd ==
  ASSUME IndInv, DemoteEntry
  PROVE  IndInv'
<1>1. /\ levels \in [Level -> Seq(Entry)] /\ i \in Nat \ {0}
      /\ levels[0] \in Seq(Entry) /\ Len(levels[0]) \in Nat
      /\ levels[1] \in Seq(Entry) /\ Len(levels[1]) \in Nat
  BY LevelIs DEF IndInv, TypeOK
<1>2. /\ pc = "demote" /\ pc' = "demote" /\ i' = i /\ i <= Len(levels[0])
      /\ UNCHANGED <<l, snap, gone>>
      /\ levels' = [levels EXCEPT ![1] = apts(levels[1], Lowered(levels[0][i])),
                                  ![0] = rpfs(levels[0], i)]
  BY DEF DemoteEntry, AfterRpfs
<1>3. i \in 1 .. Len(levels[0]) /\ levels[0][i] \in Entry
  BY <1>1, <1>2
<1> DEFINE e == Lowered(levels[0][i])
<1>4. /\ e \in Entry /\ e.rcount = RInit
      /\ e.perf = levels[0][i].perf /\ e.serv = levels[0][i].serv
  BY <1>3, EntryUpdates
<1>5. Moved(levels, levels', 0, 1, i, e)
  <2>1. 0 \in Level /\ 1 \in Level /\ 0 # 1
    BY LevelIs
  <2> HIDE DEF e
  <2>2. Moved(levels, [levels EXCEPT ![1] = apts(levels[1], e),
                                     ![0] = rpfs(levels[0], i)], 0, 1, i, e)
    BY <1>1, <1>3, <1>4, <2>1, AfterMove
  <2> QED
    BY <1>2, <2>2 DEF e
<1> HIDE DEF e
<1>6. levels'[2] = levels[2]
  BY <1>5, LevelIs DEF Moved
<1>7. TypeOK'
  BY <1>1, <1>2, <1>5 DEF IndInv, TypeOK, Moved
<1>8. BandsSoFar'
  <2>1. \A j \in 1 .. Len(levels'[0]) : j < i => levels'[0][j].rcount >= RHigh
    <3>1. \A j \in 1 .. Len(levels[0]) :
            j < i => levels[0][j].rcount >= RHigh
      BY <1>2 DEF IndInv, BandsSoFar
    <3>2. /\ Len(levels'[0]) = Len(levels[0]) - 1
          /\ \A j \in 1 .. Len(levels'[0]) :
               j # i => levels'[0][j] = levels[0][j]
      BY <1>5 DEF Moved
    <3> SUFFICES ASSUME NEW j \in 1 .. Len(levels'[0]), j < i
                 PROVE  levels'[0][j].rcount >= RHigh
      OBVIOUS
    <3>3. j \in 1 .. Len(levels[0]) /\ levels'[0][j] = levels[0][j]
      BY <1>1, <3>2
    <3> QED
      BY <3>1, <3>3
  <2> QED
    BY <1>2, <2>1 DEF BandsSoFar
<1>9. PingedSoFar'
  <2>1. Answered(e)
    BY <1>2, <1>3, <1>4, LevelIs DEF IndInv, PingedSoFar, Answered
  <2>2. \A j \in 1 .. Len(levels'[0]) : Answered(levels'[0][j])
    <3>1. \A j \in 1 .. Len(levels[0]) : Answered(levels[0][j])
      BY <1>2, LevelIs DEF IndInv, PingedSoFar
    <3> QED
      BY <1>5, <3>1 DEF Moved
  <2>3. \A j \in 1 .. Len(levels'[1]) : Answered(levels'[1][j])
    <3>1. \A j \in 1 .. Len(levels[1]) : Answered(levels[1][j])
      BY <1>2, LevelIs DEF IndInv, PingedSoFar
    <3> QED
      BY <1>5, <2>1, <3>1 DEF Moved
  <2>4. \A j \in 1 .. Len(levels'[2]) : Answered(levels'[2][j])
    BY <1>2, <1>6, LevelIs DEF IndInv, PingedSoFar
  <2> QED
    BY <1>2, <2>2, <2>3, <2>4, LevelIs DEF PingedSoFar, Answered
<1>10. DroppableFromLevel1'
  <2>1. ~ (e.rcount < RLow)
    BY <1>4, CountAssumption
  <2>2. \A j \in 1 .. Len(levels'[1]) :
          levels'[1][j].rcount < RLow => levels'[1][j].id \in Ids(snap, 1)
    BY <1>1, <1>2, <1>5, <2>1, ZenonT(40) DEF IndInv, DroppableFromLevel1, Moved
  <2> QED
    BY <1>2, <1>6, <2>2 DEF IndInv, DroppableFromLevel1
<1> QED
  BY <1>2, <1>6, <1>7, <1>8, <1>9, <1>10 DEF IndInv, LastLevelEmpty

LEMMA PromoteEntryInd ==
  ASSUME IndInv, PromoteEntry
  PROVE  IndInv'
<1>1. /\ levels \in [Level -> Seq(Entry)] /\ i \in Nat \ {0}
      /\ levels[0] \in Seq(Entry) /\ Len(levels[0]) \in Nat
      /\ levels[1] \in Seq(Entry) /\ Len(levels[1]) \in Nat
  BY LevelIs DEF IndInv, TypeOK
<1>2. pc = "move" /\ l = 1
  BY DEF PromoteEntry, IndInv, BandsSoFar
<1>3. /\ pc' = "move" /\ i' = i /\ i <= Len(levels[1])
      /\ levels[1][i].rcount > RHigh
      /\ UNCHANGED <<l, snap, gone>>
      /\ levels' = [levels EXCEPT ![0] = apts(levels[0], levels[1][i]),
                                  ![1] = rpfs(levels[1], i)]
  BY <1>2 DEF PromoteEntry, Promotable, AfterRpfs
<1>4. i \in 1 .. Len(levels[1]) /\ levels[1][i] \in Entry
  BY <1>1, <1>3
<1> DEFINE e == levels[1][i]
<1>5. Moved(levels, levels', 1, 0, i, e)
  <2>1. 0 \in Level /\ 1 \in Level /\ 1 # 0
    BY LevelIs
  <2> HIDE DEF e
  <2>2. Moved(levels, [levels EXCEPT ![0] = apts(levels[0], e),
                                     ![1] = rpfs(levels[1], i)], 1, 0, i, e)
    BY <1>1, <1>4, <2>1, AfterMove DEF e
  <2> QED
    BY <1>3, <2>2 DEF e
<1>6. Answered(e) /\ e.rcount >= RHigh
  BY <1>2, <1>3, <1>4, CountAssumption, LevelIs
     DEF IndInv, PingedSoFar, Entry
<1> HIDE DEF e
<1>7. levels'[2] = levels[2]
  BY <1>5, LevelIs DEF Moved
<1>8. TypeOK'
  BY <1>1, <1>2, <1>3, <1>5 DEF IndInv, TypeOK, Moved
<1>9. BandsSoFar'
  <2>1. \A j \in 1 .. Len(levels'[0]) : levels'[0][j].rcount >= RHigh
    BY <1>1, <1>2, <1>5, <1>6 DEF IndInv, BandsSoFar, Moved
  <2>2. \A j \in 1 .. Len(levels'[1]) : j < i => InBand(levels'[1][j])
    BY <1>1, <1>2, <1>5 DEF IndInv, BandsSoFar, Moved
  <2> QED
    BY <1>2, <1>3, <2>1, <2>2 DEF BandsSoFar, InBand
<1>10. PingedSoFar'
  <2>1. \A j \in 1 .. Len(levels'[1]) : Answered(levels'[1][j])
    BY <1>2, <1>5, LevelIs DEF IndInv, PingedSoFar, Moved
  <2>2. \A j \in 1 .. Len(levels'[0]) : Answered(levels'[0][j])
    BY <1>1, <1>2, <1>5, <1>6, LevelIs DEF IndInv, PingedSoFar, Moved
  <2>3. \A j \in 1 .. Len(levels'[2]) : Answered(levels'[2][j])
    BY <1>2, <1>7, LevelIs DEF IndInv, PingedSoFar
  <2> QED
    BY <1>3, <2>1, <2>2, <2>3, LevelIs DEF PingedSoFar, Answered
<1>11. DroppableFromLevel1'
  <2>1. \A j \in 1 .. Len(levels'[1]) :
          levels'[1][j].rcount < RLow => levels'[1][j].id \in Ids(snap, 1)
    BY <1>1, <1>2, <1>5 DEF IndInv, DroppableFromLevel1, Moved
  <2> QED
    BY <1>2, <1>3, <1>7, <2>1 DEF IndInv, DroppableFromLevel1
<1> QED
  BY <1>3, <1>8, <1>9, <1>10, <1>11 DEF IndInv, LastLevelEmpty

LEMMA DropEntryInd ==
  ASSUME IndInv, DropEntry
  PROVE  IndInv'
<1>1. /\ levels \in [Level -> Seq(Entry)] /\ i \in Nat \ {0}
      /\ levels[1] \in Seq(Entry) /\ Len(levels[1]) \in Nat
      /\ levels[2] \in Seq(Entry) /\ Len(levels[2]) \in Nat
  BY LevelIs DEF IndInv, TypeOK
<1>2. pc = "move" /\ l = 1
  BY DEF DropEntry, IndInv, BandsSoFar
<1>3. /\ pc' = "move" /\ i' = i /\ i <= Len(levels[1])
      /\ levels[1][i].rcount < RLow
      /\ UNCHANGED <<l, snap, gone>>
      /\ levels' = [levels EXCEPT ![2] = apts(levels[2], Lowered(levels[1][i])),
                                  ![1] = rpfs(levels[1], i)]
  BY <1>2 DEF DropEntry, AfterRpfs
<1>4. i \in 1 .. Len(levels[1]) /\ levels[1][i] \in Entry
  BY <1>1, <1>3
<1> DEFINE e == Lowered(levels[1][i])
<1>5. /\ e \in Entry /\ e.id = levels[1][i].id
      /\ e.perf = levels[1][i].perf /\ e.serv = levels[1][i].serv
  BY <1>4, EntryUpdates DEF Lowered, Entry
<1>6. Moved(levels, levels', 1, 2, i, e)
  <2>1. 2 \in Level /\ 1 \in Level /\ 1 # 2
    BY LevelIs
  <2> HIDE DEF e
  <2>2. Moved(levels, [levels EXCEPT ![2] = apts(levels[2], e),
                                     ![1] = rpfs(levels[1], i)], 1, 2, i, e)
    BY <1>1, <1>4, <1>5, <2>1, AfterMove
  <2> QED
    BY <1>3, <2>2 DEF e
<1> HIDE DEF e
<1>7. levels'[0] = levels[0]
  BY <1>6, LevelIs DEF Moved
<1>8. TypeOK'
  BY <1>1, <1>2, <1>3, <1>6 DEF IndInv, TypeOK, Moved
<1>9. BandsSoFar'
  <2>1. \A j \in 1 .. Len(levels'[1]) : j < i => InBand(levels'[1][j])
    <3>1. \A j \in 1 .. Len(levels[1]) : j < i => InBand(levels[1][j])
      BY <1>2 DEF IndInv, BandsSoFar
    <3>2. /\ Len(levels'[1]) = Len(levels[1]) - 1
          /\ \A n \in 1 .. Len(levels'[1]) :
               levels'[1][n] = IF n = i THEN levels[1][Len(levels[1])] ELSE levels[1][n]
      BY <1>6 DEF Moved
    <3> QED
      BY <1>1, <3>1, <3>2
  <2> QED
    BY <1>2, <1>3, <1>7, <2>1 DEF IndInv, BandsSoFar, InBand
<1>10. PingedSoFar'
  <2>1. Answered(e)
    BY <1>2, <1>4, <1>5, LevelIs DEF IndInv, PingedSoFar, Answered
  <2>2. \A j \in 1 .. Len(levels'[1]) : Answered(levels'[1][j])
    BY <1>2, <1>6, LevelIs DEF IndInv, PingedSoFar, Moved
  <2>3. \A j \in 1 .. Len(levels'[2]) : Answered(levels'[2][j])
    BY <1>1, <1>2, <1>6, <2>1, LevelIs DEF IndInv, PingedSoFar, Moved
  <2>4. \A j \in 1 .. Len(levels'[0]) : Answered(levels'[0][j])
    BY <1>2, <1>7, LevelIs DEF IndInv, PingedSoFar
  <2> QED
    BY <1>3, <2>2, <2>3, <2>4, LevelIs DEF PingedSoFar, Answered
<1>11. DroppableFromLevel1'
  <2>1. e.id \in Ids(snap, 1)
    BY <1>2, <1>3, <1>4, <1>5 DEF IndInv, DroppableFromLevel1
  <2>2. \A j \in 1 .. Len(levels'[1]) :
          levels'[1][j].rcount < RLow => levels'[1][j].id \in Ids(snap, 1)
    BY <1>1, <1>2, <1>6 DEF IndInv, DroppableFromLevel1, Moved
  <2>3. \A j \in 1 .. Len(levels'[2]) : levels'[2][j].id \in Ids(snap, 1)
    BY <1>1, <1>2, <1>6, <2>1 DEF IndInv, DroppableFromLevel1, Moved
  <2> QED
    BY <1>3, <2>2, <2>3 DEF DroppableFromLevel1
<1> QED
  BY <1>3, <1>8, <1>9, <1>10, <1>11 DEF IndInv, LastLevelEmpty

LEMMA SkipInd ==
  ASSUME IndInv, DemoteSkip \/ DemoteDone \/ MoveSkip \/ MoveDone
  PROVE  IndInv'
<1>1. /\ i \in Nat \ {0} /\ \A k \in Level : Len(levels[k]) \in Nat
      /\ levels \in [Level -> Seq(Entry)]
      /\ 0 \in Level /\ 1 \in Level
  BY LevelIs DEF IndInv, TypeOK
<1>2. UNCHANGED <<levels, snap, gone>>
  BY DEF DemoteSkip, DemoteDone, MoveSkip, MoveDone
<1>3. CASE DemoteSkip
  <2>1. /\ pc = "demote" /\ pc' = "demote" /\ l' = l /\ i' = i + 1
        /\ i <= Len(levels[0]) /\ ~ (levels[0][i].rcount < RHigh)
    BY <1>3 DEF DemoteSkip
  <2>2. TypeOK'
    BY <1>1, <1>2, <2>1 DEF IndInv, TypeOK
  <2>3. levels[0][i].rcount >= RHigh
    <3>1. levels[0][i] \in Entry
      BY <1>1, <2>1
    <3> QED
      BY <2>1, <3>1, CountAssumption, SMTT(30) DEF Entry
  <2>4. BandsSoFar'
    BY <1>1, <1>2, <2>1, <2>3 DEF IndInv, BandsSoFar
  <2> QED
    BY <1>2, <2>1, <2>2, <2>4
       DEF IndInv, LastLevelEmpty, PingedSoFar, DroppableFromLevel1
<1>4. CASE DemoteDone
  <2>1. /\ pc = "demote" /\ pc' = "move" /\ l' = 1 /\ i' = 1
        /\ i > Len(levels[0])
    BY <1>4 DEF DemoteDone
  <2>2. TypeOK'
    BY <1>1, <1>2, <2>1 DEF IndInv, TypeOK
  <2>3. BandsSoFar'
    BY <1>1, <1>2, <2>1 DEF IndInv, BandsSoFar
  <2> QED
    BY <1>2, <2>1, <2>2, <2>3
       DEF IndInv, LastLevelEmpty, PingedSoFar, DroppableFromLevel1
<1>5. CASE MoveSkip
  <2>1. /\ pc = "move" /\ pc' = "move" /\ l = 1 /\ l' = l /\ i' = i + 1
        /\ i <= Len(levels[1])
        /\ ~ (levels[1][i].rcount > RHigh) /\ ~ (levels[1][i].rcount < RLow)
    BY <1>5 DEF MoveSkip, Promotable, IndInv, BandsSoFar
  <2>2. TypeOK'
    BY <1>1, <1>2, <2>1 DEF IndInv, TypeOK
  <2>3. InBand(levels[1][i])
    <3>1. levels[1][i] \in Entry
      BY <1>1, <2>1
    <3> QED
      BY <2>1, <3>1, CountAssumption, SMTT(30) DEF Entry, InBand
  <2>4. \A j \in 1 .. Len(levels[1]) : j < i + 1 => InBand(levels[1][j])
    BY <1>1, <2>1, <2>3 DEF IndInv, BandsSoFar
  <2>5. BandsSoFar'
    BY <1>2, <2>1, <2>4 DEF IndInv, BandsSoFar, InBand
  <2> QED
    BY <1>2, <2>1, <2>2, <2>5
       DEF IndInv, LastLevelEmpty, PingedSoFar, DroppableFromLevel1
<1>6. CASE MoveDone
  <2>1. /\ pc = "move" /\ pc' = "finish" /\ l = 1 /\ l' = l /\ i' = i
        /\ i > Len(levels[1])
    BY <1>6 DEF MoveDone, IndInv, BandsSoFar
  <2>2. TypeOK'
    BY <1>1, <1>2, <2>1 DEF IndInv, TypeOK
  <2>3. \A j \in 1 .. Len(levels[1]) : InBand(levels[1][j])
    BY <1>1, <2>1 DEF IndInv, BandsSoFar
  <2>4. BandsSoFar'
    BY <1>2, <2>1, <2>3 DEF IndInv, BandsSoFar, InBand
  <2> QED
    BY <1>2, <2>1, <2>2, <2>4
       DEF IndInv, LastLevelEmpty, PingedSoFar, DroppableFromLevel1
<1> QED
  BY <1>3, <1>4, <1>5, <1>6

LEMMA FinishUpdateInd ==
  ASSUME IndInv, FinishUpdate
  PROVE  IndInv'
<1> DEFINE c == ClearLastLevel(levels)
<1>1. levels \in [Level -> Seq(Entry)]
  BY DEF IndInv, TypeOK
<1>2. /\ c[0] = levels[0] /\ c[1] = levels[1] /\ c[2] = << >>
      /\ levels[0] \in Seq(Entry) /\ levels[1] \in Seq(Entry)
  BY <1>1, LevelIs DEF ClearLastLevel, NLevels
<1>3. PICK s0 \in SortedBy(c[0]), s1 \in SortedBy(c[1]), s2 \in SortedBy(c[2]) :
        levels' = [k \in Level |-> IF k = 0 THEN s0 ELSE IF k = 1 THEN s1 ELSE s2]
  BY DEF FinishUpdate
<1>4. levels'[0] = s0 /\ levels'[1] = s1 /\ levels'[2] = s2
  BY <1>3, LevelIs
<1>5. /\ pc = "finish" /\ pc' = "idle" /\ l' = 0 /\ i' = 1
      /\ snap' = NoLevels /\ gone' = gone
  BY DEF FinishUpdate
<1> HIDE DEF c
<1>6. /\ s0 \in Seq(Entry)
      /\ \A j \in 1 .. Len(s0) : \E k \in 1 .. Len(levels[0]) : s0[j] = levels[0][k]
  <2>1. s0 \in SortedBy(levels[0]) /\ levels[0] \in Seq(Entry)
    BY <1>2, <1>3
  <2> QED
    BY <2>1, SortedProperties
<1>7. /\ s1 \in Seq(Entry)
      /\ \A j \in 1 .. Len(s1) : \E k \in 1 .. Len(levels[1]) : s1[j] = levels[1][k]
  <2>1. s1 \in SortedBy(levels[1]) /\ levels[1] \in Seq(Entry)
    BY <1>2, <1>3
  <2> QED
    BY <2>1, SortedProperties
<1>8. s2 \in Seq(Entry) /\ s2 = << >>
  <2>1. << >> \in Seq(Entry) /\ Len(<< >>) = 0
    OBVIOUS
  <2>2. s2 \in SortedBy(<< >>)
    BY <1>2, <1>3
  <2>3. s2 \in Seq(Entry) /\ Len(s2) = Len(<< >>)
    BY <2>1, <2>2, SortedProperties, ZenonT(40)
  <2> QED
    BY <2>1, <2>3
<1>9. TypeOK'
  <2>1. levels' \in [Level -> Seq(Entry)]
    BY <1>3, <1>6, <1>7, <1>8
  <2>2. NoLevels \in [Level -> Seq(Entry)]
    BY DEF NoLevels
  <2> QED
    BY <1>5, <2>1, <2>2, LevelIs DEF IndInv, TypeOK
<1>10. BandsSoFar'
  <2>1. \A j \in 1 .. Len(s0) : s0[j].rcount >= RHigh
    BY <1>5, <1>6 DEF IndInv, BandsSoFar
  <2>2. \A j \in 1 .. Len(s1) : InBand(s1[j])
    BY <1>5, <1>7 DEF IndInv, BandsSoFar
  <2> QED
    BY <1>4, <1>5, <2>1, <2>2 DEF BandsSoFar, InBand
<1> QED
  BY <1>4, <1>5, <1>8, <1>9, <1>10
     DEF IndInv, LastLevelEmpty, PingedSoFar, DroppableFromLevel1

LEMMA NextInd == IndInv /\ [Next]_vars => IndInv'
<1> SUFFICES ASSUME IndInv, [Next]_vars PROVE IndInv'
  OBVIOUS
<1>1. ASSUME UNCHANGED vars PROVE IndInv'
  BY <1>1 DEF vars, IndInv, TypeOK, LastLevelEmpty, BandsSoFar, PingedSoFar,
     DroppableFromLevel1, Answered, InBand
<1>2. ASSUME Update PROVE IndInv'
  BY <1>2, BeginUpdateInd, PingEvictInd, PingKeepInd, PingNextLevelInd,
     DemoteEntryInd, PromoteEntryInd, DropEntryInd, SkipInd, FinishUpdateInd
     DEF Update
<1> QED
  BY <1>1, <1>2, AddPeerInd, RemovePeerInd DEF Next

----------------------------------------------------------------------------
(* The theorems.                                                           *)

LEMMA IndInvHolds == Spec => []IndInv
BY InitInd, NextInd, PTL DEF Spec

\* Type correctness: in particular RCount, a Go uint, never leaves 0..RCap,
\* so no update of it wraps around.
THEOREM TypeCorrect == Spec => []TypeOK
<1>1. IndInv => TypeOK
  BY DEF IndInv
<1> QED
  BY <1>1, IndInvHolds, PTL

\* Whenever requests can look into the cache (cache.mux is free), every entry
\* is in the level its RCount belongs to and the last level is empty.
THEOREM LevelBandsHold == Spec => []LevelBands
<1>1. IndInv => LevelBands
  BY DEF IndInv, LastLevelEmpty, BandsSoFar, LevelBands, EntriesOf, InBand
<1> QED
  BY <1>1, IndInvHolds, PTL

\* When the ping pass of updateCache is over, no entry is left that it has
\* not pinged or that failed the ping, although rpfs moves entries around
\* under the pass's loop variable.
THEOREM PingPassCompletes == Spec => []PingPassComplete
<1>1. IndInv => PingPassComplete
  BY DEF IndInv, PingedSoFar, PingPassComplete, EntriesOf, Answered
<1> QED
  BY <1>1, IndInvHolds, PTL

\* An update that demotes an entry from level 0 does not drop it as well.
THEOREM NoChainDropHolds == Spec => []NoChainDrop
<1>1. IndInv => NoChainDrop
  BY DEF IndInv, DroppableFromLevel1, NoChainDrop, Ids, EntriesOf
<1> QED
  BY <1>1, IndInvHolds, PTL
=============================================================================
