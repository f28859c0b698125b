------------------------ MODULE RegistryCacheProofs ------------------------
(***************************************************************************)
(* BoundedStaleness of RegistryCache for any number of callers, services   *)
(* and versions and any TTL and latency.                                   *)
(*                                                                         *)
(* The property speaks of returned information only.  The argument follows *)
(* it backwards: what Get returns was in an entry that had not expired, an *)
(* entry's expiry is at most the TTL after its answer arrived, and the     *)
(* answer arrived at most MaxLatency after the registry read the version   *)
(* that was then current.  IndInv says so of every entry in the map, every *)
(* entry a caller holds between its two steps, and every answer under way. *)
(***************************************************************************)
EXTENDS RegistryCache, TLAPS

\* An entry expires soon enough after its version was replaced.
EntryOK(s, e) ==
  /\ e.expiry <= now + Ttl
  /\ e.ver < Len(pub[s]) =>
       e.expiry <= pub[s][e.ver + 1] + (MaxLatency + Ttl)

\* An answer under way carries a version that was current when it was sent.
ReplyOK(s, r) ==
  /\ r.at <= now
  /\ now <= r.at + MaxLatency
  /\ r.ver < Len(pub[s]) => r.at <= pub[s][r.ver + 1]

ReturnOK(s, r) ==
  /\ r.at <= now
  /\ FreshWithin(s, r, MaxLatency + Ttl)

IndInv ==
  /\ TypeOK
  /\ \A s \in Serv : \A e \in data[s] : EntryOK(s, e)
  /\ \A c \in Caller : \A e \in held[c] : EntryOK(serv[c], e)
  /\ \A c \in Caller : \A r \in reply[c] : ReplyOK(serv[c], r)
  /\ \A c \in Caller : \A r \in ret[c] : ReturnOK(serv[c], r)
  /\ \A c \in Caller : pc[c] # "request" => reply[c] = {}
  /\ \A s \in Serv : pub[s] # << >>

LEMMA InitInd == Init => IndInv
BY DEF Init, IndInv, TypeOK, AtMostOne

\* Time passing keeps everything: expiries are absolute, and the clock waits
\* for an answer that is MaxLatency old.
LEMMA TickInd ==
  ASSUME IndInv, Tick
  PROVE  IndInv'
<1>1. /\ now \in Nat /\ now' = now + 1
      /\ UNCHANGED <<pub, data, pc, serv, held, reply, ret>>
  BY DEF Tick, IndInv, TypeOK
<1>2. TypeOK'
  BY <1>1 DEF IndInv, TypeOK, AtMostOne
<1>3. ASSUME NEW s \in Serv, NEW e \in Entry, EntryOK(s, e)
      PROVE  EntryOK(s, e)'
  BY <1>1, <1>3, TimeAssumption DEF EntryOK, Entry
<1>4. ASSUME NEW c \in Caller, NEW r \in reply[c]
      PROVE  ReplyOK(serv[c], r)'
  <2>1. r \in Reply /\ ReplyOK(serv[c], r) /\ now < r.at + MaxLatency
    BY DEF IndInv, TypeOK, Tick
  <2> QED
    BY <1>1, <2>1, TimeAssumption DEF ReplyOK, Reply
<1>5. ASSUME NEW c \in Caller, NEW r \in ret[c]
      PROVE  ReturnOK(serv[c], r)'
  <2>1. r \in Reply /\ ReturnOK(serv[c], r)
    BY DEF IndInv, TypeOK
  <2> QED
    BY <1>1, <2>1 DEF ReturnOK, FreshWithin, Reply
<1>6. \A s \in Serv : \A e \in data[s] : EntryOK(s, e)'
  BY <1>3 DEF IndInv, TypeOK
<1>7. \A c \in Caller : \A e \in held[c] : EntryOK(serv[c], e)'
  BY <1>1, <1>3 DEF IndInv, TypeOK
<1> QED
  BY <1>1, <1>2, <1>4, <1>5, <1>6, <1>7 DEF IndInv

\* A publication can only replace a version now, and nothing expires or was
\* sent or returned later than the bounds allow from now on.
LEMMA PublishInd ==
  ASSUME IndInv, NEW t \in Serv, Publish(t)
  PROVE  IndInv'
<1>1. /\ now \in Nat /\ pub' = [pub EXCEPT ![t] = Append(pub[t], now)]
      /\ UNCHANGED <<now, data, pc, serv, held, reply, ret>>
      /\ pub \in [Serv -> Seq(Nat)]
  BY DEF Publish, IndInv, TypeOK
<1>2. TypeOK'
  BY <1>1 DEF IndInv, TypeOK, AtMostOne
<1>3. ASSUME NEW s \in Serv, NEW v \in Nat, v < Len(pub'[s])
      PROVE  \/ v < Len(pub[s]) /\ pub'[s][v + 1] = pub[s][v + 1]
             \/ pub'[s][v + 1] = now
  BY <1>1, <1>3
<1>4. ASSUME NEW s \in Serv, NEW e \in Entry, EntryOK(s, e)
      PROVE  EntryOK(s, e)'
  BY <1>1, <1>3, <1>4, TimeAssumption, SMTT(30) DEF EntryOK, Entry
<1>5. ASSUME NEW c \in Caller, NEW r \in reply[c]
      PROVE  ReplyOK(serv[c], r)'
  <2>1. r \in Reply /\ ReplyOK(serv[c], r) /\ serv[c] \in Serv
    BY DEF IndInv, TypeOK
  <2> QED
    BY <1>1, <1>3, <2>1 DEF ReplyOK, Reply
<1>6. ASSUME NEW c \in Caller, NEW r \in ret[c]
      PROVE  ReturnOK(serv[c], r)'
  <2>1. r \in Reply /\ ReturnOK(serv[c], r) /\ serv[c] \in Serv
    BY DEF IndInv, TypeOK
  <2> QED
    <3>1. r.at \in Nat /\ r.ver \in Nat /\ MaxLatency + Ttl \in Nat
      BY <2>1, TimeAssumption DEF Reply
    <3>2. r.ver < Len(pub'[serv[c]]) =>
            r.at <= pub'[serv[c]][r.ver + 1] + (MaxLatency + Ttl)
      <4>1. ASSUME r.ver < Len(pub'[serv[c]])
            PROVE  r.at <= pub'[serv[c]][r.ver + 1] + (MaxLatency + Ttl)
        <5>1. CASE pub'[serv[c]][r.ver + 1] = now
          <6>1. r.at <= now /\ now \in Nat
            BY <1>1, <2>1 DEF ReturnOK
          <6>2. r.at <= now + (MaxLatency + Ttl)
            BY <3>1, <6>1
          <6> QED
            BY <5>1, <6>2
        <5>2. CASE /\ r.ver < Len(pub[serv[c]])
                   /\ pub'[serv[c]][r.ver + 1] = pub[serv[c]][r.ver + 1]
          BY <2>1, <5>2 DEF ReturnOK, FreshWithin
        <5> QED
          BY <1>3, <2>1, <3>1, <4>1, <5>1, <5>2
      <4> QED
        BY <4>1
    <3> QED
      BY <1>1, <2>1, <3>2 DEF ReturnOK, FreshWithin
<1>7. \A s \in Serv : \A e \in data[s] : EntryOK(s, e)'
  BY <1>4 DEF IndInv, TypeOK
<1>8. \A c \in Caller : \A e \in held[c] : EntryOK(serv[c], e)'
  BY <1>1, <1>4 DEF IndInv, TypeOK
<1> QED
  BY <1>1, <1>2, <1>5, <1>6, <1>7, <1>8 DEF IndInv

\* A hit returns an unexpired entry: the clock has not passed its expiry.
LEMMA HitInd ==
  ASSUME IndInv, NEW c \in Caller, Hit(c)
  PROVE  IndInv'
<1>1. PICK e \in held[c] :
        /\ ~ Expired(e)
        /\ ret' = [ret EXCEPT ![c] = {[ver |-> e.ver, at |-> now]}]
  BY DEF Hit
<1>2. /\ pc' = [pc EXCEPT ![c] = "idle"] /\ pc[c] = "check"
      /\ held' = [held EXCEPT ![c] = {}]
      /\ UNCHANGED <<now, pub, data, serv, reply>>
  BY DEF Hit
<1>3. e \in Entry /\ EntryOK(serv[c], e) /\ now \in Nat /\ serv[c] \in Serv
  BY DEF IndInv, TypeOK
<1> DEFINE r == [ver |-> e.ver, at |-> now]
<1>4. r \in Reply /\ r.ver = e.ver /\ r.at = now
  BY <1>3 DEF Reply, Entry
<1> HIDE DEF r
<1>5. ret' = [ret EXCEPT ![c] = {r}]
  BY <1>1 DEF r
<1>6. now <= e.expiry
  BY <1>1, <1>3 DEF Expired, Entry
<1>7. ReturnOK(serv[c], r)
  <2>1. pub[serv[c]] \in Seq(Nat)
    BY <1>3 DEF IndInv, TypeOK
  <2>2. r.ver < Len(pub[serv[c]]) => pub[serv[c]][r.ver + 1] \in Nat
    BY <1>3, <1>4, <2>1 DEF Entry
  <2> QED
    BY <1>3, <1>4, <1>6, <2>2, TimeAssumption
       DEF ReturnOK, FreshWithin, EntryOK, Entry
<1>8. TypeOK'
  BY <1>2, <1>4, <1>5 DEF IndInv, TypeOK, AtMostOne
<1>9. \A d \in Caller : \A q \in ret'[d] : ReturnOK(serv[d], q)
  BY <1>5, <1>7 DEF IndInv, TypeOK
<1>10. \A d \in Caller : \A q \in held'[d] : EntryOK(serv[d], q)
  BY <1>2 DEF IndInv, TypeOK
<1> QED
  BY <1>2, <1>8, <1>9, <1>10
     DEF IndInv, TypeOK, EntryOK, ReplyOK, ReturnOK, FreshWithin

\* A new entry expires a TTL after an answer that is at most MaxLatency old.
LEMMA StampEntryInd ==
  ASSUME IndInv, NEW c \in Caller, StampEntry(c)
  PROVE  IndInv'
<1>1. PICK r \in reply[c] :
        /\ held' = [held EXCEPT ![c] = {[ver |-> r.ver, expiry |-> NewExpiry(now)]}]
        /\ ret' = [ret EXCEPT ![c] = {[ver |-> r.ver, at |-> now]}]
  BY DEF StampEntry
<1>2. /\ pc' = [pc EXCEPT ![c] = "add"]
      /\ reply' = [reply EXCEPT ![c] = {}]
      /\ UNCHANGED <<now, pub, data, serv>>
  BY DEF StampEntry
<1>3. r \in Reply /\ ReplyOK(serv[c], r) /\ now \in Nat /\ serv[c] \in Serv
  BY DEF IndInv, TypeOK
<1> DEFINE e == [ver |-> r.ver, expiry |-> NewExpiry(now)]
           q == [ver |-> r.ver, at |-> now]
<1>4. /\ e \in Entry /\ e.ver = r.ver /\ e.expiry = now + Ttl
      /\ q \in Reply /\ q.ver = r.ver /\ q.at = now
  BY <1>3, TimeAssumption DEF Reply, Entry, NewExpiry
<1> HIDE DEF e, q
<1>5. held' = [held EXCEPT ![c] = {e}] /\ ret' = [ret EXCEPT ![c] = {q}]
  BY <1>1 DEF e, q
<1>6. r.ver < Len(pub[serv[c]]) =>
        /\ pub[serv[c]][r.ver + 1] \in Nat
        /\ now <= pub[serv[c]][r.ver + 1] + MaxLatency
  <2>1. pub[serv[c]] \in Seq(Nat)
    BY <1>3 DEF IndInv, TypeOK
  <2>2. r.ver < Len(pub[serv[c]]) => pub[serv[c]][r.ver + 1] \in Nat
    BY <1>3, <2>1 DEF Reply
  <2> QED
    BY <1>3, <2>2, TimeAssumption, SMTT(30) DEF ReplyOK, Reply
<1>7. EntryOK(serv[c], e) /\ ReturnOK(serv[c], q)
  <2>1. r.ver \in Nat /\ MaxLatency \in Nat /\ Ttl \in Nat
    BY <1>3, TimeAssumption DEF Reply
  <2>2. EntryOK(serv[c], e)
    BY <1>3, <1>4, <1>6, <2>1, SMTT(30) DEF EntryOK
  <2>3. ReturnOK(serv[c], q)
    BY <1>3, <1>4, <1>6, <2>1, SMTT(30) DEF ReturnOK, FreshWithin
  <2> QED
    BY <2>2, <2>3
<1>8. TypeOK'
  BY <1>2, <1>4, <1>5 DEF IndInv, TypeOK, AtMostOne
<1>9. \A d \in Caller : \A x \in ret'[d] : ReturnOK(serv[d], x)
  BY <1>5, <1>7 DEF IndInv, TypeOK
<1>10. \A d \in Caller : \A x \in held'[d] : EntryOK(serv[d], x)
  BY <1>5, <1>7 DEF IndInv, TypeOK
<1>11. \A d \in Caller : \A x \in reply'[d] : ReplyOK(serv[d], x)
  BY <1>2 DEF IndInv, TypeOK
<1>12. \A d \in Caller : pc'[d] # "request" => reply'[d] = {}
  BY <1>2 DEF IndInv, TypeOK
<1> QED
  BY <1>2, <1>8, <1>9, <1>10, <1>11, <1>12
     DEF IndInv, TypeOK, EntryOK, ReplyOK, ReturnOK, FreshWithin

\* The other steps only hand on entries and answers, or drop them.
LEMMA HandOnInd ==
  ASSUME IndInv, NEW c \in Caller,
         \/ \E s \in Serv : ReadEntry(c, s)
         \/ Miss(c) \/ QueryFails(c) \/ WriteEntry(c)
  PROVE  IndInv'
<1>1. CASE \E s \in Serv : ReadEntry(c, s)
  <2>0. PICK s \in Serv : ReadEntry(c, s)
    BY <1>1
  <2>1. UNCHANGED <<now, pub>>
    BY <2>0 DEF ReadEntry
  <2>2. TypeOK'
    BY <2>0 DEF IndInv, TypeOK, AtMostOne, ReadEntry
  <2>3. \A t \in Serv : \A e \in data'[t] : EntryOK(t, e)
    BY <2>0 DEF IndInv, TypeOK, ReadEntry
  <2>4. \A d \in Caller : \A e \in held'[d] : EntryOK(serv'[d], e)
    BY <2>0 DEF IndInv, TypeOK, ReadEntry
  <2>5. \A d \in Caller : \A r \in reply'[d] : ReplyOK(serv'[d], r)
    BY <2>0 DEF IndInv, TypeOK, ReadEntry
  <2>6. \A d \in Caller : \A r \in ret'[d] : ReturnOK(serv'[d], r)
    BY <2>0 DEF IndInv, TypeOK, ReadEntry
  <2>7. \A d \in Caller : pc'[d] # "request" => reply'[d] = {}
    BY <2>0 DEF IndInv, TypeOK, ReadEntry
  <2> QED
    BY <2>1, <2>2, <2>3, <2>4, <2>5, <2>6, <2>7
       DEF IndInv, EntryOK, ReplyOK, ReturnOK, FreshWithin
<1>2. CASE Miss(c)
  <2>1. UNCHANGED <<now, pub>>
    BY <1>2 DEF Miss
  <2>2. TypeOK'
    BY <1>2 DEF IndInv, TypeOK, AtMostOne, Miss
  <2>3. \A t \in Serv : \A e \in data'[t] : EntryOK(t, e)
    BY <1>2 DEF IndInv, TypeOK, Miss
  <2>4. \A d \in Caller : \A e \in held'[d] : EntryOK(serv'[d], e)
    BY <1>2 DEF IndInv, TypeOK, Miss
  <2>5. \A d \in Caller : \A r \in reply'[d] : ReplyOK(serv'[d], r)
    BY <1>2 DEF IndInv, TypeOK, Miss
  <2>6. \A d \in Caller : \A r \in ret'[d] : ReturnOK(serv'[d], r)
    BY <1>2 DEF IndInv, TypeOK, Miss
  <2>7. \A d \in Caller : pc'[d] # "request" => reply'[d] = {}
    BY <1>2 DEF IndInv, TypeOK, Miss
  <2> QED
    BY <2>1, <2>2, <2>3, <2>4, <2>5, <2>6, <2>7
       DEF IndInv, EntryOK, ReplyOK, ReturnOK, FreshWithin
<1>3. CASE QueryFails(c)
  <2>1. UNCHANGED <<now, pub>>
    BY <1>3 DEF QueryFails
  <2>2. TypeOK'
    BY <1>3 DEF IndInv, TypeOK, AtMostOne, QueryFails
  <2>3. \A t \in Serv : \A e \in data'[t] : EntryOK(t, e)
    BY <1>3 DEF IndInv, TypeOK, QueryFails
  <2>4. \A d \in Caller : \A e \in held'[d] : EntryOK(serv'[d], e)
    BY <1>3 DEF IndInv, TypeOK, QueryFails
  <2>5. \A d \in Caller : \A r \in reply'[d] : ReplyOK(serv'[d], r)
    BY <1>3 DEF IndInv, TypeOK, QueryFails
  <2>6. \A d \in Caller : \A r \in ret'[d] : ReturnOK(serv'[d], r)
    BY <1>3 DEF IndInv, TypeOK, QueryFails
  <2>7. \A d \in Caller : pc'[d] # "request" => reply'[d] = {}
    BY <1>3 DEF IndInv, TypeOK, QueryFails
  <2> QED
    BY <2>1, <2>2, <2>3, <2>4, <2>5, <2>6, <2>7
       DEF IndInv, EntryOK, ReplyOK, ReturnOK, FreshWithin
<1>4. CASE WriteEntry(c)
  <2>1. UNCHANGED <<now, pub>>
    BY <1>4 DEF WriteEntry
  <2>2. TypeOK'
    BY <1>4 DEF IndInv, TypeOK, AtMostOne, WriteEntry
  <2>3. \A t \in Serv : \A e \in data'[t] : EntryOK(t, e)
    BY <1>4 DEF IndInv, TypeOK, WriteEntry
  <2>4. \A d \in Caller : \A e \in held'[d] : EntryOK(serv'[d], e)
    BY <1>4 DEF IndInv, TypeOK, WriteEntry
  <2>5. \A d \in Caller : \A r \in reply'[d] : ReplyOK(serv'[d], r)
    BY <1>4 DEF IndInv, TypeOK, WriteEntry
  <2>6. \A d \in Caller : \A r \in ret'[d] : ReturnOK(serv'[d], r)
    BY <1>4 DEF IndInv, TypeOK, WriteEntry
  <2>7. \A d \in Caller : pc'[d] # "request" => reply'[d] = {}
    BY <1>4 DEF IndInv, TypeOK, WriteEntry
  <2> QED
    BY <2>1, <2>2, <2>3, <2>4, <2>5, <2>6, <2>7
       DEF IndInv, EntryOK, ReplyOK, ReturnOK, FreshWithin
<1> QED
  BY <1>1, <1>2, <1>3, <1>4

LEMMA RegistryRepliesInd ==
  ASSUME IndInv, NEW c \in Caller, RegistryReplies(c)
  PROVE  IndInv'
<1> DEFINE r == [ver |-> Len(pub[serv[c]]), at |-> now]
<1>1. /\ pc[c] = "request" /\ reply' = [reply EXCEPT ![c] = {r}]
      /\ UNCHANGED <<now, pub, data, pc, serv, held, ret>>
  BY DEF RegistryReplies
<1>2. pub[serv[c]] \in Seq(Nat) /\ now \in Nat /\ Len(pub[serv[c]]) # 0
  BY DEF IndInv, TypeOK
<1>3. r \in Reply /\ ReplyOK(serv[c], r)
  BY <1>2, TimeAssumption DEF Reply, ReplyOK
<1> HIDE DEF r
<1>4. TypeOK'
  BY <1>1, <1>3 DEF IndInv, TypeOK, AtMostOne
<1>5. \A d \in Caller : \A q \in reply'[d] : ReplyOK(serv[d], q)
  BY <1>1, <1>3 DEF IndInv, TypeOK
<1>6. \A d \in Caller : pc'[d] # "request" => reply'[d] = {}
  BY <1>1 DEF IndInv, TypeOK
<1> QED
  BY <1>1, <1>4, <1>5, <1>6
     DEF IndInv, EntryOK, ReplyOK, ReturnOK, FreshWithin

LEMMA DeleteInd ==
  ASSUME IndInv, NEW s \in Serv, Delete(s)
  PROVE  IndInv'
<1>1. /\ data' = [data EXCEPT ![s] = {}]
      /\ UNCHANGED <<now, pub, pc, serv, held, reply, ret>>
  BY DEF Delete
<1>2. TypeOK'
  BY <1>1 DEF IndInv, TypeOK, AtMostOne
<1>3. \A t \in Serv : \A e \in data'[t] : EntryOK(t, e)
  BY <1>1 DEF IndInv, TypeOK
<1> QED
  BY <1>1, <1>2, <1>3 DEF IndInv, EntryOK, ReplyOK, ReturnOK, FreshWithin

LEMMA NextInd == IndInv /\ [Next]_vars => IndInv'
<1> SUFFICES ASSUME IndInv, [Next]_vars PROVE IndInv'
  OBVIOUS
<1>1. ASSUME UNCHANGED vars PROVE IndInv'
  BY <1>1 DEF vars, IndInv, TypeOK, AtMostOne, EntryOK, ReplyOK, ReturnOK,
     FreshWithin
<1> QED
  BY <1>1, TickInd, PublishInd, DeleteInd, HitInd, StampEntryInd, HandOnInd,
     RegistryRepliesInd DEF Next

----------------------------------------------------------------------------
\* The variables of the registry cache keep their types: a service has at most
\* one entry, however many callers miss at the same time and store what they
\* were told.
THEOREM RegistryTypeCorrect == Spec => []TypeOK
<1>1. IndInv => TypeOK
  BY DEF IndInv
<1> QED
  BY <1>1, InitInd, NextInd, PTL DEF Spec

\* GetOrRequestService never returns information that was replaced in the
\* registry more than the TTL plus one answer's latency ago, for any number of
\* concurrent callers.
THEOREM StalenessBounded == Spec => []BoundedStaleness
<1>1. IndInv => BoundedStaleness
  BY DEF IndInv, BoundedStaleness, ReturnOK
<1> QED
  BY <1>1, InitInd, NextInd, PTL DEF Spec
=============================================================================
