-------------------------- MODULE PeerStoreProofs --------------------------
(***************************************************************************)
(* Proofs, for all constants, that PeerCache implements PeerStore, the     *)
(* cache as requests see it, that the passes of updateCache lose and       *)
(* duplicate no entry, and that GetPeer and RemovePeer do what requests    *)
(* call them for.                                                          *)
(*                                                                         *)
(* All of this is about where entries go when rpfs, apts and the sort move *)
(* them.  A position of the cache is a level and an index.  Moving an      *)
(* entry from one level to another is a bijection between the positions    *)
(* after and before the move, under which peer and service stay the same;  *)
(* removing one is a bijection to all positions but the removed one.       *)
(* Counting a peer's entries and listing the cached peers follow from it.  *)
(* IndInv of PeerCacheProofs supplies the types and the empty last level;  *)
(* SizeBounded adds that every entry is at a position that Count counts.   *)
(***************************************************************************)
EXTENDS PeerCacheProofs, FiniteSetTheorems, FunctionTheorems

Pos(ls) == { x \in Level \X (1 .. MaxEntries) : x[2] <= Len(ls[x[1]]) }

SamePeer(e, f) == e.id = f.id /\ e.serv = f.serv

Bounded(ls) == Len(ls[0]) + Len(ls[1]) + Len(ls[2]) <= MaxEntries

\* f maps the positions of new one to one to the positions X of ls, and keeps
\* peer and service.
Relocates(f, new, ls, X) ==
  /\ f \in Bijection(Pos(new), X)
  /\ \A x \in Pos(new) : SamePeer(new[x[1]][x[2]], ls[f[x][1]][f[x][2]])

----------------------------------------------------------------------------
(* Positions and counting.                                                 *)

LEMMA SmallerSum ==
  ASSUME NEW a \in Int, NEW b \in Int, NEW c \in Int, NEW n \in Int,
         NEW x \in Int, NEW y \in Int, NEW z \in Int,
         x <= a, y <= b, z <= c, a + b + c <= n
  PROVE  x + y + z <= n
OBVIOUS

LEMMA SmallerBounded ==
  ASSUME NEW ls, NEW new, Bounded(ls),
         \A k \in Level : Len(ls[k]) \in Nat,
         \A k \in Level : Len(new[k]) \in Nat /\ Len(new[k]) <= Len(ls[k])
  PROVE  Bounded(new)
<1> DEFINE a == Len(ls[0])  b == Len(ls[1])  c == Len(ls[2])
           x == Len(new[0]) y == Len(new[1]) z == Len(new[2])
<1>1. /\ a \in Int /\ b \in Int /\ c \in Int
      /\ x \in Int /\ y \in Int /\ z \in Int
      /\ x <= a /\ y <= b /\ z <= c
  BY LevelIs
<1>2. MaxEntries \in Int
  BY CountAssumption
<1>3. a + b + c <= MaxEntries
  BY DEF Bounded
<1> HIDE DEF a, b, c, x, y, z
<1>4. x + y + z <= MaxEntries
  BY <1>1, <1>2, <1>3, SmallerSum
<1> QED
  BY <1>4 DEF x, y, z, Bounded

LEMMA TotalInAnyOrder ==
  ASSUME NEW ls, \A u \in Level : Len(ls[u]) \in Nat,
         NEW k \in Level, NEW m \in Level, NEW r \in Level,
         k # m, r # k, r # m
  PROVE  Len(ls[0]) + Len(ls[1]) + Len(ls[2]) = Len(ls[k]) + Len(ls[m]) + Len(ls[r])
<1> DEFINE a == Len(ls[0])  b == Len(ls[1])  c == Len(ls[2])
           x == Len(ls[k])  y == Len(ls[m])  z == Len(ls[r])
<1>1. a \in Nat /\ b \in Nat /\ c \in Nat
  BY LevelIs
<1>2. /\ k = 0 \/ k = 1 \/ k = 2
      /\ m = 0 \/ m = 1 \/ m = 2
      /\ r = 0 \/ r = 1 \/ r = 2
  BY LevelIs
<1>3. /\ (k = 0 => x = a)  /\ (k = 1 => x = b)  /\ (k = 2 => x = c)
      /\ (m = 0 => y = a)  /\ (m = 1 => y = b)  /\ (m = 2 => y = c)
      /\ (r = 0 => z = a)  /\ (r = 1 => z = b)  /\ (r = 2 => z = c)
  OBVIOUS
<1> HIDE DEF a, b, c, x, y, z
<1>4. a + b + c = x + y + z
  BY <1>1, <1>2, <1>3
<1> QED
  BY <1>4 DEF a, b, c, x, y, z

\* In a cache within the bound, the positions are all indices of all levels.
LEMMA Positions ==
  ASSUME NEW ls \in [Level -> Seq(Entry)], Bounded(ls)
  PROVE  /\ \A k \in Level : Len(ls[k]) \in Nat /\ Len(ls[k]) <= MaxEntries
         /\ \A k \in Level : \A j \in 1 .. Len(ls[k]) : <<k, j>> \in Pos(ls)
         /\ \A x \in Pos(ls) : /\ x = <<x[1], x[2]>>
                               /\ x[1] \in Level
                               /\ x[2] \in 1 .. Len(ls[x[1]])
<1>1. \A k \in Level : Len(ls[k]) \in Nat /\ Len(ls[k]) <= MaxEntries
  <2>1. Len(ls[0]) \in Nat /\ Len(ls[1]) \in Nat /\ Len(ls[2]) \in Nat
    BY LevelIs
  <2> QED
    BY <2>1, LevelIs, CountAssumption DEF Bounded
<1>2. \A k \in Level : \A j \in 1 .. Len(ls[k]) : <<k, j>> \in Pos(ls)
  BY <1>1, CountAssumption DEF Pos
<1>3. \A x \in Pos(ls) : x = <<x[1], x[2]>> /\ x[1] \in Level
                         /\ x[2] \in 1 .. Len(ls[x[1]])
  BY <1>1, CountAssumption DEF Pos
<1> QED
  BY <1>1, <1>2, <1>3

\* A peer that none of the positions left out has keeps its number of entries.
LEMMA CountKept ==
  ASSUME NEW ls, NEW new, NEW X \in SUBSET Pos(ls),
         NEW f, Relocates(f, new, ls, X),
         NEW p, \A x \in Pos(ls) \ X : ls[x[1]][x[2]].id # p
  PROVE  Count(new, p) = Count(ls, p)
<1> DEFINE A == { x \in Pos(new) : new[x[1]][x[2]].id = p }
           B == { x \in Pos(ls) : ls[x[1]][x[2]].id = p }
           g == [x \in A |-> f[x]]
<1>1. Count(new, p) = Cardinality(A) /\ Count(ls, p) = Cardinality(B)
  <2>1. A = { kj \in Level \X (1 .. MaxEntries) :
                kj[2] <= Len(new[kj[1]]) /\ new[kj[1]][kj[2]].id = p }
    BY DEF Pos
  <2>2. B = { kj \in Level \X (1 .. MaxEntries) :
                kj[2] <= Len(ls[kj[1]]) /\ ls[kj[1]][kj[2]].id = p }
    BY DEF Pos
  <2> QED
    BY <2>1, <2>2, Zenon DEF Count, Places
<1>2. /\ f \in [Pos(new) -> X]
      /\ \A a, b \in Pos(new) : f[a] = f[b] => a = b
      /\ \A t \in X : \E s \in Pos(new) : f[s] = t
  BY Fun_BijectionProperties DEF Relocates
<1>3. g \in [A -> B]
  BY <1>2 DEF Relocates, SamePeer
<1>4. \A a, b \in A : g[a] = g[b] => a = b
  BY <1>2
<1>5. ASSUME NEW t \in B PROVE \E s \in A : g[s] = t
  <2>1. PICK s \in Pos(new) : f[s] = t
    BY <1>2
  <2>2. s \in A
    BY <2>1 DEF Relocates, SamePeer
  <2> QED
    BY <2>1, <2>2
<1>6. g \in Bijection(A, B)
  BY <1>3, <1>4, <1>5, Fun_IsBij
<1>7. IsFiniteSet(A)
  <2>1. IsFiniteSet(Level) /\ IsFiniteSet(1 .. MaxEntries)
    <3>1. 0 \in Int /\ NLevels - 1 \in Int /\ 1 \in Int /\ MaxEntries \in Int
      BY CountAssumption DEF NLevels
    <3> QED
      BY <3>1, FS_Interval, Zenon DEF Level
  <2>2. IsFiniteSet(Level \X (1 .. MaxEntries))
    BY <2>1, FS_Product
  <2>3. A \in SUBSET (Level \X (1 .. MaxEntries))
    BY DEF Pos
  <2> QED
    BY <2>2, <2>3, FS_Subset
<1> HIDE DEF A, B, g
<1>8. ExistsBijection(A, B)
  BY <1>6, Fun_ExistsBij
<1> QED
  BY <1>1, <1>7, <1>8, FS_Bijection

----------------------------------------------------------------------------
(* Where removing and moving put the entries.                              *)

LEMMA RemovalRelocates ==
  ASSUME NEW ls \in [Level -> Seq(Entry)], NEW new, NEW k \in Level,
         NEW j \in 1 .. Len(ls[k]), Bounded(ls), Removed(ls, new, k, j)
  PROVE  /\ Bounded(new)
         /\ \E f : Relocates(f, new, ls, Pos(ls) \ {<<k, j>>})
<1> DEFINE n == Len(ls[k])
           X == Pos(ls) \ {<<k, j>>}
           f == [x \in Pos(new) |-> IF x = <<k, j>> THEN <<k, n>> ELSE x]
<1>1. /\ new \in [Level -> Seq(Entry)]
      /\ \A m \in Level : m # k => new[m] = ls[m]
      /\ n \in Nat /\ Len(new[k]) = n - 1
      /\ \A q \in 1 .. Len(new[k]) : new[k][q] = IF q = j THEN ls[k][n] ELSE ls[k][q]
  BY DEF Removed
<1>2. Bounded(new)
  <2>1. \A m \in Level : Len(ls[m]) \in Nat
    OBVIOUS
  <2>2. ASSUME NEW m \in Level
        PROVE  Len(new[m]) \in Nat /\ Len(new[m]) <= Len(ls[m])
    <3>1. new[m] \in Seq(Entry)
      BY <1>1
    <3>2. Len(new[m]) \in Nat
      BY <3>1
    <3>3. CASE m = k
      BY <1>1, <2>1, <3>3
    <3>4. CASE m # k
      BY <1>1, <2>1, <3>4
    <3> QED
      BY <3>2, <3>3, <3>4
  <2> QED
    BY <2>1, <2>2, SmallerBounded, Zenon
<1>3. /\ \A m \in Level : \A q \in 1 .. Len(ls[m]) : <<m, q>> \in Pos(ls)
      /\ \A x \in Pos(ls) : x = <<x[1], x[2]>> /\ x[1] \in Level
                            /\ x[2] \in 1 .. Len(ls[x[1]])
  BY Positions
<1>4. /\ \A m \in Level : \A q \in 1 .. Len(new[m]) : <<m, q>> \in Pos(new)
      /\ \A x \in Pos(new) : x = <<x[1], x[2]>> /\ x[1] \in Level
                             /\ x[2] \in 1 .. Len(new[x[1]])
  BY <1>1, <1>2, Positions
<1>5. ASSUME NEW x \in Pos(new)
      PROVE  f[x] \in X /\ SamePeer(new[x[1]][x[2]], ls[f[x][1]][f[x][2]])
  <2>1. CASE x = <<k, j>>
    <3>1. j \in 1 .. n - 1 /\ n \in 1 .. n /\ j # n
      BY <1>1, <1>4, <2>1
    <3> QED
      BY <1>1, <1>3, <2>1, <3>1 DEF SamePeer
  <2>2. CASE x # <<k, j>> /\ x[1] = k
    <3>1. x[2] \in 1 .. n - 1 /\ x[2] # j /\ x[2] \in 1 .. n
      BY <1>1, <1>4, <2>2
    <3> QED
      BY <1>1, <1>3, <1>4, <2>2, <3>1 DEF SamePeer
  <2>3. CASE x[1] # k
    <3>1. x # <<k, j>>
      BY <2>3
    <3>2. new[x[1]] = ls[x[1]] /\ x \in Pos(ls)
      BY <1>1, <1>3, <1>4, <2>3
    <3> QED
      BY <2>3, <3>1, <3>2 DEF SamePeer
  <2> QED
    BY <2>1, <2>2, <2>3
<1>6. <<k, n>> \notin Pos(new)
  BY <1>1, <1>4
<1>7. \A a, b \in Pos(new) : f[a] = f[b] => a = b
  BY <1>6
<1>8. ASSUME NEW t \in X PROVE \E x \in Pos(new) : f[x] = t
  <2>1. t = <<t[1], t[2]>> /\ t[1] \in Level /\ t[2] \in 1 .. Len(ls[t[1]])
    BY <1>3
  <2>2. CASE t = <<k, n>>
    <3>1. j \in 1 .. n - 1
      BY <1>1, <2>2
    <3>2. <<k, j>> \in Pos(new)
      BY <1>1, <1>4, <3>1
    <3> QED
      BY <2>2, <3>2
  <2>3. CASE t # <<k, n>>
    <3>1. t \in Pos(new)
      <4>1. CASE t[1] = k
        <5>1. t[2] \in 1 .. n - 1
          BY <1>1, <2>1, <2>3, <4>1
        <5> QED
          BY <1>1, <1>4, <2>1, <4>1, <5>1
      <4>2. CASE t[1] # k
        BY <1>1, <1>4, <2>1, <4>2
      <4> QED
        BY <4>1, <4>2
    <3> QED
      BY <3>1
  <2> QED
    BY <2>2, <2>3
<1>9. f \in [Pos(new) -> X]
  BY <1>5
<1>10. f \in Bijection(Pos(new), X)
  BY <1>7, <1>8, <1>9, Fun_IsBij, Zenon
<1>11. Relocates(f, new, ls, X)
  BY <1>5, <1>10, Zenon DEF Relocates
<1> QED
  BY <1>2, <1>11

LEMMA MoveRelocates ==
  ASSUME NEW ls \in [Level -> Seq(Entry)], NEW new,
         NEW k \in Level, NEW m \in Level, k # m,
         NEW j \in 1 .. Len(ls[k]), NEW e, SamePeer(e, ls[k][j]),
         Bounded(ls), Moved(ls, new, k, m, j, e)
  PROVE  /\ Bounded(new)
         /\ \E f : Relocates(f, new, ls, Pos(ls))
<1> DEFINE n == Len(ls[k])
           o == Len(ls[m]) + 1
           f == [x \in Pos(new) |-> IF x = <<m, o>> THEN <<k, j>>
                                    ELSE IF x = <<k, j>> THEN <<k, n>> ELSE x]
<1>1. /\ new \in [Level -> Seq(Entry)]
      /\ \A q \in Level : q # k /\ q # m => new[q] = ls[q]
      /\ n \in Nat /\ Len(new[k]) = n - 1
      /\ \A q \in 1 .. Len(new[k]) : new[k][q] = IF q = j THEN ls[k][n] ELSE ls[k][q]
      /\ Len(ls[m]) \in Nat /\ Len(new[m]) = o
      /\ \A q \in 1 .. Len(new[m]) : new[m][q] = IF q = o THEN e ELSE ls[m][q]
  BY DEF Moved
<1>2. Bounded(new)
  <2>1. PICK r \in Level : r # k /\ r # m
    BY LevelIs
  <2>2. new[r] = ls[r] /\ Len(ls[r]) \in Nat
    BY <1>1, <2>1
  <2> DEFINE a == Len(ls[k])  b == Len(ls[m])  c == Len(ls[r])
             x == Len(new[k]) y == Len(new[m]) z == Len(new[r])
  <2>3. a \in Nat /\ b \in Nat /\ c \in Nat /\ x = a - 1 /\ y = b + 1 /\ z = c
    BY <1>1, <2>2
  <2>4. {k, m, r} = {0, 1, 2}
    BY <2>1, LevelIs
  <2>5. Len(ls[0]) + Len(ls[1]) + Len(ls[2]) = a + b + c
    <3>1. \A u \in Level : Len(ls[u]) \in Nat
      OBVIOUS
    <3> QED
      BY <2>1, <3>1, TotalInAnyOrder, Zenon
  <2>6. Len(new[0]) + Len(new[1]) + Len(new[2]) = x + y + z
    <3>1. \A u \in Level : Len(new[u]) \in Nat
      BY <1>1
    <3> QED
      BY <2>1, <3>1, TotalInAnyOrder, Zenon
  <2> HIDE DEF a, b, c, x, y, z
  <2>7. x + y + z = a + b + c
    BY <2>3
  <2> QED
    BY <2>5, <2>6, <2>7 DEF Bounded
<1>3. /\ \A r \in Level : \A q \in 1 .. Len(ls[r]) : <<r, q>> \in Pos(ls)
      /\ \A x \in Pos(ls) : x = <<x[1], x[2]>> /\ x[1] \in Level
                            /\ x[2] \in 1 .. Len(ls[x[1]])
  BY Positions
<1>4. /\ \A r \in Level : \A q \in 1 .. Len(new[r]) : <<r, q>> \in Pos(new)
      /\ \A x \in Pos(new) : x = <<x[1], x[2]>> /\ x[1] \in Level
                             /\ x[2] \in 1 .. Len(new[x[1]])
  BY <1>1, <1>2, Positions
<1>5. ASSUME NEW x \in Pos(new)
      PROVE  f[x] \in Pos(ls) /\ SamePeer(new[x[1]][x[2]], ls[f[x][1]][f[x][2]])
  <2>1. CASE x = <<m, o>>
    <3>1. f[x] = <<k, j>> /\ new[x[1]][x[2]] = e
      BY <1>1, <2>1
    <3> QED
      BY <1>3, <3>1
  <2>2. CASE x = <<k, j>>
    <3>1. j \in 1 .. n - 1 /\ n \in 1 .. n /\ j # n
      BY <1>1, <1>4, <2>2
    <3> QED
      BY <1>1, <1>3, <2>2, <3>1 DEF SamePeer
  <2>3. CASE x # <<k, j>> /\ x[1] = k
    <3>1. x[2] \in 1 .. n - 1 /\ x[2] # j /\ x[2] \in 1 .. n /\ x # <<m, o>>
      BY <1>1, <1>4, <2>3
    <3> QED
      BY <1>1, <1>3, <1>4, <2>3, <3>1 DEF SamePeer
  <2>4. CASE x # <<m, o>> /\ x[1] = m
    <3>1. x[2] \in 1 .. Len(ls[m]) /\ x[2] # o /\ x # <<k, j>>
      BY <1>1, <1>4, <2>4
    <3>2. new[x[1]][x[2]] = ls[x[1]][x[2]] /\ x \in Pos(ls)
      BY <1>1, <1>3, <1>4, <2>4, <3>1
    <3> QED
      BY <2>4, <3>1, <3>2 DEF SamePeer
  <2>5. CASE x[1] # k /\ x[1] # m
    <3>1. x # <<k, j>> /\ x # <<m, o>>
      BY <2>5
    <3>2. new[x[1]] = ls[x[1]] /\ x \in Pos(ls)
      BY <1>1, <1>3, <1>4, <2>5
    <3> QED
      BY <2>5, <3>1, <3>2 DEF SamePeer
  <2> QED
    BY <2>1, <2>2, <2>3, <2>4, <2>5
<1>6. <<k, n>> \notin Pos(new) /\ (j # n => <<k, j>> \in Pos(new))
      /\ <<m, o>> \in Pos(new)
  BY <1>1, <1>4
<1>7. \A a, b \in Pos(new) : f[a] = f[b] => a = b
  <2>1. <<m, o>> # <<k, j>>
    OBVIOUS
  <2> QED
    BY <1>6, <2>1
<1>8. ASSUME NEW t \in Pos(ls) PROVE \E x \in Pos(new) : f[x] = t
  <2>1. t = <<t[1], t[2]>> /\ t[1] \in Level /\ t[2] \in 1 .. Len(ls[t[1]])
    BY <1>3
  <2>2. CASE t = <<k, j>>
    BY <1>6, <2>2
  <2>3. CASE t # <<k, j>> /\ t = <<k, n>>
    BY <1>6, <2>3
  <2>4. CASE t # <<k, j>> /\ t # <<k, n>>
    <3>1. t \in Pos(new) /\ t # <<m, o>>
      <4>1. CASE t[1] = k
        <5>1. t[2] \in 1 .. n - 1
          BY <1>1, <2>1, <2>4, <4>1
        <5> QED
          BY <1>1, <1>4, <2>1, <4>1, <5>1
      <4>2. CASE t[1] = m
        <5>1. t[2] \in 1 .. o /\ t[2] # o
          BY <1>1, <2>1, <4>2
        <5> QED
          BY <1>1, <1>4, <2>1, <4>2, <5>1
      <4>3. CASE t[1] # k /\ t[1] # m
        BY <1>1, <1>4, <2>1, <4>3
      <4> QED
        BY <4>1, <4>2, <4>3
    <3> QED
      BY <2>4, <3>1
  <2> QED
    BY <2>2, <2>3, <2>4
<1>9. f \in [Pos(new) -> Pos(ls)]
  BY <1>5
<1>10. f \in Bijection(Pos(new), Pos(ls))
  BY <1>7, <1>8, <1>9, Fun_IsBij, Zenon
<1>11. Relocates(f, new, ls, Pos(ls))
  BY <1>5, <1>10, Zenon DEF Relocates
<1> QED
  BY <1>2, <1>11

----------------------------------------------------------------------------
(* What the actions do to the positions.                                   *)

\* The moves of the second pass: from level 0 to 1, from 1 to 0, from 1 to 2.
LEMMA MovesMove ==
  ASSUME IndInv, DemoteEntry \/ PromoteEntry \/ DropEntry
  PROVE  \E k, m \in Level : \E j \in 1 .. Len(levels[k]), e \in Entry :
           /\ k # m
           /\ SamePeer(e, levels[k][j])
           /\ Moved(levels, levels', k, m, j, e)
<1> DEFINE Shifted(k, m, j, e) ==
             /\ k # m
             /\ SamePeer(e, levels[k][j])
             /\ levels' = [levels EXCEPT ![m] = apts(levels[m], e),
                                         ![k] = rpfs(levels[k], j)]
<1>1. /\ levels \in [Level -> Seq(Entry)] /\ i \in Nat \ {0}
      /\ 0 \in Level /\ 1 \in Level /\ 2 \in Level
      /\ Len(levels[0]) \in Nat /\ Len(levels[1]) \in Nat
  BY LevelIs DEF IndInv, TypeOK
<1>2. ASSUME NEW e \in Entry
      PROVE  Lowered(e) \in Entry /\ SamePeer(Lowered(e), e)
  BY EntryUpdates DEF SamePeer, Lowered, Entry
<1>3. ASSUME DemoteEntry
      PROVE  \E k, m \in Level : \E j \in 1 .. Len(levels[k]), e \in Entry :
               Shifted(k, m, j, e)
  <2>1. /\ i <= Len(levels[0])
        /\ levels' = [levels EXCEPT ![1] = apts(levels[1], Lowered(levels[0][i])),
                                    ![0] = rpfs(levels[0], i)]
    BY <1>3 DEF DemoteEntry
  <2>2. i \in 1 .. Len(levels[0]) /\ levels[0][i] \in Entry
    BY <1>1, <2>1
  <2>3. 0 # 1
    OBVIOUS
  <2> QED
    BY <1>1, <1>2, <2>1, <2>2, <2>3, Zenon
<1>4. ASSUME PromoteEntry
      PROVE  \E k, m \in Level : \E j \in 1 .. Len(levels[k]), e \in Entry :
               Shifted(k, m, j, e)
  <2>1. l = 1
    BY <1>4 DEF PromoteEntry, IndInv, BandsSoFar
  <2>2. /\ i <= Len(levels[1])
        /\ levels' = [levels EXCEPT ![0] = apts(levels[0], levels[1][i]),
                                    ![1] = rpfs(levels[1], i)]
    BY <1>4, <2>1 DEF PromoteEntry
  <2>3. i \in 1 .. Len(levels[1]) /\ levels[1][i] \in Entry
    BY <1>1, <2>2
  <2>4. 1 # 0 /\ SamePeer(levels[1][i], levels[1][i])
    BY DEF SamePeer
  <2> QED
    BY <1>1, <2>2, <2>3, <2>4, Zenon
<1>5. ASSUME DropEntry
      PROVE  \E k, m \in Level : \E j \in 1 .. Len(levels[k]), e \in Entry :
               Shifted(k, m, j, e)
  <2>1. l = 1
    BY <1>5 DEF DropEntry, IndInv, BandsSoFar
  <2>2. /\ i <= Len(levels[1])
        /\ levels' = [levels EXCEPT ![2] = apts(levels[2], Lowered(levels[1][i])),
                                    ![1] = rpfs(levels[1], i)]
    BY <1>5, <2>1 DEF DropEntry
  <2>3. i \in 1 .. Len(levels[1]) /\ levels[1][i] \in Entry
    BY <1>1, <2>2
  <2>4. 1 # 2
    OBVIOUS
  <2> QED
    BY <1>1, <1>2, <2>2, <2>3, <2>4, Zenon
<1>6. PICK k, m \in Level : \E j \in 1 .. Len(levels[k]), e \in Entry :
        Shifted(k, m, j, e)
  BY <1>3, <1>4, <1>5
<1>7. PICK j \in 1 .. Len(levels[k]), e \in Entry : Shifted(k, m, j, e)
  BY <1>6
<1>8. Moved(levels, levels', k, m, j, e)
  BY <1>1, <1>7, AfterMove
<1> QED
  BY <1>7, <1>8

\* The ping pass removes the entry of a peer that is not fit.
LEMMA PingEvictRemoves ==
  ASSUME IndInv, PingEvict
  PROVE  l \in Level /\ i \in 1 .. Len(levels[l]) /\ Removed(levels, levels', l, i)
<1>1. /\ levels \in [Level -> Seq(Entry)] /\ l \in Level /\ i \in Nat \ {0}
      /\ Len(levels[l]) \in Nat
  BY DEF IndInv, TypeOK
<1>2. i <= Len(levels[l]) /\ levels' = [levels EXCEPT ![l] = rpfs(levels[l], i)]
  BY DEF PingEvict
<1>3. i \in 1 .. Len(levels[l])
  BY <1>1, <1>2
<1> QED
  BY <1>1, <1>2, <1>3, AfterRemoval

\* AddPeer appends the peer's entry to level 1.
LEMMA AddPeerAppends ==
  ASSUME IndInv, NEW p \in Peer, NEW s \in Serv, AddPeer(p, s)
  PROVE  \E e \in Entry : /\ e.id = p /\ e.serv = s
                          /\ Appended(levels, levels', 1, e)
<1> DEFINE e == [id |-> p, serv |-> s, perf |-> 0, rcount |-> RInit]
<1>1. e \in Entry /\ e.id = p /\ e.serv = s
  BY CountAssumption DEF Entry
<1>2. levels' = [levels EXCEPT ![1] = apts(levels[1], e)]
  BY DEF AddPeer, NLevels
<1> HIDE DEF e
<1>3. levels \in [Level -> Seq(Entry)] /\ 1 \in Level
  BY LevelIs DEF IndInv, TypeOK
<1>4. Appended(levels, levels', 1, e)
  BY <1>1, <1>2, <1>3, AfterAppend
<1> QED
  BY <1>1, <1>4

\* A ping that the entry survives changes its counters and nothing else.
LEMMA PingKeepStays ==
  ASSUME IndInv, PingKeep
  PROVE  \A k \in Level :
           /\ Len(levels'[k]) = Len(levels[k])
           /\ \A j \in 1 .. Len(levels[k]) : SamePeer(levels'[k][j], levels[k][j])
<1>1. /\ levels \in [Level -> Seq(Entry)] /\ l \in Level /\ i \in Nat \ {0}
      /\ levels[l] \in Seq(Entry) /\ Len(levels[l]) \in Nat
  BY DEF IndInv, TypeOK
<1>2. i \in 1 .. Len(levels[l]) /\ levels[l][i] \in Entry
  BY <1>1 DEF PingKeep
<1>3. PICK rtt \in Replies[levels[l][i].id],
           info \in ServInfos(levels[l][i].serv) :
        levels' = [levels EXCEPT ![l] =
                     [levels[l] EXCEPT ![i] = Pinged(levels[l][i], rtt, info)]]
  BY DEF PingKeep
<1> DEFINE e == Pinged(levels[l][i], rtt, info)
           s == [levels[l] EXCEPT ![i] = e]
<1>4. rtt \in Nat
  BY <1>2, <1>3, ReqAssumption DEF Entry
<1>5. e \in Entry
  BY <1>2, <1>4, PingUpdates
<1>6. SamePeer(e, levels[l][i])
  BY <1>2 DEF SamePeer, Pinged, Entry
<1>7. levels' = [levels EXCEPT ![l] = s]
  BY <1>3
<1> HIDE DEF e
<1>8. /\ Len(s) = Len(levels[l])
      /\ \A j \in 1 .. Len(levels[l]) : s[j] = IF j = i THEN e ELSE levels[l][j]
  BY <1>1, <1>2, <1>5, ExceptSeq
<1> HIDE DEF s
<1>9. /\ levels'[l] = s
      /\ \A k \in Level : k # l => levels'[k] = levels[k]
  BY <1>1, <1>7
<1>10. \A f : SamePeer(f, f)
  BY DEF SamePeer
<1> SUFFICES ASSUME NEW k \in Level
             PROVE  /\ Len(levels'[k]) = Len(levels[k])
                    /\ \A j \in 1 .. Len(levels[k]) :
                         SamePeer(levels'[k][j], levels[k][j])
  OBVIOUS
<1>11. CASE k # l
  BY <1>9, <1>10, <1>11
<1>12. CASE k = l
  <2>1. \A j \in 1 .. Len(levels[l]) : SamePeer(s[j], levels[l][j])
    BY <1>6, <1>8, <1>10
  <2> QED
    BY <1>8, <1>9, <1>12, <2>1
<1> QED
  BY <1>11, <1>12

LEMMA SortedEntries ==
  \A s \in Seq(Entry) : \A t \in SortedBy(s) :
    /\ Len(t) = Len(s)
    /\ \A j \in 1 .. Len(t) : \E n \in 1 .. Len(s) : t[j] = s[n]
<1> SUFFICES ASSUME NEW s \in Seq(Entry), NEW t \in SortedBy(s)
             PROVE  /\ Len(t) = Len(s)
                    /\ \A j \in 1 .. Len(t) : \E n \in 1 .. Len(s) : t[j] = s[n]
  OBVIOUS
<1> QED
  BY SortedProperties, Zenon

\* The end of the update permutes levels 0 and 1 and empties level 2.
LEMMA FinishPermutes ==
  ASSUME IndInv, FinishUpdate
  PROVE  \A k \in Level :
           /\ Len(levels'[k]) <= Len(levels[k])
           /\ \A j \in 1 .. Len(levels'[k]) :
                \E n \in 1 .. Len(levels[k]) : levels'[k][j] = levels[k][n]
<1> DEFINE c == ClearLastLevel(levels)
<1>1. levels \in [Level -> Seq(Entry)]
  BY DEF IndInv, TypeOK
<1>2. /\ c[0] = levels[0] /\ c[1] = levels[1] /\ c[2] = << >>
      /\ levels[0] \in Seq(Entry) /\ levels[1] \in Seq(Entry)
      /\ Len(levels[0]) \in Nat /\ Len(levels[1]) \in Nat /\ Len(levels[2]) \in Nat
  BY <1>1, LevelIs DEF ClearLastLevel, NLevels
<1>3. PICK s0 \in SortedBy(c[0]), s1 \in SortedBy(c[1]), s2 \in SortedBy(c[2]) :
        levels' = [k \in Level |-> IF k = 0 THEN s0 ELSE IF k = 1 THEN s1 ELSE s2]
  BY DEF FinishUpdate
<1>4. levels'[0] = s0 /\ levels'[1] = s1 /\ levels'[2] = s2
  BY <1>3, LevelIs
<1> HIDE DEF c
<1>5. /\ Len(s0) = Len(levels[0])
      /\ \A j \in 1 .. Len(s0) : \E n \in 1 .. Len(levels[0]) : s0[j] = levels[0][n]
  <2>1. s0 \in SortedBy(levels[0]) /\ levels[0] \in Seq(Entry)
    BY <1>2, <1>3
  <2> QED
    BY <2>1, SortedEntries, Zenon
<1>6. /\ Len(s1) = Len(levels[1])
      /\ \A j \in 1 .. Len(s1) : \E n \in 1 .. Len(levels[1]) : s1[j] = levels[1][n]
  <2>1. s1 \in SortedBy(levels[1]) /\ levels[1] \in Seq(Entry)
    BY <1>2, <1>3
  <2> QED
    BY <2>1, SortedEntries, Zenon
<1>7. Len(s2) = 0
  <2>1. << >> \in Seq(Entry) /\ Len(<< >>) = 0
    OBVIOUS
  <2>2. s2 \in SortedBy(<< >>)
    BY <1>2, <1>3
  <2>3. Len(s2) = Len(<< >>)
    BY <2>1, <2>2, SortedProperties, ZenonT(40)
  <2> QED
    BY <2>1, <2>3
<1> SUFFICES ASSUME NEW k \in Level
             PROVE  /\ Len(levels'[k]) <= Len(levels[k])
                    /\ \A j \in 1 .. Len(levels'[k]) :
                         \E n \in 1 .. Len(levels[k]) : levels'[k][j] = levels[k][n]
  OBVIOUS
<1>8. CASE k = 0
  <2>1. Len(s0) <= Len(levels[0])
    BY <1>2, <1>5
  <2> QED
    BY <1>4, <1>5, <1>8, <2>1, Zenon
<1>9. CASE k = 1
  <2>1. Len(s1) <= Len(levels[1])
    BY <1>2, <1>6
  <2> QED
    BY <1>4, <1>6, <1>9, <2>1, Zenon
<1>10. CASE k = 2
  BY <1>2, <1>4, <1>7, <1>10
<1> QED
  BY <1>8, <1>9, <1>10, LevelIs

----------------------------------------------------------------------------
(* The second pass conserves the entries.                                  *)

SizeBounded == Bounded(levels)

LEMMA SizeNext ==
  ASSUME IndInv, IndInv', SizeBounded, [Next]_vars
  PROVE  SizeBounded'
<1>1. /\ levels \in [Level -> Seq(Entry)] /\ levels' \in [Level -> Seq(Entry)]
      /\ Bounded(levels)
  BY DEF IndInv, TypeOK, SizeBounded
<1>2. /\ \A k \in Level : Len(levels[k]) \in Nat
      /\ \A k \in Level : Len(levels'[k]) \in Nat
  BY <1>1
<1> SUFFICES Bounded(levels')
  BY DEF SizeBounded, Bounded
<1>3. CASE levels' = levels
  BY <1>1, <1>3, Zenon
<1>4. ASSUME NEW p \in Peer, NEW s \in Serv, AddPeer(p, s) PROVE Bounded(levels')
  <2>1. PICK e \in Entry : Appended(levels, levels', 1, e)
    BY <1>4, AddPeerAppends
  <2>2. /\ Len(levels'[0]) = Len(levels[0]) /\ Len(levels'[2]) = Len(levels[2])
        /\ Len(levels'[1]) = Len(levels[1]) + 1
    BY <2>1, LevelIs DEF Appended
  <2> DEFINE a == Len(levels[0])  b == Len(levels[1])  c == Len(levels[2])
  <2>3. a \in Nat /\ b \in Nat /\ c \in Nat /\ MaxEntries \in Nat
    BY <1>2, LevelIs, CountAssumption
  <2>4. a + b + c < MaxEntries
    BY <1>4 DEF AddPeer, Size
  <2> HIDE DEF a, b, c
  <2>5. a + (b + 1) + c <= MaxEntries
    BY <2>3, <2>4
  <2> QED
    BY <2>2, <2>5 DEF a, b, c, Bounded
<1>5. ASSUME NEW p \in Peer, RemovePeer(p) PROVE Bounded(levels')
  BY <1>1, <1>3, <1>5, RemovePeerCases, RemovalRelocates
<1>6. CASE PingEvict
  BY <1>1, <1>6, PingEvictRemoves, RemovalRelocates
<1>7. CASE PingKeep
  <2>1. \A k \in Level : Len(levels'[k]) <= Len(levels[k])
    BY <1>2, <1>7, PingKeepStays
  <2> QED
    BY <1>1, <1>2, <2>1, SmallerBounded
<1>8. CASE DemoteEntry \/ PromoteEntry \/ DropEntry
  <2>1. PICK k, m \in Level : \E j \in 1 .. Len(levels[k]), e \in Entry :
           /\ k # m
           /\ SamePeer(e, levels[k][j])
           /\ Moved(levels, levels', k, m, j, e)
    BY <1>8, MovesMove
  <2> QED
    BY <1>1, <2>1, MoveRelocates
<1>9. CASE FinishUpdate
  <2>1. \A k \in Level : Len(levels'[k]) <= Len(levels[k])
    BY <1>9, FinishPermutes
  <2> QED
    BY <1>1, <1>2, <2>1, SmallerBounded
<1>10. CASE \/ BeginUpdate \/ PingNextLevel \/ DemoteSkip \/ DemoteDone
            \/ MoveSkip \/ MoveDone
  <2>1. levels' = levels
    BY <1>10 DEF BeginUpdate, PingNextLevel, DemoteSkip, DemoteDone, MoveSkip, MoveDone
  <2> QED
    BY <1>3, <2>1
<1>11. CASE UNCHANGED vars
  BY <1>3, <1>11 DEF vars
<1> QED
  BY <1>4, <1>5, <1>6, <1>7, <1>8, <1>9, <1>10, <1>11 DEF Next, Update

LEMMA ConserveNext ==
  ASSUME IndInv, SizeBounded, MovesConserve, [Next]_vars
  PROVE  MovesConserve'
<1>1. levels \in [Level -> Seq(Entry)] /\ Bounded(levels)
  BY DEF IndInv, TypeOK, SizeBounded
<1> SUFFICES ASSUME pc' \in {"demote", "move", "finish"}, NEW p \in Peer
             PROVE  Count(levels', p) = Count(snap', p)
  BY DEF MovesConserve, Count, Places
<1>2. CASE PingNextLevel
  <2>1. levels' = levels /\ snap' = levels
    BY <1>2 DEF PingNextLevel
  <2> QED
    BY <2>1
<1>3. CASE DemoteEntry \/ PromoteEntry \/ DropEntry
  <2>1. pc \in {"demote", "move"} /\ snap' = snap
    BY <1>3 DEF DemoteEntry, PromoteEntry, DropEntry
  <2>2. PICK k, m \in Level : \E j \in 1 .. Len(levels[k]), e \in Entry :
           /\ k # m
           /\ SamePeer(e, levels[k][j])
           /\ Moved(levels, levels', k, m, j, e)
    BY <1>3, MovesMove
  <2>3. PICK f : Relocates(f, levels', levels, Pos(levels))
    BY <1>1, <2>2, MoveRelocates
  <2>4. Count(levels', p) = Count(levels, p)
    BY <2>3, CountKept
  <2>5. Count(levels, p) = Count(snap, p)
    BY <2>1 DEF MovesConserve
  <2> QED
    BY <2>1, <2>4, <2>5
<1>4. CASE DemoteSkip \/ DemoteDone \/ MoveSkip \/ MoveDone \/ UNCHANGED vars
  <2>1. levels' = levels /\ snap' = snap
    BY <1>4 DEF DemoteSkip, DemoteDone, MoveSkip, MoveDone, vars
  <2>2. pc \in {"demote", "move", "finish"}
    BY <1>4 DEF DemoteSkip, DemoteDone, MoveSkip, MoveDone, vars
  <2> QED
    BY <2>1, <2>2 DEF MovesConserve
<1>5. CASE \/ \E q \in Peer, s \in Serv : AddPeer(q, s)
           \/ \E q \in Peer : RemovePeer(q)
           \/ BeginUpdate \/ PingEvict \/ PingKeep \/ FinishUpdate
  <2>1. pc' \in {"idle", "ping"}
    BY <1>5 DEF AddPeer, RemovePeer, BeginUpdate, PingEvict, PingKeep, FinishUpdate
  <2> QED
    BY <2>1
<1> QED
  BY <1>2, <1>3, <1>4, <1>5 DEF Next, Update

LEMMA SizeBoundedHolds == Spec => []SizeBounded
<1>1. Init => SizeBounded
  BY LevelIs, CountAssumption DEF Init, SizeBounded, Bounded, NoLevels
<1>2. IndInv /\ IndInv' /\ SizeBounded /\ [Next]_vars => SizeBounded'
  BY SizeNext
<1> QED
  BY <1>1, <1>2, IndInvHolds, PTL DEF Spec

\* The demotions, promotions and drops of updateCache lose no entry and
\* duplicate none, although each is an append to one slice and a swap with the
\* last element in another: a peer has as many entries after each as before.
THEOREM MovesConserveHolds == Spec => []MovesConserve
<1>1. Init => MovesConserve
  BY DEF Init, MovesConserve
<1>2. IndInv /\ SizeBounded /\ MovesConserve /\ [Next]_vars => MovesConserve'
  BY ConserveNext
<1> QED
  BY <1>1, <1>2, IndInvHolds, SizeBoundedHolds, PTL DEF Spec

----------------------------------------------------------------------------
(* PeerCache implements PeerStore.                                         *)

Pair(e) == <<e.id, e.serv>>

PairsOf(ls) == { Pair(ls[x[1]][x[2]]) : x \in Pos(ls) }

LEMMA PairsAreThere ==
  ASSUME NEW ls \in [Level -> Seq(Entry)], Bounded(ls)
  PROVE  { <<e.id, e.serv>> : e \in UNION { EntriesOf(ls, k) : k \in Level } }
           = PairsOf(ls)
<1> DEFINE P == { <<e.id, e.serv>> : e \in UNION { EntriesOf(ls, k) : k \in Level } }
<1>1. /\ \A k \in Level : \A j \in 1 .. Len(ls[k]) : <<k, j>> \in Pos(ls)
      /\ \A x \in Pos(ls) : x[1] \in Level /\ x[2] \in 1 .. Len(ls[x[1]])
  BY Positions
<1>2. ASSUME NEW q \in P PROVE q \in PairsOf(ls)
  <2>1. PICK k \in Level : \E e \in EntriesOf(ls, k) : q = <<e.id, e.serv>>
    BY <1>2
  <2>2. PICK j \in 1 .. Len(ls[k]) : q = Pair(ls[k][j])
    BY <2>1 DEF EntriesOf, Pair
  <2>3. <<k, j>> \in Pos(ls) /\ <<k, j>>[1] = k /\ <<k, j>>[2] = j
    BY <1>1
  <2> QED
    BY <2>2, <2>3 DEF PairsOf
<1>3. ASSUME NEW q \in PairsOf(ls) PROVE q \in P
  <2>1. PICK x \in Pos(ls) : q = Pair(ls[x[1]][x[2]])
    BY <1>3 DEF PairsOf
  <2>2. ls[x[1]][x[2]] \in EntriesOf(ls, x[1]) /\ x[1] \in Level
    BY <1>1 DEF EntriesOf
  <2>3. ls[x[1]][x[2]] \in UNION { EntriesOf(ls, k) : k \in Level }
    BY <2>2
  <2> QED
    BY <2>1, <2>3 DEF Pair
<1> QED
  BY <1>2, <1>3

\* Entries that are relocated are known as before; those left out may be gone.
LEMMA PairsRelocated ==
  ASSUME NEW ls, NEW new, NEW X \in SUBSET Pos(ls), NEW f, Relocates(f, new, ls, X)
  PROVE  /\ PairsOf(new) \in SUBSET PairsOf(ls)
         /\ \A x \in X : Pair(ls[x[1]][x[2]]) \in PairsOf(new)
<1>1. /\ f \in [Pos(new) -> X]
      /\ \A t \in X : \E s \in Pos(new) : f[s] = t
  BY Fun_BijectionProperties DEF Relocates
<1>2. \A x \in Pos(new) : Pair(new[x[1]][x[2]]) = Pair(ls[f[x][1]][f[x][2]])
  BY DEF Relocates, SamePeer, Pair
<1>3. ASSUME NEW x \in Pos(new) PROVE Pair(new[x[1]][x[2]]) \in PairsOf(ls)
  <2>1. f[x] \in Pos(ls)
    BY <1>1
  <2> QED
    BY <1>2, <2>1, Zenon DEF PairsOf
<1>4. ASSUME NEW x \in X PROVE Pair(ls[x[1]][x[2]]) \in PairsOf(new)
  <2>1. PICK y \in Pos(new) : f[y] = x
    BY <1>1
  <2>2. Pair(new[y[1]][y[2]]) \in PairsOf(new)
    BY Zenon DEF PairsOf
  <2> QED
    BY <1>2, <2>1, <2>2
<1>5. \A q \in PairsOf(new) : q \in PairsOf(ls)
  BY <1>3, Zenon DEF PairsOf
<1> QED
  BY <1>4, <1>5

\* Appending an entry makes its pair known, and no other.
LEMMA PairsAppended ==
  ASSUME NEW ls \in [Level -> Seq(Entry)], NEW new, NEW k \in Level, NEW e,
         Bounded(ls), Bounded(new), Appended(ls, new, k, e)
  PROVE  PairsOf(new) = PairsOf(ls) \cup {Pair(e)}
<1>1. /\ new \in [Level -> Seq(Entry)]
      /\ \A m \in Level : m # k => new[m] = ls[m]
      /\ Len(ls[k]) \in Nat
      /\ Len(new[k]) = Len(ls[k]) + 1
      /\ \A n \in 1 .. Len(new[k]) :
           new[k][n] = IF n = Len(ls[k]) + 1 THEN e ELSE ls[k][n]
  BY DEF Appended
<1>2. /\ \A m \in Level : \A j \in 1 .. Len(ls[m]) : <<m, j>> \in Pos(ls)
      /\ \A x \in Pos(ls) : x = <<x[1], x[2]>> /\ x[1] \in Level
                            /\ x[2] \in 1 .. Len(ls[x[1]])
  BY Positions
<1>3. /\ \A m \in Level : \A j \in 1 .. Len(new[m]) : <<m, j>> \in Pos(new)
      /\ \A x \in Pos(new) : x = <<x[1], x[2]>> /\ x[1] \in Level
                             /\ x[2] \in 1 .. Len(new[x[1]])
  BY <1>1, Positions
<1>4. ASSUME NEW x \in Pos(ls)
      PROVE  x \in Pos(new) /\ new[x[1]][x[2]] = ls[x[1]][x[2]]
  <2>1. CASE x[1] = k
    <3>1. x[2] \in 1 .. Len(new[k]) /\ x[2] # Len(ls[k]) + 1
      BY <1>1, <1>2, <2>1
    <3> QED
      BY <1>1, <1>2, <1>3, <2>1, <3>1
  <2>2. CASE x[1] # k
    BY <1>1, <1>2, <1>3, <2>2
  <2> QED
    BY <2>1, <2>2
<1>5. ASSUME NEW x \in Pos(new)
      PROVE  new[x[1]][x[2]] = e \/ x \in Pos(ls)
  <2>1. CASE x[1] = k
    <3>1. x[2] = Len(ls[k]) + 1 \/ x[2] \in 1 .. Len(ls[k])
      BY <1>1, <1>3, <2>1
    <3> QED
      BY <1>1, <1>2, <1>3, <2>1, <3>1
  <2>2. CASE x[1] # k
    BY <1>1, <1>2, <1>3, <2>2
  <2> QED
    BY <2>1, <2>2
<1>6. Pair(e) \in PairsOf(new)
  <2> DEFINE x == <<k, Len(ls[k]) + 1>>
  <2>1. x \in Pos(new) /\ new[x[1]][x[2]] = e
    BY <1>1, <1>3
  <2> HIDE DEF x
  <2> QED
    BY <2>1 DEF PairsOf
<1>7. \A q \in PairsOf(ls) : q \in PairsOf(new)
  BY <1>4 DEF PairsOf
<1>8. \A q \in PairsOf(new) : q \in PairsOf(ls) \/ q = Pair(e)
  BY <1>4, <1>5 DEF PairsOf
<1> QED
  BY <1>6, <1>7, <1>8

\* What is known never grows by an update, whichever of its steps it is.
LEMMA UpdateShrinks ==
  ASSUME IndInv, IndInv', SizeBounded, SizeBounded', Update
  PROVE  PairsOf(levels') \in SUBSET PairsOf(levels)
<1>1. /\ levels \in [Level -> Seq(Entry)] /\ levels' \in [Level -> Seq(Entry)]
      /\ Bounded(levels) /\ Bounded(levels')
  BY DEF IndInv, TypeOK, SizeBounded, Bounded
<1>2. ASSUME \A k \in Level : \A j \in 1 .. Len(levels'[k]) :
               \E n \in 1 .. Len(levels[k]) : SamePeer(levels'[k][j], levels[k][n])
      PROVE  PairsOf(levels') \in SUBSET PairsOf(levels)
  <2>1. \A k \in Level : \A n \in 1 .. Len(levels[k]) : <<k, n>> \in Pos(levels)
    BY <1>1, Positions
  <2>2. \A x \in Pos(levels') : x[1] \in Level /\ x[2] \in 1 .. Len(levels'[x[1]])
    BY <1>1, Positions
  <2>3. ASSUME NEW x \in Pos(levels')
        PROVE  Pair(levels'[x[1]][x[2]]) \in PairsOf(levels)
    <3>1. PICK n \in 1 .. Len(levels[x[1]]) :
            SamePeer(levels'[x[1]][x[2]], levels[x[1]][n])
      BY <1>2, <2>2
    <3> DEFINE y == <<x[1], n>>
    <3>2. y \in Pos(levels) /\ y[1] = x[1] /\ y[2] = n
      BY <2>1, <2>2
    <3> HIDE DEF y
    <3>3. Pair(levels'[x[1]][x[2]]) = Pair(levels[y[1]][y[2]])
      BY <3>1, <3>2 DEF SamePeer, Pair
    <3> QED
      BY <3>2, <3>3 DEF PairsOf
  <2> QED
    BY <2>3 DEF PairsOf
<1>3. CASE PingEvict
  <2>1. l \in Level /\ i \in 1 .. Len(levels[l]) /\ Removed(levels, levels', l, i)
    BY <1>3, PingEvictRemoves
  <2>2. PICK f : Relocates(f, levels', levels, Pos(levels) \ {<<l, i>>})
    BY <1>1, <2>1, RemovalRelocates
  <2>3. Pos(levels) \ {<<l, i>>} \in SUBSET Pos(levels)
    OBVIOUS
  <2> QED
    BY <2>2, <2>3, PairsRelocated
<1>4. CASE PingKeep
  <2>1. \A k \in Level : Len(levels[k]) \in Nat
    BY <1>1
  <2> QED
    BY <1>2, <1>4, <2>1, PingKeepStays
<1>5. CASE DemoteEntry \/ PromoteEntry \/ DropEntry
  <2>1. PICK k, m \in Level : \E j \in 1 .. Len(levels[k]), e \in Entry :
           /\ k # m
           /\ SamePeer(e, levels[k][j])
           /\ Moved(levels, levels', k, m, j, e)
    BY <1>5, MovesMove
  <2>2. PICK f : Relocates(f, levels', levels, Pos(levels))
    BY <1>1, <2>1, MoveRelocates
  <2> QED
    BY <2>2, PairsRelocated
<1>6. CASE FinishUpdate
  <2>1. \A e : SamePeer(e, e)
    BY DEF SamePeer
  <2>2. \A k \in Level : \A j \in 1 .. Len(levels'[k]) :
          \E n \in 1 .. Len(levels[k]) : levels'[k][j] = levels[k][n]
    BY <1>6, FinishPermutes, Zenon
  <2>3. \A k \in Level : \A j \in 1 .. Len(levels'[k]) :
          \E n \in 1 .. Len(levels[k]) : SamePeer(levels'[k][j], levels[k][n])
    BY <2>1, <2>2, Zenon
  <2> QED
    BY <1>2, <2>3, Zenon
<1>7. CASE \/ BeginUpdate \/ PingNextLevel \/ DemoteSkip \/ DemoteDone
           \/ MoveSkip \/ MoveDone
  <2>1. levels' = levels
    BY <1>7 DEF BeginUpdate, PingNextLevel, DemoteSkip, DemoteDone, MoveSkip, MoveDone
  <2> QED
    BY <2>1
<1> QED
  BY <1>3, <1>4, <1>5, <1>6, <1>7 DEF Update

LEMMA StoreNext ==
  ASSUME IndInv, IndInv', SizeBounded, SizeBounded', [Next]_vars
  PROVE  [Store!Next]_(Store!vars)
<1>1. /\ levels \in [Level -> Seq(Entry)] /\ levels' \in [Level -> Seq(Entry)]
      /\ Bounded(levels) /\ Bounded(levels')
  BY DEF IndInv, TypeOK, SizeBounded, Bounded
<1>2. Present = PairsOf(levels)
  BY <1>1, PairsAreThere, Zenon DEF Present
<1>3. Present' = PairsOf(levels')
  <2>1. Present' =
          { <<e.id, e.serv>> : e \in UNION { EntriesOf(levels', k) : k \in Level } }
    BY DEF Present, EntriesOf, Level, NLevels
  <2> QED
    BY <1>1, <2>1, PairsAreThere, Zenon
<1>4. ASSUME NEW p \in Peer, NEW s \in Serv, AddPeer(p, s)
      PROVE  Store!AddPeer(p, s)
  <2>1. PICK e \in Entry : e.id = p /\ e.serv = s /\ Appended(levels, levels', 1, e)
    BY <1>4, AddPeerAppends
  <2>2. PairsOf(levels') = PairsOf(levels) \cup {Pair(e)}
    BY <1>1, <2>1, PairsAppended, LevelIs
  <2>3. Present' = Present \cup {<<p, s>>}
    BY <1>2, <1>3, <2>1, <2>2 DEF Pair
  <2>4. pc = "idle" /\ pc' = "idle"
    BY <1>4 DEF AddPeer
  <2> QED
    BY <2>3, <2>4 DEF Store!AddPeer
<1>5. ASSUME NEW p \in Peer, RemovePeer(p) PROVE Store!RemovePeer(p)
  <2>1. pc = "idle" /\ pc' = "idle"
    BY <1>5 DEF RemovePeer
  <2>2. CASE levels' = levels
    BY <1>2, <1>3, <2>1, <2>2 DEF Store!RemovePeer
  <2>3. ASSUME NEW k \in Level, NEW j \in 1 .. Len(levels[k]),
               levels[k][j].id = p, Removed(levels, levels', k, j)
        PROVE  Store!RemovePeer(p)
    <3>1. PICK f : Relocates(f, levels', levels, Pos(levels) \ {<<k, j>>})
      BY <1>1, <2>3, RemovalRelocates
    <3>2. Pos(levels) \ {<<k, j>>} \in SUBSET Pos(levels)
      OBVIOUS
    <3>3. /\ PairsOf(levels') \in SUBSET PairsOf(levels)
          /\ \A x \in Pos(levels) \ {<<k, j>>} :
               Pair(levels[x[1]][x[2]]) \in PairsOf(levels')
      BY <3>1, <3>2, PairsRelocated
    <3> DEFINE s == levels[k][j].serv
    <3>4. s \in Serv /\ Pair(levels[k][j]) = <<p, s>>
      <4>1. levels[k][j] \in Entry
        BY <1>1
      <4> QED
        BY <2>3, <4>1 DEF Entry, Pair
    <3> HIDE DEF s
    <3>5. \A q \in PairsOf(levels) : q = <<p, s>> \/ q \in PairsOf(levels')
      <4> SUFFICES ASSUME NEW x \in Pos(levels)
                   PROVE  \/ Pair(levels[x[1]][x[2]]) = <<p, s>>
                          \/ Pair(levels[x[1]][x[2]]) \in PairsOf(levels')
        BY DEF PairsOf
      <4>1. CASE x = <<k, j>>
        BY <3>4, <4>1
      <4>2. CASE x # <<k, j>>
        BY <3>3, <4>2
      <4> QED
        BY <4>1, <4>2
    <3>6. Present' = Present \/ Present' = Present \ {<<p, s>>}
      BY <1>2, <1>3, <3>3, <3>5
    <3> QED
      BY <2>1, <3>4, <3>6 DEF Store!RemovePeer
  <2> QED
    BY <1>5, <2>2, <2>3, RemovePeerCases
<1>6. CASE BeginUpdate
  <2>1. pc = "idle" /\ pc' = "ping" /\ levels' = levels
    BY <1>6 DEF BeginUpdate
  <2>2. Present' = Present
    BY <1>2, <1>3, <2>1
  <2> QED
    BY <2>1, <2>2 DEF Store!BeginUpdate, Store!Next
<1>7. CASE FinishUpdate
  <2>1. pc # "idle" /\ pc' = "idle" /\ Update
    BY <1>7 DEF FinishUpdate, Update
  <2>2. Present' \in SUBSET Present
    BY <1>2, <1>3, <2>1, UpdateShrinks
  <2> QED
    BY <2>1, <2>2 DEF Store!EndUpdate, Store!Next
<1>8. CASE \/ PingEvict \/ PingKeep \/ PingNextLevel
           \/ DemoteEntry \/ DemoteSkip \/ DemoteDone
           \/ PromoteEntry \/ DropEntry \/ MoveSkip \/ MoveDone
  <2>1. Update
    BY <1>8 DEF Update
  <2>2. pc # "idle" /\ pc' # "idle"
    BY <1>8 DEF PingEvict, PingKeep, PingNextLevel, DemoteEntry, DemoteSkip,
       DemoteDone, PromoteEntry, DropEntry, MoveSkip, MoveDone
  <2>3. Present' \in SUBSET Present
    BY <1>2, <1>3, <2>1, UpdateShrinks
  <2> QED
    BY <2>2, <2>3 DEF Store!Evict, Store!Next
<1>9. CASE UNCHANGED vars
  <2>1. levels' = levels /\ pc' = pc
    BY <1>9 DEF vars
  <2> QED
    BY <1>2, <1>3, <2>1 DEF Store!vars
<1> QED
  BY <1>4, <1>5, <1>6, <1>7, <1>8, <1>9 DEF Next, Update, Store!Next

\* PeerCache implements PeerStore: with levels, counts, order and all steps of
\* updateCache, requests see a store to which AddPeer adds its pair, in which
\* RemovePeer touches its own peer only, and from which an update removes but
\* to which it never adds.
THEOREM CacheImplementsStore == Spec => StoreSpec
<1>1. Init => Store!Init
  BY LevelIs DEF Init, NoLevels, Store!Init, Present, EntriesOf
<1>2. IndInv /\ IndInv' /\ SizeBounded /\ SizeBounded' /\ [Next]_vars
        => [Store!Next]_(Store!vars)
  BY StoreNext
<1> QED
  BY <1>1, <1>2, IndInvHolds, SizeBoundedHolds, PTL DEF Spec, StoreSpec, Store!Spec

----------------------------------------------------------------------------
(* What requests call GetPeer and RemovePeer for.                          *)

LEMMA Least ==
  ASSUME NEW T \in SUBSET Nat, T # {}
  PROVE  \E x \in T : \A y \in T : x <= y
<1> DEFINE R == OpToRel(<, Nat)
<1>1. IsWellFoundedOn(R, Nat)
  BY NatLessThanWellFounded
<1>2. \A x, y \in Nat : x < y => <<x, y>> \in R
  BY DEF OpToRel
<1> HIDE DEF R
<1>3. PICK x \in T : \A y \in T : ~ (<<y, x>> \in R)
  BY <1>1, WFMin, Zenon
<1>4. x \in Nat /\ \A y \in T : y \in Nat /\ ~ (y < x)
  BY <1>2, <1>3
<1>5. \A y \in T : x <= y
  BY <1>4
<1> QED
  BY <1>5

\* A level that has an entry of a service has a first one.
LEMMA FirstEntry ==
  ASSUME NEW k \in Level, levels[k] \in Seq(Entry), NEW s,
         NEW n \in 1 .. Len(levels[k]), levels[k][n].serv = s
  PROVE  \E j \in 1 .. Len(levels[k]) :
           /\ levels[k][j].serv = s
           /\ \A m \in 1 .. j - 1 : levels[k][m].serv # s
<1> DEFINE T == { j \in 1 .. Len(levels[k]) : levels[k][j].serv = s }
<1>1. T \in SUBSET Nat /\ T # {} /\ Len(levels[k]) \in Nat
  OBVIOUS
<1>2. PICK j \in T : \A y \in T : j <= y
  BY <1>1, Least, Zenon
<1>3. j \in 1 .. Len(levels[k]) /\ levels[k][j].serv = s
  OBVIOUS
<1>4. ASSUME NEW m \in 1 .. j - 1 PROVE levels[k][m].serv # s
  <2>1. m \in 1 .. Len(levels[k]) /\ ~ (j <= m)
    BY <1>1, <1>3
  <2> QED
    BY <1>2, <2>1
<1> QED
  BY <1>3, <1>4

\* GetPeer answers with a peer that is cached for the service asked for, and
\* with an error only when none is: its search of the levels in order of
\* preference leaves out the last level, where no entry is while requests run.
THEOREM GetPeerIsComplete == Spec => []GetPeerComplete
<1>1. IndInv => GetPeerComplete
  <2> SUFFICES ASSUME IndInv, pc = "idle", NEW s \in Serv
               PROVE  /\ GetPeer(s) \subseteq Store!GetPeer(s)
                      /\ Store!GetPeer(s) # {} => GetPeer(s) # {}
    BY DEF GetPeerComplete
  <2>1. /\ levels \in [Level -> Seq(Entry)] /\ levels[2] = << >>
        /\ 0 \in Level /\ 1 \in Level /\ 2 \in Level
        /\ levels[0] \in Seq(Entry) /\ levels[1] \in Seq(Entry)
    BY LevelIs DEF IndInv, TypeOK, LastLevelEmpty
  <2>2. 0 .. NLevels - 2 = {0, 1}
    BY DEF NLevels
  <2>3. ASSUME NEW p \in GetPeer(s) PROVE p \in Store!GetPeer(s)
    <3>1. PICK k \in 0 .. NLevels - 2 : \E j \in 1 .. Len(levels[k]) :
            levels[k][j].id = p /\ levels[k][j].serv = s
      BY <2>3 DEF GetPeer
    <3>2. PICK j \in 1 .. Len(levels[k]) : levels[k][j].id = p /\ levels[k][j].serv = s
      BY <3>1
    <3>3. k \in Level /\ levels[k][j] \in EntriesOf(levels, k)
      BY <2>1, <2>2 DEF EntriesOf
    <3>4. levels[k][j] \in UNION { EntriesOf(levels, m) : m \in Level }
      BY <3>3
    <3>5. <<p, s>> \in Present
      BY <3>2, <3>4 DEF Present
    <3> QED
      BY <2>3, <3>5 DEF GetPeer, Store!GetPeer
  <2>4. ASSUME NEW p \in Store!GetPeer(s) PROVE GetPeer(s) # {}
    <3>1. <<p, s>> \in Present
      BY <2>4 DEF Store!GetPeer
    <3>2. PICK k \in Level : \E e \in EntriesOf(levels, k) : <<p, s>> = <<e.id, e.serv>>
      BY <3>1 DEF Present
    <3>3. PICK n \in 1 .. Len(levels[k]) : levels[k][n].serv = s
      BY <3>2 DEF EntriesOf
    <3>4. k = 0 \/ k = 1
      BY <2>1, <3>3, LevelIs
    <3>5. PICK m \in {0, 1} :
            /\ \E q \in 1 .. Len(levels[m]) : levels[m][q].serv = s
            /\ \A b \in 0 .. m - 1 :
                 \A q \in 1 .. Len(levels[b]) : levels[b][q].serv # s
      <4>1. CASE \E q \in 1 .. Len(levels[0]) : levels[0][q].serv = s
        BY <4>1
      <4>2. CASE ~ \E q \in 1 .. Len(levels[0]) : levels[0][q].serv = s
        <5>1. k = 1
          BY <3>3, <3>4, <4>2
        <5>2. \E q \in 1 .. Len(levels[1]) : levels[1][q].serv = s
          BY <3>3, <5>1
        <5>3. 0 .. 1 - 1 = {0}
          OBVIOUS
        <5> QED
          BY <4>2, <5>2, <5>3
      <4> QED
        BY <4>1, <4>2
    <3>6. m \in Level /\ levels[m] \in Seq(Entry)
      BY <2>1
    <3>7. PICK j \in 1 .. Len(levels[m]) :
            /\ levels[m][j].serv = s
            /\ \A q \in 1 .. j - 1 : levels[m][q].serv # s
      BY <3>5, <3>6, FirstEntry
    <3>8. levels[m][j].id \in Peer
      <4>1. levels[m][j] \in Entry
        BY <3>6, <3>7
      <4> QED
        BY <4>1 DEF Entry
    <3>9. levels[m][j].id \in GetPeer(s)
      BY <2>2, <3>5, <3>7, <3>8, Zenon DEF GetPeer
    <3> QED
      BY <3>9
  <2> QED
    BY <2>3, <2>4
<1> QED
  BY <1>1, IndInvHolds, PTL

LEMMA CachedPlaces ==
  ASSUME NEW ls \in [Level -> Seq(Entry)], Bounded(ls), NEW p
  PROVE  (\E k \in Level : p \in Ids(ls, k)) <=> Places(ls, p) # {}
<1>1. Places(ls, p) = { x \in Pos(ls) : ls[x[1]][x[2]].id = p }
  BY DEF Places, Pos
<1>2. ASSUME NEW k \in Level, p \in Ids(ls, k) PROVE Places(ls, p) # {}
  <2>1. PICK j \in 1 .. Len(ls[k]) : ls[k][j].id = p
    BY <1>2 DEF Ids, EntriesOf
  <2> DEFINE x == <<k, j>>
  <2>2. x \in Pos(ls) /\ ls[x[1]][x[2]].id = p
    BY <2>1, Positions
  <2> HIDE DEF x
  <2> QED
    BY <1>1, <2>2
<1>3. ASSUME NEW x \in Places(ls, p) PROVE \E k \in Level : p \in Ids(ls, k)
  <2>1. x \in Pos(ls) /\ ls[x[1]][x[2]].id = p
    BY <1>1
  <2>2. x[1] \in Level /\ x[2] \in 1 .. Len(ls[x[1]])
    BY <2>1, Positions
  <2> QED
    BY <2>1, <2>2 DEF Ids, EntriesOf
<1> QED
  BY <1>2, <1>3

\* Entries that were relocated from positions X are entries of peers of X.
LEMMA PlacesRelocated ==
  ASSUME NEW ls, NEW new, NEW X \in SUBSET Pos(ls), NEW f,
         Relocates(f, new, ls, X), NEW p, NEW x \in Places(new, p)
  PROVE  \E y \in X : y \in Places(ls, p)
<1>1. x \in Pos(new) /\ new[x[1]][x[2]].id = p
  BY DEF Places, Pos
<1>2. f \in [Pos(new) -> X]
  BY Fun_BijectionProperties DEF Relocates
<1>3. f[x] \in X /\ ls[f[x][1]][f[x][2]].id = p
  BY <1>1, <1>2 DEF Relocates, SamePeer
<1>4. f[x] \in Places(ls, p)
  BY <1>3 DEF Places, Pos
<1> QED
  BY <1>3, <1>4

\* What RemovePeer could reach stays out of the cache.
RemovedStaysOut == \A p \in gone : Places(levels, p) = {}

LEMMA RemovedNext ==
  ASSUME IndInv, IndInv', SizeBounded, SizeBounded', RemovedStaysOut, [Next]_vars
  PROVE  RemovedStaysOut'
<1>1. /\ levels \in [Level -> Seq(Entry)] /\ levels' \in [Level -> Seq(Entry)]
      /\ Bounded(levels) /\ Bounded(levels')
      /\ gone \in SUBSET Peer /\ gone' \in SUBSET Peer
  BY DEF IndInv, TypeOK, SizeBounded, Bounded
<1> SUFFICES ASSUME NEW p \in Peer, p \in gone', NEW x \in Places(levels', p)
             PROVE  FALSE
  BY <1>1 DEF RemovedStaysOut, Places, Level, NLevels
<1>2. x \in Pos(levels') /\ levels'[x[1]][x[2]].id = p
  BY DEF Places, Pos
<1>3. CASE p \in gone /\ Update
  <2>1. PairsOf(levels') \in SUBSET PairsOf(levels)
    BY <1>3, UpdateShrinks
  <2>2. Pair(levels'[x[1]][x[2]]) \in PairsOf(levels)
    BY <1>2, <2>1 DEF PairsOf
  <2>3. PICK y \in Pos(levels) : Pair(levels[y[1]][y[2]]) = Pair(levels'[x[1]][x[2]])
    BY <2>2 DEF PairsOf
  <2>4. levels[y[1]][y[2]].id = p
    BY <1>2, <2>3 DEF Pair
  <2>5. y \in Places(levels, p)
    BY <2>4 DEF Places, Pos
  <2> QED
    BY <1>3, <2>5 DEF RemovedStaysOut
<1>4. ASSUME NEW q \in Peer, NEW s \in Serv, AddPeer(q, s) PROVE FALSE
  <2>1. p # q /\ p \in gone
    BY <1>1, <1>4 DEF AddPeer
  <2>2. PICK e \in Entry : e.id = q /\ Appended(levels, levels', 1, e)
    BY <1>4, AddPeerAppends
  <2>3. x[1] \in Level /\ x[2] \in 1 .. Len(levels'[x[1]]) /\ x = <<x[1], x[2]>>
    BY <1>1, <1>2, Positions
  <2>4. x[2] \in 1 .. Len(levels[x[1]]) /\ levels[x[1]][x[2]].id = p
    <3>1. CASE x[1] = 1
      <4>1. /\ Len(levels[1]) \in Nat /\ Len(levels'[1]) = Len(levels[1]) + 1
            /\ \A n \in 1 .. Len(levels'[1]) :
                 levels'[1][n] = IF n = Len(levels[1]) + 1 THEN e ELSE levels[1][n]
        BY <1>1, <2>2, LevelIs DEF Appended
      <4> QED
        BY <1>2, <2>1, <2>2, <2>3, <3>1, <4>1
    <3>2. CASE x[1] # 1
      BY <1>2, <2>2, <2>3, <3>2 DEF Appended
    <3> QED
      BY <3>1, <3>2
  <2>5. x \in Places(levels, p)
    <3>1. <<x[1], x[2]>> \in Pos(levels)
      BY <1>1, <2>3, <2>4, Positions
    <3> QED
      BY <2>3, <2>4, <3>1 DEF Places, Pos
  <2> QED
    BY <2>1, <2>5 DEF RemovedStaysOut
<1>5. ASSUME NEW q \in Peer, RemovePeer(q), p # q PROVE FALSE
  <2>1. p \in gone
    BY <1>1, <1>5 DEF RemovePeer
  <2>2. CASE levels' = levels
    BY <2>1, <2>2 DEF RemovedStaysOut
  <2>3. ASSUME NEW k \in Level, NEW j \in 1 .. Len(levels[k]),
               Removed(levels, levels', k, j)
        PROVE  FALSE
    <3>1. PICK f : Relocates(f, levels', levels, Pos(levels) \ {<<k, j>>})
      BY <1>1, <2>3, RemovalRelocates
    <3>2. Pos(levels) \ {<<k, j>>} \in SUBSET Pos(levels)
      OBVIOUS
    <3>3. \E y : y \in Places(levels, p)
      BY <3>1, <3>2, PlacesRelocated
    <3> QED
      BY <2>1, <3>3 DEF RemovedStaysOut
  <2> QED
    BY <1>5, <2>2, <2>3, RemovePeerCases
<1>6. ASSUME RemovePeer(p) PROVE FALSE
  <2>1. InReach(p)
    BY <1>1, <1>6 DEF RemovePeer
  <2>2. \A y \in Places(levels, p) :
          /\ y \in Pos(levels) /\ levels[y[1]][y[2]].id = p
          /\ y[1] \in Level /\ y[2] \in 1 .. Len(levels[y[1]])
          /\ y[1] <= NLevels - 2 /\ y[2] <= RMax
    <3>1. \A y \in Places(levels, p) : y \in Pos(levels) /\ levels[y[1]][y[2]].id = p
      BY DEF Places, Pos
    <3>2. \A y \in Places(levels, p) : y[1] <= NLevels - 2 /\ y[2] <= RMax
      BY <2>1 DEF InReach
    <3> QED
      BY <1>1, <3>1, <3>2, Positions
  <2>3. CASE levels' = levels /\ \A k \in 0 .. NLevels - 2 : Removable(p, k) = {}
    <3>1. x \in Places(levels, p)
      BY <2>3
    <3>2. x[1] \in 0 .. NLevels - 2
      BY <2>2, <3>1 DEF Level, NLevels
    <3>3. x[2] \in Removable(p, x[1])
      BY <2>2, <3>1 DEF Removable
    <3> QED
      BY <2>3, <3>2, <3>3
  <2>4. ASSUME NEW k \in Level, NEW j \in 1 .. Len(levels[k]),
               levels[k][j].id = p, Removed(levels, levels', k, j)
        PROVE  FALSE
    <3> DEFINE h == <<k, j>>
    <3>1. PICK f : Relocates(f, levels', levels, Pos(levels) \ {h})
      BY <1>1, <2>4, RemovalRelocates
    <3>2. h \in Pos(levels) /\ levels[h[1]][h[2]].id = p
      BY <1>1, <2>4, Positions
    <3> HIDE DEF h
    <3>3. h \in Places(levels, p)
      BY <3>2 DEF Places, Pos
    <3>4. \A y \in Places(levels, p) : y = h
      BY <2>1, <3>3 DEF InReach
    <3>5. \E y \in Pos(levels) \ {h} : y \in Places(levels, p)
      <4>1. Pos(levels) \ {h} \in SUBSET Pos(levels)
        OBVIOUS
      <4> QED
        BY <3>1, <4>1, PlacesRelocated
    <3> QED
      BY <3>4, <3>5
  <2> QED
    BY <1>6, <2>3, <2>4, RemovePeerCases
<1>7. ASSUME Update PROVE p \in gone
  BY <1>7 DEF Update, BeginUpdate, PingEvict, PingKeep, PingNextLevel, DemoteEntry,
     DemoteSkip, DemoteDone, PromoteEntry, DropEntry, MoveSkip, MoveDone, FinishUpdate
<1>8. CASE UNCHANGED vars
  BY <1>8 DEF vars, RemovedStaysOut
<1> QED
  BY <1>3, <1>4, <1>5, <1>6, <1>7, <1>8 DEF Next

LEMMA OthersKept ==
  ASSUME IndInv, SizeBounded, NEW p \in Peer, RemovePeer(p), NEW q \in Peer \ {p}
  PROVE  Count(levels', q) = Count(levels, q)
<1>1. levels \in [Level -> Seq(Entry)] /\ Bounded(levels)
  BY DEF IndInv, TypeOK, SizeBounded
<1>2. ASSUME NEW k \in Level, NEW j \in 1 .. Len(levels[k]),
             levels[k][j].id = p, Removed(levels, levels', k, j)
      PROVE  Count(levels', q) = Count(levels, q)
  <2> DEFINE X == Pos(levels) \ {<<k, j>>}
  <2>1. PICK f : Relocates(f, levels', levels, X)
    BY <1>1, <1>2, RemovalRelocates
  <2>2. X \in SUBSET Pos(levels) /\ \A x \in Pos(levels) \ X : levels[x[1]][x[2]].id # q
    BY <1>2
  <2> HIDE DEF X
  <2> QED
    BY <2>1, <2>2, CountKept
<1> QED
  BY <1>2, RemovePeerCases

\* RemovePeer(p), wherever it looks for entries and whatever it finds: if p had
\* one entry at most, within its reach, p stays out of the cache through all
\* later calls and updates until AddPeer(p); and no call takes or duplicates an
\* entry of another peer, also the one that rpfs moves into the hole.
THEOREM RemovePeerWorks == Spec => RemovedPeerGone
<1>1. Init => RemovedStaysOut
  BY DEF Init, RemovedStaysOut
<1>2. IndInv /\ IndInv' /\ SizeBounded /\ SizeBounded' /\ RemovedStaysOut /\ [Next]_vars
        => RemovedStaysOut'
  BY RemovedNext
<1>3. IndInv /\ SizeBounded /\ RemovedStaysOut
        => \A p \in gone : ~ Cached(p)
  BY CachedPlaces DEF RemovedStaysOut, Cached, IndInv, TypeOK, SizeBounded
<1>4. IndInv /\ SizeBounded /\ [Next]_vars
        => [\A p \in Peer : RemovePeer(p) =>
              \A q \in Peer \ {p} : Count(levels', q) = Count(levels, q)]_vars
  BY OthersKept
<1> QED
  BY <1>1, <1>2, <1>3, <1>4, IndInvHolds, SizeBoundedHolds, PTL DEF Spec, RemovedPeerGone
=============================================================================
