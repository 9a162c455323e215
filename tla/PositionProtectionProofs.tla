--------------------- MODULE PositionProtectionProofs ---------------------
(***************************************************************************)
(* Theorems about the protection of one position, for every size, every    *)
(* grid of prices and every number of failed calls and crashes.            *)
(***************************************************************************)
EXTENDS PositionProtection, UnitSumsProofs

(* What the exchange holds: finitely many legs, no two of one id. *)
Proper(e) ==
  /\ e \in [size : Nat, legs : SUBSET Leg] /\ IsFiniteSet(e.legs)
  /\ \A l, m \in e.legs : l.id = m.id => l = m

(* The legs outside S, with n lots more, are enough to close the position.  *)
Kept(e, S) == {l \in e.legs : l.id \notin S}
Enough(e, S, n) == TotalOf(Kept(e, S)) + n >= e.size

(* What every change of the exchange's record has in common that does not   *)
(* cancel legs: whatever covered the position still does, and no id of I    *)
(* comes to life.                                                           *)
Evolves(e, d, I) ==
  /\ Proper(d) /\ d.size <= e.size
  /\ \A S \in SUBSET LegId : \A n \in Nat : Enough(e, S, n) => Enough(d, S, n)
  /\ LiveIds(d) \cap I \subseteq LiveIds(e)

(* The legs named in I keep their targets. *)
SameTargets(e, d, I) ==
  \A l \in d.legs : l.id \in I => \E k \in e.legs : k.id = l.id /\ k.tp = l.tp

-----------------------------------------------------------------------------
(* Sums of lots.                                                           *)
LEMMA LegFacts ==
  ASSUME NEW l \in Leg
  PROVE  l.id \in LegId /\ l.sz \in Nat /\ l.sz > 0 /\ l.tp \in Nat /\ l.sl \in Nat
BY DEF Leg

LEMMA TotalType ==
  ASSUME NEW L, L \subseteq Leg, IsFiniteSet(L)
  PROVE  TotalOf(L) \in Nat
<1> DEFINE f == [l \in L |-> l.sz]
<1>1. \A l \in L : f[l] \in Nat
  BY LegFacts
<1>2. SumOver(L, f) \in Nat
  BY <1>1, AllUnitsFinite
<1>3. QED
  BY <1>2 DEF TotalOf

LEMMA TotalEmpty == TotalOf({}) = 0
<1> DEFINE f == [l \in {} |-> l.sz]
<1>1. AllUnits({}, f) = {}
  BY DEF AllUnits
<1>2. QED
  BY <1>1, FS_EmptySet DEF TotalOf, SumOver

LEMMA TotalApart ==
  ASSUME NEW L, L \subseteq Leg, IsFiniteSet(L), NEW A, A \subseteq L
  PROVE  /\ IsFiniteSet(A) /\ IsFiniteSet(L \ A)
         /\ TotalOf(A) \in Nat /\ TotalOf(L \ A) \in Nat
         /\ TotalOf(L) = TotalOf(A) + TotalOf(L \ A)
<1> DEFINE f == [l \in L |-> l.sz]
           a == [l \in A |-> l.sz]
           b == [l \in L \ A |-> l.sz]
<1>1. IsFiniteSet(A) /\ IsFiniteSet(L \ A)
  BY FS_Subset, FS_Difference
<1>2. TotalOf(A) \in Nat /\ TotalOf(L \ A) \in Nat
  BY <1>1, TotalType
<1>3. \A l \in L : f[l] \in Nat
  BY LegFacts
<1>4. SumOver(L, f) = SumOver(A, f) + SumOver(L \ A, f)
  BY <1>3, SumApart
<1>5. \A l \in A : f[l] = a[l]
  OBVIOUS
<1>6. \A l \in L \ A : f[l] = b[l]
  OBVIOUS
<1>7. SumOver(A, f) = SumOver(A, a)
  BY <1>5, SumSame
<1>8. SumOver(L \ A, f) = SumOver(L \ A, b)
  BY <1>6, SumSame
<1>9. QED
  BY <1>1, <1>2, <1>4, <1>7, <1>8 DEF TotalOf

LEMMA TotalWithin ==
  ASSUME NEW L, L \subseteq Leg, IsFiniteSet(L), NEW A, A \subseteq L
  PROVE  TotalOf(A) <= TotalOf(L)
<1>1. /\ TotalOf(A) \in Nat /\ TotalOf(L \ A) \in Nat
      /\ TotalOf(L) = TotalOf(A) + TotalOf(L \ A)
  BY TotalApart
<1>2. QED
  BY <1>1

LEMMA TotalWith ==
  ASSUME NEW L, L \subseteq Leg, IsFiniteSet(L), NEW l \in Leg, l \notin L
  PROVE  IsFiniteSet(L \cup {l}) /\ TotalOf(L \cup {l}) = TotalOf(L) + l.sz
<1> DEFINE K == L \cup {l}
           f == [x \in K |-> x.sz]
           g == [x \in L |-> x.sz]
<1>1. IsFiniteSet(K) /\ l \in K
  BY FS_AddElement
<1>2. \A x \in K : f[x] \in Nat
  BY LegFacts
<1>3. f[l] = l.sz /\ \A x \in L : f[x] = g[x]
  OBVIOUS
<1>4. K \ {l} = L
  OBVIOUS
<1>5. SumOver(K, f) = TotalOf(K) /\ SumOver(L, g) = TotalOf(L)
  BY DEF TotalOf
<1> HIDE DEF f, g, K
<1>6. SumOver(K, f) = SumOver(K \ {l}, f) + f[l]
  BY <1>1, <1>2, SumSplit
<1>7. SumOver(L, f) = SumOver(L, g)
  BY <1>3, SumSame
<1>8. QED
  BY <1>1, <1>3, <1>4, <1>5, <1>6, <1>7 DEF K

-----------------------------------------------------------------------------
(* What the exchange does to the legs.                                     *)
LEMMA KeptFacts ==
  ASSUME NEW e, Proper(e), NEW S
  PROVE  /\ Kept(e, S) \subseteq Leg /\ IsFiniteSet(Kept(e, S))
         /\ TotalOf(Kept(e, S)) \in Nat /\ e.size \in Nat /\ TotalOf(e.legs) \in Nat
<1>1. Kept(e, S) \subseteq e.legs /\ e.legs \subseteq Leg /\ IsFiniteSet(e.legs) /\ e.size \in Nat
  BY DEF Kept, Proper
<1>2. IsFiniteSet(Kept(e, S))
  BY <1>1, FS_Subset
<1>3. QED
  BY <1>1, <1>2, TotalType

LEMMA EvolvesTransitive ==
  ASSUME NEW e, NEW d, NEW c, NEW I, Proper(e), Evolves(e, d, I), Evolves(d, c, I)
  PROVE  Evolves(e, c, I)
<1>1. e.size \in Nat /\ d.size \in Nat /\ c.size \in Nat
  BY DEF Evolves, Proper
<1>2. c.size <= e.size
  BY <1>1 DEF Evolves
<1>3. LiveIds(c) \cap I \subseteq LiveIds(e)
  BY DEF Evolves
<1>4. QED
  BY <1>2, <1>3 DEF Evolves

(* A set of legs that do not execute covers as much as before: what executes *)
(* of the others only makes the position smaller.                            *)
LEMMA SettledEvolves ==
  ASSUME NEW e, Proper(e), NEW p, NEW I
  PROVE  /\ Evolves(e, Settled(e, p), I) /\ Settled(e, p).legs \subseteq e.legs
         /\ \A S : \A n \in Nat : Enough(e, S, n) => Enough(Settled(e, p), S, n)
<1> DEFINE hit == {l \in e.legs : l.tp <= p \/ p <= l.sl}
           left == Most(0, e.size - TotalOf(hit))
           d == [size |-> left, legs |-> IF left = 0 THEN {} ELSE e.legs \ hit]
<1>1. d = Settled(e, p)
  BY DEF Settled
<1>2. /\ e.legs \subseteq Leg /\ IsFiniteSet(e.legs) /\ e.size \in Nat /\ hit \subseteq e.legs
      /\ \A l, m \in e.legs : l.id = m.id => l = m
  BY DEF Proper
<1>3. TotalOf(hit) \in Nat
  BY <1>2, TotalApart
<1>4. left \in Nat /\ left <= e.size /\ (left # 0 => left = e.size - TotalOf(hit))
  BY <1>2, <1>3 DEF Most
<1>5. d.legs \subseteq e.legs
  OBVIOUS
<1>6. Proper(d)
  <2>1. IsFiniteSet(d.legs)
    BY <1>2, <1>5, FS_Subset
  <2>2. d \in [size : Nat, legs : SUBSET Leg]
    BY <1>2, <1>4, <1>5
  <2>3. QED
    BY <1>2, <1>5, <2>1, <2>2 DEF Proper
<1>7. ASSUME NEW S, NEW n \in Nat, Enough(e, S, n) PROVE Enough(d, S, n)
  <2>1. TotalOf(Kept(d, S)) \in Nat
    BY <1>6, KeptFacts
  <2>2. CASE left = 0
    BY <2>1, <2>2 DEF Enough
  <2>3. CASE left # 0
    <3>1. Kept(d, S) = Kept(e, S) \ (Kept(e, S) \cap hit)
      BY <2>3 DEF Kept
    <3>2. /\ TotalOf(Kept(e, S)) = TotalOf(Kept(e, S) \cap hit) + TotalOf(Kept(d, S))
          /\ TotalOf(Kept(e, S) \cap hit) \in Nat
      BY <3>1, KeptFacts, TotalApart
    <3>3. hit \subseteq Leg /\ IsFiniteSet(hit)
      BY <1>2, TotalApart
    <3>4. TotalOf(Kept(e, S) \cap hit) <= TotalOf(hit)
      BY <3>3, TotalWithin
    <3>5. d.size = e.size - TotalOf(hit)
      BY <1>4, <2>3
    <3>6. TotalOf(Kept(e, S)) + n >= e.size
      BY <1>7 DEF Enough
    <3>7. TotalOf(Kept(d, S)) + n >= d.size
      BY <1>2, <1>3, <2>1, <3>2, <3>4, <3>5, <3>6
    <3>8. QED
      BY <3>7 DEF Enough
  <2>4. QED
    BY <2>2, <2>3
<1>8. LiveIds(d) \subseteq LiveIds(e)
  BY <1>5 DEF LiveIds
<1>9. d.size <= e.size
  BY <1>4
<1> HIDE DEF d
<1>10. QED
  BY <1>1, <1>5, <1>6, <1>7, <1>8, <1>9 DEF Evolves

LEMMA UnusedIsNew ==
  ASSUME NEW ids, IsFiniteSet(ids)
  PROVE  Unused(ids) \in LegId /\ Unused(ids) \notin ids
<1> DEFINE n == Cardinality(ids)
<1>1. n \in Nat
  BY FS_CardinalityType
<1>2. IsFiniteSet(1..(n + 1)) /\ Cardinality(1..(n + 1)) = n + 1
  <2>1. n + 1 >= 1
    BY <1>1
  <2>2. QED
    BY <1>1, <2>1, FS_Interval
<1>3. ~(1..(n + 1) \subseteq ids)
  <2>1. ASSUME 1..(n + 1) \subseteq ids PROVE FALSE
    <3>1. Cardinality(1..(n + 1)) <= Cardinality(ids)
      BY <2>1, FS_Subset
    <3>2. QED
      BY <1>1, <1>2, <3>1
  <2>2. QED
    BY <2>1
<1>4. \E i \in 1..(n + 1) : i \notin ids
  BY <1>3
<1>5. Unused(ids) \in 1..(n + 1) /\ Unused(ids) \notin ids
  BY <1>4 DEF Unused
<1>6. QED
  BY <1>1, <1>5 DEF LegId

LEMMA LiveIdsFinite ==
  ASSUME NEW e, Proper(e)
  PROVE  IsFiniteSet(LiveIds(e)) /\ LiveIds(e) \subseteq LegId
<1> DEFINE f == [l \in e.legs |-> l.id]
<1>1. f \in Surjection(e.legs, LiveIds(e))
  BY DEF Surjection, LiveIds
<1>2. IsFiniteSet(e.legs)
  BY DEF Proper
<1>3. IsFiniteSet(LiveIds(e))
  BY <1>1, <1>2, FS_Surjection
<1>4. LiveIds(e) \subseteq LegId
  BY LegFacts DEF Proper, LiveIds
<1>5. QED
  BY <1>3, <1>4

(* A new leg covers its lots, for whatever set of others is looked at.      *)
LEMMA LegAdded ==
  ASSUME NEW e, Proper(e), NEW i \in LegId, i \notin LiveIds(e), NEW I, i \notin I,
         NEW sz \in Nat, sz > 0, NEW tp \in Nat, NEW sl \in Nat
  PROVE  LET d == WithLeg(e, i, sz, tp, sl)
         IN  /\ Evolves(e, d, I) /\ SameTargets(e, d, I)
             /\ \A l \in d.legs : l \in e.legs \/ (l.id = i /\ l.tp = tp)
             /\ \A S : \A n \in Nat : i \notin S /\ Enough(e, S, n + sz) => Enough(d, S, n)
<1> DEFINE new == [id |-> i, sz |-> sz, tp |-> tp, sl |-> sl]
           f == [e EXCEPT !.legs = @ \cup {new}]
           d == Settled(f, px)
<1>1. d = WithLeg(e, i, sz, tp, sl)
  BY DEF WithLeg
<1>2. /\ e.legs \subseteq Leg /\ IsFiniteSet(e.legs) /\ e.size \in Nat
      /\ \A l, m \in e.legs : l.id = m.id => l = m
      /\ e \in [size : Nat, legs : SUBSET Leg]
  BY DEF Proper
<1>3. new \in Leg /\ new.id = i /\ new.sz = sz /\ new.tp = tp /\ new \notin e.legs
  BY DEF Leg, LiveIds
<1>4. /\ f.size = e.size /\ f.legs = e.legs \cup {new}
      /\ f \in [size : Nat, legs : SUBSET Leg]
  BY <1>2, <1>3
<1> HIDE DEF new, f
<1>5. Proper(f)
  <2>1. IsFiniteSet(f.legs)
    BY <1>2, <1>4, FS_AddElement
  <2>2. ASSUME NEW l \in f.legs, NEW m \in f.legs, l.id = m.id PROVE l = m
    BY <1>2, <1>3, <1>4, <2>2 DEF LiveIds
  <2>3. QED
    BY <1>4, <2>1, <2>2 DEF Proper
<1>6. \A S : IF i \in S THEN Kept(f, S) = Kept(e, S)
             ELSE Kept(f, S) = Kept(e, S) \cup {new} /\ new \notin Kept(e, S)
  BY <1>3, <1>4 DEF Kept
<1>7. ASSUME NEW S, i \notin S PROVE TotalOf(Kept(f, S)) = TotalOf(Kept(e, S)) + sz
  BY <1>3, <1>6, <1>7, KeptFacts, TotalWith
<1>8. \A S : TotalOf(Kept(e, S)) \in Nat
  BY KeptFacts
<1>9. ASSUME NEW S, NEW n \in Nat, Enough(e, S, n) PROVE Enough(f, S, n)
  <2>1. CASE i \in S
    BY <1>4, <1>6, <1>9, <2>1 DEF Enough
  <2>2. CASE i \notin S
    BY <1>2, <1>4, <1>7, <1>8, <1>9, <2>2 DEF Enough
  <2>3. QED
    BY <2>1, <2>2
<1>10. ASSUME NEW S, NEW n \in Nat, i \notin S, Enough(e, S, n + sz) PROVE Enough(f, S, n)
  BY <1>2, <1>4, <1>7, <1>8, <1>10 DEF Enough
<1>11. Evolves(f, d, I) /\ d.legs \subseteq f.legs
  BY <1>5, SettledEvolves
<1>12. \A l \in d.legs : l \in e.legs \/ (l.id = i /\ l.tp = tp)
  BY <1>3, <1>4, <1>11
<1>13. Evolves(e, f, I)
  <2>1. LiveIds(f) \cap I \subseteq LiveIds(e)
    BY <1>3, <1>4 DEF LiveIds
  <2>2. f.size <= e.size
    BY <1>2, <1>4
  <2>3. QED
    BY <1>5, <1>9, <2>1, <2>2 DEF Evolves
<1>14. ASSUME NEW S, NEW n \in Nat, Enough(f, S, n) PROVE Enough(d, S, n)
  BY <1>5, <1>14, SettledEvolves
<1> HIDE DEF d
<1>15. Evolves(e, d, I)
  BY <1>11, <1>13, EvolvesTransitive
<1>16. SameTargets(e, d, I)
  BY <1>12 DEF SameTargets
<1>17. QED
  BY <1>1, <1>10, <1>12, <1>14, <1>15, <1>16

LEMMA LegsDropped ==
  ASSUME NEW e, Proper(e), NEW ids
  PROVE  LET d == WithoutLegs(e, ids)
         IN  /\ Proper(d) /\ d.size = e.size /\ d.legs = Kept(e, ids)
             /\ LiveIds(d) \subseteq LiveIds(e) /\ LiveIds(d) \cap ids = {}
             /\ \A S : \A n \in Nat : Enough(e, S \cup ids, n) => Enough(d, S, n)
<1> DEFINE d == WithoutLegs(e, ids)
<1>1. d.size = e.size /\ d.legs = Kept(e, ids) /\ d \in [size : Nat, legs : SUBSET Leg]
  BY DEF WithoutLegs, Kept, Proper
<1> HIDE DEF d
<1>2. Proper(d)
  BY <1>1, KeptFacts DEF Proper, Kept
<1>3. LiveIds(d) \subseteq LiveIds(e) /\ LiveIds(d) \cap ids = {}
  BY <1>1 DEF LiveIds, Kept
<1>4. \A S : Kept(d, S) = Kept(e, S \cup ids)
  BY <1>1 DEF Kept
<1>5. \A S : \A n \in Nat : Enough(e, S \cup ids, n) => Enough(d, S, n)
  BY <1>1, <1>4 DEF Enough
<1>6. QED
  BY <1>1, <1>2, <1>3, <1>5 DEF d

(* Amending prices of legs changes neither ids nor lots.                    *)
LEMMA LegsAmended ==
  ASSUME NEW e, Proper(e), NEW I, NEW d, NEW h,
         \A l \in e.legs : h[l] \in Leg /\ h[l].id = l.id /\ h[l].sz = l.sz,
         d = [e EXCEPT !.legs = {h[l] : l \in e.legs}]
  PROVE  Evolves(e, d, I)
<1>1. /\ e.legs \subseteq Leg /\ IsFiniteSet(e.legs) /\ e.size \in Nat
      /\ \A l, m \in e.legs : l.id = m.id => l = m
      /\ e \in [size : Nat, legs : SUBSET Leg]
  BY DEF Proper
<1>2. d.size = e.size /\ d.legs = {h[l] : l \in e.legs}
  BY <1>1
<1>3. \A l, m \in e.legs : h[l] = h[m] => l = m
  BY <1>1
<1>4. ASSUME NEW S
      PROVE  /\ Kept(d, S) = {h[l] : l \in Kept(e, S)}
             /\ TotalOf(Kept(d, S)) = TotalOf(Kept(e, S)) /\ IsFiniteSet(Kept(d, S))
  <2> DEFINE K == Kept(e, S)
             M == {h[l] : l \in K}
             f == [l \in K |-> l.sz]
             g == [m \in M |-> m.sz]
  <2>1. Kept(d, S) = M
    BY <1>2 DEF Kept
  <2>2. K \subseteq e.legs /\ IsFiniteSet(K)
    BY KeptFacts DEF Kept
  <2>3. \A x, y \in K : h[x] = h[y] => x = y
    BY <1>3, <2>2
  <2>4. ASSUME NEW x \in K PROVE f[x] \in Nat /\ g[h[x]] = f[x]
    <3>1. f[x] = x.sz /\ x \in e.legs /\ x.sz \in Nat
      BY <1>1, <2>2, LegFacts
    <3>2. h[x] \in M
      OBVIOUS
    <3>3. g[h[x]] = h[x].sz
      BY <3>2
    <3>4. QED
      BY <3>1, <3>3
  <2>5. TotalOf(M) = SumOver(M, g) /\ TotalOf(K) = SumOver(K, f)
    BY DEF TotalOf
  <2>6. IsFiniteSet(M) /\ SumOver(M, g) = SumOver(K, f)
    <3> HIDE DEF f, g, K
    <3>1. QED
      BY <2>2, <2>3, <2>4, SumRenamed
  <2>7. QED
    BY <2>1, <2>5, <2>6
<1>5. Proper(d)
  <2>1. Kept(d, {}) = d.legs
    BY DEF Kept
  <2>2. IsFiniteSet(d.legs)
    BY <1>4, <2>1
  <2>3. d.legs \subseteq Leg
    BY <1>2
  <2>4. d \in [size : Nat, legs : SUBSET Leg]
    BY <1>1, <2>3, <1>2
  <2>5. ASSUME NEW l \in d.legs, NEW m \in d.legs, l.id = m.id PROVE l = m
    <3>1. PICK x \in e.legs : l = h[x]
      BY <1>2
    <3>2. PICK y \in e.legs : m = h[y]
      BY <1>2
    <3>3. x.id = y.id
      BY <2>5, <3>1, <3>2
    <3>4. QED
      BY <1>1, <3>1, <3>2, <3>3
  <2>6. QED
    BY <2>2, <2>4, <2>5 DEF Proper
<1>6. \A S : \A n \in Nat : Enough(e, S, n) => Enough(d, S, n)
  BY <1>2, <1>4 DEF Enough
<1>7. LiveIds(d) \cap I \subseteq LiveIds(e)
  BY <1>2 DEF LiveIds
<1>8. QED
  BY <1>1, <1>2, <1>5, <1>6, <1>7 DEF Evolves

LEMMA StopsMovedEvolves ==
  ASSUME NEW e, Proper(e), NEW ids, NEW stop \in Nat, NEW I
  PROVE  Evolves(e, StopsMoved(e, ids, stop), I) /\ SameTargets(e, StopsMoved(e, ids, stop), I)
<1> DEFINE h == [l \in e.legs |-> IF l.id \in ids THEN [l EXCEPT !.sl = stop] ELSE l]
           f == [e EXCEPT !.legs = {h[l] : l \in e.legs}]
<1>1. StopsMoved(e, ids, stop) = Settled(f, px)
  BY DEF StopsMoved
<1>2. e.legs \subseteq Leg /\ e \in [size : Nat, legs : SUBSET Leg]
  BY DEF Proper
<1>3. \A l \in e.legs : h[l] \in Leg /\ h[l].id = l.id /\ h[l].sz = l.sz /\ h[l].tp = l.tp
  BY <1>2 DEF Leg
<1>4. f.legs = {h[l] : l \in e.legs}
  BY <1>2
<1>5. f = [e EXCEPT !.legs = {h[l] : l \in e.legs}]
  OBVIOUS
<1> HIDE DEF h, f
<1>6. Evolves(e, f, I)
  BY <1>3, <1>5, LegsAmended
<1>7. Proper(f)
  BY <1>6 DEF Evolves
<1>8. Evolves(f, Settled(f, px), I) /\ Settled(f, px).legs \subseteq f.legs
  BY <1>7, SettledEvolves
<1>9. Evolves(e, Settled(f, px), I)
  BY <1>6, <1>8, EvolvesTransitive
<1>10. SameTargets(e, Settled(f, px), I)
  BY <1>3, <1>4, <1>8 DEF SameTargets
<1>11. QED
  BY <1>1, <1>9, <1>10

LEMMA ReducedEvolves ==
  ASSUME NEW e, Proper(e), NEW lots \in 0..e.size, NEW I
  PROVE  Evolves(e, Reduced(e, lots), I) /\ SameTargets(e, Reduced(e, lots), I)
<1> DEFINE d == [size |-> e.size - lots, legs |-> IF e.size = lots THEN {} ELSE e.legs]
<1>1. /\ e.legs \subseteq Leg /\ IsFiniteSet(e.legs) /\ e.size \in Nat
      /\ \A l, m \in e.legs : l.id = m.id => l = m
  BY DEF Proper
<1>2. d.size \in Nat /\ d.size <= e.size /\ d.legs \subseteq e.legs /\ IsFiniteSet(d.legs)
  BY <1>1, FS_EmptySet
<1>3. d \in [size : Nat, legs : SUBSET Leg] /\ (d.size = 0 \/ d.legs = e.legs)
  BY <1>1, <1>2
<1>4. d = Reduced(e, lots)
  BY DEF Reduced
<1> HIDE DEF d
<1>5. Proper(d)
  BY <1>1, <1>2, <1>3 DEF Proper
<1>6. ASSUME NEW S, NEW n \in Nat, Enough(e, S, n) PROVE Enough(d, S, n)
  <2>1. TotalOf(Kept(d, S)) \in Nat
    BY <1>5, KeptFacts
  <2>2. CASE d.size = 0
    BY <2>1, <2>2 DEF Enough
  <2>3. CASE d.legs = e.legs
    <3>1. Kept(d, S) = Kept(e, S)
      BY <2>3 DEF Kept
    <3>2. QED
      BY <1>1, <1>2, <1>6, <2>1, <3>1 DEF Enough
  <2>4. QED
    BY <1>3, <2>2, <2>3
<1>7. LiveIds(d) \subseteq LiveIds(e) /\ SameTargets(e, d, I)
  BY <1>2 DEF LiveIds, SameTargets
<1>8. QED
  BY <1>2, <1>4, <1>5, <1>6, <1>7 DEF Evolves

LEMMA EvolvesSelf ==
  ASSUME NEW e, Proper(e), NEW I
  PROVE  Evolves(e, e, I) /\ SameTargets(e, e, I)
<1>1. e.size \in Nat
  BY DEF Proper
<1>2. QED
  BY <1>1 DEF Evolves, SameTargets

(* A position that is gone has no legs and needs none. *)
LEMMA GoneEvolves ==
  ASSUME NEW e, Proper(e), NEW I
  PROVE  /\ Evolves(e, [size |-> 0, legs |-> {}], I)
         /\ SameTargets(e, [size |-> 0, legs |-> {}], I)
<1>1. e.size \in Nat /\ e.size \in 0..e.size
  BY DEF Proper
<1>2. Reduced(e, e.size) = [size |-> 0, legs |-> {}]
  BY <1>1 DEF Reduced
<1>3. QED
  BY <1>1, <1>2, ReducedEvolves

LEMMA CoveredMeans ==
  ASSUME Proper(ex)
  PROVE  Covered <=> Enough(ex, {}, 0)
<1>1. Kept(ex, {}) = ex.legs
  BY DEF Kept
<1>2. TotalOf(ex.legs) \in Nat
  BY KeptFacts
<1>3. QED
  BY <1>1, <1>2 DEF Covered, Enough

-----------------------------------------------------------------------------
(* The stages of a cycle: from where on it has a tracker, that the position *)
(* it saw is no smaller than the one there is, when the tracker in memory   *)
(* is the saved one, and when there are legs to be replaced.                *)
Staged == {"split", "confirm", "clear", "reprotect", "push", "ensure", "legs", "swap", "trail"}
StageInv ==
  /\ pc \in Staged => trk.open
  /\ pc \in {"price", "guard"} /\ ~trk.open => ~disk.open
  /\ pc = "idle" => trk = disk
  /\ pc # "swap" => old = {}
  /\ pc \in Staged \cup {"price", "guard"} => ex.size <= seen
  /\ outcome = "watching" => pc \in {"save", "ai", "ai_save", "idle"}
FiniteInv ==
  /\ IsFiniteSet(ex.legs) /\ IsFiniteSet(old)
  /\ disk.open => IsFiniteSet(disk.stale)
  /\ trk.open => IsFiniteSet(trk.stale)
Base == ProtectionTypeOK /\ FiniteInv /\ StageInv

LEMMA TrackerFacts ==
  ASSUME NEW T \in Tracker \cup {NoTracker}
  PROVE  /\ T.open \in BOOLEAN
         /\ T.open => /\ T \in Tracker
                      /\ T.stop \in Nat /\ T.tp1 \in Nat /\ T.tp2 \in Nat /\ T.hwm \in Nat
                      /\ T.leg1 \in LegId \cup {0} /\ T.leg2 \in LegId \cup {0}
                      /\ T.stale \in SUBSET LegId
<1>1. CASE T = NoTracker
  BY <1>1 DEF NoTracker
<1>2. CASE T \in Tracker
  BY <1>2 DEF Tracker
<1>3. QED
  BY <1>1, <1>2

LEMMA ConstantTypes ==
  /\ Top \in Nat /\ Entry \in Nat /\ InitialStop \in Nat /\ Breakeven \in Nat /\ LockIn \in Nat
  /\ FirstTier \in Nat /\ SecondTier \in Nat /\ FirstTp \in Nat /\ SecondTp \in Nat
  /\ MomentumAt \in Nat /\ Pullback \in Nat
  /\ 0 < InitialStop /\ 0 < Breakeven /\ 0 < LockIn /\ FirstTier <= SecondTier
  /\ Entry > 0 /\ Entry <= Top /\ MaxFaults \in Nat /\ Ratio \in Nat
  /\ Targets \subseteq Nat
BY ProtectionAssumption

LEMMA FirstPartType ==
  ASSUME NEW size \in Nat
  PROVE  /\ FirstPart(size) \in Nat
         /\ FirstPart(size) > 0 => size - FirstPart(size) \in Nat /\ size - FirstPart(size) > 0
<1>1. (size * Ratio) \in Nat
  BY ConstantTypes
<1>2. (size * Ratio) \div 100 \in Int
  BY <1>1
<1>3. QED
  BY <1>2 DEF FirstPart

(* A new id is none that anyone knows of. *)
LEMMA BaseFacts ==
  ASSUME Base
  PROVE  /\ Proper(ex) /\ px \in Nat /\ px > 0
         /\ LiveIds(ex) \subseteq Mentioned /\ old \subseteq Mentioned
         /\ disk.open => disk.stale \cup {disk.leg1, disk.leg2} \subseteq Mentioned
         /\ trk.open => trk.stale \cup {trk.leg1, trk.leg2} \subseteq Mentioned
         /\ FreshId \in LegId /\ FreshId \notin Mentioned
         /\ \A i : NextId(i) \in LegId /\ NextId(i) \notin Mentioned \cup {i}
<1>1. Proper(ex) /\ px \in Nat /\ px > 0
  BY ConstantTypes DEF Base, ProtectionTypeOK, FiniteInv, Proper, Price
<1> DEFINE ids(T) == IF T.open THEN {T.leg1, T.leg2} \cup T.stale ELSE {}
<1>2. Mentioned = LiveIds(ex) \cup old \cup ids(disk) \cup ids(trk)
  BY DEF Mentioned
<1>3. ASSUME NEW T, T.open => IsFiniteSet(T.stale) PROVE IsFiniteSet(ids(T))
  <2>1. IsFiniteSet({T.leg1, T.leg2})
    <3>1. ASSUME NEW x, NEW y PROVE IsFiniteSet({x, y})
      <4>1. IsFiniteSet({x} \cup {y})
        BY FS_Singleton, FS_Union
      <4>2. {x, y} = {x} \cup {y}
        OBVIOUS
      <4>3. QED
        BY <4>1, <4>2
    <3>2. QED
      BY <3>1
  <2>2. CASE T.open
    BY <1>3, <2>1, <2>2, FS_Union
  <2>3. CASE ~T.open
    BY <2>3, FS_EmptySet
  <2>4. QED
    BY <2>2, <2>3
<1>4. IsFiniteSet(ids(disk)) /\ IsFiniteSet(ids(trk))
  BY <1>3 DEF Base, FiniteInv
<1>5. IsFiniteSet(Mentioned)
  <2>1. IsFiniteSet(LiveIds(ex) \cup old)
    BY <1>1, LiveIdsFinite, FS_Union DEF Base, FiniteInv
  <2>2. IsFiniteSet((LiveIds(ex) \cup old) \cup ids(disk))
    BY <1>4, <2>1, FS_Union
  <2>3. IsFiniteSet(((LiveIds(ex) \cup old) \cup ids(disk)) \cup ids(trk))
    BY <1>4, <2>2, FS_Union
  <2>4. QED
    BY <1>2, <2>3
<1>6. FreshId \in LegId /\ FreshId \notin Mentioned
  BY <1>5, UnusedIsNew DEF FreshId
<1>7. ASSUME NEW i PROVE NextId(i) \in LegId /\ NextId(i) \notin Mentioned \cup {i}
  BY <1>5, FS_AddElement, UnusedIsNew DEF NextId
<1>8. /\ LiveIds(ex) \subseteq Mentioned /\ old \subseteq Mentioned
      /\ disk.open => disk.stale \cup {disk.leg1, disk.leg2} \subseteq Mentioned
      /\ trk.open => trk.stale \cup {trk.leg1, trk.leg2} \subseteq Mentioned
  BY <1>2
<1>9. QED
  BY <1>1, <1>6, <1>7, <1>8

-----------------------------------------------------------------------------
(* What the steps do to the exchange's record.                             *)

(* A verified repair covers all that is left of the position. *)
LEMMA RepairEvolves ==
  ASSUME Base, NEW size \in Nat, NEW tp \in Nat, NEW stop \in Nat, NEW ok \in BOOLEAN,
         Repair(size, tp, stop, ok)
  PROVE  /\ Evolves(ex, ex', Mentioned) /\ SameTargets(ex, ex', Mentioned)
         /\ ok /\ ex.size <= size => Enough(ex', {}, 0)
<1> DEFINE missing == size - TotalOf(ex.legs)
           placed == WithLeg(ex, FreshId, missing, tp, stop)
<1>1. Proper(ex) /\ TotalOf(ex.legs) \in Nat /\ ex.size \in Nat
  BY BaseFacts, KeptFacts
<1>2. missing > 0 => missing \in Nat
  BY <1>1
<1>3. ASSUME missing > 0
      PROVE  Evolves(ex, placed, Mentioned) /\ SameTargets(ex, placed, Mentioned)
  BY <1>1, <1>2, <1>3, BaseFacts, LegAdded
<1>4. ex' \in {ex, placed} /\ (ex' = ex \/ missing > 0)
  BY DEF Repair
<1>5. Evolves(ex, ex', Mentioned) /\ SameTargets(ex, ex', Mentioned)
  <2>1. CASE ex' = ex
    <3>1. Evolves(ex, ex, Mentioned) /\ SameTargets(ex, ex, Mentioned)
      BY <1>1, EvolvesSelf
    <3>2. QED
      BY <2>1, <3>1
  <2>2. CASE ex' = placed /\ missing > 0
    BY <1>3, <2>2
  <2>3. QED
    BY <1>4, <2>1, <2>2
<1>6. ASSUME ok, ex.size <= size PROVE Enough(ex', {}, 0)
  <2>1. TotalOf(ex'.legs) >= size
    BY <1>1, <1>6 DEF Repair
  <2>2. ex'.size <= ex.size /\ ex'.size \in Nat /\ TotalOf(ex'.legs) \in Nat
    BY <1>5, KeptFacts DEF Evolves, Proper
  <2>3. Kept(ex', {}) = ex'.legs
    BY DEF Kept
  <2>4. TotalOf(Kept(ex', {})) + 0 >= ex'.size
    BY <1>1, <1>6, <2>1, <2>2, <2>3
  <2>5. QED
    BY <2>4 DEF Enough
<1>7. QED
  BY <1>5, <1>6

LEMMA SyncStopsEvolves ==
  ASSUME Base, NEW stop \in Nat, SyncStops(stop)
  PROVE  Evolves(ex, ex', Mentioned) /\ SameTargets(ex, ex', Mentioned)
<1>1. Proper(ex)
  BY BaseFacts
<1>2. ex' = ex \/ \E ids : ex' = StopsMoved(ex, ids, stop)
  BY DEF SyncStops
<1>3. QED
  BY <1>1, <1>2, EvolvesSelf, StopsMovedEvolves

LEMMA CloseEvolves ==
  ASSUME Base, NEW done \in BOOLEAN, CloseOutcome(done)
  PROVE  Evolves(ex, ex', Mentioned) /\ SameTargets(ex, ex', Mentioned)
<1>1. Proper(ex)
  BY BaseFacts
<1>2. ex' = ex \/ ex' = [size |-> 0, legs |-> {}]
  BY DEF CloseOutcome
<1>3. QED
  BY <1>1, <1>2, EvolvesSelf, GoneEvolves

(* The two new legs cover the position without the old ones. *)
LEMMA PlaceLegsEvolves ==
  ASSUME Base, PlaceLegs
  PROVE  /\ Evolves(ex, ex', Mentioned) /\ SameTargets(ex, ex', Mentioned)
         /\ pc' # "trail" =>
              /\ pc' = "swap" /\ old' = LiveIds(ex) /\ Enough(ex', LiveIds(ex), 0)
              /\ trk' \in Tracker /\ trk'.stale = trk.stale /\ trk'.stop = trk.stop
              /\ trk'.tp1 = trk.tp1 /\ trk'.tp2 = trk.tp2
              /\ trk'.leg1 \notin Mentioned \cup {0} /\ trk'.leg2 \notin Mentioned \cup {0}
              /\ trk'.leg1 # trk'.leg2
              /\ \A l \in ex'.legs : /\ l.id = trk'.leg1 => l.tp = trk.tp1
                                     /\ l.id = trk'.leg2 => l.tp = trk.tp2
<1> DEFINE i == FreshId
           j == NextId(i)
           part == FirstPart(seen)
           rest == seen - FirstPart(seen)
           one == WithLeg(ex, i, part, trk.tp1, trk.stop)
           both == WithLeg(one, j, rest, trk.tp2, trk.stop)
<1>1. pc = "legs" /\ trk.open /\ seen \in Nat /\ ex.size <= seen
  BY DEF PlaceLegs, Base, StageInv, Staged, ProtectionTypeOK
<1>2. trk \in Tracker /\ trk.tp1 \in Nat /\ trk.tp2 \in Nat /\ trk.stop \in Nat
  BY <1>1, TrackerFacts DEF Base, ProtectionTypeOK
<1>3. part \in Nat /\ part > 0 /\ rest \in Nat /\ rest > 0 /\ rest + part = seen
  BY <1>1, FirstPartType DEF PlaceLegs
<1>4. /\ Proper(ex) /\ LiveIds(ex) \subseteq Mentioned
      /\ i \in LegId /\ i \notin Mentioned /\ j \in LegId /\ j \notin Mentioned /\ j # i
  BY BaseFacts
<1> HIDE DEF i, j, part, rest
<1>5. /\ Evolves(ex, one, Mentioned \cup {j}) /\ SameTargets(ex, one, Mentioned \cup {j})
      /\ \A l \in one.legs : l \in ex.legs \/ (l.id = i /\ l.tp = trk.tp1)
      /\ \A S : \A n \in Nat : i \notin S /\ Enough(ex, S, n + part) => Enough(one, S, n)
  <2> DEFINE I == Mentioned \cup {j}
  <2>1. i \notin LiveIds(ex) /\ i \notin I
    BY <1>4
  <2> HIDE DEF I, one
  <2>2. /\ Evolves(ex, one, I) /\ SameTargets(ex, one, I)
        /\ \A l \in one.legs : l \in ex.legs \/ (l.id = i /\ l.tp = trk.tp1)
        /\ \A S : \A n \in Nat : i \notin S /\ Enough(ex, S, n + part) => Enough(one, S, n)
    BY <1>2, <1>3, <1>4, <2>1, LegAdded DEF one
  <2>3. QED
    BY <2>2 DEF I
<1>6. Evolves(ex, one, Mentioned) /\ SameTargets(ex, one, Mentioned)
  BY <1>5 DEF Evolves, SameTargets
<1>7. Proper(one) /\ j \notin LiveIds(one)
  BY <1>4, <1>5 DEF Evolves
<1> HIDE DEF one
<1>8. /\ Evolves(one, both, Mentioned) /\ SameTargets(one, both, Mentioned)
      /\ \A l \in both.legs : l \in one.legs \/ (l.id = j /\ l.tp = trk.tp2)
      /\ \A S : \A n \in Nat : j \notin S /\ Enough(one, S, n + rest) => Enough(both, S, n)
  BY <1>2, <1>3, <1>4, <1>7, LegAdded
<1> HIDE DEF both
<1>9. Evolves(ex, both, Mentioned) /\ SameTargets(ex, both, Mentioned)
  <2>1. Evolves(ex, both, Mentioned)
    BY <1>4, <1>6, <1>8, EvolvesTransitive
  <2>2. SameTargets(ex, both, Mentioned)
    BY <1>6, <1>8 DEF SameTargets
  <2>3. QED
    BY <2>1, <2>2
<1>10. ex' \in {ex, one, both}
  BY DEF PlaceLegs, i, j, part, rest, one, both
<1>11. Evolves(ex, ex', Mentioned) /\ SameTargets(ex, ex', Mentioned)
  <2>1. Evolves(ex, ex, Mentioned) /\ SameTargets(ex, ex, Mentioned)
    BY <1>4, EvolvesSelf
  <2>2. CASE ex' = ex
    BY <2>1, <2>2
  <2>3. CASE ex' = one
    BY <1>6, <2>3
  <2>4. CASE ex' = both
    BY <1>9, <2>4
  <2>5. QED
    BY <1>10, <2>2, <2>3, <2>4
<1>12. ASSUME pc' # "trail"
       PROVE  /\ pc' = "swap" /\ ex' = both /\ old' = LiveIds(ex)
              /\ trk' = [trk EXCEPT !.leg1 = i, !.leg2 = j]
  BY <1>12 DEF PlaceLegs, Goto, i, j, part, rest, one, both
<1>13. Enough(both, LiveIds(ex), 0)
  <2>1. Enough(ex, LiveIds(ex), rest + part)
    <3>1. Kept(ex, LiveIds(ex)) = {}
      BY DEF Kept, LiveIds
    <3>2. TotalOf(Kept(ex, LiveIds(ex))) = 0
      BY <3>1, TotalEmpty
    <3>3. ex.size \in Nat
      BY <1>4 DEF Proper
    <3>4. QED
      BY <1>1, <1>3, <3>2, <3>3 DEF Enough
  <2>2. Enough(one, LiveIds(ex), rest)
    BY <1>3, <1>4, <1>5, <2>1
  <2>3. 0 + rest = rest
    BY <1>3
  <2>4. Enough(one, LiveIds(ex), 0 + rest)
    BY <2>2, <2>3
  <2>5. QED
    BY <1>4, <1>8, <2>4
<1>14. \A l \in both.legs : /\ l.id = i => l.tp = trk.tp1
                            /\ l.id = j => l.tp = trk.tp2
  <2>1. \A l \in ex.legs : l.id # i /\ l.id # j
    BY <1>4 DEF LiveIds
  <2>2. QED
    BY <1>4, <1>5, <1>8, <2>1
<1>15. ASSUME pc' # "trail"
       PROVE  /\ trk' \in Tracker /\ trk'.stale = trk.stale /\ trk'.stop = trk.stop
              /\ trk'.tp1 = trk.tp1 /\ trk'.tp2 = trk.tp2 /\ trk'.leg1 = i /\ trk'.leg2 = j
  BY <1>2, <1>4, <1>12, <1>15 DEF Tracker
<1>16. i \notin Mentioned \cup {0} /\ j \notin Mentioned \cup {0} /\ i # j
  BY <1>4 DEF LegId
<1>17. QED
  BY <1>11, <1>12, <1>13, <1>14, <1>15, <1>16

(* The AI's targets only rise, and a pair of registered legs in order stays *)
(* in order: the far target is moved first, and alone if only it can be.    *)
InOrder(e, T) ==
  /\ \A l \in e.legs : l.id = T.leg2 => T.tp2 <= l.tp
  /\ \A l, m \in e.legs : l.id = T.leg1 /\ m.id = T.leg2 => l.tp < m.tp
Raised(e, d, I) ==
  \A l \in d.legs : \E k \in e.legs : /\ k.id = l.id /\ k.tp <= l.tp
                                      /\ l.id \notin I => k.tp = l.tp

LEMMA AiTargetEvolves ==
  ASSUME Base, AiTarget
  PROVE  /\ Evolves(ex, ex', Mentioned) /\ Raised(ex, ex', {trk.leg1, trk.leg2})
         /\ trk' \in Tracker /\ trk'.stale = trk.stale /\ trk'.stop = trk.stop
         /\ trk'.leg1 = trk.leg1 /\ trk'.leg2 = trk.leg2
         /\ InOrder(ex, trk) /\ trk.leg1 # trk.leg2 => InOrder(ex', trk')
         /\ Fine \/ Fault
<1>1. trk.open /\ Proper(ex) /\ px \in Nat
  BY BaseFacts DEF AiTarget
<1>2. /\ trk \in Tracker /\ trk.tp1 \in Nat /\ trk.tp2 \in Nat /\ trk.stop \in Nat
      /\ ex.legs \subseteq Leg /\ \A l, m \in ex.legs : l.id = m.id => l = m
      /\ ex \in [size : Nat, legs : SUBSET Leg]
  BY <1>1, TrackerFacts DEF Base, ProtectionTypeOK, Proper
<1>3. PICK new1 \in Targets \cup {0}, new2 \in Targets \cup {0} :
       LET to1 == IF trk.phase = 1 THEN 0 ELSE new1
           sure2 == IF new2 > 0 THEN new2 ELSE trk.tp2
           wanted == (IF new2 > 0 THEN {trk.leg2} ELSE {}) \cup (IF to1 > 0 THEN {trk.leg1} ELSE {})
           target == [i \in wanted |-> IF i = trk.leg2 /\ new2 > 0 THEN new2 ELSE to1]
           can == {i \in wanted : \E l \in ex.legs : l.id = i /\ l.tp <= target[i]}
           first == IF new2 = 0 THEN can ELSE can \cap {trk.leg2}
           moved == IF new2 > 0 /\ first = {} THEN {} ELSE can
           Amended(ids) == Settled([ex EXCEPT !.legs =
              {IF l.id \in ids /\ l.tp # target[l.id]
               THEN [l EXCEPT !.tp = target[l.id], !.sl = trk.stop] ELSE l : l \in @}], px)
       IN /\ wanted # {}
          /\ new2 > 0 => new2 > px
          /\ to1 > 0 => TpGeometryOK(to1, sure2, px)
          /\ \/ /\ Fine /\ ex' = Amended(moved)
                /\ trk' = IF moved # wanted THEN trk
                          ELSE [trk EXCEPT !.tp1 = IF to1 > 0 THEN to1 ELSE @, !.tp2 = sure2]
             \/ /\ Fault /\ UNCHANGED trk
                /\ ex' \in {ex, Amended(first), Amended(moved)}
  BY DEF AiTarget
<1> DEFINE to1 == IF trk.phase = 1 THEN 0 ELSE new1
           sure2 == IF new2 > 0 THEN new2 ELSE trk.tp2
           wanted == (IF new2 > 0 THEN {trk.leg2} ELSE {}) \cup (IF to1 > 0 THEN {trk.leg1} ELSE {})
           target == [i \in wanted |-> IF i = trk.leg2 /\ new2 > 0 THEN new2 ELSE to1]
           can == {i \in wanted : \E l \in ex.legs : l.id = i /\ l.tp <= target[i]}
           first == IF new2 = 0 THEN can ELSE can \cap {trk.leg2}
           moved == IF new2 > 0 /\ first = {} THEN {} ELSE can
           h(ids) == [l \in ex.legs |-> IF l.id \in ids /\ l.tp # target[l.id]
                                        THEN [l EXCEPT !.tp = target[l.id], !.sl = trk.stop]
                                        ELSE l]
           f(ids) == [ex EXCEPT !.legs = {IF l.id \in ids /\ l.tp # target[l.id]
                                          THEN [l EXCEPT !.tp = target[l.id], !.sl = trk.stop]
                                          ELSE l : l \in @}]
           Amended(ids) == Settled(f(ids), px)
           told == [trk EXCEPT !.tp1 = IF to1 > 0 THEN to1 ELSE @, !.tp2 = sure2]
<1>4. new1 \in Nat /\ new2 \in Nat /\ to1 \in Nat /\ sure2 \in Nat
  BY <1>2, ConstantTypes
<1>5. wanted # {} /\ (to1 > 0 => to1 < sure2) /\ (Fine \/ Fault)
  BY <1>3 DEF TpGeometryOK
<1>6. \/ ex' = Amended(moved) /\ trk' = IF moved # wanted THEN trk ELSE told
      \/ UNCHANGED trk /\ ex' \in {ex, Amended(first), Amended(moved)}
  BY <1>3
<1>7. /\ \A i \in wanted : target[i] \in Nat /\ target[i] = IF i = trk.leg2 /\ new2 > 0 THEN new2 ELSE to1
      /\ wanted \subseteq {trk.leg1, trk.leg2}
  BY <1>4
<1>8. ASSUME NEW ids, ids \subseteq can
      PROVE  \A l \in ex.legs :
               LET m == h(ids)[l]
               IN  /\ m \in Leg /\ m.id = l.id /\ m.sz = l.sz /\ l.tp <= m.tp
                   /\ m.tp = IF l.id \in ids THEN target[l.id] ELSE l.tp
  <2>1. SUFFICES ASSUME NEW l \in ex.legs
                 PROVE  LET m == h(ids)[l]
                        IN  /\ m \in Leg /\ m.id = l.id /\ m.sz = l.sz /\ l.tp <= m.tp
                            /\ m.tp = IF l.id \in ids THEN target[l.id] ELSE l.tp
    OBVIOUS
  <2>2. l \in Leg /\ l.tp \in Nat
    BY <1>2, LegFacts
  <2>3. l.id \in ids => l.id \in wanted /\ l.tp <= target[l.id] /\ target[l.id] \in Nat
    <3>1. SUFFICES ASSUME l.id \in ids PROVE l.id \in wanted /\ l.tp <= target[l.id] /\ target[l.id] \in Nat
      OBVIOUS
    <3>2. l.id \in can
      BY <1>8, <3>1
    <3>3. PICK k \in ex.legs : k.id = l.id /\ k.tp <= target[l.id]
      BY <3>2
    <3>4. k = l
      BY <1>2, <3>3
    <3>5. QED
      BY <1>7, <3>2, <3>3, <3>4
  <2> HIDE DEF target, can, wanted
  <2>4. CASE l.id \in ids /\ l.tp # target[l.id]
    <3>1. h(ids)[l] = [l EXCEPT !.tp = target[l.id], !.sl = trk.stop]
      BY <2>4
    <3>2. target[l.id] \in Nat /\ trk.stop \in Nat
      BY <1>2, <2>3, <2>4
    <3>3. [l EXCEPT !.tp = target[l.id], !.sl = trk.stop] \in Leg
      BY <2>2, <3>2 DEF Leg
    <3>4. h(ids)[l].id = l.id /\ h(ids)[l].sz = l.sz /\ h(ids)[l].tp = target[l.id]
      BY <2>2, <3>1 DEF Leg
    <3>5. QED
      BY <2>3, <2>4, <3>1, <3>3, <3>4
  <2>5. CASE ~(l.id \in ids /\ l.tp # target[l.id])
    <3>1. h(ids)[l] = l
      BY <2>5
    <3> HIDE DEF h
    <3>2. l.tp <= l.tp
      BY <2>2
    <3>3. l.tp = IF l.id \in ids THEN target[l.id] ELSE l.tp
      BY <2>5
    <3>4. QED
      BY <2>2, <3>1, <3>2, <3>3
  <2>6. QED
    BY <2>4, <2>5
<1>9. ASSUME NEW ids
      PROVE  /\ f(ids).legs = {h(ids)[l] : l \in ex.legs}
             /\ f(ids) = [ex EXCEPT !.legs = {h(ids)[l] : l \in ex.legs}]
  <2> DEFINE g(l) == IF l.id \in ids /\ l.tp # target[l.id]
                     THEN [l EXCEPT !.tp = target[l.id], !.sl = trk.stop] ELSE l
  <2>1. f(ids) = [ex EXCEPT !.legs = {g(l) : l \in @}] /\ \A l \in ex.legs : h(ids)[l] = g(l)
    OBVIOUS
  <2> HIDE DEF f, h, g
  <2>2. {g(l) : l \in ex.legs} = {h(ids)[l] : l \in ex.legs}
    BY <2>1
  <2>3. QED
    BY <1>2, <2>1, <2>2
<1> HIDE DEF to1, sure2, wanted, target, can, h, f, told
<1>10. ASSUME NEW ids, ids \subseteq can
       PROVE  Evolves(ex, Amended(ids), Mentioned) /\ Amended(ids).legs \subseteq f(ids).legs
  <2>1. Evolves(ex, f(ids), Mentioned)
    <3>1. \A l \in ex.legs : h(ids)[l] \in Leg /\ h(ids)[l].id = l.id /\ h(ids)[l].sz = l.sz
      BY <1>8, <1>10
    <3> DEFINE d == f(ids)
               g == h(ids)
    <3>2. d = [ex EXCEPT !.legs = {g[l] : l \in ex.legs}]
      BY <1>9
    <3>3. \A l \in ex.legs : g[l] \in Leg /\ g[l].id = l.id /\ g[l].sz = l.sz
      BY <3>1
    <3> HIDE DEF d, g
    <3>4. Evolves(ex, d, Mentioned)
      BY <1>1, <3>2, <3>3, LegsAmended
    <3>5. QED
      BY <3>4 DEF d
  <2>2. Proper(f(ids))
    BY <2>1 DEF Evolves
  <2>3. Evolves(f(ids), Amended(ids), Mentioned) /\ Amended(ids).legs \subseteq f(ids).legs
    BY <2>2, SettledEvolves
  <2>4. QED
    BY <1>1, <2>1, <2>3, EvolvesTransitive
<1>12. ASSUME NEW ids, ids \subseteq can
       PROVE  \A l \in Amended(ids).legs : \E k \in ex.legs :
                /\ k.id = l.id /\ k.tp <= l.tp
                /\ l.tp = IF l.id \in ids THEN target[l.id] ELSE k.tp
  BY <1>8, <1>9, <1>10, <1>12
<1>13. can \subseteq wanted /\ wanted \subseteq {trk.leg1, trk.leg2}
  BY <1>7 DEF can
<1>14. first \subseteq can /\ moved \subseteq can
  OBVIOUS
<1>15. ex' = ex \/ \E ids : ids \subseteq can /\ ex' = Amended(ids)
  BY <1>6, <1>14
<1> HIDE DEF Amended, first, moved
<1>16. Evolves(ex, ex', Mentioned)
  BY <1>1, <1>10, <1>15, EvolvesSelf
<1>17. Raised(ex, ex', {trk.leg1, trk.leg2})
  <2>1. CASE ex' = ex
    BY <1>2, <2>1, LegFacts DEF Raised
  <2>2. ASSUME NEW ids, ids \subseteq can, ex' = Amended(ids) PROVE Raised(ex, ex', {trk.leg1, trk.leg2})
    BY <1>12, <1>13, <2>2 DEF Raised
  <2>3. QED
    BY <1>15, <2>1, <2>2
<1>18. /\ trk' \in Tracker /\ trk'.stale = trk.stale /\ trk'.stop = trk.stop
       /\ trk'.leg1 = trk.leg1 /\ trk'.leg2 = trk.leg2
       /\ trk'.tp2 = trk.tp2 \/ (trk' = told /\ trk'.tp2 = sure2 /\ moved = wanted)
  <2>1. /\ told \in Tracker /\ told.stale = trk.stale /\ told.stop = trk.stop
        /\ told.leg1 = trk.leg1 /\ told.leg2 = trk.leg2 /\ told.tp2 = sure2
    BY <1>2, <1>4 DEF told, Tracker
  <2>2. QED
    BY <1>2, <1>6, <2>1
<1>19. ASSUME InOrder(ex, trk), trk.leg1 # trk.leg2
       PROVE  InOrder(ex', trk')
  <2>0. \A l \in ex.legs : l.tp \in Nat
    BY <1>2, LegFacts
  <2>1. CASE ex' = ex /\ trk'.tp2 = trk.tp2
    BY <1>18, <1>19, <2>1 DEF InOrder
  <2>2. ASSUME NEW ids, ids \subseteq can, ex' = Amended(ids),
               new2 > 0 => (ids = {} /\ trk'.tp2 = trk.tp2) \/ trk.leg2 \in ids
        PROVE  InOrder(ex', trk')
    <3>1. \A l \in ex'.legs : \E k \in ex.legs :
            /\ k.id = l.id /\ k.tp <= l.tp /\ l.tp = IF l.id \in ids THEN target[l.id] ELSE k.tp
      BY <1>12, <2>2
    <3>2. ASSUME NEW l \in ex'.legs, NEW m \in ex'.legs, l.id = trk.leg1, m.id = trk.leg2
          PROVE  l.tp < m.tp
      <4>1. PICK k \in ex.legs : /\ k.id = l.id /\ k.tp <= l.tp
                                 /\ l.tp = IF l.id \in ids THEN target[l.id] ELSE k.tp
        BY <3>1
      <4>2. PICK n \in ex.legs : /\ n.id = m.id /\ n.tp <= m.tp
                                 /\ m.tp = IF m.id \in ids THEN target[m.id] ELSE n.tp
        BY <3>1
      <4>3. k.tp < n.tp /\ trk.tp2 <= n.tp /\ k.tp \in Nat /\ n.tp \in Nat
        BY <1>19, <2>0, <3>2, <4>1, <4>2 DEF InOrder
      <4>4. m.tp \in Nat
        BY <1>7, <1>13, <2>2, <4>2, <4>3
      <4>5. trk.leg1 \in ids => to1 > 0 /\ target[trk.leg1] = to1
        <5>1. trk.leg1 \in ids => trk.leg1 \in wanted
          BY <1>13, <2>2
        <5>2. trk.leg1 \in wanted => to1 > 0
          BY <1>19 DEF wanted
        <5>3. QED
          BY <1>7, <1>19, <5>1, <5>2
      <4>6. CASE trk.leg1 \notin ids
        BY <3>2, <4>1, <4>2, <4>3, <4>4, <4>6
      <4>7. CASE trk.leg1 \in ids
        <5>1. l.tp = to1 /\ to1 < sure2
          BY <1>5, <3>2, <4>1, <4>5, <4>7
        <5>2. CASE new2 > 0
          <6>1. trk.leg2 \in ids /\ trk.leg2 \in wanted
            BY <1>13, <2>2, <4>7, <5>2
          <6>2. m.tp = new2
            BY <1>7, <3>2, <4>2, <5>2, <6>1
          <6>3. QED
            BY <5>1, <5>2, <6>2 DEF sure2
        <5>3. CASE ~(new2 > 0)
          BY <1>2, <1>4, <4>2, <4>3, <4>4, <5>1, <5>3 DEF sure2
        <5>4. QED
          BY <5>2, <5>3
      <4>8. QED
        BY <4>6, <4>7
    <3>3. ASSUME NEW m \in ex'.legs, m.id = trk.leg2 PROVE trk'.tp2 <= m.tp
      <4>1. PICK n \in ex.legs : /\ n.id = m.id /\ n.tp <= m.tp
                                 /\ m.tp = IF m.id \in ids THEN target[m.id] ELSE n.tp
        BY <3>1
      <4>2. trk.tp2 <= n.tp /\ n.tp \in Nat
        BY <1>19, <2>0, <3>3, <4>1 DEF InOrder
      <4>3. m.tp \in Nat
        BY <1>7, <1>13, <2>2, <4>1, <4>2
      <4>4. CASE trk'.tp2 = trk.tp2
        BY <1>2, <4>1, <4>2, <4>3, <4>4
      <4>5. CASE trk'.tp2 = sure2 /\ trk'.tp2 # trk.tp2
        <5>1. new2 > 0 /\ trk.leg2 \in ids /\ sure2 = new2
          BY <2>2, <4>5 DEF sure2
        <5>2. m.tp = new2
          BY <1>7, <1>13, <2>2, <3>3, <4>1, <5>1
        <5>3. QED
          BY <1>4, <4>5, <5>1, <5>2
      <4>6. QED
        BY <1>18, <4>4, <4>5
    <3>4. QED
      BY <1>18, <3>2, <3>3 DEF InOrder
  <2>3. CASE ex' = Amended(moved)
    <3>1. new2 > 0 => (moved = {} /\ trk'.tp2 = trk.tp2) \/ trk.leg2 \in moved
      <4>1. SUFFICES ASSUME new2 > 0, trk.leg2 \notin moved PROVE moved = {} /\ trk'.tp2 = trk.tp2
        OBVIOUS
      <4>2. moved = {}
        BY <1>4, <4>1 DEF moved, first
      <4>3. QED
        BY <1>5, <1>18, <4>2
    <3>2. QED
      BY <1>14, <2>2, <2>3, <3>1
  <2>4. CASE ex' = Amended(first) /\ UNCHANGED trk
    <3>1. new2 > 0 => (first = {} /\ trk'.tp2 = trk.tp2) \/ trk.leg2 \in first
      BY <1>4, <2>4 DEF first
    <3>2. QED
      BY <1>14, <2>2, <2>4, <3>1
  <2>5. QED
    BY <1>6, <2>1, <2>3, <2>4
<1>20. QED
  BY <1>5, <1>16, <1>17, <1>18, <1>19

(* Steps that leave the exchange alone. *)
Quiet ==
  \/ ReadPosition \/ ReadPrice \/ NoScaleOut \/ ResumeSale \/ ConfirmSale \/ HardStop
  \/ KeepLegs \/ TimeStop \/ SaveTracker \/ NoInstruction \/ Crash

LEMMA QuietFacts == ASSUME Quiet PROVE ex' = ex
<1>1. CASE ReadPosition
  BY <1>1 DEF ReadPosition
<1>2. CASE ReadPrice
  BY <1>2 DEF ReadPrice
<1>3. CASE NoScaleOut
  BY <1>3 DEF NoScaleOut
<1>4. CASE ResumeSale
  BY <1>4 DEF ResumeSale
<1>5. CASE ConfirmSale
  BY <1>5 DEF ConfirmSale
<1>6. CASE HardStop
  BY <1>6 DEF HardStop
<1>7. CASE KeepLegs
  BY <1>7 DEF KeepLegs
<1>8. CASE TimeStop
  BY <1>8 DEF TimeStop
<1>9. CASE SaveTracker
  BY <1>9 DEF SaveTracker
<1>10. CASE NoInstruction
  BY <1>10 DEF NoInstruction
<1>11. CASE Crash
  BY <1>11 DEF Crash
<1>12. QED
  BY <1>1, <1>2, <1>3, <1>4, <1>5, <1>6, <1>7, <1>8, <1>9, <1>10, <1>11 DEF Quiet

(* Cancelling takes away the legs of one set, or none. *)
LEMMA CancelFacts ==
  ASSUME Base, NEW ids, CancelWorks(ids) \/ CancelFails(ids)
  PROVE  /\ Proper(ex') /\ ex'.size = ex.size /\ ex'.legs \subseteq ex.legs
         /\ ex' = ex \/ (/\ LiveIds(ex') \cap ids = {}
                         /\ \A S : \A n \in Nat : Enough(ex, S \cup ids, n) => Enough(ex', S, n))
         /\ CancelWorks(ids) => LiveIds(ex') \cap ids = {}
<1>1. Proper(ex)
  BY BaseFacts
<1> DEFINE d == WithoutLegs(ex, ids)
<1>2. /\ Proper(d) /\ d.size = ex.size /\ d.legs = Kept(ex, ids)
      /\ LiveIds(d) \subseteq LiveIds(ex) /\ LiveIds(d) \cap ids = {}
      /\ \A S : \A n \in Nat : Enough(ex, S \cup ids, n) => Enough(d, S, n)
  BY <1>1, LegsDropped
<1>3. d.legs \subseteq ex.legs
  BY <1>2 DEF Kept
<1>4. (ex' = ex \/ ex' = d) /\ (CancelWorks(ids) => ex' = d)
  BY DEF CancelWorks, CancelFails
<1> HIDE DEF d
<1>5. QED
  BY <1>1, <1>2, <1>3, <1>4

LEMMA SellEvolves ==
  ASSUME Base, SellFirstPart
  PROVE  Evolves(ex, ex', Mentioned) /\ SameTargets(ex, ex', Mentioned)
<1>1. Proper(ex) /\ ex.size \in Nat
  BY BaseFacts DEF Proper
<1>2. seen \in Nat /\ FirstPart(seen) \in Nat
  BY FirstPartType DEF Base, ProtectionTypeOK
<1>3. PICK fill \in 0..Least(FirstPart(seen), ex.size) : ex' = Reduced(ex, fill)
  BY DEF SellFirstPart
<1>4. fill \in 0..ex.size
  BY <1>1, <1>2, <1>3 DEF Least
<1>5. QED
  BY <1>1, <1>3, <1>4, ReducedEvolves

LEMMA MarketEvolves ==
  ASSUME Base, Market
  PROVE  Evolves(ex, ex', Mentioned) /\ SameTargets(ex, ex', Mentioned)
<1>1. PICK p \in Price \ {px} : ex' = Settled(ex, p)
  BY DEF Market
<1>2. Proper(ex)
  BY BaseFacts
<1>3. Evolves(ex, ex', Mentioned) /\ ex'.legs \subseteq ex.legs
  BY <1>1, <1>2, SettledEvolves
<1>4. QED
  BY <1>3 DEF SameTargets

LEMMA AiStopEvolves ==
  ASSUME Base, AiStop
  PROVE  Evolves(ex, ex', Mentioned) /\ SameTargets(ex, ex', Mentioned)
<1>1. PICK stop \in Price : \E ids : ex' = StopsMoved(ex, ids, stop)
  BY DEF AiStop
<1>2. stop \in Nat /\ Proper(ex)
  BY BaseFacts, ConstantTypes DEF Price
<1>3. QED
  BY <1>1, <1>2, StopsMovedEvolves

(* The stage's own legs, stops and closes. *)
Guards ==
  \/ Reprotect \/ FinalizeLegFill \/ PushStops \/ EnsureProtection \/ Trail
  \/ ClosePosition \/ AiClose

LEMMA TrackerInHand ==
  ASSUME Base, pc \in Staged
  PROVE  /\ trk \in Tracker /\ trk.open /\ IsFiniteSet(trk.stale) /\ ex.size <= seen
         /\ trk.stop \in Nat /\ trk.tp1 \in Nat /\ trk.tp2 \in Nat /\ trk.hwm \in Nat
         /\ Most(Breakeven, trk.stop) \in Nat /\ Ratcheted(trk.stop, trk.hwm) \in Nat
<1>1. trk.open /\ ex.size <= seen /\ IsFiniteSet(trk.stale)
  BY DEF Base, StageInv, FiniteInv
<1>2. /\ trk \in Tracker /\ trk.stop \in Nat /\ trk.tp1 \in Nat /\ trk.tp2 \in Nat
      /\ trk.hwm \in Nat
  BY <1>1, TrackerFacts DEF Base, ProtectionTypeOK
<1>3. QED
  BY <1>1, <1>2, ConstantTypes DEF Most, Ratcheted

LEMMA GuardsEvolve ==
  ASSUME Base, Guards
  PROVE  /\ Evolves(ex, ex', Mentioned) /\ SameTargets(ex, ex', Mentioned)
         /\ EnsureProtection /\ pc' # "close" => Enough(ex', {}, 0)
<1>1. seen \in Nat
  BY DEF Base, ProtectionTypeOK
<1>2. CASE Reprotect
  <2>1. pc \in Staged /\ pc = "reprotect"
    BY <1>2 DEF Reprotect, Staged
  <2>2. PICK ok \in BOOLEAN : Repair(seen, trk.tp2, Most(Breakeven, trk.stop), ok)
    BY <1>2 DEF Reprotect
  <2>3. ~EnsureProtection
    BY <2>1 DEF EnsureProtection
  <2>4. QED
    BY <1>1, <2>1, <2>2, <2>3, TrackerInHand, RepairEvolves
<1>3. CASE FinalizeLegFill
  <2>1. pc \in Staged /\ pc = "split"
    BY <1>3 DEF FinalizeLegFill, Staged
  <2>2. PICK ok \in BOOLEAN : Repair(seen, trk.tp2, Breakeven, ok)
    BY <1>3 DEF FinalizeLegFill
  <2>3. ~EnsureProtection
    BY <2>1 DEF EnsureProtection
  <2>4. QED
    BY <1>1, <2>1, <2>2, <2>3, TrackerInHand, ConstantTypes, RepairEvolves
<1>4. CASE PushStops
  <2>1. SyncStops(Breakeven) /\ ~EnsureProtection
    BY <1>4 DEF PushStops, EnsureProtection
  <2>2. QED
    BY <2>1, ConstantTypes, SyncStopsEvolves
<1>5. CASE EnsureProtection
  <2>1. pc \in Staged
    BY <1>5 DEF EnsureProtection, Staged
  <2>2. PICK ok \in BOOLEAN : /\ Repair(seen, trk.tp2, trk.stop, ok)
                              /\ pc' # "close" => ok
    BY <1>5 DEF EnsureProtection, Goto
  <2>3. QED
    BY <1>1, <2>1, <2>2, TrackerInHand, RepairEvolves
<1>6. CASE Trail
  <2>1. pc \in Staged /\ ~EnsureProtection /\ Proper(ex)
    BY <1>6, BaseFacts DEF Trail, EnsureProtection, Staged
  <2>2. SyncStops(Ratcheted(trk.stop, trk.hwm)) \/ ex' = ex
    BY <1>6 DEF Trail
  <2>3. QED
    BY <2>1, <2>2, TrackerInHand, SyncStopsEvolves, EvolvesSelf
<1>7. CASE ClosePosition
  BY <1>7, CloseEvolves DEF ClosePosition, EnsureProtection
<1>8. CASE AiClose
  BY <1>8, CloseEvolves DEF AiClose, EnsureProtection
<1>9. QED
  BY <1>2, <1>3, <1>4, <1>5, <1>6, <1>7, <1>8 DEF Guards

(* Only three steps cancel legs, and only the AI moves targets. *)
LEMMA ExchangeStep ==
  ASSUME Base, ProtectionNext
  PROVE  /\ Proper(ex') /\ ex'.size <= ex.size /\ LiveIds(ex') \cap Mentioned \subseteq LiveIds(ex)
         /\ ClearLegs \/ RetryStale \/ SwapLegs \/ Evolves(ex, ex', Mentioned)
         /\ AiTarget \/ SameTargets(ex, ex', Mentioned)
<1>1. Proper(ex) /\ ex.size \in Nat
  BY BaseFacts DEF Proper
<1>2. CASE Quiet
  BY <1>1, <1>2, QuietFacts, EvolvesSelf DEF Evolves
<1>3. CASE ClearLegs
  <2> DEFINE d == [ex EXCEPT !.legs = {}]
  <2>1. ex' = ex \/ ex' = d
    BY <1>3 DEF ClearLegs
  <2>2. d.size = ex.size /\ d.legs = {} /\ d \in [size : Nat, legs : SUBSET Leg]
    BY <1>1 DEF Proper
  <2> HIDE DEF d
  <2>3. Proper(d) /\ LiveIds(d) = {}
    BY <2>2, FS_EmptySet DEF Proper, LiveIds
  <2>4. CASE ex' = ex
    BY <1>1, <1>3, <2>4 DEF SameTargets
  <2>5. CASE ex' = d
    BY <1>1, <1>3, <2>2, <2>3, <2>5 DEF SameTargets
  <2>6. QED
    BY <2>1, <2>4, <2>5
<1>4. ASSUME NEW ids, CancelWorks(ids) \/ CancelFails(ids), RetryStale \/ SwapLegs
      PROVE  /\ Proper(ex') /\ ex'.size <= ex.size
             /\ LiveIds(ex') \cap Mentioned \subseteq LiveIds(ex)
             /\ SameTargets(ex, ex', Mentioned)
  <2>1. Proper(ex') /\ ex'.size = ex.size /\ ex'.legs \subseteq ex.legs
    BY <1>4, CancelFacts
  <2>2. QED
    BY <1>1, <2>1 DEF LiveIds, SameTargets
<1>5. CASE RetryStale
  BY <1>4, <1>5 DEF RetryStale
<1>6. CASE SwapLegs
  <2>1. ex' = ex \/ CancelWorks(old) \/ CancelFails(old)
    BY <1>6 DEF SwapLegs
  <2>2. CASE ex' = ex
    BY <1>1, <1>6, <2>2 DEF SameTargets
  <2>3. QED
    BY <1>4, <1>6, <2>1, <2>2
<1>7. CASE SellFirstPart
  BY <1>7, SellEvolves DEF Evolves
<1>8. CASE Guards
  BY <1>8, GuardsEvolve DEF Evolves
<1>9. CASE PlaceLegs
  BY <1>9, PlaceLegsEvolves DEF Evolves
<1>10. CASE AiStop
  BY <1>10, AiStopEvolves DEF Evolves
<1>11. CASE AiTarget
  BY <1>11, AiTargetEvolves DEF Evolves
<1>12. CASE Market
  BY <1>12, MarketEvolves DEF Evolves
<1>13. QED
  BY <1>2, <1>3, <1>5, <1>6, <1>7, <1>8, <1>9, <1>10, <1>11, <1>12
     DEF ProtectionNext, CycleStep, Quiet, Guards

-----------------------------------------------------------------------------
(* What the steps do to the tracker.                                       *)

(* The registered legs, the far target and the legs still to be cancelled. *)
SameGuard(T, U) ==
  /\ T.open /\ U.open /\ T.leg1 = U.leg1 /\ T.leg2 = U.leg2 /\ T.tp2 = U.tp2 /\ T.stale = U.stale
Typed(T) == T \in Tracker \cup {NoTracker} /\ (T.open => IsFiniteSet(T.stale))

LEMMA ClosedTracker == Typed(NoTracker) /\ ~NoTracker.open
BY DEF Typed, NoTracker

LEMMA NewTrackerFacts ==
  ASSUME NEW size \in Nat, NEW p \in Nat
  PROVE  LET t == NewTracker(size, p)
         IN  /\ t \in Tracker /\ t.open /\ t.stop = InitialStop /\ t.stale = {} /\ Typed(t)
             /\ t.leg1 = 0 /\ t.leg2 = 0 /\ t.hwm = p /\ t.tp1 = FirstTp /\ t.tp2 = SecondTp
<1>1. NewTracker(size, p) \in Tracker
  BY ConstantTypes DEF NewTracker, Tracker, NotPending
<1>2. QED
  BY <1>1, FS_EmptySet DEF NewTracker, Typed

(* The position stage updates the tracker it works with: all but the legs,  *)
(* which other steps change.                                                *)
Booked ==
  \/ ReadPrice \/ NoScaleOut \/ SellFirstPart \/ ResumeSale \/ ConfirmSale \/ ClearLegs
  \/ Reprotect \/ FinalizeLegFill \/ PushStops \/ EnsureProtection \/ KeepLegs \/ TimeStop
  \/ Trail \/ ClosePosition \/ AiClose \/ AiStop \/ Market

LEMMA Held ==
  ASSUME Base
  PROVE  /\ Typed(trk) /\ Typed(disk) /\ seen \in Nat /\ mkt \in Nat /\ ex.size \in Nat
         /\ \/ ~trk.open /\ trk = NoTracker
            \/ SameGuard(trk, trk) /\ trk \in Tracker
<1>1. Typed(trk) /\ Typed(disk) /\ seen \in Nat /\ mkt \in Nat /\ ex.size \in Nat
  BY ConstantTypes DEF Base, ProtectionTypeOK, FiniteInv, Typed, Price
<1>2. CASE trk.open
  BY <1>1, <1>2, TrackerFacts DEF SameGuard, Typed
<1>3. CASE ~trk.open
  BY <1>1, <1>3 DEF Typed, Tracker
<1>4. QED
  BY <1>1, <1>2, <1>3

LEMMA BookedFacts ==
  ASSUME Base, Booked
  PROVE  /\ Typed(trk') /\ disk' = disk
         /\ trk' = NoTracker \/ SameGuard(trk, trk')
<1>1. ASSUME trk' = trk PROVE Typed(trk') /\ (trk' = NoTracker \/ SameGuard(trk, trk'))
  BY <1>1, Held
<1>2. ASSUME trk' = NoTracker PROVE Typed(trk') /\ (trk' = NoTracker \/ SameGuard(trk, trk'))
  BY <1>2, ClosedTracker
<1>3. /\ seen \in Nat /\ ex.size \in Nat /\ Breakeven \in Nat
      /\ FirstPart(seen) \in Nat
  BY Held, ConstantTypes, FirstPartType
<1>4. CASE ReadPrice
  BY <1>1, <1>4 DEF ReadPrice
<1>5. CASE NoScaleOut
  <2>1. pc \in Staged /\ disk' = disk
    BY <1>5 DEF NoScaleOut, Staged
  <2>2. trk' = trk \/ trk' = [trk EXCEPT !.phase = -1]
    BY <1>5 DEF NoScaleOut
  <2>3. CASE trk' = [trk EXCEPT !.phase = -1]
    BY <2>1, <2>3, TrackerInHand DEF Tracker, Typed, SameGuard
  <2>4. QED
    BY <1>1, <2>1, <2>2, <2>3
<1>6. CASE SellFirstPart
  <2>1. pc \in Staged /\ disk' = disk
    BY <1>6 DEF SellFirstPart, Staged
  <2>2. PICK fill \in 0..Least(FirstPart(seen), ex.size) :
          trk' = trk \/ trk' = [trk EXCEPT !.pend = [orig |-> seen, filled |-> fill]]
    BY <1>6 DEF SellFirstPart
  <2>3. fill \in Nat
    BY <1>3 DEF Least
  <2>4. CASE trk' = [trk EXCEPT !.pend = [orig |-> seen, filled |-> fill]]
    BY <1>3, <2>1, <2>3, <2>4, TrackerInHand DEF Tracker, Typed, SameGuard
  <2>5. QED
    BY <1>1, <2>1, <2>2, <2>4
<1>7. CASE ResumeSale
  BY <1>1, <1>7 DEF ResumeSale
<1>8. CASE ConfirmSale
  <2>1. pc \in Staged /\ disk' = disk
    BY <1>8 DEF ConfirmSale, Staged
  <2> DEFINE ph == IF trk.pend.filled = 0 THEN trk.phase ELSE 1
  <2>2. \/ trk' = trk \/ trk' = NoTracker
        \/ trk' = [trk EXCEPT !.pend = NotPending, !.phase = ph]
    BY <1>8 DEF ConfirmSale
  <2>3. CASE trk' = [trk EXCEPT !.pend = NotPending, !.phase = ph]
    <3>1. ph \in {-1, 0, 1} /\ NotPending \in [orig : Nat, filled : Nat]
      BY <2>1, TrackerInHand DEF Tracker, NotPending
    <3>2. QED
      BY <2>1, <2>3, <3>1, TrackerInHand DEF Tracker, Typed, SameGuard
  <2>4. QED
    BY <1>1, <1>2, <2>1, <2>2, <2>3
<1>9. CASE ClearLegs
  BY <1>1, <1>9 DEF ClearLegs
<1>10. ASSUME NEW stop \in Nat, pc \in Staged, trk' = ScaledOut(trk, stop)
       PROVE  Typed(trk') /\ SameGuard(trk, trk')
  BY <1>10, TrackerInHand DEF ScaledOut, Tracker, Typed, SameGuard
<1>11. CASE Reprotect
  <2>1. pc \in Staged /\ disk' = disk /\ trk' = ScaledOut(trk, Most(Breakeven, trk.stop))
    BY <1>11 DEF Reprotect, Staged
  <2>2. QED
    BY <1>10, <2>1, TrackerInHand
<1>12. CASE FinalizeLegFill
  BY <1>1, <1>12 DEF FinalizeLegFill
<1>13. CASE PushStops
  BY <1>3, <1>10, <1>13 DEF PushStops, Staged
<1>14. CASE EnsureProtection
  BY <1>1, <1>14 DEF EnsureProtection
<1>15. CASE KeepLegs
  BY <1>1, <1>15 DEF KeepLegs
<1>16. CASE TimeStop
  BY <1>1, <1>16 DEF TimeStop
<1>17. CASE Trail
  <2>1. pc \in Staged /\ disk' = disk
        /\ trk' = [trk EXCEPT !.stop = Ratcheted(trk.stop, trk.hwm)]
    BY <1>17 DEF Trail, Staged
  <2>2. QED
    BY <2>1, TrackerInHand DEF Tracker, Typed, SameGuard
<1>18. CASE ClosePosition
  BY <1>1, <1>2, <1>18 DEF ClosePosition
<1>19. CASE AiClose
  BY <1>1, <1>2, <1>19 DEF AiClose
<1>20. CASE AiStop
  <2>1. disk' = disk
    BY <1>20 DEF AiStop
  <2>2. PICK stop \in Price : \/ trk' = trk
                              \/ trk.open /\ trk' = [trk EXCEPT !.stop = stop]
    BY <1>20 DEF AiStop
  <2>3. CASE trk.open /\ trk' = [trk EXCEPT !.stop = stop]
    <3>1. stop \in Nat /\ trk \in Tracker
      BY <2>3, ConstantTypes, Held DEF Price
    <3>2. QED
      BY <2>1, <2>3, <3>1, Held DEF Tracker, Typed, SameGuard
  <2>4. QED
    BY <1>1, <2>1, <2>2, <2>3
<1>21. CASE Market
  BY <1>1, <1>21 DEF Market
<1>22. QED
  BY <1>4, <1>5, <1>6, <1>7, <1>8, <1>9, <1>11, <1>12, <1>13, <1>14, <1>15, <1>16, <1>17,
     <1>18, <1>19, <1>20, <1>21 DEF Booked

(* Reading, saving and dying exchange the tracker in memory for the saved   *)
(* one, or the saved one for it.                                            *)
Reloaded ==
  \/ disk' = disk /\ (trk' = NoTracker \/ trk' = disk)
  \/ (disk' = trk \/ disk' = disk) /\ (trk' = trk \/ trk' = disk')

LEMMA ReloadFacts ==
  ASSUME Base, ReadPosition \/ SaveTracker \/ NoInstruction \/ Crash
  PROVE  Reloaded /\ Typed(trk') /\ Typed(disk') /\ (pc' = "idle" => trk' = disk')
<1>1. Typed(trk) /\ Typed(disk) /\ Typed(NoTracker)
  BY Held, ClosedTracker
<1>2. CASE ReadPosition
  BY <1>1, <1>2 DEF ReadPosition, Reloaded, Goto
<1>3. CASE SaveTracker
  BY <1>1, <1>3 DEF SaveTracker, Reloaded, Goto
<1>4. CASE NoInstruction
  BY <1>1, <1>4 DEF NoInstruction, Reloaded
<1>5. CASE Crash
  BY <1>1, <1>5 DEF Crash, Reloaded
<1>6. QED
  BY <1>2, <1>3, <1>4, <1>5

LEMMA HardStopFacts ==
  ASSUME Base, HardStop
  PROVE  /\ Typed(trk') /\ disk' = disk /\ trk' \in Tracker /\ trk'.open
         /\ trk.open => SameGuard(trk, trk') /\ trk'.stop = trk.stop
         /\ ~trk.open => /\ trk'.leg1 = 0 /\ trk'.leg2 = 0 /\ trk'.stale = {}
                         /\ trk'.stop = InitialStop /\ ~disk.open
         /\ pc' = IF mkt <= trk'.stop /\ trk'.stop > 0 THEN "close" ELSE "ensure"
<1> DEFINE t == IF trk.open THEN trk ELSE NewTracker(seen, mkt)
           top == Most(t.hwm, mkt)
<1>1. /\ pc = "guard" /\ disk' = disk /\ trk' = [t EXCEPT !.hwm = top]
      /\ pc' = IF StopHit(mkt, t.stop) THEN "close" ELSE "ensure"
  BY DEF HardStop, Goto
<1>2. /\ t \in Tracker /\ t.open /\ Typed(t) /\ (trk.open => t = trk)
      /\ ~trk.open => t.leg1 = 0 /\ t.leg2 = 0 /\ t.stale = {} /\ t.stop = InitialStop
  BY Held, NewTrackerFacts DEF SameGuard
<1>3. ~trk.open => ~disk.open
  BY <1>1 DEF Base, StageInv
<1> HIDE DEF t
<1>4. top \in Nat
  BY <1>2, Held DEF Most, Tracker
<1>5. /\ trk' \in Tracker /\ trk'.open /\ trk'.stop = t.stop /\ trk'.leg1 = t.leg1
      /\ trk'.leg2 = t.leg2 /\ trk'.stale = t.stale /\ trk'.tp2 = t.tp2
  BY <1>1, <1>2, <1>4 DEF Tracker
<1>6. QED
  BY <1>1, <1>2, <1>3, <1>5 DEF StopHit, Typed, SameGuard

(* sync_position_legs: the trackers before and after a round. *)
LEMMA LegsFacts ==
  ASSUME Base, RetryStale \/ SwapLegs \/ PlaceLegs
  PROVE  /\ Typed(trk') /\ disk' = disk /\ trk.open /\ trk'.open
         /\ trk'.stop = trk.stop /\ trk'.tp2 = trk.tp2 /\ trk'.tp1 = trk.tp1
         /\ trk'.stale \in {{}, trk.stale, old}
         /\ ~PlaceLegs => trk'.leg1 = trk.leg1 /\ trk'.leg2 = trk.leg2
<1>1. pc \in Staged
  BY DEF RetryStale, SwapLegs, PlaceLegs, Staged
<1>2. /\ trk \in Tracker /\ trk.open /\ Typed(trk)
      /\ IsFiniteSet(old) /\ old \in SUBSET LegId /\ IsFiniteSet({})
  BY <1>1, TrackerInHand, Held, FS_EmptySet DEF Base, FiniteInv, ProtectionTypeOK
<1>3. ASSUME NEW S \in SUBSET LegId, IsFiniteSet(S), trk' = [trk EXCEPT !.stale = S], ~PlaceLegs,
             S \in {{}, trk.stale, old}, disk' = disk
      PROVE  /\ Typed(trk') /\ disk' = disk /\ trk.open /\ trk'.open
             /\ trk'.stop = trk.stop /\ trk'.tp2 = trk.tp2 /\ trk'.tp1 = trk.tp1
             /\ trk'.stale \in {{}, trk.stale, old}
             /\ ~PlaceLegs => trk'.leg1 = trk.leg1 /\ trk'.leg2 = trk.leg2
  BY <1>2, <1>3 DEF Tracker, Typed
<1>4. CASE RetryStale
  <2>1. disk' = disk /\ (trk' = trk \/ trk' = [trk EXCEPT !.stale = {}])
    BY <1>4 DEF RetryStale
  <2>2. ~PlaceLegs
    BY <1>4 DEF RetryStale, PlaceLegs
  <2>3. QED
    BY <1>2, <1>3, <2>1, <2>2
<1>5. CASE SwapLegs
  <2>1. disk' = disk /\ (trk' = trk \/ trk' = [trk EXCEPT !.stale = old])
    BY <1>5 DEF SwapLegs
  <2>2. ~PlaceLegs
    BY <1>5 DEF SwapLegs, PlaceLegs
  <2>3. QED
    BY <1>2, <1>3, <2>1, <2>2
<1>6. CASE PlaceLegs
  <2>1. disk' = disk /\ (pc' = "trail" => trk' = trk)
    BY <1>6 DEF PlaceLegs, Goto
  <2>2. CASE pc' = "trail"
    BY <1>2, <1>6, <2>1, <2>2
  <2>3. CASE pc' # "trail"
    <3>1. /\ trk' \in Tracker /\ trk'.stale = trk.stale /\ trk'.stop = trk.stop
          /\ trk'.tp1 = trk.tp1 /\ trk'.tp2 = trk.tp2
      BY <1>6, <2>3, PlaceLegsEvolves
    <3>2. trk'.open
      BY <3>1 DEF Tracker
    <3>3. QED
      BY <1>2, <1>6, <2>1, <3>1, <3>2 DEF Typed
  <2>4. QED
    BY <2>2, <2>3
<1>7. QED
  BY <1>4, <1>5, <1>6

-----------------------------------------------------------------------------
(* Types, and the stages.                                                  *)
LEMMA FaultsCounted ==
  ASSUME Base, Fine \/ Fault
  PROVE  faults' \in 0..MaxFaults
<1>1. faults \in 0..MaxFaults /\ MaxFaults \in Nat
  BY ConstantTypes DEF Base, ProtectionTypeOK
<1>2. QED
  BY <1>1 DEF Fine, Fault

LEMMA FaultsStep ==
  ASSUME Base, ProtectionNext
  PROVE  faults' \in 0..MaxFaults
<1>1. faults \in 0..MaxFaults
  BY DEF Base, ProtectionTypeOK
<1>2. CASE ReadPosition
  BY <1>2, FaultsCounted DEF ReadPosition
<1>3. CASE ReadPrice
  BY <1>3, FaultsCounted DEF ReadPrice
<1>4. CASE NoScaleOut
  BY <1>4, FaultsCounted DEF NoScaleOut
<1>5. CASE SellFirstPart
  BY <1>5, FaultsCounted DEF SellFirstPart
<1>6. CASE ResumeSale
  BY <1>6, FaultsCounted DEF ResumeSale
<1>7. CASE ConfirmSale
  BY <1>7, FaultsCounted DEF ConfirmSale
<1>8. CASE ClearLegs
  BY <1>8, FaultsCounted DEF ClearLegs
<1>9. CASE Reprotect
  BY <1>9, FaultsCounted DEF Reprotect, Repair
<1>10. CASE FinalizeLegFill
  BY <1>10, FaultsCounted DEF FinalizeLegFill, Repair
<1>11. CASE PushStops
  BY <1>11, FaultsCounted DEF PushStops, SyncStops
<1>12. CASE HardStop
  BY <1>12, FaultsCounted DEF HardStop
<1>13. CASE EnsureProtection
  BY <1>13, FaultsCounted DEF EnsureProtection, Repair
<1>14. CASE RetryStale
  BY <1>14, FaultsCounted DEF RetryStale, CancelWorks, CancelFails
<1>15. CASE KeepLegs
  BY <1>15, FaultsCounted DEF KeepLegs
<1>16. CASE PlaceLegs
  BY <1>16, FaultsCounted DEF PlaceLegs
<1>17. CASE SwapLegs
  BY <1>17, FaultsCounted DEF SwapLegs, CancelWorks, CancelFails
<1>18. CASE TimeStop
  BY <1>18, FaultsCounted DEF TimeStop
<1>19. CASE Trail
  BY <1>19, FaultsCounted DEF Trail, SyncStops
<1>20. CASE ClosePosition
  BY <1>20, FaultsCounted DEF ClosePosition, CloseOutcome
<1>21. CASE SaveTracker
  BY <1>21, FaultsCounted DEF SaveTracker
<1>22. CASE NoInstruction
  BY <1>22, FaultsCounted DEF NoInstruction
<1>23. CASE AiClose
  BY <1>23, FaultsCounted DEF AiClose, CloseOutcome
<1>24. CASE AiStop
  BY <1>24, FaultsCounted DEF AiStop
<1>25. CASE AiTarget
  BY <1>25, AiTargetEvolves, FaultsCounted
<1>26. CASE Market
  BY <1>1, <1>26 DEF Market
<1>27. CASE Crash
  BY <1>27, FaultsCounted DEF Crash
<1>28. QED
  BY <1>2, <1>3, <1>4, <1>5, <1>6, <1>7, <1>8, <1>9, <1>10, <1>11, <1>12, <1>13, <1>14,
     <1>15, <1>16, <1>17, <1>18, <1>19, <1>20, <1>21, <1>22, <1>23, <1>24, <1>25, <1>26, <1>27
     DEF ProtectionNext, CycleStep

LEMMA PlainTypes ==
  ASSUME Base, ProtectionNext
  PROVE  /\ px' \in Price /\ mkt' \in Price \cup {0} /\ seen' \in Nat
         /\ pc' \in Steps /\ outcome' \in Outcomes
         /\ old' \subseteq LegId /\ IsFiniteSet(old')
<1>1. /\ px \in Price /\ mkt \in Price \cup {0} /\ seen \in Nat /\ ex.size \in Nat
      /\ pc \in Steps /\ outcome \in Outcomes
      /\ old \subseteq LegId /\ IsFiniteSet(old)
  BY DEF Base, ProtectionTypeOK, FiniteInv
<1>2. LiveIds(ex) \subseteq LegId /\ IsFiniteSet(LiveIds(ex)) /\ IsFiniteSet({})
  BY BaseFacts, LiveIdsFinite, FS_EmptySet
<1>3. CASE ReadPosition
  BY <1>1, <1>3 DEF ReadPosition, Goto, locals, Steps, Outcomes
<1>4. CASE ReadPrice
  BY <1>1, <1>4 DEF ReadPrice, Goto, locals, Steps, Outcomes
<1>5. CASE NoScaleOut
  BY <1>1, <1>5 DEF NoScaleOut, Goto, locals, Steps, Outcomes
<1>6. CASE SellFirstPart
  BY <1>1, <1>6 DEF SellFirstPart, Goto, locals, Steps, Outcomes
<1>7. CASE ResumeSale
  BY <1>1, <1>7 DEF ResumeSale, Goto, locals, Steps, Outcomes
<1>8. CASE ConfirmSale
  BY <1>1, <1>8 DEF ConfirmSale, Goto, locals, Steps, Outcomes
<1>9. CASE ClearLegs
  BY <1>1, <1>9 DEF ClearLegs, Goto, locals, Steps, Outcomes
<1>10. CASE Reprotect
  BY <1>1, <1>10 DEF Reprotect, Goto, locals, Steps, Outcomes
<1>11. CASE FinalizeLegFill
  BY <1>1, <1>11 DEF FinalizeLegFill, Goto, locals, Steps, Outcomes
<1>12. CASE PushStops
  BY <1>1, <1>12 DEF PushStops, Goto, locals, Steps, Outcomes
<1>13. CASE HardStop
  BY <1>1, <1>13 DEF HardStop, Goto, locals, Steps, Outcomes
<1>14. CASE EnsureProtection
  BY <1>1, <1>14 DEF EnsureProtection, Goto, locals, Steps, Outcomes
<1>15. CASE RetryStale
  BY <1>1, <1>15 DEF RetryStale, Goto, locals, Steps, Outcomes
<1>16. CASE KeepLegs
  BY <1>1, <1>16 DEF KeepLegs, Goto, locals, Steps, Outcomes
<1>17. CASE PlaceLegs
  BY <1>1, <1>2, <1>17 DEF PlaceLegs, Goto, locals, Steps, Outcomes
<1>18. CASE SwapLegs
  BY <1>1, <1>2, <1>18 DEF SwapLegs, Goto, locals, Steps, Outcomes
<1>19. CASE TimeStop
  BY <1>1, <1>19 DEF TimeStop, Goto, locals, Steps, Outcomes
<1>20. CASE Trail
  BY <1>1, <1>20 DEF Trail, Goto, locals, Steps, Outcomes
<1>21. CASE ClosePosition
  BY <1>1, <1>21 DEF ClosePosition, Goto, locals, Steps, Outcomes
<1>22. CASE SaveTracker
  BY <1>1, <1>22 DEF SaveTracker, Goto, locals, Steps, Outcomes
<1>23. CASE NoInstruction
  BY <1>1, <1>23 DEF NoInstruction, Goto, locals, Steps, Outcomes
<1>24. CASE AiClose
  BY <1>1, <1>24 DEF AiClose, Goto, locals, Steps, Outcomes
<1>25. CASE AiStop
  BY <1>1, <1>25 DEF AiStop, Goto, locals, Steps, Outcomes
<1>26. CASE AiTarget
  BY <1>1, <1>26 DEF AiTarget, Goto, locals, Steps, Outcomes
<1>27. CASE Market
  BY <1>1, <1>27 DEF Market, Goto, locals, Steps, Outcomes
<1>28. CASE Crash
  BY <1>1, <1>2, <1>28 DEF Crash, Goto, locals, Steps, Outcomes
<1>29. QED
  BY <1>3, <1>4, <1>5, <1>6, <1>7, <1>8, <1>9, <1>10, <1>11, <1>12, <1>13, <1>14, <1>15,
     <1>16, <1>17, <1>18, <1>19, <1>20, <1>21, <1>22, <1>23, <1>24, <1>25, <1>26, <1>27,
     <1>28
     DEF ProtectionNext, CycleStep

(* Where a step may lead, and with what outcome: only the trailing stop     *)
(* reports a watched position.                                              *)
LEMMA StageStep ==
  ASSUME Base, ProtectionNext
  PROVE  StageInv'
<1> DEFINE ended == {"save", "ai", "ai_save", "idle"}
           live == Staged \cup {"price", "guard"}
<1>1. /\ pc \in Staged => trk.open
      /\ pc \in {"price", "guard"} /\ ~trk.open => ~disk.open
      /\ pc = "idle" => trk = disk
      /\ pc # "swap" => old = {}
      /\ pc \in live => ex.size <= seen
      /\ outcome = "watching" => pc \in ended
  BY DEF Base, StageInv
<1>2. ex'.size <= ex.size /\ ex.size \in Nat /\ ex'.size \in Nat /\ seen \in Nat
  BY ExchangeStep, Held DEF Proper
<1>3. ASSUME pc' \in ended, pc' # "idle", old' = {} \/ (old' = old /\ pc # "swap")
      PROVE  StageInv'
  <2>1. pc' \notin live /\ pc' \notin Staged /\ pc' \notin {"price", "guard"} /\ pc' # "swap"
    BY <1>3 DEF Staged
  <2>2. old' = {}
    BY <1>1, <1>3
  <2> HIDE DEF live
  <2>3. QED
    BY <1>3, <2>1, <2>2 DEF StageInv, live
<1>4. ASSUME pc' = "idle", trk' = disk', old' = {} \/ (old' = old /\ pc # "swap")
      PROVE  StageInv'
  <2>1. pc' \notin live /\ pc' \notin Staged /\ pc' \notin {"price", "guard"} /\ pc' # "swap"
    BY <1>4 DEF Staged
  <2>2. old' = {}
    BY <1>1, <1>4
  <2> HIDE DEF live
  <2>3. QED
    BY <1>4, <2>1, <2>2 DEF StageInv, live
<1>5. ASSUME pc \in Staged \cup {"price", "guard"}, pc' \in Staged \cup {"guard"},
             trk'.open, old' = {} \/ pc' = "swap" \/ (old' = old /\ pc # "swap"),
             seen' = seen, outcome' = outcome
      PROVE  StageInv'
  <2>1. ex'.size <= seen'
    BY <1>1, <1>2, <1>5
  <2>2. outcome' # "watching"
    BY <1>1, <1>5 DEF Staged
  <2>3. pc' # "swap" => old' = {}
    BY <1>1, <1>5
  <2>4. pc' # "idle"
    BY <1>5 DEF Staged
  <2>5. QED
    BY <1>5, <2>1, <2>2, <2>3, <2>4 DEF StageInv
<1>6. ASSUME pc \in Staged \cup {"price", "guard"}, pc' = "close",
             old' = {} \/ (old' = old /\ pc # "swap"), outcome' = outcome
      PROVE  StageInv'
  <2>1. outcome' # "watching"
    BY <1>1, <1>6 DEF Staged
  <2>2. pc' \notin live /\ pc' \notin Staged
    BY <1>6 DEF Staged
  <2>3. old' = {}
    BY <1>1, <1>6
  <2> HIDE DEF live
  <2>4. QED
    BY <1>6, <2>1, <2>2, <2>3 DEF StageInv, live
<1>7. CASE ReadPosition
  <2>1. CASE ex.size = 0
    BY <1>3, <1>7, <2>1 DEF ReadPosition, Goto
  <2>2. CASE ex.size # 0
    <3>1. /\ pc = "idle" /\ pc' = "price" /\ seen' = ex.size /\ trk' = disk /\ disk' = disk
          /\ old' = old /\ outcome' = "none" /\ ex' = ex
      BY <1>7, <2>2 DEF ReadPosition, Goto
    <3>2. old' = {} /\ ex'.size <= seen'
      BY <1>1, <1>2, <3>1
    <3>3. QED
      BY <3>1, <3>2 DEF StageInv, Staged
  <2>3. QED
    BY <2>1, <2>2
<1>8. CASE ReadPrice
  <2>1. /\ pc = "price" /\ old' = old /\ seen' = seen /\ ex' = ex /\ trk' = trk /\ disk' = disk
    BY <1>8 DEF ReadPrice
  <2>2. \/ pc' = "save"
        \/ outcome' = outcome /\ pc' = "split" /\ trk.open
        \/ outcome' = outcome /\ pc' = "guard"
    BY <1>8 DEF ReadPrice, Goto
  <2>3. CASE pc' = "save"
    BY <1>3, <2>1, <2>3
  <2>4. CASE outcome' = outcome /\ pc' = "split" /\ trk.open
    BY <1>5, <2>1, <2>4 DEF Staged
  <2>5. CASE outcome' = outcome /\ pc' = "guard"
    <3>1. outcome' # "watching" /\ ex'.size <= seen' /\ old' = {} /\ (~trk'.open => ~disk'.open)
      BY <1>1, <2>1, <2>5
    <3>2. QED
      BY <2>5, <3>1 DEF StageInv, Staged
  <2>6. QED
    BY <2>2, <2>3, <2>4, <2>5
<1>9. ASSUME Booked, pc \in Staged PROVE trk' = NoTracker \/ trk'.open
  BY <1>9, BookedFacts DEF SameGuard
<1>10. CASE NoScaleOut
  <2>1. trk' \in {trk, [trk EXCEPT !.phase = -1]} /\ pc \in Staged /\ pc = "split"
    BY <1>10 DEF NoScaleOut, Staged
  <2>2. trk'.open
    BY <2>1, TrackerInHand DEF Tracker
  <2>3. QED
    BY <1>5, <1>10, <2>1, <2>2 DEF NoScaleOut, Goto, locals
<1>11. CASE SellFirstPart
  <2>1. /\ pc \in Staged /\ pc = "split" /\ pc' \in Staged \cup {"guard"} /\ seen' = seen
        /\ old' = old /\ outcome' = outcome /\ trk' # NoTracker
    <3>1. /\ pc \in Staged /\ pc = "split" /\ pc' \in Staged \cup {"guard"} /\ seen' = seen
          /\ old' = old /\ outcome' = outcome
      BY <1>11 DEF SellFirstPart, Goto, locals, Staged
    <3>2. \/ trk' = trk
          \/ \E fill : trk' = [trk EXCEPT !.pend = [orig |-> seen, filled |-> fill]]
      BY <1>11 DEF SellFirstPart
    <3>3. trk'.open
      BY <3>1, <3>2, TrackerInHand DEF Tracker
    <3>4. QED
      BY <3>1, <3>3, ClosedTracker
  <2>2. trk'.open
    BY <1>9, <1>11, <2>1 DEF Booked
  <2>3. QED
    BY <1>5, <2>1, <2>2
<1>12. CASE ResumeSale
  BY <1>5, <1>12, TrackerInHand DEF ResumeSale, Goto, locals, Staged
<1>13. CASE ConfirmSale
  <2>1. pc \in Staged /\ pc = "confirm" /\ old' = old
    BY <1>13 DEF ConfirmSale, Staged
  <2>2. CASE pc' = "save"
    BY <1>3, <2>1, <2>2
  <2>3. CASE pc' # "save"
    <3>1. /\ pc' \in {"guard", "clear"} /\ seen' = ex.size /\ ex' = ex /\ outcome' = outcome
          /\ \E ph : trk' = [trk EXCEPT !.pend = NotPending, !.phase = ph]
      BY <1>13, <2>3 DEF ConfirmSale, Goto
    <3>2. trk'.open
      BY <2>1, <3>1, TrackerInHand DEF Tracker
    <3>3. ex'.size <= seen' /\ outcome' # "watching" /\ old' = {}
      BY <1>1, <1>2, <2>1, <3>1 DEF Staged
    <3>4. QED
      BY <3>1, <3>2, <3>3 DEF StageInv
  <2>4. QED
    BY <2>2, <2>3
<1>14. CASE ClearLegs
  BY <1>5, <1>14, TrackerInHand DEF ClearLegs, Goto, locals, Staged
<1>15. ASSUME NEW stop, pc \in Staged, trk' = ScaledOut(trk, stop) PROVE trk'.open
  BY <1>15, TrackerInHand DEF ScaledOut, Tracker
<1>16. CASE Reprotect
  <2>1. trk'.open
    BY <1>15, <1>16 DEF Reprotect, Staged
  <2>2. QED
    BY <1>5, <1>16, <2>1 DEF Reprotect, Goto, locals, Staged
<1>17. CASE FinalizeLegFill
  BY <1>5, <1>17, TrackerInHand DEF FinalizeLegFill, Goto, locals, Staged
<1>18. CASE PushStops
  <2>1. trk'.open
    BY <1>15, <1>18 DEF PushStops, Staged
  <2>2. QED
    BY <1>5, <1>18, <2>1 DEF PushStops, Goto, locals, Staged
<1>19. CASE HardStop
  <2>1. /\ pc = "guard" /\ pc' \in {"close", "ensure"} /\ trk'.open /\ old' = old /\ seen' = seen
        /\ outcome' = outcome
    BY <1>19, HardStopFacts DEF HardStop, locals
  <2>2. QED
    BY <1>5, <1>6, <2>1 DEF Staged
<1>20. CASE EnsureProtection
  <2>1. /\ pc \in Staged /\ pc = "ensure" /\ pc' \in {"close", "legs", "trail"} /\ trk' = trk
        /\ old' = old /\ seen' = seen /\ outcome' = outcome
    BY <1>20 DEF EnsureProtection, Goto, locals, Staged
  <2>2. trk'.open
    BY <2>1, TrackerInHand
  <2>3. QED
    BY <1>5, <1>6, <2>1, <2>2 DEF Staged
<1>21. CASE RetryStale \/ KeepLegs
  <2>1. /\ pc = "legs" /\ pc' \in {"legs", "trail"} /\ old' = old /\ seen' = seen /\ outcome' = outcome
    BY <1>21 DEF RetryStale, KeepLegs, Goto, locals
  <2>2. trk'.open
    <3>1. CASE RetryStale
      BY <3>1, LegsFacts
    <3>2. CASE KeepLegs
      BY <2>1, <3>2, TrackerInHand DEF KeepLegs, Staged
    <3>3. QED
      BY <1>21, <3>1, <3>2
  <2>3. QED
    BY <1>5, <2>1, <2>2 DEF Staged
<1>22. CASE PlaceLegs \/ SwapLegs
  <2>1. /\ pc \in {"legs", "swap"} /\ pc' \in {"swap", "trail"} /\ seen' = seen /\ outcome' = outcome
        /\ old' = {} \/ pc' = "swap" \/ (old' = old /\ pc # "swap")
    BY <1>22 DEF PlaceLegs, SwapLegs, Goto
  <2>2. trk'.open
    BY <1>22, LegsFacts
  <2>3. QED
    BY <1>5, <2>1, <2>2 DEF Staged
<1>23. CASE TimeStop
  BY <1>6, <1>23 DEF TimeStop, Goto, locals, Staged
<1>24. CASE Trail
  <2>1. /\ pc \in Staged /\ pc = "trail" /\ old' = old
        /\ (pc' = "close" /\ outcome' = outcome) \/ pc' = "save"
    BY <1>24 DEF Trail, Goto, locals, Staged
  <2>2. QED
    BY <1>3, <1>6, <2>1
<1>25. CASE ClosePosition \/ AiClose \/ AiStop \/ AiTarget
  <2>1. /\ pc \in {"close", "ai"} /\ pc' \in {"save", "ai_save"} /\ old' = old
    <3>1. CASE ClosePosition
      BY <3>1 DEF ClosePosition, Goto, locals
    <3>2. CASE AiClose
      BY <3>2 DEF AiClose, Goto, locals
    <3>3. CASE AiStop
      BY <3>3 DEF AiStop, Goto, locals
    <3>4. CASE AiTarget
      BY <3>4 DEF AiTarget, Goto, locals
    <3>5. QED
      BY <1>25, <3>1, <3>2, <3>3, <3>4
  <2>2. QED
    BY <1>3, <2>1
<1>26. CASE SaveTracker
  <2>1. pc \in {"save", "ai_save"} /\ old' = old
    BY <1>26 DEF SaveTracker, locals
  <2>2. pc' = "ai" \/ (pc' = "idle" /\ trk' = disk')
    BY <1>26 DEF SaveTracker, Goto
  <2>3. QED
    BY <1>3, <1>4, <2>1, <2>2
<1>27. CASE NoInstruction \/ Crash
  <2>1. /\ pc' = "idle" /\ trk' = disk' 
        /\ old' = {} \/ (old' = old /\ pc # "swap")
    <3>1. CASE NoInstruction
      BY <3>1 DEF NoInstruction, Goto
    <3>2. CASE Crash
      BY <3>2 DEF Crash, Goto
    <3>3. QED
      BY <1>27, <3>1, <3>2
  <2>2. QED
    BY <1>4, <2>1
<1>28. CASE Market
  <2>1. /\ pc' = pc /\ trk' = trk /\ disk' = disk /\ old' = old /\ seen' = seen
        /\ outcome' = outcome
    BY <1>28 DEF Market
  <2>2. pc \in live => ex'.size <= seen
    BY <1>1, <1>2
  <2>3. QED
    BY <1>1, <2>1, <2>2 DEF StageInv
<1>29. QED
  BY <1>7, <1>8, <1>10, <1>11, <1>12, <1>13, <1>14, <1>16, <1>17, <1>18, <1>19, <1>20, <1>21,
     <1>22, <1>23, <1>24, <1>25, <1>26, <1>27, <1>28 DEF ProtectionNext, CycleStep

LEMMA BaseStart == ProtectionInit => Base
<1> SUFFICES ASSUME ProtectionInit PROVE Base
  OBVIOUS
<1>1. PICK s \in Sizes :
        ex = [size |-> s, legs |-> {[id |-> 1, sz |-> s, tp |-> SecondTp, sl |-> InitialStop]}]
  BY DEF ProtectionInit
<1>2. s \in Nat \ {0}
  BY ProtectionAssumption
<1>3. [id |-> 1, sz |-> s, tp |-> SecondTp, sl |-> InitialStop] \in Leg
  BY <1>2, ConstantTypes DEF Leg, LegId
<1>4. ex \in [size : Nat, legs : SUBSET Leg] /\ IsFiniteSet(ex.legs)
  BY <1>1, <1>2, <1>3, FS_Singleton
<1>5. \A l, m \in ex.legs : l.id = m.id => l = m
  BY <1>1
<1>6. px \in Price /\ mkt \in Price \cup {0} /\ seen \in Nat /\ faults \in 0..MaxFaults
  BY ConstantTypes DEF ProtectionInit, Price
<1>7. ProtectionTypeOK
  BY <1>4, <1>5, <1>6 DEF ProtectionInit, ProtectionTypeOK, Steps, Outcomes
<1>8. FiniteInv /\ StageInv
  BY <1>4, ClosedTracker, FS_EmptySet DEF ProtectionInit, FiniteInv, StageInv, Staged
<1>9. QED
  BY <1>7, <1>8 DEF Base

LEMMA BaseStep == Base /\ [ProtectionNext]_protectionVars => Base'
<1> SUFFICES ASSUME Base, [ProtectionNext]_protectionVars PROVE Base'
  OBVIOUS
<1>1. CASE UNCHANGED protectionVars
  BY <1>1 DEF protectionVars, Base, ProtectionTypeOK, FiniteInv, StageInv
<1>2. CASE ProtectionNext
  <2>1. Proper(ex') /\ faults' \in 0..MaxFaults /\ StageInv'
    BY <1>2, ExchangeStep, FaultsStep, StageStep
  <2>2. Typed(trk') /\ Typed(disk')
    <3>1. Typed(trk) /\ Typed(disk)
      BY Held
    <3>2. CASE Booked
      BY <3>1, <3>2, BookedFacts
    <3>3. CASE ReadPosition \/ SaveTracker \/ NoInstruction \/ Crash
      BY <3>3, ReloadFacts
    <3>4. CASE HardStop
      BY <3>1, <3>4, HardStopFacts
    <3>5. CASE RetryStale \/ SwapLegs \/ PlaceLegs
      BY <3>1, <3>5, LegsFacts
    <3>6. CASE AiTarget
      <4>1. trk.open /\ disk' = disk
        BY <3>6 DEF AiTarget
      <4>2. trk' \in Tracker /\ trk'.stale = trk.stale
        BY <3>6, AiTargetEvolves
      <4>3. QED
        BY <3>1, <4>1, <4>2 DEF Typed
    <3>7. QED
      BY <1>2, <3>2, <3>3, <3>4, <3>5, <3>6 DEF ProtectionNext, CycleStep, Booked
  <2>3. /\ px' \in Price /\ mkt' \in Price \cup {0} /\ seen' \in Nat
        /\ pc' \in Steps /\ outcome' \in Outcomes
        /\ old' \subseteq LegId /\ IsFiniteSet(old')
    BY <1>2, PlainTypes
  <2>4. ProtectionTypeOK'
    BY <2>1, <2>2, <2>3 DEF ProtectionTypeOK, Proper, Typed
  <2>5. FiniteInv'
    BY <2>1, <2>2, <2>3 DEF FiniteInv, Proper, Typed
  <2>6. QED
    BY <2>1, <2>4, <2>5 DEF Base
<1>3. QED
  BY <1>1, <1>2

(* The exchange's record, both trackers and the cycle's own variables keep  *)
(* their types: in particular no two live legs share an id, and no step     *)
(* sells more than the position holds.                                      *)
THEOREM ProtectionTypeCorrect == ProtectionSpec => []ProtectionTypeOK
<1>1. Base => ProtectionTypeOK
  BY DEF Base
<1>2. QED
  BY <1>1, BaseStart, BaseStep, PTL DEF ProtectionSpec

-----------------------------------------------------------------------------
(* The stop the cycle itself enforces.                                     *)

(* Every tracker has a stop above zero, so the hard stop is never without   *)
(* one; past the hard stop the price read is above it.                      *)
Stopped(T) == T.open => T.stop > 0
StopInv ==
  /\ Stopped(disk) /\ Stopped(trk)
  /\ pc \in {"ensure", "legs", "swap", "trail"} => mkt > trk.stop
  /\ pc = "save" /\ outcome = "watching" => trk.open /\ mkt > trk.stop

LEMMA StopStart == ProtectionInit => StopInv
BY ClosedTracker DEF ProtectionInit, StopInv, Stopped

(* Most steps leave the stop alone and end before the hard stop or after    *)
(* the trailing one. *)
LEMMA StopElsewhere ==
  ASSUME Base, StopInv, Stopped(trk'), disk' \in {disk, trk},
         pc' \notin {"ensure", "legs", "swap", "trail"},
         pc' = "save" => outcome' # "watching"
  PROVE  StopInv'
BY DEF StopInv

LEMMA StopStays ==
  ASSUME Base, StopInv, trk' = trk, disk' = disk, mkt' = mkt, outcome' = outcome,
         pc' \in {"ensure", "legs", "swap", "trail"} => pc \in {"ensure", "legs", "swap", "trail"},
         pc' = "save" => pc = "save"
  PROVE  StopInv'
BY DEF StopInv

LEMMA StopStep == Base /\ StopInv /\ [ProtectionNext]_protectionVars => StopInv'
<1> SUFFICES ASSUME Base, StopInv, [ProtectionNext]_protectionVars PROVE StopInv'
  OBVIOUS
<1> DEFINE past == {"ensure", "legs", "swap", "trail"}
<1>1. /\ Stopped(disk) /\ Stopped(trk) /\ Stopped(NoTracker)
      /\ pc \in past => mkt > trk.stop
      /\ outcome = "watching" => pc \in {"save", "ai", "ai_save", "idle"}
  BY ClosedTracker DEF StopInv, Stopped, Base, StageInv
<1>2. ASSUME NEW stop \in Nat, stop > 0, pc \in Staged, trk' = ScaledOut(trk, stop)
      PROVE  Stopped(trk')
  BY <1>2, TrackerInHand DEF ScaledOut, Tracker, Stopped
<1>3. CASE UNCHANGED protectionVars
  BY <1>3, StopStays DEF protectionVars
<1>4. CASE ReadPosition
  <2>1. Stopped(trk') /\ disk' = disk /\ pc' \notin past /\ outcome' # "watching"
    BY <1>1, <1>4 DEF ReadPosition, Goto
  <2>2. QED
    BY <2>1, StopElsewhere
<1>5. CASE ReadPrice
  <2>1. trk' = trk /\ disk' = disk /\ pc' \notin past /\ (pc' = "save" => outcome' # "watching")
    BY <1>5 DEF ReadPrice, Goto
  <2>2. QED
    BY <1>1, <2>1, StopElsewhere
<1>6. CASE NoScaleOut
  <2>1. /\ pc \in Staged /\ trk' \in {trk, [trk EXCEPT !.phase = -1]} /\ disk' = disk
        /\ pc' = "guard"
    BY <1>6 DEF NoScaleOut, Goto, Staged
  <2>2. Stopped(trk')
    BY <1>1, <2>1, TrackerInHand DEF Tracker, Stopped
  <2>3. QED
    BY <2>1, <2>2, StopElsewhere
<1>7. CASE SellFirstPart
  <2>1. /\ pc \in Staged /\ disk' = disk /\ pc' \in {"guard", "confirm"}
        /\ \/ trk' = trk
           \/ \E fill : trk' = [trk EXCEPT !.pend = [orig |-> seen, filled |-> fill]]
    BY <1>7 DEF SellFirstPart, Goto, Staged
  <2>2. Stopped(trk')
    BY <1>1, <2>1, TrackerInHand DEF Tracker, Stopped
  <2>3. QED
    BY <2>1, <2>2, StopElsewhere
<1>8. CASE ResumeSale
  <2>1. trk' = trk /\ disk' = disk /\ pc' = "confirm"
    BY <1>8 DEF ResumeSale, Goto
  <2>2. QED
    BY <1>1, <2>1, StopElsewhere
<1>9. CASE ConfirmSale
  <2>1. /\ pc \in Staged /\ disk' = disk /\ pc' \in {"save", "guard", "clear"} /\ pc = "confirm"
        /\ \/ trk' = trk \/ trk' = NoTracker
           \/ \E ph : trk' = [trk EXCEPT !.pend = NotPending, !.phase = ph]
        /\ outcome' \in {outcome, "closed", "pending"}
    BY <1>9 DEF ConfirmSale, Goto, Staged
  <2>2. Stopped(trk') /\ outcome' # "watching"
    BY <1>1, <2>1, TrackerInHand DEF Tracker, Stopped
  <2>3. QED
    BY <2>1, <2>2, StopElsewhere
<1>10. CASE ClearLegs
  <2>1. trk' = trk /\ disk' = disk /\ pc' = "reprotect"
    BY <1>10 DEF ClearLegs, Goto
  <2>2. QED
    BY <1>1, <2>1, StopElsewhere
<1>11. CASE Reprotect
  <2>1. /\ pc \in Staged /\ disk' = disk /\ pc' = "guard"
        /\ trk' = ScaledOut(trk, Most(Breakeven, trk.stop))
    BY <1>11 DEF Reprotect, Goto, Staged
  <2>2. Most(Breakeven, trk.stop) \in Nat /\ Most(Breakeven, trk.stop) > 0
    BY <2>1, TrackerInHand, ConstantTypes DEF Most
  <2>3. QED
    BY <1>2, <2>1, <2>2, StopElsewhere
<1>12. CASE FinalizeLegFill
  <2>1. trk' = trk /\ disk' = disk /\ pc' = "push"
    BY <1>12 DEF FinalizeLegFill, Goto
  <2>2. QED
    BY <1>1, <2>1, StopElsewhere
<1>13. CASE PushStops
  <2>1. pc \in Staged /\ disk' = disk /\ pc' = "guard" /\ trk' = ScaledOut(trk, Breakeven)
    BY <1>13 DEF PushStops, Goto, Staged
  <2>2. QED
    BY <1>2, <2>1, ConstantTypes, StopElsewhere
<1>14. CASE HardStop
  <2>1. /\ disk' = disk /\ trk'.open /\ trk' \in Tracker
        /\ trk.open => trk'.stop = trk.stop
        /\ ~trk.open => trk'.stop = InitialStop
        /\ pc' = IF mkt <= trk'.stop /\ trk'.stop > 0 THEN "close" ELSE "ensure"
    BY <1>14, HardStopFacts
  <2>2. mkt' = mkt /\ mkt \in Nat /\ trk'.stop \in Nat /\ pc' # "save"
    BY <1>14, <2>1, Held DEF HardStop, locals, Tracker
  <2>3. trk'.stop > 0
    BY <1>1, <2>1, ConstantTypes DEF Stopped
  <2>4. pc' \in past => mkt' > trk'.stop
    BY <2>1, <2>2, <2>3
  <2>5. QED
    BY <1>1, <2>1, <2>2, <2>3, <2>4 DEF StopInv, Stopped
<1>15. CASE EnsureProtection
  <2>1. pc = "ensure" /\ pc' # "save" /\ trk' = trk /\ disk' = disk /\ mkt' = mkt /\ outcome' = outcome
    BY <1>15 DEF EnsureProtection, Goto, locals
  <2>2. QED
    BY <2>1, StopStays
<1>16. CASE RetryStale \/ SwapLegs \/ PlaceLegs
  <2>1. pc \in past /\ pc' \in past /\ mkt' = mkt
    <3>1. CASE RetryStale
      BY <3>1 DEF RetryStale, Goto, locals
    <3>2. CASE SwapLegs
      BY <3>2 DEF SwapLegs, Goto
    <3>3. CASE PlaceLegs
      BY <3>3 DEF PlaceLegs, Goto
    <3>4. QED
      BY <1>16, <3>1, <3>2, <3>3
  <2>2. disk' = disk /\ trk.open /\ trk'.open /\ trk'.stop = trk.stop
    BY <1>16, LegsFacts
  <2>3. QED
    BY <1>1, <2>1, <2>2 DEF StopInv, Stopped
<1>17. CASE KeepLegs
  <2>1. /\ pc = "legs" /\ pc' = "trail" /\ trk' = trk /\ disk' = disk /\ mkt' = mkt
        /\ outcome' = outcome
    BY <1>17 DEF KeepLegs, Goto, locals
  <2>2. QED
    BY <2>1, StopStays
<1>18. CASE TimeStop
  <2>1. trk' = trk /\ disk' = disk /\ pc' = "close"
    BY <1>18 DEF TimeStop, Goto
  <2>2. QED
    BY <1>1, <2>1, StopElsewhere
<1>19. CASE Trail
  <2> DEFINE floor == Ratcheted(trk.stop, trk.hwm)
  <2>1. /\ pc = "trail" /\ pc \in Staged /\ disk' = disk /\ mkt' = mkt
        /\ trk' = [trk EXCEPT !.stop = floor]
        /\ \/ pc' = "close"
           \/ pc' = "save" /\ ~(mkt <= floor /\ trk.hwm >= FirstTier)
    BY <1>19 DEF Trail, Goto, locals, Staged
  <2>2. /\ trk.open /\ trk \in Tracker /\ trk.stop \in Nat /\ trk.hwm \in Nat /\ mkt \in Nat
        /\ mkt > trk.stop /\ trk.stop > 0
    BY <1>1, <2>1, TrackerInHand, Held DEF Stopped
  <2>3. floor \in Nat /\ floor > 0 /\ (trk.hwm < FirstTier => floor = trk.stop)
    BY <2>2, ConstantTypes DEF Ratcheted, Most
  <2>4. trk'.open /\ trk'.stop = floor
    BY <2>1, <2>2 DEF Tracker
  <2>5. pc' = "save" => mkt > floor
    BY <2>1, <2>2, <2>3, ConstantTypes
  <2> HIDE DEF floor
  <2>6. QED
    BY <1>1, <2>1, <2>3, <2>4, <2>5 DEF StopInv, Stopped
<1>20. CASE ClosePosition
  <2>1. trk' \in {trk, NoTracker} /\ disk' = disk /\ pc' = "save" /\ outcome' # "watching"
    BY <1>20 DEF ClosePosition, Goto
  <2>2. QED
    BY <1>1, <2>1, StopElsewhere
<1>21. CASE SaveTracker
  <2>1. pc' \in {"ai", "idle"} /\ disk' \in {disk, trk} /\ trk' \in {trk, disk'}
    BY <1>21 DEF SaveTracker, Goto
  <2>2. QED
    BY <1>1, <2>1, StopElsewhere
<1>22. CASE NoInstruction
  <2>1. pc' = "idle" /\ disk' = disk /\ trk' = disk
    BY <1>22 DEF NoInstruction, Goto
  <2>2. QED
    BY <1>1, <2>1, StopElsewhere
<1>23. CASE AiClose
  <2>1. trk' \in {trk, NoTracker} /\ disk' = disk /\ pc' = "ai_save"
    BY <1>23 DEF AiClose, Goto
  <2>2. QED
    BY <1>1, <2>1, StopElsewhere
<1>24. CASE AiStop
  <2>1. disk' = disk /\ pc' = "ai_save"
    BY <1>24 DEF AiStop, Goto
  <2>2. PICK stop \in Price : \/ trk' = trk
                              \/ trk.open /\ trk' = [trk EXCEPT !.stop = stop]
    BY <1>24 DEF AiStop
  <2>3. stop > 0
    BY ConstantTypes DEF Price
  <2>4. trk.open => trk \in Tracker
    BY Held DEF SameGuard
  <2>5. Stopped(trk')
    BY <1>1, <2>2, <2>3, <2>4 DEF Stopped, Tracker
  <2>6. QED
    BY <2>1, <2>5, StopElsewhere
<1>25. CASE AiTarget
  <2>1. disk' = disk /\ pc' = "ai_save" /\ trk.open
    BY <1>25 DEF AiTarget, Goto
  <2>2. trk'.stop = trk.stop
    BY <1>25, AiTargetEvolves
  <2>3. QED
    BY <1>1, <2>1, <2>2, StopElsewhere DEF Stopped
<1>26. CASE Market
  BY <1>26, StopStays DEF Market
<1>27. CASE Crash
  <2>1. pc' = "idle" /\ disk' = disk /\ trk' = disk
    BY <1>27 DEF Crash, Goto
  <2>2. QED
    BY <1>1, <2>1, StopElsewhere
<1>28. QED
  BY <1>3, <1>4, <1>5, <1>6, <1>7, <1>8, <1>9, <1>10, <1>11, <1>12, <1>13, <1>14, <1>15,
     <1>16, <1>17, <1>18, <1>19, <1>20, <1>21, <1>22, <1>23, <1>24, <1>25, <1>26, <1>27
     DEF ProtectionNext, CycleStep

(* A stage that reports a watched position has read a price above the stop  *)
(* in its tracker: the local stop acts, whatever became of the legs.        *)
THEOREM LocalStopActsCorrect == ProtectionSpec => []LocalStopActs
<1>1. ProtectionInit => Base /\ StopInv
  BY BaseStart, StopStart
<1>2. Base /\ StopInv /\ [ProtectionNext]_protectionVars => Base' /\ StopInv'
  BY BaseStep, StopStep
<1>3. StopInv => LocalStopActs
  BY DEF StopInv, LocalStopActs
<1>4. QED
  BY <1>1, <1>2, <1>3, PTL DEF ProtectionSpec

(* The stage itself never lowers the tracker's stop, save where it finalises *)
(* an executed leg: not when a repair or a cancellation fails, not when it   *)
(* is started anew from the file.                                            *)
THEOREM StopOnlyRisesCorrect == ProtectionSpec => StopOnlyRises
<1> DEFINE Rise == trk.open /\ trk'.open /\ pc' # "idle" /\ pc \notin {"push", "ai"}
                     => trk'.stop >= trk.stop
<1>1. ASSUME Base, [ProtectionNext]_protectionVars PROVE [Rise]_protectionVars
  <2>1. SUFFICES ASSUME ProtectionNext, trk.open, trk'.open, pc' # "idle", pc \notin {"push", "ai"}
                 PROVE  trk'.stop >= trk.stop
    BY <1>1
  <2>2. trk \in Tracker /\ trk.stop \in Nat
    BY <1>1, <2>1, Held, TrackerFacts DEF Typed
  <2>3. CASE trk'.stop = trk.stop
    BY <2>2, <2>3
  <2>4. CASE trk' = trk
    BY <2>2, <2>4
  <2>5. CASE trk' = NoTracker
    BY <2>1, <2>5, ClosedTracker
  <2>6. CASE ReadPosition
    BY <1>1, <2>2, <2>5, <2>6 DEF ReadPosition, Base, StageInv
  <2>7. CASE NoScaleOut
    <3>1. trk' = trk \/ trk' = [trk EXCEPT !.phase = -1]
      BY <2>7 DEF NoScaleOut
    <3>2. QED
      BY <2>2, <2>3, <3>1 DEF Tracker
  <2>8. CASE SellFirstPart
    <3>1. \/ trk' = trk
          \/ \E fill : trk' = [trk EXCEPT !.pend = [orig |-> seen, filled |-> fill]]
      BY <2>8 DEF SellFirstPart
    <3>2. QED
      BY <2>2, <2>3, <3>1 DEF Tracker
  <2>9. CASE ConfirmSale
    <3>1. \/ trk' = trk \/ trk' = NoTracker
          \/ \E ph : trk' = [trk EXCEPT !.pend = NotPending, !.phase = ph]
      BY <2>9 DEF ConfirmSale
    <3>2. QED
      BY <2>2, <2>3, <2>5, <3>1 DEF Tracker
  <2>10. CASE Reprotect
    <3>1. trk' = ScaledOut(trk, Most(Breakeven, trk.stop))
      BY <2>10 DEF Reprotect
    <3>2. trk'.stop = Most(Breakeven, trk.stop)
      BY <2>2, <3>1 DEF ScaledOut, Tracker
    <3>3. QED
      BY <2>2, <3>2, ConstantTypes DEF Most
  <2>11. CASE HardStop
    BY <1>1, <2>1, <2>3, <2>11, HardStopFacts
  <2>12. CASE RetryStale \/ SwapLegs \/ PlaceLegs
    BY <1>1, <2>3, <2>12, LegsFacts
  <2>13. CASE Trail
    <3>1. trk' = [trk EXCEPT !.stop = Ratcheted(trk.stop, trk.hwm)]
      BY <2>13 DEF Trail
    <3>2. trk'.stop = Ratcheted(trk.stop, trk.hwm)
      BY <2>2, <3>1 DEF Tracker
    <3>3. QED
      BY <2>2, <3>2, ConstantTypes DEF Ratcheted, Most
  <2>14. CASE ClosePosition
    BY <2>4, <2>5, <2>14 DEF ClosePosition
  <2>15. CASE SaveTracker
    BY <2>1, <2>4, <2>15 DEF SaveTracker, Goto
  <2>16. CASE ReadPrice \/ ResumeSale \/ ClearLegs \/ FinalizeLegFill \/ EnsureProtection
                \/ KeepLegs \/ TimeStop \/ Market
    BY <2>4, <2>16 DEF ReadPrice, ResumeSale, ClearLegs, FinalizeLegFill, EnsureProtection,
                       KeepLegs, TimeStop, Market
  <2>17. CASE PushStops \/ NoInstruction \/ AiClose \/ AiStop \/ AiTarget \/ Crash
    BY <2>1, <2>17 DEF PushStops, NoInstruction, AiClose, AiStop, AiTarget, Crash, Goto
  <2>18. QED
    BY <2>1, <2>6, <2>7, <2>8, <2>9, <2>10, <2>11, <2>12, <2>13, <2>14, <2>15, <2>16, <2>17
       DEF ProtectionNext, CycleStep
<1>2. Base /\ [ProtectionNext]_protectionVars => [Rise]_protectionVars
  BY <1>1
<1>3. QED
  BY <1>2, BaseStart, BaseStep, PTL DEF ProtectionSpec, StopOnlyRises

-----------------------------------------------------------------------------
(* Coverage.                                                               *)

(* Legs that are to be cancelled are not needed: they are gone, or the      *)
(* others cover the position.  What a stage holds on this in memory and in  *)
(* the file may differ only if the file's legs are gone.                    *)
Spare(e, S) == LiveIds(e) \cap S = {} \/ Enough(e, S, 0)
StaleInv ==
  /\ disk.open => Spare(ex, disk.stale)
  /\ trk.open => Spare(ex, trk.stale)
  /\ disk.open /\ trk.open => disk.stale = trk.stale \/ LiveIds(ex) \cap disk.stale = {}
  /\ pc = "swap" => trk.stale = {} /\ Enough(ex, old, 0)

Watched == outcome = "watching" \/ pc \in {"legs", "swap", "trail"}
CoverInv == Watched => Enough(ex, {}, 0)

LEMMA CoverStart == ProtectionInit => StaleInv /\ CoverInv
BY ClosedTracker DEF ProtectionInit, StaleInv, CoverInv, Watched

LEMMA SpareEvolves ==
  ASSUME NEW e, NEW d, NEW I, NEW S, Evolves(e, d, I), S \subseteq I, S \subseteq LegId, Spare(e, S)
  PROVE  Spare(d, S)
<1>1. CASE LiveIds(e) \cap S = {}
  BY <1>1 DEF Evolves, Spare
<1>2. CASE Enough(e, S, 0)
  <2>1. Enough(d, S, 0)
    BY <1>2 DEF Evolves
  <2>2. QED
    BY <2>1 DEF Spare
<1>3. QED
  BY <1>1, <1>2 DEF Spare

LEMMA SpareCovered ==
  ASSUME NEW e, NEW S, Spare(e, S), Enough(e, {}, 0)
  PROVE  Enough(e, S, 0)
<1>1. CASE LiveIds(e) \cap S = {}
  <2>1. Kept(e, S) = Kept(e, {})
    BY <1>1 DEF Kept, LiveIds
  <2>2. QED
    BY <2>1 DEF Enough
<1>2. QED
  BY <1>1 DEF Spare

LEMMA StaleIds ==
  ASSUME Base
  PROVE  /\ disk.open => disk.stale \subseteq Mentioned /\ disk.stale \subseteq LegId
         /\ trk.open => trk.stale \subseteq Mentioned /\ trk.stale \subseteq LegId
         /\ old \subseteq Mentioned /\ old \subseteq LegId
         /\ LiveIds(ex) \subseteq Mentioned
         /\ LiveIds(ex) \subseteq LegId
<1>1. old \subseteq LegId
  BY DEF Base, ProtectionTypeOK
<1>2. /\ disk.open => disk.stale \in SUBSET LegId
      /\ trk.open => trk.stale \in SUBSET LegId
  BY Held, TrackerFacts DEF Typed
<1>3. QED
  BY <1>1, <1>2, BaseFacts, LiveIdsFinite

(* Cancelling legs that are not needed uncovers nothing. *)
LEMMA CancelCovers ==
  ASSUME Base, NEW ids, CancelWorks(ids) \/ CancelFails(ids)
  PROVE  /\ LiveIds(ex') \subseteq LiveIds(ex)
         /\ ex' = ex \/ LiveIds(ex') \cap ids = {}
         /\ CancelWorks(ids) => LiveIds(ex') \cap ids = {}
         /\ Enough(ex, {}, 0) /\ Spare(ex, ids) => Enough(ex', {}, 0)
<1>1. /\ ex'.legs \subseteq ex.legs
      /\ ex' = ex \/ (/\ LiveIds(ex') \cap ids = {}
                      /\ \A S : \A n \in Nat : Enough(ex, S \cup ids, n) => Enough(ex', S, n))
      /\ CancelWorks(ids) => LiveIds(ex') \cap ids = {}
  BY CancelFacts
<1>2. LiveIds(ex') \subseteq LiveIds(ex)
  BY <1>1 DEF LiveIds
<1>3. ASSUME Enough(ex, {}, 0), Spare(ex, ids) PROVE Enough(ex', {}, 0)
  <2>1. Enough(ex, ids, 0)
    BY <1>3, SpareCovered
  <2>2. {} \cup ids = ids
    OBVIOUS
  <2>3. Enough(ex, {} \cup ids, 0)
    BY <2>1, <2>2
  <2>4. QED
    BY <1>1, <1>3, <2>3
<1>4. QED
  BY <1>1, <1>2, <1>3

(* What the trackers of both places are to the trackers before the step,    *)
(* for every step but those of sync_position_legs.                          *)
LEMMA GuardsCarried ==
  ASSUME Base, ProtectionNext, ~(RetryStale \/ SwapLegs \/ PlaceLegs \/ AiTarget)
  PROVE  /\ disk' \in {disk, trk}
         /\ \/ disk' = disk /\ (trk' = NoTracker \/ SameGuard(trk, trk'))
            \/ disk' = disk /\ trk'.open /\ trk'.leg1 = 0 /\ trk'.leg2 = 0 /\ trk'.stale = {} /\ ~disk.open
            \/ Reloaded
<1>1. CASE Booked
  BY <1>1, BookedFacts
<1>2. CASE ReadPosition \/ SaveTracker \/ NoInstruction \/ Crash
  BY <1>2, ReloadFacts DEF Reloaded
<1>3. CASE HardStop
  BY <1>3, HardStopFacts
<1>4. QED
  BY <1>1, <1>2, <1>3 DEF ProtectionNext, CycleStep, Booked

LEMMA StaleCarried ==
  ASSUME Base, StaleInv, ProtectionNext, ~(RetryStale \/ SwapLegs \/ PlaceLegs)
  PROVE  /\ disk'.open => disk'.stale = {} \/ (disk.open /\ disk'.stale = disk.stale)
                          \/ (trk.open /\ disk'.stale = trk.stale)
         /\ trk'.open => trk'.stale = {} \/ (disk.open /\ trk'.stale = disk.stale)
                         \/ (trk.open /\ trk'.stale = trk.stale)
         /\ disk'.open /\ trk'.open => \/ disk'.stale = trk'.stale
                                       \/ /\ disk.open /\ disk'.stale = disk.stale
                                          /\ trk.open /\ trk'.stale = trk.stale
<1>1. CASE AiTarget
  <2>1. trk.open /\ disk' = disk /\ trk'.stale = trk.stale
    BY <1>1, AiTargetEvolves DEF AiTarget
  <2>2. QED
    BY <2>1
<1>2. CASE ~AiTarget
  <2>1. CASE disk' = disk /\ (trk' = NoTracker \/ SameGuard(trk, trk'))
    BY <2>1, ClosedTracker DEF SameGuard
  <2>2. CASE disk' = disk /\ trk'.open /\ trk'.stale = {} /\ ~disk.open
    BY <2>2
  <2>3. CASE Reloaded
    BY <2>3, ClosedTracker DEF Reloaded
  <2>4. QED
    BY <1>2, <2>1, <2>2, <2>3, GuardsCarried
<1>3. QED
  BY <1>1, <1>2

LEMMA SwapComesFrom ==
  ASSUME Base, ProtectionNext, pc' = "swap"
  PROVE  PlaceLegs \/ (Market /\ pc = "swap" /\ old' = old /\ trk' = trk)
<1>1. ~(ReadPosition \/ ReadPrice \/ NoScaleOut \/ SellFirstPart \/ ResumeSale \/ ConfirmSale)
  BY DEF ReadPosition, ReadPrice, NoScaleOut, SellFirstPart, ResumeSale, ConfirmSale, Goto
<1>2. ~(ClearLegs \/ Reprotect \/ FinalizeLegFill \/ PushStops \/ HardStop \/ EnsureProtection)
  BY DEF ClearLegs, Reprotect, FinalizeLegFill, PushStops, HardStop, EnsureProtection, Goto
<1>3. ~(RetryStale \/ KeepLegs \/ SwapLegs \/ TimeStop \/ Trail \/ ClosePosition)
  BY DEF RetryStale, KeepLegs, SwapLegs, TimeStop, Trail, ClosePosition, Goto
<1>4. ~(SaveTracker \/ NoInstruction \/ AiClose \/ AiStop \/ Crash)
  BY DEF SaveTracker, NoInstruction, AiClose, AiStop, Crash, Goto
<1>5. ~AiTarget
  BY DEF AiTarget, Goto
<1>6. PlaceLegs \/ Market
  BY <1>1, <1>2, <1>3, <1>4, <1>5 DEF ProtectionNext, CycleStep
<1>7. QED
  BY <1>6 DEF Market

LEMMA StaleStep == Base /\ StaleInv /\ CoverInv /\ [ProtectionNext]_protectionVars => StaleInv'
<1> SUFFICES ASSUME Base, StaleInv, CoverInv, [ProtectionNext]_protectionVars PROVE StaleInv'
  OBVIOUS
<1>1. CASE UNCHANGED protectionVars
  BY <1>1 DEF protectionVars, StaleInv, Spare, Enough, Kept, LiveIds
<1>2. ASSUME ProtectionNext, ~(RetryStale \/ SwapLegs \/ ClearLegs)
      PROVE  /\ Evolves(ex, ex', Mentioned) /\ Spare(ex', {})
             /\ disk.open => Spare(ex', disk.stale)
             /\ trk.open => Spare(ex', trk.stale)
             /\ disk.open /\ LiveIds(ex) \cap disk.stale = {} => LiveIds(ex') \cap disk.stale = {}
  <2>1. Evolves(ex, ex', Mentioned)
    BY <1>2, ExchangeStep
  <2>2. disk.open => Spare(ex', disk.stale)
    BY <2>1, StaleIds, SpareEvolves DEF StaleInv
  <2>3. trk.open => Spare(ex', trk.stale)
    BY <2>1, StaleIds, SpareEvolves DEF StaleInv
  <2>4. disk.open /\ LiveIds(ex) \cap disk.stale = {} => LiveIds(ex') \cap disk.stale = {}
    BY <2>1, StaleIds DEF Evolves
  <2>5. QED
    BY <2>1, <2>2, <2>3, <2>4 DEF Spare
<1>3. CASE ProtectionNext /\ ~(RetryStale \/ SwapLegs \/ ClearLegs \/ PlaceLegs)
  <2>1. /\ disk'.open => Spare(ex', disk'.stale)
        /\ trk'.open => Spare(ex', trk'.stale)
        /\ disk'.open /\ trk'.open => disk'.stale = trk'.stale \/ LiveIds(ex') \cap disk'.stale = {}
    BY <1>2, <1>3, StaleCarried DEF StaleInv
  <2>2. ASSUME pc' = "swap" PROVE trk'.stale = {} /\ Enough(ex', old', 0)
    <3>1. pc = "swap" /\ old' = old /\ trk' = trk
      BY <1>3, <2>2, SwapComesFrom
    <3>2. Enough(ex', old, 0)
      BY <1>2, <1>3, <3>1, StaleIds DEF Evolves, StaleInv
    <3>3. QED
      BY <3>1, <3>2 DEF StaleInv
  <2>3. QED
    BY <2>1, <2>2 DEF StaleInv
<1>4. CASE ClearLegs
  <2>1. pc' # "swap" /\ trk' = trk /\ disk' = disk
    BY <1>4 DEF ClearLegs, Goto
  <2>2. ex' = ex \/ LiveIds(ex') = {}
    <3>1. ex' = ex \/ ex' = [ex EXCEPT !.legs = {}]
      BY <1>4 DEF ClearLegs
    <3>2. Proper(ex)
      BY BaseFacts
    <3>3. QED
      BY <3>1, <3>2 DEF LiveIds, Proper
  <2>3. CASE ex' = ex
    BY <2>1, <2>3 DEF StaleInv
  <2>4. CASE LiveIds(ex') = {}
    BY <2>1, <2>4 DEF StaleInv, Spare
  <2>5. QED
    BY <2>2, <2>3, <2>4
<1>5. CASE PlaceLegs
  <2>1. disk' = disk /\ trk.open /\ trk'.open /\ pc = "legs" /\ trk.stale = {}
    BY <1>5, LegsFacts DEF PlaceLegs
  <2>2. ProtectionNext /\ ~(RetryStale \/ SwapLegs \/ ClearLegs)
    BY <1>5, <2>1 DEF ProtectionNext, CycleStep, RetryStale, SwapLegs, ClearLegs
  <2>3. trk'.stale = {}
    <3>1. old = {}
      BY <2>1 DEF Base, StageInv
    <3>2. QED
      BY <1>5, <2>1, <3>1, LegsFacts
  <2>4. pc' = "swap" => Enough(ex', old', 0)
    BY <1>5, PlaceLegsEvolves
  <2>5. QED
    BY <1>2, <2>1, <2>2, <2>3, <2>4 DEF StaleInv
<1>6. CASE RetryStale
  <2>1. /\ disk' = disk /\ trk.open /\ trk'.open /\ pc' # "swap"
        /\ \/ CancelWorks(trk.stale) /\ trk' = [trk EXCEPT !.stale = {}]
           \/ CancelFails(trk.stale) /\ trk' = trk
    BY <1>6, LegsFacts DEF RetryStale, Goto
  <2>2. /\ LiveIds(ex') \subseteq LiveIds(ex)
        /\ ex' = ex \/ LiveIds(ex') \cap trk.stale = {}
        /\ CancelWorks(trk.stale) => LiveIds(ex') \cap trk.stale = {}
    BY <2>1, CancelCovers
  <2>3. disk.open => Spare(ex', disk.stale)
    BY <2>1, <2>2 DEF StaleInv, Spare
  <2>4. CASE CancelWorks(trk.stale) /\ trk' = [trk EXCEPT !.stale = {}]
    <3>1. trk'.stale = {}
      BY <2>1, <2>4, Held DEF Tracker
    <3>2. disk.open => LiveIds(ex') \cap disk.stale = {}
      BY <2>1, <2>2, <2>4 DEF StaleInv
    <3>3. QED
      BY <2>1, <2>3, <3>1, <3>2 DEF StaleInv, Spare
  <2>5. CASE trk' = trk
    <3>1. Spare(ex', trk.stale)
      BY <2>1, <2>2 DEF StaleInv, Spare
    <3>2. disk.open => disk.stale = trk.stale \/ LiveIds(ex') \cap disk.stale = {}
      BY <2>1, <2>2 DEF StaleInv
    <3>3. QED
      BY <2>1, <2>3, <2>5, <3>1, <3>2 DEF StaleInv
  <2>6. QED
    BY <2>1, <2>4, <2>5
<1>7. CASE SwapLegs
  <2>1. /\ disk' = disk /\ trk.open /\ trk'.open /\ pc' # "swap" /\ pc = "swap"
        /\ \/ ex' = ex /\ trk' = trk
           \/ CancelWorks(old) /\ trk' = trk
           \/ CancelFails(old) /\ trk' = [trk EXCEPT !.stale = old]
    BY <1>7, LegsFacts DEF SwapLegs, Goto
  <2>2. trk.stale = {} /\ Enough(ex, old, 0) /\ (disk.open => LiveIds(ex) \cap disk.stale = {})
    BY <2>1 DEF StaleInv
  <2>3. CancelWorks(old) \/ CancelFails(old) => /\ LiveIds(ex') \subseteq LiveIds(ex)
                                                /\ ex' = ex \/ LiveIds(ex') \cap old = {}
    BY CancelCovers
  <2>4. disk.open => LiveIds(ex') \cap disk.stale = {}
    BY <2>1, <2>2, <2>3
  <2>5. CASE trk' = trk
    BY <2>1, <2>2, <2>4, <2>5 DEF StaleInv, Spare
  <2>6. CASE CancelFails(old) /\ trk' = [trk EXCEPT !.stale = old]
    <3>1. trk'.stale = old
      BY <2>1, <2>6, Held DEF Tracker
    <3>2. Spare(ex', old)
      BY <2>2, <2>3, <2>6 DEF Spare
    <3>3. QED
      BY <2>1, <2>4, <3>1, <3>2 DEF StaleInv, Spare
  <2>7. QED
    BY <2>1, <2>5, <2>6
<1>8. QED
  BY <1>1, <1>3, <1>4, <1>5, <1>6, <1>7

(* Only a verified repair starts what is taken to be covered. *)
LEMMA WatchedComesFrom ==
  ASSUME Base, ProtectionNext, Watched'
  PROVE  Watched \/ (EnsureProtection /\ pc' # "close")
<1>1. CASE ReadPosition \/ ReadPrice \/ NoScaleOut \/ SellFirstPart \/ ResumeSale \/ ConfirmSale
  BY <1>1 DEF ReadPosition, ReadPrice, NoScaleOut, SellFirstPart, ResumeSale, ConfirmSale,
              Goto, Watched
<1>2. CASE ClearLegs \/ Reprotect \/ FinalizeLegFill \/ PushStops \/ HardStop
  BY <1>2 DEF ClearLegs, Reprotect, FinalizeLegFill, PushStops, HardStop, Goto, Watched
<1>3. CASE EnsureProtection
  BY <1>3 DEF EnsureProtection, Goto, Watched
<1>4. CASE RetryStale \/ KeepLegs \/ PlaceLegs \/ SwapLegs \/ TimeStop \/ Trail
  BY <1>4 DEF RetryStale, KeepLegs, PlaceLegs, SwapLegs, TimeStop, Trail, Watched
<1>5. CASE ClosePosition \/ SaveTracker \/ NoInstruction \/ AiClose \/ AiStop \/ Crash
  BY <1>5 DEF ClosePosition, SaveTracker, NoInstruction, AiClose, AiStop, Crash, Goto, Watched
<1>6. CASE AiTarget
  BY <1>6 DEF AiTarget, Goto, Watched
<1>7. CASE Market
  BY <1>7 DEF Market, Watched
<1>8. QED
  BY <1>1, <1>2, <1>3, <1>4, <1>5, <1>6, <1>7 DEF ProtectionNext, CycleStep

LEMMA CoverStep == Base /\ StaleInv /\ CoverInv /\ [ProtectionNext]_protectionVars => CoverInv'
<1> SUFFICES ASSUME Base, StaleInv, CoverInv, [ProtectionNext]_protectionVars, Watched'
             PROVE  Enough(ex', {}, 0)
  BY DEF CoverInv
<1>1. CASE UNCHANGED protectionVars
  BY <1>1 DEF protectionVars, CoverInv, Watched
<1>2. CASE ProtectionNext
  <2>1. CASE EnsureProtection /\ pc' # "close"
    BY <2>1, GuardsEvolve DEF Guards
  <2>2. ASSUME Watched PROVE Enough(ex', {}, 0)
    <3>1. Enough(ex, {}, 0)
      BY <2>2 DEF CoverInv
    <3>2. CASE Evolves(ex, ex', Mentioned)
      BY <3>1, <3>2 DEF Evolves
    <3>3. CASE ClearLegs
      <4>1. pc = "clear" /\ outcome # "watching"
        BY <3>3 DEF ClearLegs, Base, StageInv
      <4>2. QED
        BY <2>2, <4>1 DEF Watched
    <3>4. CASE RetryStale
      <4>1. trk.open /\ (CancelWorks(trk.stale) \/ CancelFails(trk.stale))
        BY <3>4, LegsFacts DEF RetryStale
      <4>2. QED
        BY <3>1, <4>1, CancelCovers DEF StaleInv
    <3>5. CASE SwapLegs
      <4>1. pc = "swap" /\ (ex' = ex \/ CancelWorks(old) \/ CancelFails(old))
        BY <3>5 DEF SwapLegs
      <4>2. Spare(ex, old)
        BY <4>1 DEF StaleInv, Spare
      <4>3. CASE ex' = ex
        BY <3>1, <4>3
      <4>4. QED
        BY <3>1, <4>1, <4>2, <4>3, CancelCovers
    <3>6. QED
      BY <1>2, <3>2, <3>3, <3>4, <3>5, ExchangeStep
  <2>3. QED
    BY <1>2, <2>1, <2>2, WatchedComesFrom
<1>3. QED
  BY <1>1, <1>2

(* What the position stage reports as watched is covered in full by live    *)
(* legs from then until the next stage: through prices that execute legs,   *)
(* failed repairs, cancellations that fail halfway, and crashes.            *)
THEOREM WatchedIsCoveredCorrect == ProtectionSpec => []WatchedIsCovered
<1>1. ProtectionInit => Base /\ StaleInv /\ CoverInv
  BY BaseStart, CoverStart
<1>2. Base /\ StaleInv /\ CoverInv /\ [ProtectionNext]_protectionVars
        => Base' /\ StaleInv' /\ CoverInv'
  BY BaseStep, StaleStep, CoverStep
<1>3. Base /\ CoverInv => WatchedIsCovered
  <2> SUFFICES ASSUME Base, CoverInv, outcome = "watching" PROVE Covered
    BY DEF WatchedIsCovered
  <2>1. Enough(ex, {}, 0)
    BY DEF CoverInv, Watched
  <2>2. QED
    BY <2>1, BaseFacts, CoveredMeans
<1>4. QED
  BY <1>1, <1>2, <1>3, PTL DEF ProtectionSpec

-----------------------------------------------------------------------------
(* The roles of the two registered legs.                                   *)

(* The far leg of a tracker lies at the far target or beyond, the near one  *)
(* before it; memory and file name the same legs or legs apart.             *)
Roles(T) == T.open => (T.leg1 # T.leg2 \/ T.leg1 = 0) /\ InOrder(ex, T)
SameLegs(T, U) == T.leg1 = U.leg1 /\ T.leg2 = U.leg2
LegsApart(T, U) == {T.leg1, T.leg2} \cap {U.leg1, U.leg2} \subseteq {0}
RoleInv ==
  /\ Roles(disk) /\ Roles(trk)
  /\ disk.open /\ trk.open => SameLegs(disk, trk) \/ LegsApart(disk, trk)
  /\ pc = "legs" => trk.tp1 < trk.tp2

LEMMA RoleStart == ProtectionInit => RoleInv
BY ClosedTracker DEF ProtectionInit, RoleInv, Roles

LEMMA InOrderKept ==
  ASSUME NEW e, NEW d, NEW I, NEW T, NEW U, SameTargets(e, d, I), {T.leg1, T.leg2} \subseteq I,
         InOrder(e, T), SameLegs(T, U), U.tp2 = T.tp2
  PROVE  InOrder(d, U)
<1>1. ASSUME NEW l \in d.legs, NEW m \in d.legs, l.id = T.leg1, m.id = T.leg2
      PROVE  l.tp < m.tp
  <2>1. PICK k \in e.legs : k.id = l.id /\ k.tp = l.tp
    BY <1>1 DEF SameTargets
  <2>2. PICK n \in e.legs : n.id = m.id /\ n.tp = m.tp
    BY <1>1 DEF SameTargets
  <2>3. QED
    BY <1>1, <2>1, <2>2 DEF InOrder
<1>2. ASSUME NEW m \in d.legs, m.id = T.leg2 PROVE T.tp2 <= m.tp
  <2>1. PICK n \in e.legs : n.id = m.id /\ n.tp = m.tp
    BY <1>2 DEF SameTargets
  <2>2. QED
    BY <1>2, <2>1 DEF InOrder
<1>3. QED
  BY <1>1, <1>2 DEF InOrder, SameLegs

(* No live leg has the id 0, which stands for no leg. *)
LEMMA NoLegsInOrder ==
  ASSUME NEW e, Proper(e), NEW T, T.leg1 = 0, T.leg2 = 0
  PROVE  InOrder(e, T)
<1>1. \A l \in e.legs : l.id # 0
  BY DEF Proper, Leg, LegId
<1>2. QED
  BY <1>1 DEF InOrder

(* The AI may move the legs of the tracker in memory; the saved tracker     *)
(* names the same legs, or others, which stay.                              *)
LEMMA AiTargetRoles ==
  ASSUME Base, RoleInv, AiTarget
  PROVE  /\ Roles(disk)' /\ Roles(trk)' /\ disk' = disk /\ trk.open /\ trk'.open
         /\ SameLegs(trk, trk') /\ pc' # "legs"
<1>1. disk' = disk /\ trk.open /\ pc' # "legs"
  BY DEF AiTarget, Goto
<1>2. /\ Proper(ex') /\ Raised(ex, ex', {trk.leg1, trk.leg2})
      /\ trk' \in Tracker /\ SameLegs(trk, trk')
      /\ InOrder(ex, trk) /\ trk.leg1 # trk.leg2 => InOrder(ex', trk')
  BY AiTargetEvolves DEF Evolves, SameLegs
<1>3. trk'.open
  BY <1>2 DEF Tracker
<1>4. /\ \A l \in ex.legs : l.tp \in Nat
      /\ \A l \in ex'.legs : l.tp \in Nat
  BY <1>2, BaseFacts, LegFacts DEF Proper
<1>5. InOrder(ex', trk')
  <2>1. CASE trk.leg1 # trk.leg2
    BY <1>1, <1>2, <2>1 DEF RoleInv, Roles
  <2>2. CASE trk.leg1 = trk.leg2
    <3>1. trk.leg1 = 0
      BY <1>1, <2>2 DEF RoleInv, Roles
    <3>2. QED
      BY <1>2, <2>2, <3>1, NoLegsInOrder DEF SameLegs
  <2>3. QED
    BY <2>1, <2>2
<1>6. Roles(trk)'
  BY <1>1, <1>2, <1>5 DEF RoleInv, Roles, SameLegs
<1>7. Roles(disk)'
  <2>1. SUFFICES ASSUME disk.open PROVE InOrder(ex', disk)
    BY <1>1 DEF RoleInv, Roles
  <2>2. InOrder(ex, disk) /\ disk.tp2 \in Nat
    BY <2>1, Held, TrackerFacts DEF RoleInv, Roles, Typed
  <2>3. ASSUME NEW m \in ex'.legs, m.id = disk.leg2 PROVE disk.tp2 <= m.tp
    <3>1. PICK n \in ex.legs : n.id = m.id /\ n.tp <= m.tp
      BY <1>2 DEF Raised
    <3>2. disk.tp2 <= n.tp
      BY <2>2, <2>3, <3>1 DEF InOrder
    <3>3. QED
      BY <1>4, <2>2, <3>1, <3>2
  <2>4. ASSUME NEW l \in ex'.legs, NEW m \in ex'.legs, l.id = disk.leg1, m.id = disk.leg2
        PROVE  l.tp < m.tp
    <3>1. CASE SameLegs(disk, trk)
      BY <1>2, <1>5, <2>4, <3>1 DEF SameLegs, InOrder
    <3>2. CASE LegsApart(disk, trk)
      <4>1. l.id # 0 /\ m.id # 0
        BY <1>2 DEF Proper, Leg, LegId
      <4>2. l.id \notin {trk.leg1, trk.leg2} /\ m.id \notin {trk.leg1, trk.leg2}
        BY <2>4, <3>2, <4>1 DEF LegsApart
      <4>3. PICK k \in ex.legs : k.id = l.id /\ k.tp = l.tp
        BY <1>2, <4>2 DEF Raised
      <4>4. PICK n \in ex.legs : n.id = m.id /\ n.tp = m.tp
        BY <1>2, <4>2 DEF Raised
      <4>5. QED
        BY <2>2, <2>4, <4>3, <4>4 DEF InOrder
    <3>3. QED
      BY <1>1, <2>1, <3>1, <3>2 DEF RoleInv
  <2>5. QED
    BY <2>3, <2>4 DEF InOrder
<1>8. QED
  BY <1>1, <1>2, <1>3, <1>6, <1>7

LEMMA LegsComesFrom ==
  ASSUME Base, ProtectionNext, pc' = "legs"
  PROVE  \/ RetryStale
         \/ EnsureProtection /\ trk' = trk /\ trk.tp1 < trk.tp2
         \/ Market /\ pc = "legs" /\ trk' = trk
<1>1. ~(ReadPosition \/ ReadPrice \/ NoScaleOut \/ SellFirstPart \/ ResumeSale \/ ConfirmSale)
  BY DEF ReadPosition, ReadPrice, NoScaleOut, SellFirstPart, ResumeSale, ConfirmSale, Goto
<1>2. ~(ClearLegs \/ Reprotect \/ FinalizeLegFill \/ PushStops \/ HardStop)
  BY DEF ClearLegs, Reprotect, FinalizeLegFill, PushStops, HardStop, Goto
<1>3. ~(KeepLegs \/ PlaceLegs \/ SwapLegs \/ TimeStop \/ Trail \/ ClosePosition)
  BY DEF KeepLegs, PlaceLegs, SwapLegs, TimeStop, Trail, ClosePosition, Goto
<1>4. ~(SaveTracker \/ NoInstruction \/ AiClose \/ AiStop \/ Crash)
  BY DEF SaveTracker, NoInstruction, AiClose, AiStop, Crash, Goto
<1>5. ~AiTarget
  BY DEF AiTarget, Goto
<1>6. RetryStale \/ EnsureProtection \/ Market
  BY <1>1, <1>2, <1>3, <1>4, <1>5 DEF ProtectionNext, CycleStep
<1>7. EnsureProtection => trk' = trk /\ trk.tp1 < trk.tp2
  BY DEF EnsureProtection, Goto, TpGeometryOK
<1>8. Market => pc = "legs" /\ trk' = trk
  BY DEF Market
<1>9. QED
  BY <1>6, <1>7, <1>8

LEMMA RoleStep == Base /\ RoleInv /\ [ProtectionNext]_protectionVars => RoleInv'
<1> SUFFICES ASSUME Base, RoleInv, [ProtectionNext]_protectionVars PROVE RoleInv'
  OBVIOUS
<1>1. CASE UNCHANGED protectionVars
  BY <1>1 DEF protectionVars, RoleInv, Roles
<1>2. CASE AiTarget
  <2>1. /\ Roles(disk)' /\ Roles(trk)' /\ disk' = disk /\ trk.open /\ trk'.open
        /\ SameLegs(trk, trk') /\ pc' # "legs"
    BY <1>2, AiTargetRoles
  <2>2. disk.open => SameLegs(disk, trk') \/ LegsApart(disk, trk')
    BY <2>1 DEF RoleInv, SameLegs, LegsApart
  <2>3. QED
    BY <2>1, <2>2 DEF RoleInv
<1>3. CASE ProtectionNext /\ ~AiTarget
  <2>1. Proper(ex') /\ SameTargets(ex, ex', Mentioned)
    BY <1>3, ExchangeStep
  <2>2. ASSUME NEW T \in {disk, trk}, NEW U, T.open, SameLegs(T, U), U.tp2 = T.tp2
        PROVE  (U.leg1 # U.leg2 \/ U.leg1 = 0) /\ InOrder(ex', U)
    <3>1. Roles(T) /\ {T.leg1, T.leg2} \subseteq Mentioned
      BY <2>2, BaseFacts DEF RoleInv
    <3>2. InOrder(ex', U)
      BY <2>1, <2>2, <3>1, InOrderKept DEF Roles
    <3>3. QED
      BY <2>2, <3>1, <3>2 DEF Roles, SameLegs
  <2>3. ASSUME NEW T \in {disk, trk}, T.open PROVE (T.leg1 # T.leg2 \/ T.leg1 = 0) /\ InOrder(ex', T)
    BY <2>2, <2>3 DEF SameLegs
  <2>4. ASSUME NEW U, U.leg1 = 0, U.leg2 = 0 PROVE InOrder(ex', U)
    BY <2>1, <2>4, NoLegsInOrder
  <2>5. Roles(disk)'
    <3>1. disk' \in {disk, trk}
      BY <1>3, GuardsCarried, LegsFacts
    <3>2. QED
      BY <2>3, <3>1 DEF Roles
  <2>6. /\ Roles(trk)'
        /\ disk'.open /\ trk'.open => SameLegs(disk', trk') \/ LegsApart(disk', trk')
    <3>1. ASSUME disk' = disk, SameGuard(trk, trk')
          PROVE  /\ Roles(trk)'
                 /\ disk'.open /\ trk'.open => SameLegs(disk', trk') \/ LegsApart(disk', trk')
      <4>1. trk.open /\ SameLegs(trk, trk') /\ trk'.tp2 = trk.tp2
        BY <3>1 DEF SameGuard, SameLegs
      <4>2. Roles(trk)'
        BY <2>2, <4>1 DEF Roles
      <4>3. QED
        BY <3>1, <4>1, <4>2 DEF RoleInv, SameLegs, LegsApart
    <3>2. CASE RetryStale \/ SwapLegs
      <4>1. /\ disk' = disk /\ trk.open /\ trk'.open /\ trk'.tp2 = trk.tp2 /\ SameLegs(trk, trk')
        <5>1. ~PlaceLegs
          BY <3>2 DEF PlaceLegs, RetryStale, SwapLegs, Goto
        <5>2. QED
          BY <3>2, <5>1, LegsFacts DEF SameLegs
      <4>2. Roles(trk)'
        BY <2>2, <4>1 DEF Roles
      <4>3. QED
        BY <4>1, <4>2 DEF RoleInv, SameLegs, LegsApart
    <3>3. CASE PlaceLegs
      <4>1. disk' = disk /\ trk.open /\ trk'.open
        BY <3>3, LegsFacts
      <4>2. CASE pc' = "trail"
        <5>1. trk' = trk
          BY <3>3, <4>2 DEF PlaceLegs, Goto
        <5>2. QED
          BY <2>3, <4>1, <5>1 DEF RoleInv, Roles
      <4>3. CASE pc' # "trail"
        <5>1. /\ trk'.tp1 = trk.tp1 /\ trk'.tp2 = trk.tp2
              /\ trk'.leg1 \notin Mentioned \cup {0} /\ trk'.leg2 \notin Mentioned \cup {0}
              /\ trk'.leg1 # trk'.leg2
              /\ \A l \in ex'.legs : /\ l.id = trk'.leg1 => l.tp = trk.tp1
                                     /\ l.id = trk'.leg2 => l.tp = trk.tp2
          BY <3>3, <4>3, PlaceLegsEvolves
        <5>2. trk.tp1 < trk.tp2 /\ trk.tp2 \in Nat
          BY <3>3, TrackerInHand DEF PlaceLegs, RoleInv, Staged
        <5>3. InOrder(ex', trk')
          BY <5>1, <5>2 DEF InOrder
        <5>4. disk.open => LegsApart(disk', trk')
          BY <4>1, <5>1, BaseFacts DEF LegsApart
        <5>5. QED
          BY <4>1, <5>1, <5>3, <5>4 DEF Roles
      <4>4. QED
        BY <4>2, <4>3
    <3>4. CASE ~(RetryStale \/ SwapLegs \/ PlaceLegs)
      <4>1. CASE trk' = NoTracker
        BY <4>1, ClosedTracker DEF Roles
      <4>2. CASE trk'.open /\ trk'.leg1 = 0 /\ trk'.leg2 = 0 /\ ~disk.open /\ disk' = disk
        BY <2>4, <4>2 DEF Roles
      <4>3. CASE Reloaded
        <5>1. CASE trk' = disk'
          BY <2>5, <5>1 DEF Roles, SameLegs
        <5>2. CASE trk' = trk /\ disk' = disk
          BY <2>3, <5>2 DEF RoleInv, Roles
        <5>3. CASE trk' = NoTracker
          BY <4>1, <5>3
        <5>4. QED
          BY <4>3, <5>1, <5>2, <5>3 DEF Reloaded
      <4>4. QED
        BY <1>3, <3>1, <3>4, <4>1, <4>2, <4>3, GuardsCarried
    <3>5. QED
      BY <3>2, <3>3, <3>4
  <2>7. pc' = "legs" => trk'.tp1 < trk'.tp2
    <3>1. SUFFICES ASSUME pc' = "legs" PROVE trk'.tp1 < trk'.tp2
      OBVIOUS
    <3>2. CASE RetryStale
      BY <3>2, LegsFacts DEF RetryStale, RoleInv
    <3>3. CASE trk' = trk /\ trk.tp1 < trk.tp2
      BY <3>3
    <3>4. CASE pc = "legs" /\ trk' = trk
      BY <3>4 DEF RoleInv
    <3>5. QED
      BY <1>3, <3>1, <3>2, <3>3, <3>4, LegsComesFrom
  <2>8. QED
    BY <2>5, <2>6, <2>7 DEF RoleInv
<1>4. QED
  BY <1>1, <1>2, <1>3

(* While both registered legs live, the first-profit leg is the nearer one: *)
(* through new pairs that replace old ones, a cycle that dies between        *)
(* placing a pair and saving it, and targets the AI could move only in part. *)
THEOREM RolesKeptCorrect == ProtectionSpec => []RolesKept
<1>1. ProtectionInit => Base /\ RoleInv
  BY BaseStart, RoleStart
<1>2. Base /\ RoleInv /\ [ProtectionNext]_protectionVars => Base' /\ RoleInv'
  BY BaseStep, RoleStep
<1>3. RoleInv => RolesKept
  BY DEF RoleInv, Roles, InOrder, RolesKept
<1>4. QED
  BY <1>1, <1>2, <1>3, PTL DEF ProtectionSpec

=============================================================================
