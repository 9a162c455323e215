--------------------------- MODULE UnitSumsProofs ---------------------------
(***************************************************************************)
(* Lemmas on sums of units, for every finite set of keys: changing the     *)
(* amount of one key of the set changes the sum by the difference, and     *)
(* more keys or larger amounts never make it smaller.                      *)
(***************************************************************************)
EXTENDS UnitSums, FiniteSetTheorems, TLAPS

LEMMA UnitsOfSize ==
  ASSUME NEW k, NEW n \in Nat
  PROVE  IsFiniteSet(UnitsOf(k, n)) /\ Cardinality(UnitsOf(k, n)) = n
<1>1. IsFiniteSet(1..n) /\ Cardinality(1..n) = n
  BY FS_Interval
<1>2. IsFiniteSet({k}) /\ Cardinality({k}) = 1
  BY FS_Singleton
<1>3. QED
  BY <1>1, <1>2, FS_Product DEF UnitsOf

LEMMA AllUnitsFinite ==
  ASSUME NEW K, IsFiniteSet(K), NEW f, \A k \in K : f[k] \in Nat
  PROVE  IsFiniteSet(AllUnits(K, f)) /\ SumOver(K, f) \in Nat
<1> DEFINE g == [k \in K |-> UnitsOf(k, f[k])]
           T == {UnitsOf(k, f[k]) : k \in K}
<1>1. g \in Surjection(K, T)
  BY DEF Surjection
<1>2. IsFiniteSet(T)
  BY <1>1, FS_Surjection
<1>3. \A U \in T : IsFiniteSet(U)
  BY UnitsOfSize
<1>4. IsFiniteSet(UNION T)
  BY <1>2, <1>3, FS_UNION
<1>5. QED
  BY <1>4, FS_CardinalityType DEF AllUnits, SumOver

LEMMA SumSplit ==
  ASSUME NEW K, IsFiniteSet(K), NEW f, \A x \in K : f[x] \in Nat, NEW k \in K
  PROVE  SumOver(K, f) = SumOver(K \ {k}, f) + f[k]
<1> DEFINE R == AllUnits(K \ {k}, f)
           U == UnitsOf(k, f[k])
<1>1. IsFiniteSet(K \ {k})
  BY FS_RemoveElement
<1>2. IsFiniteSet(R) /\ Cardinality(R) \in Nat
  BY <1>1, AllUnitsFinite DEF SumOver
<1>3. IsFiniteSet(U) /\ Cardinality(U) = f[k]
  BY UnitsOfSize
<1>4. R \cap U = {}
  BY DEF AllUnits, UnitsOf
<1>5. AllUnits(K, f) = R \cup U
  BY DEF AllUnits
<1>6. Cardinality(R \cap U) = 0
  BY <1>4, FS_EmptySet
<1>7. Cardinality(R \cup U) = Cardinality(R) + Cardinality(U) - Cardinality(R \cap U)
  BY <1>2, <1>3, FS_Union
<1>8. QED
  BY <1>2, <1>3, <1>5, <1>6, <1>7 DEF SumOver

LEMMA SumSame ==
  ASSUME NEW K, NEW f, NEW g, \A x \in K : f[x] = g[x]
  PROVE  SumOver(K, f) = SumOver(K, g)
<1>1. AllUnits(K, f) = AllUnits(K, g)
  BY DEF AllUnits
<1>2. QED
  BY <1>1 DEF SumOver

LEMMA SumUpdate ==
  ASSUME NEW K, IsFiniteSet(K), NEW f, NEW g, NEW k \in K,
         \A x \in K : f[x] \in Nat /\ g[x] \in Nat,
         \A x \in K \ {k} : g[x] = f[x]
  PROVE  SumOver(K, g) = SumOver(K, f) - f[k] + g[k]
<1>1. SumOver(K \ {k}, f) = SumOver(K \ {k}, g)
  BY SumSame
<1>2. IsFiniteSet(K \ {k})
  BY FS_RemoveElement
<1>3. SumOver(K \ {k}, f) \in Nat
  BY <1>2, AllUnitsFinite
<1>4. SumOver(K, f) = SumOver(K \ {k}, f) + f[k]
  BY SumSplit
<1>5. SumOver(K, g) = SumOver(K \ {k}, g) + g[k]
  BY SumSplit
<1>6. QED
  BY <1>1, <1>3, <1>4, <1>5

LEMMA SumGrows ==
  ASSUME NEW K, IsFiniteSet(K), NEW L, L \subseteq K, NEW f, NEW g,
         \A x \in K : g[x] \in Nat,
         \A x \in L : f[x] \in Nat /\ f[x] <= g[x]
  PROVE  SumOver(L, f) \in Nat /\ SumOver(K, g) \in Nat /\ SumOver(L, f) <= SumOver(K, g)
<1>1. IsFiniteSet(L) /\ IsFiniteSet(AllUnits(K, g))
  BY FS_Subset, AllUnitsFinite
<1>2. \A x \in L : UnitsOf(x, f[x]) \subseteq UnitsOf(x, g[x])
  BY DEF UnitsOf
<1>3. AllUnits(L, f) \subseteq AllUnits(K, g)
  BY <1>2 DEF AllUnits
<1>4. Cardinality(AllUnits(L, f)) <= Cardinality(AllUnits(K, g))
  BY <1>1, <1>3, FS_Subset
<1>5. QED
  BY <1>1, <1>4, AllUnitsFinite DEF SumOver

(* The sum over a set is that over a part of it and that over the rest. *)
LEMMA SumApart ==
  ASSUME NEW K, IsFiniteSet(K), NEW L, L \subseteq K, NEW f, \A x \in K : f[x] \in Nat
  PROVE  SumOver(K, f) = SumOver(L, f) + SumOver(K \ L, f)
<1>1. IsFiniteSet(L) /\ IsFiniteSet(K \ L)
  BY FS_Subset, FS_Difference
<1>2. /\ IsFiniteSet(AllUnits(L, f)) /\ IsFiniteSet(AllUnits(K \ L, f))
      /\ Cardinality(AllUnits(L, f)) \in Nat /\ Cardinality(AllUnits(K \ L, f)) \in Nat
  BY <1>1, AllUnitsFinite DEF SumOver
<1>3. AllUnits(L, f) \cap AllUnits(K \ L, f) = {}
  BY DEF AllUnits, UnitsOf
<1>4. AllUnits(K, f) = AllUnits(L, f) \cup AllUnits(K \ L, f)
  <2>1. AllUnits(K, f) \subseteq AllUnits(L, f) \cup AllUnits(K \ L, f)
    BY DEF AllUnits
  <2>2. AllUnits(L, f) \cup AllUnits(K \ L, f) \subseteq AllUnits(K, f)
    BY DEF AllUnits
  <2>3. QED
    BY <2>1, <2>2
<1>5. Cardinality(AllUnits(L, f) \cap AllUnits(K \ L, f)) = 0
  BY <1>3, FS_EmptySet
<1>6. Cardinality(AllUnits(L, f) \cup AllUnits(K \ L, f))
      = Cardinality(AllUnits(L, f)) + Cardinality(AllUnits(K \ L, f))
        - Cardinality(AllUnits(L, f) \cap AllUnits(K \ L, f))
  BY <1>2, FS_Union
<1>7. QED
  BY <1>2, <1>4, <1>5, <1>6 DEF SumOver

(* Renaming the keys, no two alike, keeps the sum. *)
LEMMA SumRenamed ==
  ASSUME NEW K, IsFiniteSet(K), NEW h, NEW f, NEW g,
         \A x, y \in K : h[x] = h[y] => x = y,
         \A x \in K : f[x] \in Nat /\ g[h[x]] = f[x]
  PROVE  /\ IsFiniteSet({h[x] : x \in K})
         /\ SumOver({h[x] : x \in K}, g) = SumOver(K, f)
<1> DEFINE M == {h[x] : x \in K}
           U == AllUnits(K, f)
           V == AllUnits(M, g)
           r == [u \in U |-> <<h[u[1]], u[2]>>]
<1>1. IsFiniteSet(M)
  <2>1. [x \in K |-> h[x]] \in Surjection(K, M)
    BY DEF Surjection
  <2>2. QED
    BY <2>1, FS_Surjection
<1>2. \A u : u \in U <=> \E x \in K : \E n \in 1..f[x] : u = <<x, n>>
  BY DEF AllUnits, UnitsOf
<1>3. \A v : v \in V <=> \E x \in K : \E n \in 1..f[x] : v = <<h[x], n>>
  BY DEF AllUnits, UnitsOf
<1>4. \A x \in K : \A n \in 1..f[x] : <<x, n>> \in U /\ r[<<x, n>>] = <<h[x], n>>
  BY <1>2
<1>5. \A u \in U : r[u] \in V
  BY <1>2, <1>3, <1>4
<1>6. \A u, v \in U : r[u] = r[v] => u = v
  <2>1. SUFFICES ASSUME NEW u \in U, NEW v \in U, r[u] = r[v] PROVE u = v
    OBVIOUS
  <2>2. PICK x \in K : \E n \in 1..f[x] : u = <<x, n>>
    BY <1>2
  <2>3. PICK y \in K : \E n \in 1..f[y] : v = <<y, n>>
    BY <1>2
  <2>4. u = <<x, u[2]>> /\ v = <<y, v[2]>> /\ u[1] = x /\ v[1] = y
    BY <2>2, <2>3
  <2>5. r[u] = <<h[x], u[2]>> /\ r[v] = <<h[y], v[2]>>
    BY <2>4
  <2>6. h[x] = h[y] /\ u[2] = v[2]
    BY <2>1, <2>5
  <2>7. QED
    BY <2>4, <2>6
<1>7. r \in Bijection(U, V)
  <2>1. r \in [U -> V]
    <3>1. \A u \in U : <<h[u[1]], u[2]>> \in V
      BY <1>5
    <3>2. QED
      BY <3>1
  <2>2. ASSUME NEW v \in V PROVE \E u \in U : r[u] = v
    <3>1. PICK x \in K : \E n \in 1..f[x] : v = <<h[x], n>>
      BY <1>3
    <3>2. PICK n \in 1..f[x] : v = <<h[x], n>>
      BY <3>1
    <3>3. <<x, n>> \in U /\ r[<<x, n>>] = v
      BY <1>4, <3>2
    <3>4. QED
      BY <3>3
  <2> HIDE DEF r, U, V
  <2>3. QED
    BY <1>6, <2>1, <2>2 DEF IsInjective, Injection, Bijection, Surjection
<1>8. ExistsBijection(U, V)
  BY <1>7 DEF ExistsBijection
<1>9. IsFiniteSet(U)
  BY AllUnitsFinite
<1>10. Cardinality(U) = Cardinality(V)
  BY <1>8, <1>9, FS_Bijection
<1>11. QED
  BY <1>1, <1>10 DEF SumOver
=============================================================================
