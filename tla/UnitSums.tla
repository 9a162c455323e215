------------------------------ MODULE UnitSums ------------------------------
(***************************************************************************)
(* The sum of natural amounts over a finite set of keys, as the size of    *)
(* the disjoint union of the units each key stands for.  Unlike a fold it  *)
(* can be reasoned about with the theorems on cardinalities.               *)
(***************************************************************************)
EXTENDS Integers, FiniteSets

UnitsOf(k, n) == {k} \X (1..n)
AllUnits(K, amount) == UNION {UnitsOf(k, amount[k]) : k \in K}
SumOver(K, amount) == Cardinality(AllUnits(K, amount))
=============================================================================
