-------------------------- MODULE MCRiskReservation --------------------------
(* Small ledgers for TLC: amounts of 0, 1 and 2 units, caps around them. *)
EXTENDS RiskReservation, TLC

CONSTANTS a1, a2, i1, i2, i3

SymIntents == Permutations({i1, i2, i3})
=============================================================================
