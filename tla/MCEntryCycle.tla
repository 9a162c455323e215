---------------------------- MODULE MCEntryCycle ----------------------------
(* Small trading cycles for TLC. *)
EXTENDS EntryCycle, TLC

CONSTANTS acct, btc, eth

OneOnBtc == 1 :> btc
OneLong == 1 :> "long"
TwoOnBtc == 1 :> btc @@ 2 :> btc
BtcEth == 1 :> btc @@ 2 :> eth
TwoLong == 1 :> "long" @@ 2 :> "long"
LongShort == 1 :> "long" @@ 2 :> "short"
(* Bound: no deadline but the first one passes. *)
YoungOnly == \A d \in Intent : age[d] <= 1

(* Bound: the ages of two decisions never add up to more than 2, so that one is
   past the two hours of the reclaim only while the other is young. *)
AgesApart == \A d, e \in Intent : d # e => age[d] + age[e] <= 2

(* Bound: no file is damaged while an answer is lost. *)
FaultsApart == broken = {} \/ lost = {}

ThreeOnBtc == 1 :> btc @@ 2 :> btc @@ 3 :> btc
ThreeLong == 1 :> "long" @@ 2 :> "long" @@ 3 :> "long"
=============================================================================
