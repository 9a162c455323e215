------------------------ MODULE CouncilDeliberation ------------------------
(* The investment committee that may answer for the trading brain
   (astra_backend/council): how its time is divided between the seats and the
   chief investment officer (CIO), how long a seat may take, and when the
   seats disagree enough for a second round.  Time is in tenths of a second. *)
EXTENDS Integers, FiniteSets, FiniteSetsExt

CONSTANTS
  Seats,       \* number of enabled seats besides the CIO
  Weight,      \* seat -> weight of its vote, in hundredths
  Models       \* models a request tries when it may fall back

ASSUME CouncilAssumption ==
  /\ Seats \in Nat \ {0} /\ Models \in Nat \ {0}
  /\ Weight \in [1 .. Seats -> Nat \ {0}]

Mode == {"standard", "cross_examination", "debate"}
Seat == 1 .. Seats

SafeReasoning == 50        \* MIN_SAFE_REASONING_TIME
Arbitration == 450         \* CIO_MIN_ARBITRATION_TIME
Longest == 4200            \* MAX_COUNCIL_TIMEOUT
Stagger == 8               \* the seats of the first round start 0.8 s apart
Overhead == 1              \* what a call costs besides the model's time

(* What a configured timeout becomes. *)
Effective(timeout) == Min({Longest, Max({10, timeout})})

(* The least time left with which the first round of a mode is begun. *)
Needed(mode) == IF mode = "standard" THEN SafeReasoning + 20 ELSE 2 * SafeReasoning

(* What the first round leaves to the CIO, and the budget of its seats.  The slip
   reserves the bare minimum only. *)
Reserve(mode, left) ==
  Min({Arbitration,
       Max({IF mode = "standard" THEN SafeReasoning ELSE 2 * SafeReasoning,
            (35 * left) \div 100})})
ProposalBudgetUnreserved(mode, left) ==
  Max({20, Min({Max({(55 * left) \div 100, 900}), left - SafeReasoning})})
ProposalBudget(mode, left) ==
  Max({20, Min({Max({(55 * left) \div 100, 900}), left - Reserve(mode, left)})})

(* The budget of the second round. *)
CritiqueBudget(left) ==
  Max({20, Min({(40 * left) \div 100,
                left - Min({Arbitration, Max({SafeReasoning, left \div 2})})})})

(* A request ends when it is answered or refused, at its timeout at the
   latest; one that may fall back has a timeout per model.  The first and the
   last moment stand for all between them. *)
RequestEnds(timeout, models) == {Overhead, models * timeout + Overhead}

(* A seat whose request fails with a gateway error asks once more, with 20 s
   less and with leave to fall back. *)
SeatEnds(budget) ==
  LET once == {[took |-> t, again |-> FALSE] : t \in RequestEnds(budget, 1)}
      twice == {[took |-> t + 15 + u, again |-> TRUE] :
                  t \in RequestEnds(budget, 1),
                  u \in RequestEnds(Max({200, budget - 200}), Models)}
  IN IF budget > 350 THEN once \cup twice ELSE once

(* A round ends with its last seat; the seats of the first start in turn. *)
ProposalEnds(budget) ==
  {[took |-> Max({Stagger * (k - 1) + end[k].took : k \in Seat}),
    again |-> \E k \in Seat : end[k].again] : end \in [Seat -> SeatEnds(budget)]}
CritiqueEnds(budget) == {Overhead, budget + Overhead}

(* The votes on one instrument; a seat that failed casts none.  The symbol is
   disputed when both directions are asked for, or when no action has 65 % of
   the weight cast. *)
Vote == {"BUY_LONG", "SELL_SHORT", "WAIT", "none"}
WeightOf(S) == MapThenSumSet(LAMBDA k : Weight[k], S)
Disputed(vote) ==
  LET cast == {k \in Seat : vote[k] # "none"}
      For(a) == {k \in cast : vote[k] = a}
      opposed == For("BUY_LONG") # {} /\ For("SELL_SHORT") # {}
      dominant == Max({WeightOf(For(a)) : a \in Vote \ {"none"}})
  IN /\ cast # {}
     /\ \A a \in Vote : For(a) # cast
     /\ opposed \/ 100 * dominant < 65 * WeightOf(cast)
Disputes == {Disputed(vote) : vote \in [Seat -> Vote]}
=============================================================================
