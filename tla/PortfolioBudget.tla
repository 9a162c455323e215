--------------------------- MODULE PortfolioBudget ---------------------------
(***************************************************************************)
(* What the reservation ledger promises its callers, without rows, states  *)
(* or transactions: a claim on the budget is taken at most once, may be    *)
(* resized while it is held, and once given back stays given back; taking  *)
(* or enlarging a claim never leaves its account above the cap in force.   *)
(***************************************************************************)
EXTENDS Integers, FiniteSets, UnitSums

CONSTANTS Account, Intent, Amount, Limits

VARIABLES
  phase,   \* [Account \X Intent -> {"new", "held", "gone"}]
  held,    \* units held by each claim
  cap      \* cap in force, 0 = none

budgetVars == <<phase, held, cap>>

Claim == Account \X Intent
Taken(a) == SumOver({a} \X Intent, held)
Allowed(n) == cap = 0 \/ n <= cap

BudgetInit ==
  /\ phase = [k \in Claim |-> "new"]
  /\ held = [k \in Claim |-> 0]
  /\ cap \in Limits

(* Take or resize a claim; after the step its account is within the cap. *)
Hold(k) ==
  /\ phase[k] \in {"new", "held"}
  /\ phase' = [phase EXCEPT ![k] = "held"]
  /\ \E n \in Amount \cup {held[k]} :
       /\ Allowed(Taken(k[1]) - held[k] + n)
       /\ held' = [held EXCEPT ![k] = n]
  /\ UNCHANGED cap

GiveBack(k) ==
  /\ phase[k] = "held"
  /\ phase' = [phase EXCEPT ![k] = "gone"]
  /\ held' = [held EXCEPT ![k] = 0]
  /\ UNCHANGED cap

SetCap ==
  /\ cap' \in Limits
  /\ UNCHANGED <<phase, held>>

BudgetNext == SetCap \/ \E k \in Claim : Hold(k) \/ GiveBack(k)

BudgetSpec == BudgetInit /\ [][BudgetNext]_budgetVars
=============================================================================
