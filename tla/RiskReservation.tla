--------------------------- MODULE RiskReservation ---------------------------
(***************************************************************************)
(* The durable budget ledger of astra_backend/risk_reservation.py: one     *)
(* SQLite row per (account key, intent), inserted before an entry order is *)
(* sent and released when the order or position is known to be gone.       *)
(* Every public operation runs in one BEGIN IMMEDIATE transaction under a  *)
(* lock, so each is one action here.  The budget cap is a configuration    *)
(* value that the trader re-reads every time it opens the ledger, so it    *)
(* may change between any two operations; 0 stands for "no cap".           *)
(* Amounts are whole units of margin.                                      *)
(***************************************************************************)
EXTENDS Integers, FiniteSets, UnitSums

CONSTANTS
  Account,   \* account keys (venue, environment, credential fingerprint)
  Intent,    \* intent identifiers
  Amount,    \* margin estimates a caller may ask for (0 = "keep the amount")
  Limits     \* values the configured cap may take; 0 = no cap

ASSUME ReservationAssumption ==
  /\ IsFiniteSet(Account)
  /\ IsFiniteSet(Intent)
  /\ Amount \subseteq Nat
  /\ Limits \subseteq Nat

VARIABLES
  rows,      \* the table risk_reservations, one entry per possible key
  limit,     \* the cap in force for the next operation
  reply      \* what the last operation answered its caller

ledgerVars == <<rows, limit, reply>>

Key == Account \X Intent

Occupying == {"pending", "partial", "unknown", "confirmed"}
Terminal == {"rejected", "closed"}
ValidStates == Occupying \cup Terminal

Row == [state : ValidStates \cup {"absent", "pending_cleanup"},
        amount : Nat, released : BOOLEAN]
NoRow == [state |-> "absent", amount |-> 0, released |-> FALSE]

Calls == {"none", "reserve", "release", "confirm", "recovery"}
Outcomes == {"ok", "kept", "exceeded", "error"}

LedgerTypeOK ==
  /\ rows \in [Key -> Row]
  /\ limit \in Limits
  /\ reply \in [call : Calls, outcome : Outcomes]

-----------------------------------------------------------------------------
(* Present(r): the row exists.  Holds(r): the units it occupies (released=0). *)
Present(r) == r.state # "absent"
Holds(r) == IF Present(r) /\ ~r.released THEN r.amount ELSE 0

(* The SUM(amount_usdt) of the unreleased rows of one account key, and of
   all of them (gross_exposure; all keys here share one environment). *)
Held == [k \in Key |-> Holds(rows[k])]
KeysOf(a) == {a} \X Intent
ActiveTotal(a) == SumOver(KeysOf(a), Held)
GrossExposure == SumOver(Key, Held)

(* The test `limit is not None and others + new > limit`, negated. *)
Fits(total) == limit = 0 \/ total <= limit

-----------------------------------------------------------------------------
LedgerInit ==
  /\ rows = [k \in Key |-> NoRow]
  /\ limit \in Limits
  /\ reply = [call |-> "none", outcome |-> "ok"]

Answer(call, outcome) ==
  /\ reply' = [call |-> call, outcome |-> outcome]
  /\ UNCHANGED limit

Write(k, amt, st, gone) ==
  rows' = [rows EXCEPT ![k] = [state |-> st, amount |-> amt, released |-> gone]]

(* reserve() on an unknown intent: only an occupying state may open a row. *)
RefuseNewTerminal(call, k, st) ==
  /\ ~Present(rows[k])
  /\ st \in Terminal
  /\ UNCHANGED rows
  /\ Answer(call, "error")

(* Slip: the new amount is compared with the cap on its own. *)
InsertRowIgnoringOthers(call, k, amt, st) ==
  /\ ~Present(rows[k])
  /\ st \in Occupying
  /\ IF Fits(amt)
     THEN Write(k, amt, st, FALSE) /\ Answer(call, "ok")
     ELSE UNCHANGED rows /\ Answer(call, "exceeded")

InsertRow(call, k, amt, st) ==
  /\ ~Present(rows[k])
  /\ st \in Occupying
  /\ IF Fits(ActiveTotal(k[1]) + amt)
     THEN Write(k, amt, st, FALSE) /\ Answer(call, "ok")
     ELSE UNCHANGED rows /\ Answer(call, "exceeded")

(* reserve() on a terminal row: the row is returned as it is. *)
KeepTerminal(call, k) ==
  /\ Present(rows[k])
  /\ rows[k].released \/ rows[k].state \in Terminal
  /\ UNCHANGED rows
  /\ Answer(call, "kept")

(* Slips: the difference is stored instead of the new amount; the flag is
   forgotten when a row turns terminal; a terminal row is advanced like any
   other; a resize is not checked against the cap. *)
AdvanceRowStoringDelta(call, k, amt, st) ==
  /\ Present(rows[k])
  /\ ~rows[k].released
  /\ rows[k].state \notin Terminal
  /\ Write(k, amt - rows[k].amount, st, st \in Terminal)
  /\ Answer(call, "ok")

AdvanceRowKeepingFlag(call, k, amt, st) ==
  LET new == IF amt > 0 THEN amt ELSE rows[k].amount
  IN /\ Present(rows[k])
     /\ Fits(ActiveTotal(k[1]) - rows[k].amount + new)
     /\ Write(k, new, st, rows[k].released)
     /\ Answer(call, "ok")

AdvanceRowReviving(call, k, amt, st) ==
  LET new == IF amt > 0 THEN amt ELSE rows[k].amount
  IN /\ Present(rows[k])
     /\ Fits(ActiveTotal(k[1]) - rows[k].amount + new)
     /\ Write(k, new, st, st \in Terminal)
     /\ Answer(call, "ok")

AdvanceRowUnchecked(call, k, amt, st) ==
  LET new == IF amt > 0 THEN amt ELSE rows[k].amount
  IN /\ Present(rows[k])
     /\ ~rows[k].released
     /\ rows[k].state \notin Terminal
     /\ Write(k, new, st, st \in Terminal)
     /\ Answer(call, "ok")

(* reserve() on an occupying row.  The cap is re-checked for every target
   state, the terminal ones included. *)
AdvanceRow(call, k, amt, st) ==
  LET new == IF amt > 0 THEN amt ELSE rows[k].amount
      others == ActiveTotal(k[1]) - rows[k].amount
  IN /\ Present(rows[k])
     /\ ~rows[k].released
     /\ rows[k].state \notin Terminal
     /\ IF Fits(others + new)
        THEN Write(k, new, st, st \in Terminal) /\ Answer(call, "ok")
        ELSE UNCHANGED rows /\ Answer(call, "exceeded")

ReserveAs(call, k, amt, st) ==
  \/ RefuseNewTerminal(call, k, st)
  \/ InsertRow(call, k, amt, st)
  \/ KeepTerminal(call, k)
  \/ AdvanceRow(call, k, amt, st)

Reserve(k, amt, st) == ReserveAs("reserve", k, amt, st)
Release(k, st) == st \in Terminal /\ ReserveAs("release", k, 0, st)
Confirm(k) == ReserveAs("confirm", k, 0, "confirmed")

(* Slip: recovery cleans orphans up instead of marking them. *)
RecoveryReleasing(known) ==
  /\ rows' = [k \in Key |->
                IF Present(rows[k]) /\ ~rows[k].released /\ k[2] \notin known
                THEN [rows[k] EXCEPT !.state = "closed", !.released = TRUE]
                ELSE rows[k]]
  /\ Answer("recovery", "ok")

(* recovery(known_open_intents): unreleased rows of intents nobody knows are
   marked for clean-up; they keep their amount and stay unreleased. *)
Recovery(known) ==
  /\ rows' = [k \in Key |->
                IF Present(rows[k]) /\ ~rows[k].released /\ k[2] \notin known
                THEN [rows[k] EXCEPT !.state = "pending_cleanup"]
                ELSE rows[k]]
  /\ Answer("recovery", "ok")

(* The operator saves another budget; the next manager is built with it. *)
ChangeLimit ==
  /\ limit' \in Limits \ {limit}
  /\ UNCHANGED <<rows, reply>>

LedgerNext ==
  \/ \E k \in Key, amt \in Amount, st \in ValidStates : Reserve(k, amt, st)
  \/ \E k \in Key, st \in Terminal : Release(k, st)
  \/ \E k \in Key : Confirm(k)
  \/ \E known \in SUBSET Intent : Recovery(known)
  \/ ChangeLimit

LedgerSpec == LedgerInit /\ [][LedgerNext]_ledgerVars

-----------------------------------------------------------------------------
(* The two columns `state` and `released` agree: a row is released exactly
   when its state is terminal (reserve() tests both, list_unreleased() only
   the flag), so no terminal row keeps occupying the budget and no orphan
   marked by recovery() has silently lost its hold. *)
ReleasedIffTerminal ==
  \A k \in Key : rows[k].released <=> rows[k].state \in Terminal

(* With the configured cap left alone, no sequence of reservations, resizes,
   confirmations and releases takes an account past it. *)
WithinLimit == \A a \in Account : Fits(ActiveTotal(a))

(* Whatever happened to the cap before, an operation that makes an account
   hold more than it did leaves it within the cap in force at that moment. *)
GrowsOnlyWithinLimit ==
  [][\A a \in Account : ActiveTotal(a)' > ActiveTotal(a) => Fits(ActiveTotal(a))']_ledgerVars

(* "Terminal rows cannot be revived": once released, a row never changes,
   whichever calls a retry of the same intent makes (reserve docstring). *)
ReleasedForever ==
  [][\A k \in Key : rows[k].released => rows'[k] = rows[k]]_ledgerVars

(* Recovery after a restart never hands budget back: what every account holds
   is the same before and after (module docstring, "orphans are only marked"). *)
RecoveryKeepsHolds ==
  [][reply'.call = "recovery" =>
       \A k \in Key : Holds(rows'[k]) = Holds(rows[k])]_ledgerVars

(* The ledger implements the budget promise: rows that were never inserted
   are new claims, unreleased rows are held ones, released rows are gone. *)
Budget == INSTANCE PortfolioBudget WITH
  phase <- [k \in Key |-> IF ~Present(rows[k]) THEN "new"
                          ELSE IF rows[k].released THEN "gone" ELSE "held"],
  held <- Held,
  cap <- limit

ImplementsBudget == Budget!BudgetSpec

(* reserve docstring (risk_reservation.py:121): an occupying row "advances its
   state; rejected/closed release" and the cap is re-checked "when amount_usdt
   changes".  A release passes no amount, so it should always free the row. *)
ReleaseFrees ==
  reply.call = "release" => reply.outcome # "exceeded"
=============================================================================
